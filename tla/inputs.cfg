SPECIFICATION Spec
CONSTANTS
  Files <- MCFiles
  NoText = NoText
  Unset = Unset
  StartPeers = 3
  StartFds = 3
  HeaderLen = 2
  Base = 2
  Lens = {0, 1, 3, 4}
  Capacity = 3
  MaxMsgs = 3
  MaxSignals = 1
  Text <- MCText
INVARIANTS
  ConfigMeant
  TableAsAssumed
  FrameTypeOK
  FramesWhole
  XmlTypeOK
  ValueInText
  FindsFirstValue
PROPERTIES
  InitEnds
  FrameArrives
  ReceiveEnds
CHECK_DEADLOCK FALSE
