SPECIFICATION FairSpec
CONSTANTS
  NumPeers = 1
  Unreachable = {}
  MaxFd = 2
  Client = {}
  Req = {}
  ReqId <- None
  InMsg <- Frames
  Id = {a, b}
  EXPIRY = 1
  MaxTime = 0
  MaxIn = 1
  MaxDrops = 1
  MaxFail = 0
  NoOne = NoOne
  NoReq = NoReq
  NoId = NoId
  r1 = r1
  r2 = r2
  r3 = r3
  a = a
  b = b
PROPERTY ConnRecovers
CHECK_DEADLOCK FALSE
