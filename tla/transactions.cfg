SPECIFICATION FairSpec
CONSTANTS
  NumPeers = 1
  Unreachable = {}
  MaxFd = 1
  Client = {c1}
  Req = {r1, r2}
  ReqId <- Distinct
  InMsg <- Responses
  Id = {a, b}
  EXPIRY = 1
  MaxTime = 2
  MaxIn = 2
  MaxDrops = 0
  MaxFail = 0
  NoOne = NoOne
  NoReq = NoReq
  NoId = NoId
  r1 = r1
  r2 = r2
  r3 = r3
  a = a
  b = b
INVARIANTS Answerable TimeoutIsLate
PROPERTY OverdueIsMarked
CHECK_DEADLOCK FALSE
