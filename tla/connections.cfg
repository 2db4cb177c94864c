SPECIFICATION FairSpec
CONSTANTS
  NumPeers = 2
  Unreachable = {0}
  MaxFd = 6
  Client = {}
  Req = {}
  ReqId <- None
  InMsg <- Silent
  Id = {a, b}
  EXPIRY = 1
  MaxTime = 0
  MaxIn = 0
  MaxDrops = 2
  MaxFail = 2
  NoOne = NoOne
  NoReq = NoReq
  NoId = NoId
  r1 = r1
  r2 = r2
  r3 = r3
  a = a
  b = b
PROPERTY ConnRecovers
CHECK_DEADLOCK FALSE
