SPECIFICATION Spec
CONSTANTS
  NumPeers = 2
  Unreachable = {}
  MaxFd = 2
  Client = {c1, c2}
  Req = {r1, r2, r3}
  ReqId <- Mixed
  InMsg <- Silent
  Id = {a, b}
  EXPIRY = 1
  MaxTime = 0
  MaxIn = 0
  MaxDrops = 0
  MaxFail = 0
  NoOne = NoOne
  NoReq = NoReq
  NoId = NoId
  r1 = r1
  r2 = r2
  r3 = r3
  a = a
  b = b
SYMMETRY ClientSymmetry
INVARIANTS PerPeerOrder WrittenToPinned Framed EntryMatchesRequest UniqueIds
CHECK_DEADLOCK FALSE
