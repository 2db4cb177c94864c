SPECIFICATION Spec
CONSTANTS
  Queue = {0, 1}
  User = {u1, u2, u3}
  Item = {x1, x2}
  Programs <- MCPrograms
  MaxMoves = 2
  NoUser = NoUser
  MaxThreads = 2
  Pusher = {p1}
  t1 = t1
  t2 = t2
  t3 = t3
  Task = {t1, t2, t3}
  Child <- MCChild
  MaxCalls = 3
  Dummy = Dummy
  NumWorkers = 2
  j1 = j1
  Job = {j1, j2, j3}
  ClientFd <- MCClientFd
INVARIANTS
  ItemOnce
  NoSleeperMissed
  PoolSettled
  ClientClosedOnce
PROPERTIES
  OperationsEnd
  PoolPromise
  CallsReturn
  TasksRun
  JobTaken
  WorkersEnd
  ShutdownIsFinal
  ShutdownReturns
CHECK_DEADLOCK FALSE
