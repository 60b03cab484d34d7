CONSTANTS
  Cpus = {c1, c2}
  NoCpu = NoCpu
  Waiters = {t1, t2}
  Times = {0, 2, 6}
  MaxTime = 3
  QwordSize = 8
  None = None
  Processes = {p1, p2}
  Threads = {t1, t2}
  Pids = {1, 2}
  Failures = {"init", "header", "space", "load", "threadInit", "threadParts", "userStack"}
  RwCpus = {c1, c2, c3}
  NoHolder = NoHolder
  MaxRecRwDepth = 2
  KbdCpus = {c1, c2}
  Codes = {"code1D"}
  ScancodeStd <- MCScancodeStd
  ScancodeExt <- MCScancodeExt
  MaxCodes = 3
SPECIFICATION MCFairSpec
INVARIANT SpinlockInv
INVARIANT ProcessInv
INVARIANT RwSpinlockInv
INVARIANT RecRwSpinlockInv
PROPERTY LockIsTaken
PROPERTY EveryWaitEnds
PROPERTY TerminatedIsReclaimed
PROPERTY WriterProgress
PROPERTY KeyIsTaken
CHECK_DEADLOCK FALSE
