\* Three threads and two mutexes: two can queue behind an owner, timed or not,
\* and a thread can wait for one mutex while it holds the other.
SPECIFICATION FairSyncSpec
CONSTANTS
  THREAD_MAX = 4
  THREAD_QUANTUM_TICKS = 1
  WaitQueues = {m1, m2}
  NoQueue = NoQueue
  UserTasks = {}
  NoTask = NoTask
  TickArgs = {0, 1}
  TICK_MOD = 100
  MaxTick = 2
INVARIANTS SyncInv MutualExclusion TimeoutMeansNotOwner
PROPERTIES FifoHandOver LockReturns
