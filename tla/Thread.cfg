\* Three real threads, one wait queue, one user task, a quantum of two ticks.
SPECIFICATION FairSpec
CONSTANTS
  THREAD_MAX = 4
  THREAD_QUANTUM_TICKS = 2
  WaitQueues = {q1}
  NoQueue = NoQueue
  UserTasks = {u1}
  NoTask = NoTask
  TickArgs = {0, 1, 3}
  TICK_MOD = 100
  MaxTick = 3
INVARIANTS NoPanic QueuesAgree NoOversleep NoStaleReschedule UserTaskAlive RingsAgree
PROPERTIES NotEarly FifoOrder ReadyRuns TimedWaitEnds
