\* A tick count close to the modulus of the counter: the deadline wraps.
SPECIFICATION Spec
CONSTANTS
  THREAD_MAX = 3
  THREAD_QUANTUM_TICKS = 2
  WaitQueues = {q1}
  NoQueue = NoQueue
  UserTasks = {}
  NoTask = NoTask
  TickArgs = {5}
  TICK_MOD = 6
  MaxTick = 4
PROPERTIES NotEarly
