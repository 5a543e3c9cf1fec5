\* Two user tasks and two kernel threads: one kernel thread copies user memory while
\* the other waits masked, is preempted and takes user pages away.
SPECIFICATION UsercopySpec
CONSTANTS
  u1 = u1
  u2 = u2
  k1 = k1
  k2 = k2
  Idle = idle
  KThreads = {k1, k2}
  CopyArgs <- Args
  Unmappable = {1, 2}
  UThreads = {u1, u2}
  Program <- Programs
  MaxDepth = 2
  ADDR_MOD = 16
  PAGE_SIZE = 2
  USER_SPACE_BASE = 2
  USER_SPACE_TOP = 8
  MmioBase = 6
  MmioEnd = 8
INVARIANTS TrapInv TrapsOnce ContextIntact ProbeScoped CopyExact
PROPERTIES RangesExact
