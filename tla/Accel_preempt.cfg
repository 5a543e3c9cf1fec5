\* The worker may be preempted between any two register accesses.
SPECIFICATION Spec
CONSTANTS
  Threads = {k1, u1}
  UserThreads = {u1}
  None = None
  Preemptible = TRUE
INVARIANTS AccelInv NoLostWakeup
