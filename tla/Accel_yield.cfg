\* A kernel thread and a user thread compete; the worker gives up the processor
\* only where it yields.
SPECIFICATION FairSpec
CONSTANTS
  Threads = {k1, u1}
  UserThreads = {u1}
  None = None
  Preemptible = FALSE
PROPERTIES Quarantine ResultTruthful NoLateDma SubmitReturns
