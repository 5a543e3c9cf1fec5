\* The worker is preempted between its read of IRQ_STATUS and the masked handler.
SPECIFICATION Spec
CONSTANTS
  Threads = {k1}
  UserThreads = {}
  None = None
  Preemptible = TRUE
PROPERTIES StaleIrqHarmless
