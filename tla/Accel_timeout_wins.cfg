\* One kernel thread whose deadline passes just before the device is stepped.
SPECIFICATION Spec
CONSTANTS
  Threads = {k1}
  UserThreads = {}
  None = None
  Preemptible = FALSE
PROPERTIES TimeoutWins
