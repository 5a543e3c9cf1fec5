\* The worker is preempted inside the device step of a system call's command.
SPECIFICATION Spec
CONSTANTS
  Threads = {u1}
  UserThreads = {u1}
  None = None
  Preemptible = TRUE
PROPERTIES ForgottenAfterReset
