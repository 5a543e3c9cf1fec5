\* A period of three, a clock of eleven: handlers up to three periods late; a
\* ring of three slots that eight events wrap twice.
SPECIFICATION FairTraceSpec
CONSTANTS
  TIMER_INTERVAL_CYCLES = 3
  UINT64_MAX = 99
  MaxTime = 11
  TRACE_CAPACITY = 3
  MaxEvents = 8
INVARIANTS NoLostTick NoDrift TraceInv
PROPERTIES OneTickPerPeriod DeadlineServed
