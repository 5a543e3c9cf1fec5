------------------------------- MODULE Trace --------------------------------
(***************************************************************************)
(* The event ring of kernel/core/trace.c, stamped with the timer's ticks.  *)
(* trace_emit() masks interrupts, so it is one step; it is called by       *)
(* threads, with interrupts enabled or masked, and by the scheduler inside *)
(* the timer trap.  What an event says about threads is left out: of an    *)
(* event the ring keeps its sequence number and its tick.                  *)
(***************************************************************************)
EXTENDS Timer, Sequences

CONSTANTS
  TRACE_CAPACITY,
  MaxEvents               \* bound: events emitted

ASSUME CapacityAssumption == TRACE_CAPACITY \in Nat \ {0} /\ MaxEvents \in Nat

VARIABLES
  trace_events, trace_head, trace_count, trace_overwrites, trace_next_seq

rvars     == <<trace_events, trace_head, trace_count, trace_overwrites, trace_next_seq>>
tracevars == <<tvars, rvars>>

Index == 0 .. TRACE_CAPACITY - 1
Event == [seq : Nat, tick : Nat]

(* trace_init(), called by thread_init(); the array is static, so zero. *)
TraceInit ==
  /\ TimerInit
  /\ trace_events = [i \in Index |-> [seq |-> 0, tick |-> 0]]
  /\ trace_head = 0 /\ trace_count = 0 /\ trace_overwrites = 0 /\ trace_next_seq = 0

Slot(i) == (trace_head + i) % TRACE_CAPACITY

(* The slot of the next event: behind the newest one, or the oldest one's. *)
Claim_KeepsHead ==
  IF trace_count < TRACE_CAPACITY
  THEN trace_count' = trace_count + 1 /\ UNCHANGED <<trace_head, trace_overwrites>>
  ELSE trace_overwrites' = trace_overwrites + 1 /\ UNCHANGED <<trace_head, trace_count>>

Claim ==
  IF trace_count < TRACE_CAPACITY
  THEN trace_count' = trace_count + 1 /\ UNCHANGED <<trace_head, trace_overwrites>>
  ELSE /\ trace_head' = Slot(1)
       /\ trace_overwrites' = trace_overwrites + 1 /\ UNCHANGED trace_count

ClaimedSlot == IF trace_count < TRACE_CAPACITY THEN Slot(trace_count) ELSE trace_head

trace_emit ==
  /\ at \in {"run", "masked", "tick"}
  /\ trace_next_seq < MaxEvents
  /\ Claim
  /\ trace_events' = [trace_events EXCEPT ![ClaimedSlot] = [seq |-> trace_next_seq, tick |-> ticks]]
  /\ trace_next_seq' = trace_next_seq + 1
  /\ UNCHANGED tvars

(* The events trace_dump() prints, oldest first. *)
trace_dump == [i \in 1 .. trace_count |-> trace_events[Slot(i - 1)]]

TraceNext == (TimerNext /\ UNCHANGED rvars) \/ trace_emit

TraceSpec == TraceInit /\ [][TraceNext]_tracevars

(***************************************************************************)
(* Fairness: machine mode takes its interrupt, trap handlers run on, a     *)
(* masked section ends, and hardware takes a supervisor interrupt that is  *)
(* pending whenever interrupts are enabled again.                          *)
(***************************************************************************)
TraceFairness ==
  /\ WF_tracevars(MachineTimerInterrupt /\ UNCHANGED rvars)
  /\ WF_tracevars(timer_init_arm /\ UNCHANGED rvars)
  /\ WF_tracevars(HandlerStep /\ UNCHANGED rvars)
  /\ WF_tracevars(irq_restore /\ UNCHANGED rvars)
  /\ SF_tracevars(TimerTrap /\ UNCHANGED rvars)

FairTraceSpec == TraceSpec /\ TraceFairness

-----------------------------------------------------------------------------
(* Properties. *)

(* Type invariant of the ring. *)
TraceTypeOK ==
  /\ TimerTypeOK
  /\ trace_events \in [Index -> Event]
  /\ trace_head \in Index /\ trace_count \in 0 .. TRACE_CAPACITY
  /\ trace_overwrites \in Nat /\ trace_next_seq \in 0 .. MaxEvents

(* What trace_dump() prints is the last events emitted, as many as the ring  *)
(* holds, in the order they were emitted and with ticks that never go back;  *)
(* every event not printed is counted as overwritten.                        *)
DumpIsLatest ==
  /\ trace_count = IF trace_next_seq < TRACE_CAPACITY THEN trace_next_seq ELSE TRACE_CAPACITY
  /\ trace_overwrites = trace_next_seq - trace_count
  /\ \A i \in 1 .. trace_count :
       /\ trace_dump[i].seq = trace_overwrites + i - 1
       /\ trace_dump[i].tick <= ticks
       /\ \A j \in 1 .. i : trace_dump[j].tick <= trace_dump[i].tick

(* The ring is well-formed and holds the latest events. *)
TraceInv == TraceTypeOK /\ DumpIsLatest
=============================================================================
