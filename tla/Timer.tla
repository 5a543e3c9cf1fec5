------------------------------- MODULE Timer --------------------------------
(***************************************************************************)
(* The tick: the machine-mode shim of kernel/arch/riscv64/machine.c, which *)
(* owns mtimecmp and forwards its interrupt as a supervisor timer          *)
(* interrupt (STIP), and kernel/drivers/timer.c, which counts ticks and    *)
(* asks the shim for the next deadline with an ecall.                      *)
(*                                                                         *)
(* The hardware clock advances at any time, so a handler may run any       *)
(* number of periods late.  `at' is what the supervisor executes: boot     *)
(* code, kernel or user code with interrupts enabled ("run") or masked, or *)
(* a step of the timer trap.  A machine-mode trap is not interrupted: each *)
(* is one step, and the timer's can fall between any two supervisor steps. *)
(***************************************************************************)
EXTENDS Integers

CONSTANTS
  TIMER_INTERVAL_CYCLES,  \* one period
  UINT64_MAX,             \* mtimecmp that never fires
  MaxTime                 \* bound: the clock stands still from here on

ASSUME IntervalAssumption == TIMER_INTERVAL_CYCLES \in Nat \ {0}
ASSUME TimeAssumption     == /\ MaxTime \in Nat /\ UINT64_MAX \in Nat
                             /\ UINT64_MAX > MaxTime + TIMER_INTERVAL_CYCLES

VARIABLES
  mtime,         \* the clock of the CLINT
  mtimecmp,      \* its compare register: written by machine mode only
  stip,          \* the pending supervisor timer interrupt
  next_compare,
  ticks,
  at,            \* what the supervisor executes: Place
  now,           \* the clock as the handler last read it
  start          \* history: the clock as timer_init() read it

tvars == <<mtime, mtimecmp, stip, next_compare, ticks, at, now, start>>

Handler == {"handle", "catch_up", "arm"}     \* timer_handle_interrupt(), up to its ecall
Place   == {"boot", "init", "run", "masked", "tick"} \cup Handler

(* machine_init(): no deadline is armed; supervisor interrupts are off. *)
TimerInit ==
  /\ mtime = 0 /\ mtimecmp = UINT64_MAX /\ stip = FALSE
  /\ next_compare = 0 /\ ticks = 0 /\ at = "boot" /\ now = 0 /\ start = 0

-----------------------------------------------------------------------------
(* Hardware and machine mode. *)

Advance ==
  /\ mtime < MaxTime
  /\ mtime' = mtime + 1
  /\ UNCHANGED <<mtimecmp, stip, next_compare, ticks, at, now, start>>

(* The machine timer interrupt: disarm, and pend the supervisor's.  It is  *)
(* taken whether or not supervisor interrupts are masked.                  *)
ForwardInterrupt_NotPended == mtimecmp' = UINT64_MAX /\ UNCHANGED stip
ForwardInterrupt == mtimecmp' = UINT64_MAX /\ stip' = TRUE

MachineTimerInterrupt ==
  /\ mtime >= mtimecmp
  /\ ForwardInterrupt
  /\ UNCHANGED <<mtime, next_compare, ticks, at, now, start>>

(* The set-timer ecall: retract a pending interrupt and arm the deadline. *)
machine_call_set_timer_KeepsPending(deadline) == mtimecmp' = deadline /\ UNCHANGED stip
machine_call_set_timer(deadline) == mtimecmp' = deadline /\ stip' = FALSE

-----------------------------------------------------------------------------
(* The supervisor. *)

(* timer_init() reads the clock, arms the first deadline, and enables       *)
(* interrupts; the clock may move in between.                               *)
timer_init_read ==
  /\ at = "boot"
  /\ next_compare' = mtime + TIMER_INTERVAL_CYCLES
  /\ start' = mtime /\ now' = mtime
  /\ at' = "init"
  /\ UNCHANGED <<mtime, mtimecmp, stip, ticks>>

timer_init_arm ==
  /\ at = "init"
  /\ machine_call_set_timer(next_compare)
  /\ at' = "run"
  /\ UNCHANGED <<mtime, next_compare, ticks, now, start>>

irq_save ==
  /\ at = "run" /\ at' = "masked"
  /\ UNCHANGED <<mtime, mtimecmp, stip, next_compare, ticks, now, start>>

irq_restore ==
  /\ at = "masked" /\ at' = "run"
  /\ UNCHANGED <<mtime, mtimecmp, stip, next_compare, ticks, now, start>>

(* The supervisor timer trap, taken when it is pending and not masked. *)
TimerTrap ==
  /\ at = "run" /\ stip
  /\ at' = "handle"
  /\ UNCHANGED <<mtime, mtimecmp, stip, next_compare, ticks, now, start>>

(* timer_handle_interrupt(): read the clock and count; move the deadline   *)
(* past the time read, one period per turn of the loop; arm it.            *)
timer_handle_interrupt ==
  /\ at = "handle"
  /\ now' = mtime
  /\ ticks' = ticks + 1
  /\ at' = "catch_up"
  /\ UNCHANGED <<mtime, mtimecmp, stip, next_compare, start>>

LoopAgain_Once(compare) == FALSE
LoopAgain_Longer(compare) == compare <= now + TIMER_INTERVAL_CYCLES
LoopAgain(compare) == compare <= now

CatchUp ==
  /\ at = "catch_up"
  /\ next_compare' = next_compare + TIMER_INTERVAL_CYCLES
  /\ at' = IF LoopAgain(next_compare') THEN "catch_up" ELSE "arm"
  /\ UNCHANGED <<mtime, mtimecmp, stip, ticks, now, start>>

timer_set_deadline ==
  /\ at = "arm"
  /\ machine_call_set_timer(next_compare)
  /\ at' = "tick"
  /\ UNCHANGED <<mtime, next_compare, ticks, now, start>>

(* The scheduler's part of the tick (Thread) and the return from the trap, *)
(* perhaps into a thread that blocked with interrupts masked.              *)
TrapReturn ==
  /\ at = "tick" /\ at' \in {"run", "masked"}
  /\ UNCHANGED <<mtime, mtimecmp, stip, next_compare, ticks, now, start>>

HandlerStep == timer_handle_interrupt \/ CatchUp \/ timer_set_deadline \/ TrapReturn

TimerNext ==
  \/ Advance \/ MachineTimerInterrupt
  \/ timer_init_read \/ timer_init_arm
  \/ irq_save \/ irq_restore
  \/ TimerTrap \/ HandlerStep

TimerSpec == TimerInit /\ [][TimerNext]_tvars

-----------------------------------------------------------------------------
(* Properties. *)

(* Type invariant of the timer. *)
TimerTypeOK ==
  /\ mtime \in 0 .. MaxTime /\ now \in 0 .. MaxTime /\ start \in 0 .. MaxTime
  /\ mtimecmp \in Nat /\ next_compare \in Nat /\ ticks \in Nat
  /\ stip \in BOOLEAN /\ at \in Place

(* The tick cannot get lost: outside the handler exactly one of two things   *)
(* is true.  The deadline is armed and nothing is pending, or it has passed, *)
(* its interrupt is pending and mtimecmp is disarmed.                        *)
NoLostTick ==
  CASE at \in {"run", "masked", "tick"} ->
         \/ mtimecmp = next_compare /\ ~stip
         \/ mtimecmp = UINT64_MAX /\ stip /\ mtime >= next_compare
    [] at \in Handler -> mtimecmp = UINT64_MAX
    [] OTHER -> mtimecmp = UINT64_MAX /\ ~stip

(* Ticks do not drift, however late handlers run: every deadline is a whole  *)
(* number of periods after timer_init(), and never more than one ahead.      *)
NoDrift ==
  at # "boot" => /\ (next_compare - start) % TIMER_INTERVAL_CYCLES = 0
                 /\ next_compare <= mtime + TIMER_INTERVAL_CYCLES

Period(time) == (time - start) \div TIMER_INTERVAL_CYCLES

(* Ticks do not run ahead of the clock and do not come in bursts: a tick is  *)
(* counted in a later period than the tick before it, so a sleep of n ticks  *)
(* lasts at least n - 1 whole periods.                                       *)
OneTickPerPeriod == [][ticks' # ticks => Period(mtime) > Period(now)]_tvars

(* A deadline that has passed is handled: the next one is in the future.     *)
DeadlineServed ==
  (at # "boot" /\ mtime >= next_compare) ~> (mtime < next_compare)
=============================================================================
