---------------------------- MODULE TraceProofs -----------------------------
(***************************************************************************)
(* The tick and the trace ring are correct for every period, every clock   *)
(* and every capacity of the ring: no tick is lost, none drifts or comes   *)
(* twice in a period, and the ring holds the latest events.                *)
(***************************************************************************)
EXTENDS Trace, TLAPS

(* A whole number of periods. *)
Whole(n) == \E k \in Nat : n = k * TIMER_INTERVAL_CYCLES

(* One period is whole. *)
LEMMA WholeOne == Whole(TIMER_INTERVAL_CYCLES)
<1>1. TIMER_INTERVAL_CYCLES = 1 * TIMER_INTERVAL_CYCLES /\ 1 \in Nat
  BY IntervalAssumption
<1> QED  BY <1>1 DEF Whole

(* The catch-up loop stays on the grid. *)
LEMMA WholeNext ==
  ASSUME NEW n \in Int, Whole(n)
  PROVE  Whole(n + TIMER_INTERVAL_CYCLES)
<1>1. PICK k \in Nat : n = k * TIMER_INTERVAL_CYCLES
  BY DEF Whole
<1>2. n + TIMER_INTERVAL_CYCLES = (k + 1) * TIMER_INTERVAL_CYCLES /\ k + 1 \in Nat
  BY <1>1, IntervalAssumption
<1> QED  BY <1>2 DEF Whole

(* The remainder NoDrift speaks of. *)
LEMMA WholeMod ==
  ASSUME NEW n \in Int, Whole(n)
  PROVE  n % TIMER_INTERVAL_CYCLES = 0
<1>1. PICK k \in Nat : n = k * TIMER_INTERVAL_CYCLES
  BY DEF Whole
<1> QED  BY <1>1, IntervalAssumption

(* Two instants on either side of a whole period are in different periods. *)
LEMMA PeriodsApart ==
  ASSUME NEW a \in Nat, NEW b \in Nat, NEW n \in Int, Whole(n), a < n, n <= b
  PROVE  b \div TIMER_INTERVAL_CYCLES > a \div TIMER_INTERVAL_CYCLES
<1> DEFINE I == TIMER_INTERVAL_CYCLES
           x == a \div I
           y == b \div I
<1>1. I \in Nat /\ I > 0
  BY IntervalAssumption
<1>2. PICK k \in Nat : n = k * I
  BY DEF Whole
<1>3. x \in Int /\ a >= x * I /\ a < x * I + I
  BY <1>1
<1>4. y \in Int /\ b >= y * I /\ b < y * I + I
  BY <1>1
<1> HIDE DEF I, x, y
<1>5. x < k
  <2> SUFFICES ASSUME x >= k PROVE FALSE
    BY <1>3
  <2>1. x * I >= k * I
    BY <1>1, <1>3
  <2> QED  BY <1>2, <1>3, <2>1, <1>1
<1>6. y >= k
  <2> SUFFICES ASSUME y + 1 <= k PROVE FALSE
    BY <1>4
  <2>1. (y + 1) * I <= k * I
    BY <1>1, <1>4
  <2>2. (y + 1) * I = y * I + I
    BY <1>1, <1>4
  <2> QED  BY <1>1, <1>2, <1>4, <2>1, <2>2
<1> QED  BY <1>3, <1>4, <1>5, <1>6 DEF x, y, I

-----------------------------------------------------------------------------
(***************************************************************************)
(* The inductive invariant of the tick.  NoLostTick needs that a trap is   *)
(* entered only behind the deadline (OnTime) and that no deadline reaches  *)
(* the value which disarms mtimecmp; OneTickPerPeriod needs that outside   *)
(* the catch-up loop the deadline is later than the clock as last read.    *)
(***************************************************************************)
OnTime ==
  CASE at = "boot"     -> next_compare = 0
    [] at = "handle"   -> now < next_compare /\ next_compare <= mtime
    [] at = "catch_up" -> next_compare <= now
    [] OTHER           -> now < next_compare

OnGrid ==
  at # "boot" => /\ Whole(next_compare - start)
                 /\ next_compare <= mtime + TIMER_INTERVAL_CYCLES
                 /\ start <= now

TimerInv == TimerTypeOK /\ NoLostTick /\ OnTime /\ OnGrid /\ now <= mtime

(* The inductive invariant gives the properties of the runs. *)
LEMMA TimerInvImplies == TimerInv => NoLostTick /\ NoDrift
<1> SUFFICES ASSUME TimerInv, at # "boot" PROVE NoDrift
  BY DEF TimerInv, NoDrift
<1>1. next_compare - start \in Int /\ Whole(next_compare - start)
  BY DEF TimerInv, TimerTypeOK, OnGrid
<1> QED  BY <1>1, WholeMod DEF NoDrift, TimerInv, OnGrid

(* machine_init() establishes it. *)
LEMMA TimerInitInv == TimerInit => TimerInv
<1> SUFFICES ASSUME TimerInit PROVE TimerInv
  OBVIOUS
<1>1. TimerTypeOK /\ now <= mtime
  <2>1. stip \in BOOLEAN /\ at \in Place
    BY DEF TimerInit, Place
  <2>2. mtime = 0 /\ mtimecmp = UINT64_MAX /\ next_compare = 0 /\ ticks = 0 /\ now = 0 /\ start = 0
    BY DEF TimerInit
  <2> QED  BY <2>1, <2>2, IntervalAssumption, TimeAssumption DEF TimerTypeOK
<1>2. NoLostTick
  BY DEF TimerInit, NoLostTick, Handler
<1>3. OnTime /\ OnGrid
  BY DEF TimerInit, OnTime, OnGrid
<1> QED  BY <1>1, <1>2, <1>3 DEF TimerInv

(* Every step of machine mode and of the supervisor keeps it. *)
LEMMA TimerStepInv == TimerInv /\ [TimerNext]_tvars => TimerInv'
<1> SUFFICES ASSUME TimerInv, [TimerNext]_tvars PROVE TimerInv'
  OBVIOUS
<1> USE IntervalAssumption, TimeAssumption
    DEF TimerInv, TimerTypeOK, NoLostTick, OnTime, OnGrid, Place, Handler
<1>1. CASE Advance
  BY <1>1 DEF Advance
<1>2. CASE MachineTimerInterrupt
  BY <1>2 DEF MachineTimerInterrupt, ForwardInterrupt
<1>3. CASE timer_init_read
  <2>1. /\ next_compare' = mtime + TIMER_INTERVAL_CYCLES /\ start' = mtime
        /\ next_compare' - start' = TIMER_INTERVAL_CYCLES
    BY <1>3 DEF timer_init_read
  <2>2. Whole(next_compare' - start')
    BY <2>1, WholeOne
  <2> QED  BY <1>3, <2>1, <2>2 DEF timer_init_read
<1>4. CASE timer_init_arm
  BY <1>4 DEF timer_init_arm, machine_call_set_timer
<1>5. CASE irq_save
  BY <1>5 DEF irq_save
<1>6. CASE irq_restore
  BY <1>6 DEF irq_restore
<1>7. CASE TimerTrap
  BY <1>7 DEF TimerTrap
<1>8. CASE timer_handle_interrupt
  BY <1>8 DEF timer_handle_interrupt
<1>9. CASE CatchUp
  <2>1. /\ next_compare' = next_compare + TIMER_INTERVAL_CYCLES /\ start' = start
        /\ next_compare' - start' = (next_compare - start) + TIMER_INTERVAL_CYCLES
    BY <1>9 DEF CatchUp
  <2>2. Whole(next_compare' - start')
    BY <1>9, <2>1, WholeNext DEF CatchUp
  <2> QED  BY <1>9, <2>1, <2>2 DEF CatchUp, LoopAgain
<1>10. CASE timer_set_deadline
  BY <1>10 DEF timer_set_deadline, machine_call_set_timer
<1>11. CASE TrapReturn
  BY <1>11 DEF TrapReturn
<1>12. CASE UNCHANGED tvars
  BY <1>12 DEF tvars
<1> QED
  BY <1>1, <1>2, <1>3, <1>4, <1>5, <1>6, <1>7, <1>8, <1>9, <1>10, <1>11, <1>12
  DEF TimerNext, HandlerStep

(* A step that counts a tick counts it in a later period than the last one. *)
LEMMA TickStep == TimerInv /\ [TimerNext]_tvars => (ticks' # ticks => Period(mtime) > Period(now))
<1> SUFFICES ASSUME TimerInv, [TimerNext]_tvars, ticks' # ticks PROVE Period(mtime) > Period(now)
  OBVIOUS
<1>1. at = "handle"
  BY DEF TimerNext, HandlerStep, tvars, Advance, MachineTimerInterrupt, timer_init_read, timer_init_arm,
         irq_save, irq_restore, TimerTrap, timer_handle_interrupt, CatchUp, timer_set_deadline, TrapReturn
<1>2. /\ now - start \in Nat /\ mtime - start \in Nat /\ next_compare - start \in Int
      /\ Whole(next_compare - start)
      /\ now - start < next_compare - start /\ next_compare - start <= mtime - start
  BY <1>1 DEF TimerInv, TimerTypeOK, OnTime, OnGrid
<1> QED  BY <1>2, PeriodsApart DEF Period

-----------------------------------------------------------------------------
(* The ring.  The remainder of a number less than two turns. *)
LEMMA WrapOnce ==
  ASSUME NEW x \in 0 .. 2 * TRACE_CAPACITY - 1
  PROVE  x % TRACE_CAPACITY = IF x < TRACE_CAPACITY THEN x ELSE x - TRACE_CAPACITY
<1> DEFINE C == TRACE_CAPACITY
<1>1. C \in Nat /\ C > 0
  BY CapacityAssumption
<1>2. CASE x < C
  BY <1>1, <1>2
<1>3. CASE x >= C
  <2>1. x - C \in 0 .. C - 1
    BY <1>1, <1>3
  <2>2. ((x - C) + C) % C = x - C
    BY <1>1, <2>1
  <2> QED  BY <1>1, <1>3, <2>2
<1> QED  BY <1>1, <1>2, <1>3

(* The slots of the ring's entries, counted from its oldest one. *)
LEMMA SlotIs ==
  ASSUME trace_head \in Index, NEW i \in 0 .. TRACE_CAPACITY
  PROVE  /\ Slot(i) = IF trace_head + i < TRACE_CAPACITY THEN trace_head + i
                      ELSE trace_head + i - TRACE_CAPACITY
         /\ Slot(i) \in Index
<1>1. trace_head + i \in 0 .. 2 * TRACE_CAPACITY - 1 /\ TRACE_CAPACITY \in Nat
  BY CapacityAssumption DEF Index
<1> QED  BY <1>1, WrapOnce DEF Slot, Index

(* What the ring holds: entry number i, and the entries before it. *)
Entry(i) == trace_events[Slot(i)]

Holds(i) ==
  /\ Entry(i).seq = trace_overwrites + i
  /\ Entry(i).tick <= ticks
  /\ \A j \in 0 .. i : Entry(j).tick <= Entry(i).tick

RingTypeOK ==
  /\ trace_events \in [Index -> Event]
  /\ trace_head \in Index /\ trace_count \in 0 .. TRACE_CAPACITY
  /\ trace_overwrites \in Nat /\ trace_next_seq \in 0 .. MaxEvents

RingInv ==
  /\ RingTypeOK
  /\ trace_count = IF trace_next_seq < TRACE_CAPACITY THEN trace_next_seq ELSE TRACE_CAPACITY
  /\ trace_overwrites = trace_next_seq - trace_count
  /\ \A i \in 0 .. trace_count - 1 : Holds(i)

(* What trace_dump() prints follows. *)
LEMMA RingInvImplies == RingInv => DumpIsLatest
<1> SUFFICES ASSUME RingInv PROVE DumpIsLatest
  OBVIOUS
<1>1. trace_count \in Nat
  BY CapacityAssumption DEF RingInv, RingTypeOK
<1>2. \A i \in 1 .. trace_count : i - 1 \in 0 .. trace_count - 1 /\ trace_dump[i] = Entry(i - 1)
  BY <1>1 DEF trace_dump, Entry
<1>3. ASSUME NEW i \in 1 .. trace_count
      PROVE  /\ trace_dump[i].seq = trace_overwrites + i - 1
             /\ trace_dump[i].tick <= ticks
             /\ \A j \in 1 .. i : trace_dump[j].tick <= trace_dump[i].tick
  <2>1. Holds(i - 1)
    BY <1>2 DEF RingInv
  <2>2. trace_overwrites + (i - 1) = trace_overwrites + i - 1
    BY <1>1 DEF RingInv, RingTypeOK
  <2>3. ASSUME NEW j \in 1 .. i PROVE trace_dump[j].tick <= trace_dump[i].tick
    <3>1. j - 1 \in 0 .. i - 1 /\ j \in 1 .. trace_count
      BY <1>1
    <3> QED  BY <1>2, <2>1, <3>1 DEF Holds
  <2> QED  BY <1>2, <2>1, <2>2, <2>3 DEF Holds
<1> QED  BY <1>3 DEF RingInv, DumpIsLatest

(* trace_init() *)
LEMMA RingInitInv == TraceInit => RingInv
<1> SUFFICES ASSUME TraceInit PROVE RingInv
  OBVIOUS
<1>1. trace_head = 0 /\ trace_count = 0 /\ trace_overwrites = 0 /\ trace_next_seq = 0
  BY DEF TraceInit
<1>2. trace_events \in [Index -> Event]
  BY DEF TraceInit, Event
<1>3. 0 \in Index /\ 0 < TRACE_CAPACITY /\ 0 \in 0 .. MaxEvents /\ 0 \in 0 .. TRACE_CAPACITY
  BY CapacityAssumption DEF Index
<1> QED  BY <1>1, <1>2, <1>3 DEF RingInv, RingTypeOK

(* Ticks only grow, so a step of the timer leaves the ring in order. *)
LEMMA RingKept ==
  ASSUME TimerInv, RingInv, [TimerNext]_tvars, UNCHANGED rvars
  PROVE  RingInv'
<1>1. ticks \in Nat /\ (ticks' = ticks \/ ticks' = ticks + 1)
  BY DEF TimerInv, TimerTypeOK, TimerNext, HandlerStep, tvars, Advance, MachineTimerInterrupt,
         timer_init_read, timer_init_arm, irq_save, irq_restore, TimerTrap,
         timer_handle_interrupt, CatchUp, timer_set_deadline, TrapReturn
<1>2. /\ trace_events' = trace_events /\ trace_head' = trace_head /\ trace_count' = trace_count
      /\ trace_overwrites' = trace_overwrites /\ trace_next_seq' = trace_next_seq
  BY DEF rvars
<1>3. \A i : Slot(i)' = Slot(i) /\ Entry(i)' = Entry(i)
  BY <1>2 DEF Slot, Entry
<1>4. ASSUME NEW i \in 0 .. trace_count - 1 PROVE Holds(i)'
  <2>1. Holds(i)
    BY DEF RingInv
  <2>2. i \in 0 .. TRACE_CAPACITY
    BY CapacityAssumption DEF RingInv, RingTypeOK
  <2>3. Entry(i) \in Event
    BY <2>2, SlotIs DEF Entry, RingInv, RingTypeOK
  <2>4. Entry(i).tick \in Nat
    BY <2>3 DEF Event
  <2> QED  BY <1>1, <1>2, <1>3, <2>1, <2>4 DEF Holds
<1> QED  BY <1>2, <1>4 DEF RingInv, RingTypeOK

(* trace_emit() into a ring with room: behind the newest entry. *)
LEMMA EmitAppends ==
  ASSUME TimerInv, RingInv, trace_emit, trace_count < TRACE_CAPACITY
  PROVE  RingInv'
<1> DEFINE e == [seq |-> trace_next_seq, tick |-> ticks]
<1>0. PICK n : n = trace_count
  OBVIOUS
<1>1. /\ n \in Nat /\ n \in 0 .. TRACE_CAPACITY /\ n + 1 \in 0 .. TRACE_CAPACITY
      /\ TRACE_CAPACITY \in Nat /\ trace_next_seq \in Nat /\ trace_next_seq + 1 \in 0 .. MaxEvents
      /\ ticks \in Nat /\ trace_overwrites \in Nat
  BY <1>0, CapacityAssumption DEF RingInv, RingTypeOK, trace_emit, TimerInv, TimerTypeOK
<1>2. /\ trace_count' = n + 1 /\ trace_head' = trace_head /\ trace_overwrites' = trace_overwrites
      /\ trace_events' = [trace_events EXCEPT ![Slot(n)] = e]
      /\ trace_next_seq' = trace_next_seq + 1 /\ ticks' = ticks
  BY <1>0 DEF trace_emit, Claim, ClaimedSlot, tvars
<1>3. trace_next_seq = trace_overwrites + n /\ trace_next_seq = n /\ trace_overwrites = 0
  BY <1>0, <1>1 DEF RingInv
<1>4. e \in Event /\ e.seq = trace_next_seq /\ e.tick = ticks
  BY <1>1 DEF Event
<1>5. Slot(n) \in Index /\ trace_head \in Index /\ trace_events \in [Index -> Event]
  BY <1>1, SlotIs DEF RingInv, RingTypeOK
<1> HIDE DEF e
<1>6. Entry(n)' = e
  BY <1>2, <1>5 DEF Entry, Slot
<1>7. \A i \in 0 .. n - 1 : Entry(i)' = Entry(i)
  <2> TAKE i \in 0 .. n - 1
  <2>1. i \in 0 .. TRACE_CAPACITY /\ i < n
    BY <1>1
  <2>2. Slot(i) \in Index /\ Slot(i) # Slot(n)
    <3>1. /\ Slot(i) = IF trace_head + i < TRACE_CAPACITY THEN trace_head + i
                        ELSE trace_head + i - TRACE_CAPACITY
          /\ Slot(i) \in Index
      BY <1>5, <2>1, SlotIs
    <3>2. Slot(n) = IF trace_head + n < TRACE_CAPACITY THEN trace_head + n
                    ELSE trace_head + n - TRACE_CAPACITY
      BY <1>1, <1>5, SlotIs
    <3> QED  BY <1>1, <1>5, <2>1, <3>1, <3>2 DEF Index
  <2>3. Slot(i)' = Slot(i)
    BY <1>2 DEF Slot
  <2> QED  BY <1>2, <1>5, <2>2, <2>3 DEF Entry
<1>8. ASSUME NEW i \in 0 .. n - 1 PROVE Holds(i)' /\ Entry(i).tick <= ticks
  <2>1. Holds(i)
    BY <1>0 DEF RingInv
  <2>2. \A j \in 0 .. i : j \in 0 .. n - 1
    BY <1>1
  <2> QED  BY <1>2, <1>7, <2>1, <2>2 DEF Holds
<1>9. Holds(n)'
  <2>1. ASSUME NEW j \in 0 .. n PROVE Entry(j)'.tick <= Entry(n)'.tick
    <3>1. CASE j = n
      BY <1>1, <1>4, <1>6, <3>1
    <3>2. CASE j # n
      <4>1. j \in 0 .. n - 1
        BY <1>1, <3>2
      <4> QED  BY <1>4, <1>6, <1>7, <1>8, <4>1
    <3> QED  BY <3>1, <3>2
  <2> QED  BY <1>1, <1>2, <1>3, <1>4, <1>6, <2>1 DEF Holds
<1>10. \A i \in 0 .. trace_count' - 1 : Holds(i)'
  <2> TAKE i \in 0 .. trace_count' - 1
  <2>1. i = n \/ i \in 0 .. n - 1
    BY <1>1, <1>2
  <2> QED  BY <1>8, <1>9, <2>1
<1>11. RingTypeOK'
  BY <1>1, <1>2, <1>4, <1>5 DEF RingTypeOK, RingInv
<1> QED  BY <1>1, <1>2, <1>3, <1>10, <1>11 DEF RingInv

(* trace_emit() into a full ring: in place of the oldest entry. *)
LEMMA EmitOverwrites ==
  ASSUME TimerInv, RingInv, trace_emit, ~(trace_count < TRACE_CAPACITY)
  PROVE  RingInv'
<1> DEFINE e == [seq |-> trace_next_seq, tick |-> ticks]
           C == TRACE_CAPACITY
<1>1. /\ C \in Nat /\ C > 0 /\ trace_count = C
      /\ trace_next_seq \in Nat /\ trace_next_seq + 1 \in 0 .. MaxEvents
      /\ ticks \in Nat /\ trace_overwrites \in Nat
  BY CapacityAssumption DEF RingInv, RingTypeOK, trace_emit, TimerInv, TimerTypeOK
<1>2. /\ trace_count' = C /\ trace_head' = Slot(1) /\ trace_overwrites' = trace_overwrites + 1
      /\ trace_events' = [trace_events EXCEPT ![trace_head] = e]
      /\ trace_next_seq' = trace_next_seq + 1 /\ ticks' = ticks
  BY <1>1 DEF trace_emit, Claim, ClaimedSlot, tvars
<1>3. trace_next_seq = trace_overwrites + C /\ ~(trace_next_seq < C)
  BY <1>1 DEF RingInv
<1>4. e \in Event /\ e.seq = trace_next_seq /\ e.tick = ticks
  BY <1>1 DEF Event
<1>5. trace_head \in Index /\ trace_events \in [Index -> Event] /\ Slot(1) \in Index
  BY <1>1, SlotIs DEF RingInv, RingTypeOK
<1> HIDE DEF e
<1>6. ASSUME NEW i \in 0 .. C - 1
      PROVE  Slot(i)' = Slot(i + 1) /\ Slot(i + 1) \in Index
             /\ (Slot(i + 1) = trace_head <=> i = C - 1)
  <2>1. /\ Slot(i + 1) = IF trace_head + (i + 1) < C THEN trace_head + (i + 1)
                         ELSE trace_head + (i + 1) - C
        /\ Slot(i + 1) \in Index
    BY <1>1, <1>5, SlotIs
  <2>2. Slot(1) = IF trace_head + 1 < C THEN trace_head + 1 ELSE trace_head + 1 - C
    BY <1>1, <1>5, SlotIs
  <2>3. Slot(1) + i \in 0 .. 2 * C - 1
    BY <1>1, <1>5 DEF Index
  <2>4. Slot(i)' = IF Slot(1) + i < C THEN Slot(1) + i ELSE Slot(1) + i - C
    <3>1. Slot(i)' = (trace_head' + i) % C
      BY DEF Slot
    <3>2. PICK x \in 0 .. 2 * C - 1 : x = Slot(1) + i
      BY <2>3
    <3>3. x % C = IF x < C THEN x ELSE x - C
      BY <3>2, WrapOnce
    <3>4. trace_head' + i = x
      BY <1>2, <3>2
    <3>5. Slot(i)' = x % C
      BY <3>1, <3>4
    <3>6. Slot(i)' = IF x < C THEN x ELSE x - C
      BY <3>3, <3>5
    <3>7. Slot(1) \in Int
      BY <1>1, <1>5 DEF Index
    <3> QED  BY <1>1, <3>2, <3>6, <3>7
  <2> QED  BY <1>1, <1>5, <2>1, <2>2, <2>4 DEF Index
<1>7. Entry(C - 1)' = e
  BY <1>1, <1>2, <1>5, <1>6 DEF Entry
<1>8. \A i \in 0 .. C - 2 : Entry(i)' = Entry(i + 1)
  <2> TAKE i \in 0 .. C - 2
  <2>1. i \in 0 .. C - 1 /\ i # C - 1
    BY <1>1
  <2> QED  BY <1>2, <1>5, <1>6, <2>1 DEF Entry
<1>9. ASSUME NEW i \in 0 .. C - 2 PROVE Holds(i)' /\ Entry(i)'.tick <= ticks
  <2>1. i + 1 \in 0 .. trace_count - 1 /\ trace_overwrites + (i + 1) = trace_overwrites + 1 + i
    BY <1>1
  <2>2. Holds(i + 1)
    BY <2>1 DEF RingInv
  <2>3. \A j \in 0 .. i : j \in 0 .. C - 2 /\ j + 1 \in 0 .. i + 1
    BY <1>1
  <2> QED  BY <1>2, <1>8, <2>1, <2>2, <2>3 DEF Holds
<1>10. Holds(C - 1)'
  <2>1. ASSUME NEW j \in 0 .. C - 1 PROVE Entry(j)'.tick <= Entry(C - 1)'.tick
    <3>1. CASE j = C - 1
      BY <1>1, <1>4, <1>7, <3>1
    <3>2. CASE j # C - 1
      <4>1. j \in 0 .. C - 2
        BY <1>1, <3>2
      <4> QED  BY <1>4, <1>7, <1>9, <4>1
    <3> QED  BY <3>1, <3>2
  <2>2. trace_next_seq = trace_overwrites + 1 + (C - 1)
    BY <1>1, <1>3
  <2> QED  BY <1>1, <1>2, <1>4, <1>7, <2>1, <2>2 DEF Holds
<1>11. \A i \in 0 .. trace_count' - 1 : Holds(i)'
  <2> TAKE i \in 0 .. trace_count' - 1
  <2>1. i = C - 1 \/ i \in 0 .. C - 2
    BY <1>1, <1>2
  <2> QED  BY <1>9, <1>10, <2>1
<1>12. RingTypeOK'
  BY <1>1, <1>2, <1>4, <1>5 DEF RingTypeOK
<1> QED  BY <1>1, <1>2, <1>3, <1>11, <1>12 DEF RingInv

-----------------------------------------------------------------------------
(* The inductive invariant of the timer and the ring. *)
TraceInvariant == TimerInv /\ RingInv

(* Every step of the timer and of the ring keeps the invariant. *)
LEMMA TraceStepInv == TraceInvariant /\ [TraceNext]_tracevars => TraceInvariant'
<1> SUFFICES ASSUME TraceInvariant, [TraceNext]_tracevars PROVE TraceInvariant'
  OBVIOUS
<1>1. CASE [TimerNext]_tvars /\ UNCHANGED rvars
  BY <1>1, TimerStepInv, RingKept DEF TraceInvariant
<1>2. CASE trace_emit
  <2>1. UNCHANGED tvars
    BY <1>2 DEF trace_emit
  <2>2. TimerInv'
    BY <2>1, TimerStepInv DEF TraceInvariant
  <2> QED  BY <1>2, <2>2, EmitAppends, EmitOverwrites DEF TraceInvariant
<1> QED  BY <1>1, <1>2 DEF TraceNext, tracevars

(* The timer's and the ring's invariants hold in every behaviour. *)
THEOREM TraceInvariantHolds == TraceSpec => []TraceInvariant
<1>1. TraceInit => TraceInvariant
  BY TimerInitInv, RingInitInv DEF TraceInvariant, TraceInit
<1> QED  BY <1>1, TraceStepInv, PTL DEF TraceSpec

(***************************************************************************)
(* The tick cannot get lost: outside the handler the deadline is armed, or *)
(* it has passed and its interrupt is pending, whatever the lateness.      *)
(***************************************************************************)
THEOREM TickNeverLost == TraceSpec => []NoLostTick
<1>1. TraceInvariant => NoLostTick
  BY DEF TraceInvariant, TimerInv
<1> QED  BY <1>1, TraceInvariantHolds, PTL

(***************************************************************************)
(* Deadlines are a whole number of periods after timer_init() and never    *)
(* more than one period ahead of the clock.                                *)
(***************************************************************************)
THEOREM TicksDoNotDrift == TraceSpec => []NoDrift
<1>1. TraceInvariant => NoDrift
  BY TimerInvImplies DEF TraceInvariant
<1> QED  BY <1>1, TraceInvariantHolds, PTL

(* A tick is counted in a later period than the tick before it. *)
THEOREM TicksApart == TraceSpec => OneTickPerPeriod
<1>1. TraceInvariant /\ [TraceNext]_tracevars => [ticks' # ticks => Period(mtime) > Period(now)]_tvars
  <2> SUFFICES ASSUME TraceInvariant, [TraceNext]_tracevars, ~UNCHANGED tvars, ticks' # ticks
               PROVE  Period(mtime) > Period(now)
    OBVIOUS
  <2>1. [TimerNext]_tvars
    BY DEF TraceNext, tracevars, trace_emit
  <2> QED  BY <2>1, TickStep DEF TraceInvariant
<1> QED  BY <1>1, TraceInvariantHolds, PTL DEF TraceSpec, OneTickPerPeriod

(***************************************************************************)
(* The ring is well-formed, and what trace_dump() prints is the latest     *)
(* events in order, however often the ring wrapped.                        *)
(***************************************************************************)
THEOREM DumpCorrect == TraceSpec => []TraceInv
<1>1. TraceInvariant => TraceInv
  BY RingInvImplies DEF TraceInvariant, TimerInv, RingInv, RingTypeOK, TraceInv, TraceTypeOK
<1> QED  BY <1>1, TraceInvariantHolds, PTL
=============================================================================
