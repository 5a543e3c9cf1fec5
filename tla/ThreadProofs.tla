---------------------------- MODULE ThreadProofs ----------------------------
(***************************************************************************)
(* The scheduler keeps its thread table and its queues consistent, and so  *)
(* never reaches one of its PANICs, for every number of threads, wait      *)
(* queues and user tasks; it wakes sleepers in time and in order, and      *)
(* dispatches and wakes first come, first served; and the ring buffers     *)
(* behind the queues behave like the sequences that stand for them.        *)
(***************************************************************************)
EXTENDS Thread, FiniteSetTheorems, WellFoundedInduction, TLAPS

(* First the queues: what their operations do to the set of queued threads, *)
(* and that a queue without duplicates cannot overflow.                     *)

(* A non-empty set of naturals has a least element.                        *)
LEMMA LeastNatural ==
  ASSUME NEW T, T \subseteq Nat, T # {}
  PROVE  \E x \in T : \A y \in T : x <= y
<1> DEFINE R == {ss \in Nat \X Nat : ss[1] < ss[2]}
<1>1. OpToRel(<, Nat) = R
  BY DEF OpToRel
<1>2. IsWellFoundedOn(R, Nat)
  BY <1>1, NatLessThanWellFounded, Zenon
<1> HIDE DEF R
<1>3. PICK x \in T : \A y \in T : ~ (<<y, x>> \in R)
  BY <1>2, WFMin
<1>4. \A y \in T : ~(y < x)
  BY <1>3 DEF R
<1> QED  BY <1>4

(* Closing a gap drops one entry and keeps the others in order.            *)
LEMMA CloseGapProperties ==
  ASSUME NEW S, NEW s \in Seq(S), NEW i \in 1 .. Len(s)
  PROVE  /\ CloseGap(s, i) \in Seq(S)
         /\ Len(CloseGap(s, i)) = Len(s) - 1
         /\ \A k \in 1 .. Len(s) - 1 : CloseGap(s, i)[k] = IF k < i THEN s[k] ELSE s[k + 1]
BY DEF CloseGap

(* Closing a gap removes exactly the entry there. *)
LEMMA CloseGapSet ==
  ASSUME NEW S, NEW s \in Seq(S), NEW i \in 1 .. Len(s), HasNoDuplicates(s)
  PROVE  /\ HasNoDuplicates(CloseGap(s, i))
         /\ ToSet(CloseGap(s, i)) = ToSet(s) \ {s[i]}
<1> DEFINE r == CloseGap(s, i)
<1>1. /\ r \in Seq(S) /\ Len(r) = Len(s) - 1 /\ Len(s) \in Nat
      /\ \A k \in 1 .. Len(s) - 1 : r[k] = IF k < i THEN s[k] ELSE s[k + 1]
  BY CloseGapProperties
<1>2. DOMAIN r = 1 .. Len(s) - 1 /\ DOMAIN s = 1 .. Len(s)
  BY <1>1
<1> HIDE DEF r
<1>3. HasNoDuplicates(r)
  <2> SUFFICES ASSUME NEW k \in 1 .. Len(s) - 1, NEW j \in 1 .. Len(s) - 1, r[k] = r[j]
               PROVE  k = j
    BY <1>2 DEF HasNoDuplicates
  <2> DEFINE up(n) == IF n < i THEN n ELSE n + 1
  <2>1. up(k) \in DOMAIN s /\ up(j) \in DOMAIN s
    BY <1>1, <1>2
  <2>2. r[k] = s[up(k)] /\ r[j] = s[up(j)]
    BY <1>1
  <2>3. up(k) = up(j)
    BY <2>1, <2>2 DEF HasNoDuplicates
  <2> QED  BY <2>3
<1>4. ASSUME NEW x \in ToSet(s), x # s[i] PROVE x \in ToSet(r)
  <2>1. PICK k \in 1 .. Len(s) : s[k] = x
    BY <1>2 DEF ToSet
  <2>2. CASE k < i
    BY <2>1, <2>2, <1>1, <1>2 DEF ToSet
  <2>3. CASE k > i
    <3>1. k - 1 \in 1 .. Len(s) - 1 /\ r[k - 1] = s[k]
      BY <2>3, <1>1
    <3> QED BY <3>1, <1>2, <2>1 DEF ToSet
  <2> QED  BY <2>1, <2>2, <2>3, <1>4
<1>5. ASSUME NEW x \in ToSet(r) PROVE x \in ToSet(s) /\ x # s[i]
  BY <1>1, <1>2 DEF ToSet, HasNoDuplicates
<1> QED  BY <1>3, <1>4, <1>5 DEF r

(* Opening a gap adds one entry.                                           *)
LEMMA OpenGapProperties ==
  ASSUME NEW S, NEW s \in Seq(S), NEW i \in 1 .. Len(s) + 1, NEW e \in S
  PROVE  /\ OpenGap(s, i, e) \in Seq(S)
         /\ Len(OpenGap(s, i, e)) = Len(s) + 1
         /\ \A k \in 1 .. Len(s) + 1 : OpenGap(s, i, e)[k] =
               IF k < i THEN s[k] ELSE IF k = i THEN e ELSE s[k - 1]
BY DEF OpenGap

(* Opening a gap adds exactly the new entry. *)
LEMMA OpenGapSet ==
  ASSUME NEW S, NEW s \in Seq(S), NEW i \in 1 .. Len(s) + 1, NEW e \in S,
         HasNoDuplicates(s), e \notin ToSet(s)
  PROVE  /\ HasNoDuplicates(OpenGap(s, i, e))
         /\ ToSet(OpenGap(s, i, e)) = ToSet(s) \cup {e}
<1> DEFINE r == OpenGap(s, i, e)
<1>1. /\ r \in Seq(S) /\ Len(r) = Len(s) + 1 /\ Len(s) \in Nat
      /\ \A k \in 1 .. Len(s) + 1 : r[k] = IF k < i THEN s[k] ELSE IF k = i THEN e ELSE s[k - 1]
  BY OpenGapProperties
<1>2. DOMAIN r = 1 .. Len(s) + 1 /\ DOMAIN s = 1 .. Len(s)
  BY <1>1
<1> HIDE DEF r
<1>3. HasNoDuplicates(r)
  <2> SUFFICES ASSUME NEW k \in 1 .. Len(s) + 1, NEW j \in 1 .. Len(s) + 1, r[k] = r[j]
               PROVE  k = j
    BY <1>2 DEF HasNoDuplicates
  <2> DEFINE down(n) == IF n < i THEN n ELSE n - 1
  <2>1. /\ k # i => down(k) \in 1 .. Len(s) /\ r[k] = s[down(k)]
        /\ j # i => down(j) \in 1 .. Len(s) /\ r[j] = s[down(j)]
    BY <1>1
  <2>2. /\ k # i => r[k] \in ToSet(s)
        /\ j # i => r[j] \in ToSet(s)
    BY <2>1, <1>2 DEF ToSet
  <2>3. CASE k # i /\ j # i
    <3>1. down(k) = down(j)
      BY <2>1, <2>3, <1>2 DEF HasNoDuplicates
    <3> QED  BY <3>1, <2>3
  <2>4. r[i] = e
    BY <1>1
  <2> QED  BY <2>2, <2>3, <2>4
<1>4. ASSUME NEW x \in ToSet(s) PROVE x \in ToSet(r)
  <2>1. PICK k \in 1 .. Len(s) : s[k] = x
    BY <1>2 DEF ToSet
  <2>2. CASE k < i
    BY <2>1, <2>2, <1>1, <1>2 DEF ToSet
  <2>3. CASE k >= i
    <3>1. k + 1 \in 1 .. Len(s) + 1 /\ r[k + 1] = s[k]
      BY <2>3, <1>1
    <3> QED BY <3>1, <1>2, <2>1 DEF ToSet
  <2> QED  BY <2>1, <2>2, <2>3
<1>5. e \in ToSet(r)
  BY <1>1, <1>2 DEF ToSet
<1>6. ASSUME NEW x \in ToSet(r) PROVE x \in ToSet(s) \cup {e}
  <2>1. PICK k \in 1 .. Len(s) + 1 : r[k] = x
    BY <1>2 DEF ToSet
  <2>2. CASE k < i
    BY <2>1, <2>2, <1>1, <1>2 DEF ToSet
  <2>3. CASE k > i
    <3>1. k - 1 \in 1 .. Len(s) /\ r[k] = s[k - 1]
      BY <2>3, <1>1
    <3> QED BY <3>1, <1>2, <2>1 DEF ToSet
  <2>4. CASE k = i
    BY <2>1, <2>4, <1>1
  <2> QED  BY <2>1, <2>2, <2>3, <2>4
<1> QED  BY <1>3, <1>4, <1>5, <1>6 DEF r

(* Appending adds exactly the new entry. *)
LEMMA AppendSet ==
  ASSUME NEW S, NEW s \in Seq(S), NEW e \in S
  PROVE  /\ Append(s, e) \in Seq(S)
         /\ ToSet(Append(s, e)) = ToSet(s) \cup {e}
         /\ HasNoDuplicates(s) /\ e \notin ToSet(s) => HasNoDuplicates(Append(s, e))
BY DEF ToSet, HasNoDuplicates

(* Taking the head removes exactly that entry. *)
LEMMA TailSet ==
  ASSUME NEW S, NEW s \in Seq(S), s # <<>>
  PROVE  /\ Tail(s) \in Seq(S) /\ Head(s) \in S /\ Head(s) \in ToSet(s)
         /\ HasNoDuplicates(s) =>
              HasNoDuplicates(Tail(s)) /\ ToSet(Tail(s)) = ToSet(s) \ {Head(s)}
<1>1. /\ Len(s) \in Nat /\ Len(s) > 0 /\ DOMAIN s = 1 .. Len(s)
      /\ Tail(s) \in Seq(S) /\ Len(Tail(s)) = Len(s) - 1 /\ DOMAIN Tail(s) = 1 .. Len(s) - 1
      /\ \A k \in 1 .. Len(s) - 1 : Tail(s)[k] = s[k + 1]
      /\ Head(s) = s[1] /\ Head(s) \in S
  OBVIOUS
<1>2. Head(s) \in ToSet(s)
  BY <1>1 DEF ToSet
<1>3. ASSUME HasNoDuplicates(s)
      PROVE  HasNoDuplicates(Tail(s)) /\ ToSet(Tail(s)) = ToSet(s) \ {Head(s)}
  <2>1. HasNoDuplicates(Tail(s))
    <3> SUFFICES ASSUME NEW k \in 1 .. Len(s) - 1, NEW j \in 1 .. Len(s) - 1, Tail(s)[k] = Tail(s)[j]
                 PROVE  k = j
      BY <1>1 DEF HasNoDuplicates
    <3>1. k + 1 \in DOMAIN s /\ j + 1 \in DOMAIN s /\ s[k + 1] = s[j + 1]
      BY <1>1
    <3>2. k + 1 = j + 1
      BY <3>1, <1>3 DEF HasNoDuplicates
    <3> QED  BY <3>2, <1>1
  <2>2. ASSUME NEW x \in ToSet(s), x # Head(s) PROVE x \in ToSet(Tail(s))
    <3>1. PICK k \in 1 .. Len(s) : s[k] = x
      BY <1>1 DEF ToSet
    <3>2. k - 1 \in 1 .. Len(s) - 1 /\ Tail(s)[k - 1] = x
      BY <1>1, <2>2, <3>1
    <3> QED  BY <1>1, <3>2 DEF ToSet
  <2>3. ASSUME NEW x \in ToSet(Tail(s)) PROVE x \in ToSet(s) /\ x # Head(s)
    <3>1. PICK k \in 1 .. Len(s) - 1 : Tail(s)[k] = x
      BY <1>1 DEF ToSet
    <3>2. k + 1 \in DOMAIN s /\ 1 \in DOMAIN s /\ s[k + 1] = x /\ k + 1 # 1
      BY <1>1, <3>1
    <3> QED  BY <1>1, <1>3, <3>2 DEF ToSet, HasNoDuplicates
  <2> QED  BY <2>1, <2>2, <2>3
<1> QED  BY <1>1, <1>2, <1>3

(* The search of a removal finds the entry, and the removal takes it out.  *)
LEMMA FirstAtFinds ==
  ASSUME NEW S, NEW s \in Seq(S), NEW tid \in ToSet(s)
  PROVE  FirstAt(s, tid) \in 1 .. Len(s) /\ s[FirstAt(s, tid)] = tid
<1> DEFINE T == {k \in DOMAIN s : s[k] = tid}
<1>1. DOMAIN s = 1 .. Len(s) /\ Len(s) \in Nat
  OBVIOUS
<1>2. T \subseteq Nat /\ T # {}
  BY <1>1 DEF ToSet
<1>3. PICK k \in T : \A j \in T : k <= j
  BY <1>2, LeastNatural
<1>4. k \in DOMAIN s /\ s[k] = tid /\ \A j \in 1 .. k - 1 : s[j] # tid
  BY <1>1, <1>3
<1> QED  BY <1>1, <1>4 DEF FirstAt

(* queue_remove() takes out exactly the entry of tid. *)
LEMMA RemoveSet ==
  ASSUME NEW S, NEW s \in Seq(S), NEW tid, HasNoDuplicates(s)
  PROVE  /\ queue_remove(s, tid) \in Seq(S)
         /\ HasNoDuplicates(queue_remove(s, tid))
         /\ ToSet(queue_remove(s, tid)) = ToSet(s) \ {tid}
<1>1. CASE tid \in ToSet(s)
  <2>1. FirstAt(s, tid) \in 1 .. Len(s) /\ s[FirstAt(s, tid)] = tid
    BY <1>1, FirstAtFinds
  <2> QED  BY <1>1, <2>1, CloseGapProperties, CloseGapSet DEF queue_remove
<1>2. CASE tid \notin ToSet(s)
  BY <1>2 DEF queue_remove
<1> QED  BY <1>1, <1>2

(* A queue without duplicates that misses a member of S has room.          *)
LEMMA QueueHasRoom ==
  ASSUME NEW S, IsFiniteSet(S), NEW s \in Seq(S), HasNoDuplicates(s),
         NEW e \in S, e \notin ToSet(s)
  PROVE  Len(s) < Cardinality(S)
<1> DEFINE D == 1 .. Len(s)
<1>1. Len(s) \in Nat /\ DOMAIN s = D /\ s \in [D -> S]
  OBVIOUS
<1>2. s \in [D -> S \ {e}]
  BY <1>1 DEF ToSet
<1>3. IsFiniteSet(D) /\ Cardinality(D) = Len(s)
  BY <1>1, FS_Interval
<1>4. IsFiniteSet(S \ {e}) /\ Cardinality(S \ {e}) = Cardinality(S) - 1 /\ Cardinality(S) \in Nat
  BY FS_RemoveElement, FS_CardinalityType
<1>5. SUFFICES ASSUME ~(Len(s) < Cardinality(S)) PROVE FALSE
  OBVIOUS
<1>6. Cardinality(S \ {e}) < Cardinality(D)
  BY <1>1, <1>3, <1>4, <1>5
<1> HIDE DEF D
<1>7. \E x, y \in D : x # y /\ s[x] = s[y]
  BY <1>2, <1>3, <1>4, <1>6, FS_PigeonHole
<1> QED  BY <1>1, <1>7 DEF HasNoDuplicates

-----------------------------------------------------------------------------
TimedReason == {"SLEEP", "QUEUE_TIMEOUT"}
QueueReason == {"QUEUE", "QUEUE_TIMEOUT"}

(* The entry of a real thread agrees with the queues rq, sq and wq.        *)
EntryAgrees(t, tcb, rq, sq, wq) ==
  /\ t \in ToSet(rq) <=> tcb.state = "READY"
  /\ tcb.in_ready_queue <=> tcb.state = "READY"
  /\ t \in ToSet(sq) <=> tcb.wait_reason \in TimedReason
  /\ tcb.in_sleep_queue <=> tcb.wait_reason \in TimedReason
  /\ \A q \in WaitQueues : t \in ToSet(wq[q]) <=> tcb.wait_queue = q
  /\ tcb.in_wait_queue <=> tcb.wait_queue # NoQueue
  /\ tcb.in_wait_queue <=> tcb.wait_reason \in QueueReason

(* The state of an entry agrees with the running thread cur and with the   *)
(* entry's own fields; the null task is always runnable.                   *)
EntryState(t, tcb, cur) ==
  /\ tcb.state = "RUNNING" <=> t = cur
  /\ tcb.state = "BLOCKED" <=> tcb.wait_reason # "NONE"
  /\ tcb.trap_frame <=> tcb.state \notin {"UNUSED", "EXITED"}
  /\ t = THREAD_NULL_TID => tcb.state \in {"READY", "RUNNING"} /\ tcb.user_task = NoTask

(* The table thr and the queues agree while cur runs (NoTid: nobody does,  *)
(* which is so in the middle of a switch).                                 *)
Agree(thr, rq, sq, wq, cur) ==
  /\ thr \in [Tid -> TCB]
  /\ rq \in Seq(RealTid) /\ sq \in Seq(RealTid) /\ wq \in [WaitQueues -> Seq(RealTid)]
  /\ HasNoDuplicates(rq) /\ HasNoDuplicates(sq)
  /\ \A q \in WaitQueues : HasNoDuplicates(wq[q])
  /\ \A t \in RealTid : EntryAgrees(t, thr[t], rq, sq, wq)
  /\ \A t \in Tid : EntryState(t, thr[t], cur)

-----------------------------------------------------------------------------
(* The thread ids: the null task is no real thread, and NULL no thread at all. *)
LEMMA TidFacts ==
  /\ THREAD_NULL_TID \in Tid /\ THREAD_NULL_TID \notin RealTid
  /\ RealTid \subseteq Tid /\ Tid = RealTid \cup {THREAD_NULL_TID}
  /\ NoTid \notin Tid
  /\ IsFiniteSet(RealTid) /\ Cardinality(RealTid) = QueueCapacity
<1>1. 1 \in Int /\ THREAD_MAX - 1 \in Int /\ THREAD_MAX \in Nat /\ THREAD_MAX > 1
  BY ThreadMaxAssumption
<1>2. IsFiniteSet(1 .. THREAD_MAX - 1)
      /\ Cardinality(1 .. THREAD_MAX - 1) = IF 1 > THREAD_MAX - 1 THEN 0 ELSE (THREAD_MAX - 1) - 1 + 1
  BY <1>1, FS_Interval
<1>3. IsFiniteSet(RealTid) /\ Cardinality(RealTid) = QueueCapacity
  BY <1>1, <1>2 DEF RealTid, QueueCapacity
<1> QED  BY <1>1, <1>3 DEF THREAD_NULL_TID, Tid, RealTid, NoTid

(* A queue a real thread is not in has room for it. *)
LEMMA RoomForThread ==
  ASSUME NEW s \in Seq(RealTid), HasNoDuplicates(s), NEW t \in RealTid, t \notin ToSet(s)
  PROVE  ~(Len(s) >= QueueCapacity)
<1>1. Len(s) < Cardinality(RealTid)
  BY TidFacts, QueueHasRoom
<1>2. Len(s) \in Nat /\ QueueCapacity \in Nat
  BY ThreadMaxAssumption DEF QueueCapacity
<1> QED  BY <1>1, <1>2, TidFacts

(* sleep_queue_insert() finds a place for the new entry. *)
LEMMA InsertSet ==
  ASSUME NEW s \in Seq(RealTid), threads \in [Tid -> TCB], NEW t \in RealTid, NEW w \in Nat,
         HasNoDuplicates(s), t \notin ToSet(s)
  PROVE  /\ sleep_queue_insert(s, t, w) \in Seq(RealTid)
         /\ HasNoDuplicates(sleep_queue_insert(s, t, w))
         /\ ToSet(sleep_queue_insert(s, t, w)) = ToSet(s) \cup {t}
<1> DEFINE place(k) == /\ \A j \in 1 .. k - 1 : threads[s[j]].wake_tick <= w
                       /\ k <= Len(s) => threads[s[k]].wake_tick > w
           T == {k \in 1 .. Len(s) : threads[s[k]].wake_tick > w} \cup {Len(s) + 1}
           i == CHOOSE k \in 1 .. Len(s) + 1 : place(k)
<1>1. Len(s) \in Nat /\ \A k \in 1 .. Len(s) : s[k] \in RealTid /\ threads[s[k]].wake_tick \in Nat
  <2>1. \A k \in 1 .. Len(s) : s[k] \in Tid
    BY TidFacts
  <2>2. \A t1 \in Tid : threads[t1] \in TCB
    OBVIOUS
  <2>3. \A tcb \in TCB : tcb.wake_tick \in Nat
    BY DEF TCB
  <2> QED  BY <2>1, <2>2, <2>3
<1>2. T \subseteq Nat /\ T # {}
  BY <1>1
<1>3. PICK k \in T : \A j \in T : k <= j
  BY <1>2, LeastNatural
<1>4. k \in 1 .. Len(s) + 1 /\ place(k)
  BY <1>1, <1>3
<1>5. i \in 1 .. Len(s) + 1
  BY <1>4
<1>6. sleep_queue_insert(s, t, w) = OpenGap(s, i, t)
  BY DEF sleep_queue_insert
<1> HIDE DEF i
<1>7. /\ OpenGap(s, i, t) \in Seq(RealTid)
      /\ HasNoDuplicates(OpenGap(s, i, t)) /\ ToSet(OpenGap(s, i, t)) = ToSet(s) \cup {t}
  BY <1>5, OpenGapProperties, OpenGapSet
<1> QED  BY <1>6, <1>7

-----------------------------------------------------------------------------
(* What the operations write to a thread table entry. *)

(* A write to one field of an entry keeps its type, field by field. *)
LEMMA SetState ==
  ASSUME NEW tcb \in TCB, NEW v \in ThreadState PROVE [tcb EXCEPT !.state = v] \in TCB
BY DEF TCB

(* Likewise wait_reason, *)
LEMMA SetReason ==
  ASSUME NEW tcb \in TCB, NEW v \in WaitReason PROVE [tcb EXCEPT !.wait_reason = v] \in TCB
BY DEF TCB

(* wait_result, *)
LEMMA SetResult ==
  ASSUME NEW tcb \in TCB, NEW v \in WaitResult PROVE [tcb EXCEPT !.wait_result = v] \in TCB
BY DEF TCB

(* quantum_ticks, *)
LEMMA SetQuantum ==
  ASSUME NEW tcb \in TCB, NEW v \in 0 .. THREAD_QUANTUM_TICKS
  PROVE  [tcb EXCEPT !.quantum_ticks = v] \in TCB
BY DEF TCB

(* the wait_queue back pointer, *)
LEMMA SetWaitQueue ==
  ASSUME NEW tcb \in TCB, NEW v \in WaitQueues \cup {NoQueue}
  PROVE  [tcb EXCEPT !.wait_queue = v] \in TCB
BY DEF TCB

(* wake_tick, *)
LEMMA SetWakeTick ==
  ASSUME NEW tcb \in TCB, NEW v \in Nat PROVE [tcb EXCEPT !.wake_tick = v] \in TCB
BY DEF TCB

(* in_ready_queue, *)
LEMMA SetInReady ==
  ASSUME NEW tcb \in TCB, NEW v \in BOOLEAN PROVE [tcb EXCEPT !.in_ready_queue = v] \in TCB
BY DEF TCB

(* in_sleep_queue, *)
LEMMA SetInSleep ==
  ASSUME NEW tcb \in TCB, NEW v \in BOOLEAN PROVE [tcb EXCEPT !.in_sleep_queue = v] \in TCB
BY DEF TCB

(* and in_wait_queue. *)
LEMMA SetInWait ==
  ASSUME NEW tcb \in TCB, NEW v \in BOOLEAN PROVE [tcb EXCEPT !.in_wait_queue = v] \in TCB
BY DEF TCB

(* The constants the code writes to the fields are of their types. *)
LEMMA FieldValues ==
  /\ {"READY", "RUNNING", "BLOCKED"} \subseteq ThreadState
  /\ 0 \in 0 .. THREAD_QUANTUM_TICKS
  /\ "NONE" \in WaitReason /\ "WAIT_OK" \in WaitResult
  /\ NoQueue \in WaitQueues \cup {NoQueue} /\ TRUE \in BOOLEAN /\ FALSE \in BOOLEAN /\ 0 \in Nat
BY QuantumAssumption DEF ThreadState, WaitReason, WaitResult

(* The fields that the queues and the scheduler's state depend on. *)
SameWait(r, tcb) ==
  /\ r.wait_reason = tcb.wait_reason /\ r.wait_queue = tcb.wait_queue
  /\ r.in_sleep_queue = tcb.in_sleep_queue /\ r.in_wait_queue = tcb.in_wait_queue
SameThread(r, tcb) == r.trap_frame = tcb.trap_frame /\ r.user_task = tcb.user_task

(* The entry of the thread a switch dispatches. *)
LEMMA DispatchedEntry ==
  ASSUME NEW tcb \in TCB, NEW r, r = Dispatched(tcb)
  PROVE  /\ r \in TCB /\ SameWait(r, tcb) /\ SameThread(r, tcb)
         /\ r.state = "RUNNING" /\ r.in_ready_queue = FALSE
<1> DEFINE a == [tcb EXCEPT !.in_ready_queue = FALSE]
           b == [a EXCEPT !.state = "RUNNING"]
           c == [b EXCEPT !.quantum_ticks = 0]
<1>1. a \in TCB  BY FieldValues, SetInReady
<1> HIDE DEF a
<1>2. b \in TCB  BY <1>1, FieldValues, SetState
<1> HIDE DEF b
<1>3. c \in TCB  BY <1>2, FieldValues, SetQuantum
<1>4. r \in TCB  BY <1>3 DEF a, b, Dispatched
<1> QED  BY <1>4 DEF TCB, Dispatched, SameWait, SameThread

(* The entry of a running thread that is about to be requeued. *)
LEMMA ReadyEntry ==
  ASSUME NEW tcb \in TCB, NEW r, r = [tcb EXCEPT !.state = "READY"]
  PROVE  /\ r \in TCB /\ SameWait(r, tcb) /\ SameThread(r, tcb)
         /\ r.state = "READY" /\ r.in_ready_queue = tcb.in_ready_queue
<1>1. r \in TCB  BY FieldValues, SetState
<1> QED  BY <1>1 DEF TCB, SameWait, SameThread

(* The entry ready_enqueue() leaves. *)
LEMMA EnqueuedEntry ==
  ASSUME NEW tcb \in TCB, NEW r, r = ready_enqueue(tcb)
  PROVE  /\ r \in TCB /\ SameWait(r, tcb) /\ SameThread(r, tcb)
         /\ r.state = tcb.state /\ r.in_ready_queue = TRUE
<1>1. r \in TCB  BY FieldValues, SetInReady DEF ready_enqueue
<1> QED  BY <1>1 DEF TCB, ready_enqueue, SameWait, SameThread

(* The entry of a thread that gives up the processor to wait. *)
LEMMA BlockedEntry ==
  ASSUME NEW tcb \in TCB, NEW reason \in WaitReason, NEW r, r = Blocked(tcb, reason)
  PROVE  /\ r \in TCB /\ SameThread(r, tcb)
         /\ r.state = "BLOCKED" /\ r.wait_reason = reason /\ r.wait_queue = tcb.wait_queue
         /\ r.in_ready_queue = tcb.in_ready_queue /\ r.in_sleep_queue = tcb.in_sleep_queue
         /\ r.in_wait_queue = tcb.in_wait_queue
<1> DEFINE a == [tcb EXCEPT !.state = "BLOCKED"]
           b == [a EXCEPT !.wait_reason = reason]
           c == [b EXCEPT !.quantum_ticks = 0]
           d == [c EXCEPT !.wait_result = "WAIT_OK"]
<1>1. a \in TCB  BY FieldValues, SetState
<1> HIDE DEF a
<1>2. b \in TCB  BY <1>1, SetReason
<1> HIDE DEF b
<1>3. c \in TCB  BY <1>2, FieldValues, SetQuantum
<1> HIDE DEF c
<1>4. d \in TCB  BY <1>3, FieldValues, SetResult
<1>5. r \in TCB  BY <1>4 DEF a, b, c, Blocked
<1> QED  BY <1>5 DEF TCB, Blocked, SameThread

(* The entry sleep_enqueue() leaves. *)
LEMMA SleepEntry ==
  ASSUME NEW tcb \in TCB, NEW w, w \in Nat, NEW r, r = sleep_enqueue(tcb, w)
  PROVE  /\ r \in TCB /\ SameThread(r, tcb)
         /\ r.state = tcb.state /\ r.wait_reason = tcb.wait_reason /\ r.wait_queue = tcb.wait_queue
         /\ r.in_ready_queue = tcb.in_ready_queue /\ r.in_sleep_queue = TRUE
         /\ r.in_wait_queue = tcb.in_wait_queue
<1> DEFINE a == [tcb EXCEPT !.wake_tick = w]
           b == [a EXCEPT !.in_sleep_queue = TRUE]
<1>1. a \in TCB  BY SetWakeTick
<1> HIDE DEF a
<1>2. b \in TCB  BY <1>1, FieldValues, SetInSleep
<1>3. r \in TCB  BY <1>2 DEF a, sleep_enqueue
<1> QED  BY <1>3 DEF TCB, sleep_enqueue, SameThread

(* r is tcb after it has entered the wait queue q. *)
Waits(r, tcb, q) ==
  /\ SameThread(r, tcb)
  /\ r.state = tcb.state /\ r.wait_reason = tcb.wait_reason /\ r.wait_queue = q
  /\ r.in_ready_queue = tcb.in_ready_queue /\ r.in_sleep_queue = tcb.in_sleep_queue
  /\ r.in_wait_queue = TRUE

(* The entry wait_enqueue() leaves. *)
LEMMA WaitEntry ==
  ASSUME NEW tcb \in TCB, NEW q \in WaitQueues, NEW r, r = wait_enqueue(tcb, q)
  PROVE  r \in TCB /\ Waits(r, tcb, q)
<1> DEFINE a == [tcb EXCEPT !.wait_queue = q]
           b == [a EXCEPT !.in_wait_queue = TRUE]
<1>1. a \in TCB  BY SetWaitQueue
<1> HIDE DEF a
<1>2. b \in TCB  BY <1>1, FieldValues, SetInWait
<1>3. r \in TCB  BY <1>2 DEF a, wait_enqueue
<1> QED  BY <1>3 DEF TCB, wait_enqueue, SameThread, Waits

(* r is tcb after a wake-up. *)
Wakes(r, tcb) ==
  /\ SameThread(r, tcb)
  /\ r.state = "READY" /\ r.wait_reason = "NONE" /\ r.wait_queue = NoQueue
  /\ r.in_ready_queue = TRUE /\ r.in_sleep_queue = FALSE /\ r.in_wait_queue = FALSE

(* The entry wake_blocked_thread() leaves. *)
LEMMA WokenEntry ==
  ASSUME NEW tcb \in TCB, NEW result \in WaitResult, NEW r, r = Woken(tcb, result)
  PROVE  r \in TCB /\ Wakes(r, tcb)
<1> DEFINE a == [tcb EXCEPT !.state = "READY"]
           b == [a EXCEPT !.wait_reason = "NONE"]
           c == [b EXCEPT !.wake_tick = 0]
           d == [c EXCEPT !.wait_result = result]
           e == [d EXCEPT !.wait_queue = NoQueue]
           f == [e EXCEPT !.in_wait_queue = FALSE]
           g == [f EXCEPT !.in_sleep_queue = FALSE]
           h == [g EXCEPT !.in_ready_queue = TRUE]
<1>1. a \in TCB  BY FieldValues, SetState
<1> HIDE DEF a
<1>2. b \in TCB  BY <1>1, FieldValues, SetReason
<1> HIDE DEF b
<1>3. c \in TCB  BY <1>2, FieldValues, SetWakeTick
<1> HIDE DEF c
<1>4. d \in TCB  BY <1>3, SetResult
<1> HIDE DEF d
<1>5. e \in TCB  BY <1>4, FieldValues, SetWaitQueue
<1> HIDE DEF e
<1>6. f \in TCB  BY <1>5, FieldValues, SetInWait
<1> HIDE DEF f
<1>7. g \in TCB  BY <1>6, FieldValues, SetInSleep
<1> HIDE DEF g
<1>8. h \in TCB  BY <1>7, FieldValues, SetInReady
<1>9. r \in TCB  BY <1>8 DEF a, b, c, d, e, f, g, Woken
<1> QED  BY <1>9 DEF TCB, Woken, SameThread, Wakes

(* The entry of a new thread. *)
LEMMA InstalledEntry ==
  ASSUME NEW task \in UserTasks \cup {NoTask}
  PROVE  /\ Installed(task) \in TCB
         /\ Installed(task).state = "READY" /\ Installed(task).wait_reason = "NONE"
         /\ Installed(task).wait_queue = NoQueue /\ Installed(task).in_ready_queue = FALSE
         /\ Installed(task).in_sleep_queue = FALSE /\ Installed(task).in_wait_queue = FALSE
         /\ Installed(task).trap_frame = TRUE /\ Installed(task).user_task = task
BY QuantumAssumption DEF Installed, TCB, ThreadState, WaitReason, WaitResult

(* The entry of an unused slot and of a thread that has exited. *)
LEMMA ClearedEntry ==
  ASSUME NEW state \in ThreadState, NEW r, r = Cleared(state)
  PROVE  /\ r \in TCB
         /\ r.state = state /\ r.wait_reason = "NONE" /\ r.wait_queue = NoQueue
         /\ r.in_ready_queue = FALSE /\ r.in_sleep_queue = FALSE /\ r.in_wait_queue = FALSE
         /\ r.trap_frame = FALSE /\ r.user_task = NoTask
<1>1. r = [state |-> state, wait_reason |-> "NONE", wait_queue |-> NoQueue,
           trap_frame |-> FALSE, user_task |-> NoTask, quantum_ticks |-> 0,
           in_ready_queue |-> FALSE, in_sleep_queue |-> FALSE, in_wait_queue |-> FALSE,
           wake_tick |-> 0, wait_result |-> "WAIT_OK"]
  BY DEF Cleared, Installed
<1> QED  BY <1>1, QuantumAssumption DEF TCB, ThreadState, WaitReason, WaitResult

-----------------------------------------------------------------------------
(***************************************************************************)
(* Dispatching from a consistent table in which nobody runs: no PANIC, and *)
(* the chosen thread is the one that runs.                                 *)
(***************************************************************************)
LEMMA DispatchAgrees ==
  ASSUME NEW thr, NEW rq, NEW sq, NEW wq,
         Agree(thr, rq, sq, wq, NoTid), Dispatch(thr, rq)
  PROVE  /\ ~DispatchPanics(thr, rq)
         /\ Agree(threads', ready_queue', sq, wq, current_thread')
         /\ current_thread' \in Tid /\ reschedule_requested' = FALSE
         /\ \A t \in Tid : threads'[t].user_task = thr[t].user_task
<1> DEFINE next == pick_next_thread(rq)
<1>1. thr \in [Tid -> TCB] /\ rq \in Seq(RealTid)
  BY DEF Agree
<1>2. next \in Tid /\ (rq # <<>> => next \in RealTid /\ next \in ToSet(rq))
  BY <1>1, TidFacts, TailSet DEF pick_next_thread
<1>3. thr[next].state = "READY" /\ thr[next] \in TCB
  <2>1. CASE rq # <<>>
    BY <1>1, <1>2, <2>1 DEF Agree, EntryAgrees
  <2>2. CASE rq = <<>>
    <3>1. next = THREAD_NULL_TID
      BY <2>2 DEF pick_next_thread
    <3> QED  BY <1>1, <3>1, TidFacts DEF Agree, EntryState
  <2> QED  BY <2>1, <2>2
<1>4. ~DispatchPanics(thr, rq)
  BY <1>2, <1>3 DEF DispatchPanics, Agree, EntryAgrees, EntryState
<1>5. /\ threads' = [thr EXCEPT ![next] = Dispatched(thr[next])]
      /\ current_thread' = next /\ reschedule_requested' = FALSE
      /\ ready_queue' = IF rq = <<>> THEN rq ELSE Tail(rq)
  BY DEF Dispatch
<1> HIDE DEF next
<1>6. /\ threads'[next] = Dispatched(thr[next])
      /\ \A t \in Tid : t # next => threads'[t] = thr[t]
      /\ DOMAIN threads' = Tid
  BY <1>1, <1>2, <1>5
<1>7. /\ threads'[next] \in TCB /\ SameWait(threads'[next], thr[next])
      /\ SameThread(threads'[next], thr[next])
      /\ threads'[next].in_ready_queue = FALSE /\ threads'[next].state = "RUNNING"
  BY <1>3, <1>6, DispatchedEntry
<1>8. threads' \in [Tid -> TCB]
  <2>1. Dispatched(thr[next]) \in TCB
    BY <1>6, <1>7
  <2> QED  BY <1>1, <1>5, <2>1
<1>9. /\ ready_queue' \in Seq(RealTid) /\ HasNoDuplicates(ready_queue')
      /\ ToSet(ready_queue') = ToSet(rq) \ {next}
  <2>1. CASE rq # <<>>
    BY <1>1, <1>5, <2>1, TailSet DEF Agree, next, pick_next_thread
  <2>2. CASE rq = <<>>
    BY <1>1, <1>5, <2>2 DEF Agree, ToSet
  <2> QED  BY <2>1, <2>2
<1>10. ASSUME NEW t \in RealTid PROVE EntryAgrees(t, threads'[t], ready_queue', sq, wq)
  <2>1. CASE t = next
    BY <1>3, <1>7, <1>9, <2>1 DEF Agree, EntryAgrees, SameWait
  <2>2. CASE t # next
    BY <1>6, <1>9, <2>2, TidFacts DEF Agree, EntryAgrees
  <2> QED  BY <2>1, <2>2
<1>11. ASSUME NEW t \in Tid PROVE EntryState(t, threads'[t], next)
  <2>1. CASE t = next
    BY <1>2, <1>3, <1>7, <2>1 DEF Agree, EntryState, SameWait, SameThread
  <2>2. CASE t # next
    BY <1>6, <2>2, TidFacts DEF Agree, EntryState
  <2> QED  BY <2>1, <2>2
<1>12. Agree(threads', ready_queue', sq, wq, next)
  BY <1>8, <1>9, <1>10, <1>11 DEF Agree
<1>13. \A t \in Tid : threads'[t].user_task = thr[t].user_task
  BY <1>6, <1>7 DEF SameThread
<1> QED  BY <1>2, <1>4, <1>5, <1>12, <1>13

(***************************************************************************)
(* Every operation rewrites one entry t, as r, and moves t between the     *)
(* queues: from the queues rq, sq, wq to rq2, sq2, wq2.                    *)
(***************************************************************************)
Moves(t, r, rq, sq, wq, cur, rq2, sq2, wq2, cur2) ==
  /\ t \in Tid /\ r \in TCB
  /\ rq2 \in Seq(RealTid) /\ sq2 \in Seq(RealTid) /\ wq2 \in [WaitQueues -> Seq(RealTid)]
  /\ HasNoDuplicates(rq2) /\ HasNoDuplicates(sq2)
  /\ \A q \in WaitQueues : HasNoDuplicates(wq2[q])
  /\ ToSet(rq2) \ {t} = ToSet(rq) \ {t} /\ ToSet(sq2) \ {t} = ToSet(sq) \ {t}
  /\ \A q \in WaitQueues : ToSet(wq2[q]) \ {t} = ToSet(wq[q]) \ {t}
  /\ \A s \in Tid : s # t => (s = cur2 <=> s = cur)
  /\ t \in RealTid => EntryAgrees(t, r, rq2, sq2, wq2)
  /\ EntryState(t, r, cur2)

(* Such a move keeps the table and the queues in agreement. *)
LEMMA ReplaceAgrees ==
  ASSUME NEW thr, NEW rq, NEW sq, NEW wq, NEW cur, Agree(thr, rq, sq, wq, cur),
         NEW t, NEW r, NEW rq2, NEW sq2, NEW wq2, NEW cur2,
         Moves(t, r, rq, sq, wq, cur, rq2, sq2, wq2, cur2)
  PROVE  Agree([thr EXCEPT ![t] = r], rq2, sq2, wq2, cur2)
<1> DEFINE thr2 == [thr EXCEPT ![t] = r]
<1> USE DEF Moves
<1>1. /\ thr2 \in [Tid -> TCB] /\ thr2[t] = r
      /\ \A s \in Tid : s # t => thr2[s] = thr[s]
  BY DEF Agree
<1>2. ASSUME NEW s \in RealTid PROVE EntryAgrees(s, thr2[s], rq2, sq2, wq2)
  <2>1. CASE s = t
    BY <1>1, <2>1
  <2>2. CASE s # t
    <3>1. thr2[s] = thr[s] /\ EntryAgrees(s, thr[s], rq, sq, wq)
      BY <1>1, <2>2, TidFacts DEF Agree
    <3>2. /\ s \in ToSet(rq2) <=> s \in ToSet(rq)
          /\ s \in ToSet(sq2) <=> s \in ToSet(sq)
          /\ \A q \in WaitQueues : s \in ToSet(wq2[q]) <=> s \in ToSet(wq[q])
      BY <2>2
    <3> QED  BY <3>1, <3>2 DEF EntryAgrees
  <2> QED  BY <2>1, <2>2
<1>3. ASSUME NEW s \in Tid PROVE EntryState(s, thr2[s], cur2)
  <2>1. CASE s = t
    BY <1>1, <2>1
  <2>2. CASE s # t
    BY <1>1, <2>2 DEF Agree, EntryState
  <2> QED  BY <2>1, <2>2
<1> HIDE DEF thr2
<1>4. Agree(thr2, rq2, sq2, wq2, cur2)
  BY <1>1, <1>2, <1>3 DEF Agree
<1> QED  BY <1>4 DEF thr2

(* A change of the running thread's quantum alone. *)
LEMMA QuantumAgrees ==
  ASSUME Agree(threads, ready_queue, sleep_queue, wait_queues, current_thread),
         current_thread \in Tid, NEW v, v \in 0 .. THREAD_QUANTUM_TICKS,
         threads' = [threads EXCEPT ![current_thread].quantum_ticks = v]
  PROVE  /\ Agree(threads', ready_queue, sleep_queue, wait_queues, current_thread)
         /\ \A t \in Tid : threads'[t].user_task = threads[t].user_task
<1> DEFINE cur == current_thread
           r   == [threads[cur] EXCEPT !.quantum_ticks = v]
<1>1. /\ threads \in [Tid -> TCB] /\ threads[cur] \in TCB
      /\ ready_queue \in Seq(RealTid) /\ sleep_queue \in Seq(RealTid)
      /\ wait_queues \in [WaitQueues -> Seq(RealTid)]
      /\ HasNoDuplicates(ready_queue) /\ HasNoDuplicates(sleep_queue)
      /\ \A q \in WaitQueues : HasNoDuplicates(wait_queues[q])
  BY DEF Agree
<1>2. /\ r \in TCB /\ SameWait(r, threads[cur]) /\ SameThread(r, threads[cur])
      /\ r.state = threads[cur].state /\ r.in_ready_queue = threads[cur].in_ready_queue
  <2>1. r \in TCB
    BY <1>1, SetQuantum
  <2> QED  BY <1>1, <2>1 DEF TCB, SameWait, SameThread
<1>3. threads' = [threads EXCEPT ![cur] = r]
  BY <1>1
<1> HIDE DEF r
<1>4. cur \in RealTid => EntryAgrees(cur, r, ready_queue, sleep_queue, wait_queues)
  BY <1>2 DEF Agree, EntryAgrees, SameWait
<1>5. EntryState(cur, r, cur)
  BY <1>2 DEF Agree, EntryState, SameWait, SameThread
<1>6. Moves(cur, r, ready_queue, sleep_queue, wait_queues, cur,
            ready_queue, sleep_queue, wait_queues, cur)
  BY <1>1, <1>2, <1>4, <1>5 DEF Moves
<1>7. Agree([threads EXCEPT ![cur] = r], ready_queue, sleep_queue, wait_queues, cur)
  BY <1>6, ReplaceAgrees
<1>8. \A t \in Tid : threads'[t].user_task = threads[t].user_task
  BY <1>1, <1>2, <1>3 DEF SameThread
<1> QED  BY <1>3, <1>7, <1>8

(* The running thread's entry: it is in no queue. *)
LEMMA RunningEntry ==
  ASSUME NEW thr, NEW rq, NEW sq, NEW wq, NEW cur \in Tid, Agree(thr, rq, sq, wq, cur)
  PROVE  /\ thr[cur] \in TCB /\ thr[cur].state = "RUNNING" /\ thr[cur].trap_frame
         /\ thr[cur].wait_reason = "NONE"
         /\ cur \in RealTid =>
              /\ ~thr[cur].in_ready_queue /\ ~thr[cur].in_sleep_queue /\ ~thr[cur].in_wait_queue
              /\ thr[cur].wait_queue = NoQueue
              /\ cur \notin ToSet(rq) /\ cur \notin ToSet(sq)
              /\ \A q \in WaitQueues : cur \notin ToSet(wq[q])
<1>1. thr[cur] \in TCB /\ EntryState(cur, thr[cur], cur)
      /\ (cur \in RealTid => EntryAgrees(cur, thr[cur], rq, sq, wq))
  BY DEF Agree
<1>2. thr[cur].state = "RUNNING" /\ thr[cur].trap_frame /\ thr[cur].wait_reason = "NONE"
  BY <1>1 DEF EntryState
<1>3. CASE cur \in RealTid
  <2>1. /\ ~thr[cur].in_ready_queue /\ ~thr[cur].in_sleep_queue /\ ~thr[cur].in_wait_queue
        /\ cur \notin ToSet(rq) /\ cur \notin ToSet(sq)
    BY <1>1, <1>2, <1>3 DEF EntryAgrees, TimedReason, QueueReason
  <2>2. thr[cur].wait_queue = NoQueue
    BY <1>1, <1>3, <2>1 DEF EntryAgrees
  <2>3. \A q \in WaitQueues : cur \notin ToSet(wq[q])
    BY <1>1, <1>3, <2>2, QueueAssumption DEF EntryAgrees
  <2> QED  BY <1>1, <1>2, <2>1, <2>2, <2>3
<1> QED  BY <1>1, <1>2, <1>3

(* The queues of a consistent table, and nobody running is not a thread. *)
LEMMA AgreeTypes ==
  ASSUME NEW thr, NEW rq, NEW sq, NEW wq, NEW cur, Agree(thr, rq, sq, wq, cur)
  PROVE  /\ thr \in [Tid -> TCB]
         /\ rq \in Seq(RealTid) /\ sq \in Seq(RealTid) /\ wq \in [WaitQueues -> Seq(RealTid)]
         /\ HasNoDuplicates(rq) /\ HasNoDuplicates(sq)
         /\ \A q \in WaitQueues : HasNoDuplicates(wq[q])
BY DEF Agree

(***************************************************************************)
(* A switch that puts the running thread back at the tail of the queue.    *)
(***************************************************************************)
LEMMA SwitchAgrees ==
  ASSUME Agree(threads, ready_queue, sleep_queue, wait_queues, current_thread),
         current_thread \in Tid, SwitchRequeue
  PROVE  /\ panicked' = FALSE
         /\ Agree(threads', ready_queue', sleep_queue, wait_queues, current_thread')
         /\ current_thread' \in Tid /\ reschedule_requested' = FALSE
         /\ \A t \in Tid : threads'[t].user_task = threads[t].user_task
<1> DEFINE prev == current_thread
           tcb == [threads[prev] EXCEPT !.state = "READY"]
           r   == IF prev # THREAD_NULL_TID THEN ready_enqueue(tcb) ELSE tcb
           rq  == EnqueueBehind(ready_queue, prev)
           thr == [threads EXCEPT ![prev] = r]
<1>1. /\ threads \in [Tid -> TCB] /\ ready_queue \in Seq(RealTid)
      /\ sleep_queue \in Seq(RealTid) /\ wait_queues \in [WaitQueues -> Seq(RealTid)]
      /\ HasNoDuplicates(ready_queue) /\ HasNoDuplicates(sleep_queue)
      /\ \A q \in WaitQueues : HasNoDuplicates(wait_queues[q])
  BY AgreeTypes
<1>2. /\ threads[prev] \in TCB /\ threads[prev].state = "RUNNING" /\ threads[prev].trap_frame
      /\ threads[prev].wait_reason = "NONE"
      /\ prev \in RealTid =>
           /\ ~threads[prev].in_ready_queue /\ ~threads[prev].in_sleep_queue
           /\ ~threads[prev].in_wait_queue /\ threads[prev].wait_queue = NoQueue
           /\ prev \notin ToSet(ready_queue) /\ prev \notin ToSet(sleep_queue)
           /\ \A q \in WaitQueues : prev \notin ToSet(wait_queues[q])
  BY RunningEntry
<1>3. prev \in Tid /\ (prev # THREAD_NULL_TID <=> prev \in RealTid)
  BY TidFacts
<1>4. /\ tcb \in TCB /\ SameWait(tcb, threads[prev]) /\ SameThread(tcb, threads[prev])
      /\ tcb.state = "READY" /\ tcb.in_ready_queue = threads[prev].in_ready_queue
  BY <1>2, ReadyEntry
<1>5. SwitchRequeue =>
        /\ panicked' = \/ threads[prev].state # "RUNNING"
                       \/ prev # THREAD_NULL_TID /\ ReadyEnqueuePanics(tcb, prev)
                       \/ DispatchPanics(thr, rq)
        /\ Dispatch(thr, rq)
  BY DEF SwitchRequeue
<1> HIDE DEF tcb
<1>6. /\ ready_enqueue(tcb) \in TCB /\ SameWait(ready_enqueue(tcb), tcb)
      /\ SameThread(ready_enqueue(tcb), tcb)
      /\ ready_enqueue(tcb).state = tcb.state /\ ready_enqueue(tcb).in_ready_queue = TRUE
  BY <1>4, EnqueuedEntry
<1>7. /\ r \in TCB /\ SameWait(r, threads[prev]) /\ SameThread(r, threads[prev])
      /\ r.state = "READY" /\ (prev \in RealTid => r.in_ready_queue = TRUE)
  BY <1>3, <1>4, <1>6 DEF SameWait, SameThread
<1>8. /\ rq \in Seq(RealTid) /\ HasNoDuplicates(rq)
      /\ ToSet(rq) = IF prev \in RealTid THEN ToSet(ready_queue) \cup {prev} ELSE ToSet(ready_queue)
  <2>1. CASE prev \in RealTid
    BY <1>1, <1>2, <1>3, <2>1, AppendSet DEF EnqueueBehind
  <2>2. CASE prev \notin RealTid
    BY <1>1, <1>3, <2>2 DEF EnqueueBehind
  <2> QED  BY <2>1, <2>2
<1>9. ~(prev # THREAD_NULL_TID /\ ReadyEnqueuePanics(tcb, prev))
  <2> SUFFICES ASSUME prev \in RealTid PROVE ~ReadyEnqueuePanics(tcb, prev)
    BY <1>3
  <2>1. ~(Len(ready_queue) >= QueueCapacity)
    BY <1>1, <1>2, RoomForThread
  <2> QED  BY <1>2, <1>4, <2>1 DEF ReadyEnqueuePanics, SameWait
<1>10. Agree(thr, rq, sleep_queue, wait_queues, NoTid)
  <2> HIDE DEF r, rq
  <2>1. prev \in RealTid => EntryAgrees(prev, r, rq, sleep_queue, wait_queues)
    BY <1>2, <1>7, <1>8, QueueAssumption
    DEF EntryAgrees, SameWait, TimedReason, QueueReason
  <2>2. EntryState(prev, r, NoTid)
    BY <1>2, <1>3, <1>7, TidFacts DEF Agree, EntryState, SameWait, SameThread
  <2>3. ToSet(rq) \ {prev} = ToSet(ready_queue) \ {prev}
    BY <1>8
  <2>4. \A s \in Tid : s # prev => (s = NoTid <=> s = prev)
    BY TidFacts
  <2>5. Moves(prev, r, ready_queue, sleep_queue, wait_queues, prev,
              rq, sleep_queue, wait_queues, NoTid)
    BY <1>1, <1>3, <1>7, <1>8, <2>1, <2>2, <2>3, <2>4 DEF Moves
  <2> QED  BY <2>5, ReplaceAgrees
<1>11. \A t \in Tid : thr[t].user_task = threads[t].user_task
  BY <1>1, <1>3, <1>7 DEF SameThread
<1> HIDE DEF thr, rq
<1>12. Dispatch(thr, rq)
  BY <1>5
<1>13. /\ ~DispatchPanics(thr, rq)
       /\ Agree(threads', ready_queue', sleep_queue, wait_queues, current_thread')
       /\ current_thread' \in Tid /\ reschedule_requested' = FALSE
       /\ \A t \in Tid : threads'[t].user_task = thr[t].user_task
  BY <1>10, <1>12, DispatchAgrees
<1>14. panicked' = FALSE
  BY <1>2, <1>5, <1>9, <1>13
<1> QED  BY <1>11, <1>13, <1>14

(***************************************************************************)
(* An entry without a thread is in no queue; creation fills it.            *)
(***************************************************************************)
LEMMA CreateAgrees ==
  ASSUME Agree(threads, ready_queue, sleep_queue, wait_queues, current_thread),
         NEW tid \in FreeSlots, NEW task \in UserTasks \cup {NoTask}, CreateIn(tid, task)
  PROVE  /\ panicked' = FALSE
         /\ Agree(threads', ready_queue', sleep_queue', wait_queues', current_thread')
         /\ threads'[tid].user_task = task
         /\ \A t \in Tid \ {tid} : threads'[t].user_task = threads[t].user_task
<1> DEFINE r == ready_enqueue(Installed(task))
<1>1. /\ threads \in [Tid -> TCB] /\ ready_queue \in Seq(RealTid)
      /\ sleep_queue \in Seq(RealTid) /\ wait_queues \in [WaitQueues -> Seq(RealTid)]
      /\ HasNoDuplicates(ready_queue) /\ HasNoDuplicates(sleep_queue)
      /\ \A q \in WaitQueues : HasNoDuplicates(wait_queues[q])
  BY AgreeTypes
<1>2. tid \in RealTid /\ tid \in Tid /\ threads[tid].state \in {"UNUSED", "EXITED"}
  BY TidFacts DEF FreeSlots
<1>3. /\ EntryAgrees(tid, threads[tid], ready_queue, sleep_queue, wait_queues)
      /\ EntryState(tid, threads[tid], current_thread)
  BY <1>2 DEF Agree
<1>4. threads[tid].wait_reason = "NONE" /\ tid # current_thread
  BY <1>2, <1>3 DEF EntryState
<1>5. tid \notin ToSet(ready_queue) /\ tid \notin ToSet(sleep_queue)
  BY <1>2, <1>3, <1>4 DEF EntryAgrees, TimedReason
<1>6. \A q \in WaitQueues : tid \notin ToSet(wait_queues[q])
  <2>1. threads[tid].wait_queue = NoQueue
    BY <1>3, <1>4 DEF EntryAgrees, QueueReason
  <2> QED  BY <1>3, <2>1, QueueAssumption DEF EntryAgrees
<1>7. /\ Installed(task) \in TCB
      /\ Installed(task).state = "READY" /\ Installed(task).wait_reason = "NONE"
      /\ Installed(task).wait_queue = NoQueue /\ Installed(task).in_ready_queue = FALSE
      /\ Installed(task).in_sleep_queue = FALSE /\ Installed(task).in_wait_queue = FALSE
      /\ Installed(task).trap_frame = TRUE /\ Installed(task).user_task = task
  BY InstalledEntry
<1>8. /\ r \in TCB /\ SameWait(r, Installed(task)) /\ SameThread(r, Installed(task))
      /\ r.state = "READY" /\ r.in_ready_queue = TRUE
  BY <1>7, EnqueuedEntry
<1>9. /\ panicked' = ReadyEnqueuePanics(Installed(task), tid)
      /\ threads' = [threads EXCEPT ![tid] = r]
      /\ ready_queue' = Append(ready_queue, tid)
      /\ sleep_queue' = sleep_queue /\ wait_queues' = wait_queues
      /\ current_thread' = current_thread
  BY DEF CreateIn
<1> HIDE DEF r
<1>10. ~(Len(ready_queue) >= QueueCapacity)
  BY <1>1, <1>2, <1>5, RoomForThread
<1>11. panicked' = FALSE
  BY <1>2, <1>7, <1>9, <1>10 DEF ReadyEnqueuePanics
<1>12. /\ ready_queue' \in Seq(RealTid) /\ HasNoDuplicates(ready_queue')
       /\ ToSet(ready_queue') = ToSet(ready_queue) \cup {tid}
  BY <1>1, <1>2, <1>5, <1>9, AppendSet
<1>13. EntryAgrees(tid, r, ready_queue', sleep_queue, wait_queues)
  BY <1>5, <1>6, <1>7, <1>8, <1>12, QueueAssumption
  DEF EntryAgrees, SameWait, TimedReason, QueueReason
<1>14. EntryState(tid, r, current_thread)
  BY <1>2, <1>4, <1>7, <1>8, TidFacts DEF EntryState, SameWait, SameThread
<1>15. Moves(tid, r, ready_queue, sleep_queue, wait_queues, current_thread,
             ready_queue', sleep_queue, wait_queues, current_thread)
  BY <1>1, <1>2, <1>8, <1>12, <1>13, <1>14 DEF Moves
<1>16. Agree([threads EXCEPT ![tid] = r], ready_queue', sleep_queue, wait_queues, current_thread)
  BY <1>15, ReplaceAgrees
<1>17. Agree(threads', ready_queue', sleep_queue', wait_queues', current_thread')
  BY <1>9, <1>16
<1>18. /\ threads'[tid].user_task = task
       /\ \A t \in Tid \ {tid} : threads'[t].user_task = threads[t].user_task
  BY <1>1, <1>2, <1>7, <1>8, <1>9 DEF SameThread
<1> QED  BY <1>11, <1>17, <1>18

(***************************************************************************)
(* The running thread leaves the processor with the entry r: to sleep, to  *)
(* wait or to exit.                                                        *)
(***************************************************************************)
LEMMA LeaveAgrees ==
  ASSUME Agree(threads, ready_queue, sleep_queue, wait_queues, current_thread),
         CurrentIsReal, NEW r \in TCB, NEW sq \in Seq(RealTid),
         NEW wq \in [WaitQueues -> Seq(RealTid)],
         HasNoDuplicates(sq), \A q \in WaitQueues : HasNoDuplicates(wq[q]),
         ToSet(sq) \ {current_thread} = ToSet(sleep_queue),
         \A q \in WaitQueues : ToSet(wq[q]) \ {current_thread} = ToSet(wait_queues[q]),
         EntryAgrees(current_thread, r, ready_queue, sq, wq),
         r.state \notin {"RUNNING", "READY"},
         r.state = "BLOCKED" <=> r.wait_reason # "NONE",
         r.trap_frame <=> r.state \notin {"UNUSED", "EXITED"},
         Dispatch([threads EXCEPT ![current_thread] = r], ready_queue)
  PROVE  /\ ~DispatchPanics([threads EXCEPT ![current_thread] = r], ready_queue)
         /\ Agree(threads', ready_queue', sq, wq, current_thread')
         /\ current_thread' \in Tid /\ reschedule_requested' = FALSE
         /\ threads'[current_thread].user_task = r.user_task
         /\ \A t \in Tid \ {current_thread} : threads'[t].user_task = threads[t].user_task
<1> DEFINE thr == [threads EXCEPT ![current_thread] = r]
<1>1. /\ threads \in [Tid -> TCB] /\ ready_queue \in Seq(RealTid)
      /\ HasNoDuplicates(ready_queue)
  BY AgreeTypes
<1>2. /\ current_thread \in RealTid /\ current_thread \in Tid
      /\ current_thread # THREAD_NULL_TID /\ NoTid \notin Tid
  BY TidFacts DEF CurrentIsReal
<1>3. /\ current_thread \notin ToSet(sleep_queue)
      /\ \A q \in WaitQueues : current_thread \notin ToSet(wait_queues[q])
  BY <1>2, RunningEntry
<1>4. EntryState(current_thread, r, NoTid)
  BY <1>2 DEF EntryState
<1>5. Moves(current_thread, r, ready_queue, sleep_queue, wait_queues, current_thread,
            ready_queue, sq, wq, NoTid)
  BY <1>1, <1>2, <1>3, <1>4 DEF Moves
<1>6. Agree(thr, ready_queue, sq, wq, NoTid)
  BY <1>5, ReplaceAgrees
<1>7. /\ thr[current_thread].user_task = r.user_task
      /\ \A t \in Tid \ {current_thread} : thr[t].user_task = threads[t].user_task
  BY <1>1, <1>2
<1>8. Dispatch(thr, ready_queue)
  OBVIOUS
<1> HIDE DEF thr
<1>9. /\ ~DispatchPanics(thr, ready_queue)
      /\ Agree(threads', ready_queue', sq, wq, current_thread')
      /\ current_thread' \in Tid /\ reschedule_requested' = FALSE
      /\ \A t \in Tid : threads'[t].user_task = thr[t].user_task
  BY <1>6, <1>8, DispatchAgrees
<1>10. /\ threads'[current_thread].user_task = r.user_task
       /\ \A t \in Tid \ {current_thread} : threads'[t].user_task = threads[t].user_task
  BY <1>2, <1>7, <1>9
<1> QED  BY <1>9, <1>10 DEF thr

-----------------------------------------------------------------------------
(***************************************************************************)
(* The inductive invariant.  QueuesAgree is not inductive alone: the null  *)
(* task must stay runnable (in Agree), and a task must belong to at most   *)
(* one thread, or an exit would destroy the task of another thread.        *)
(***************************************************************************)
OneThreadPerTask ==
  \A s, t \in Tid : threads[s].user_task # NoTask /\ threads[s].user_task = threads[t].user_task
                      => s = t

RestTyped ==
  /\ current_thread \in Tid \cup {NoTid}
  /\ reschedule_requested \in BOOLEAN
  /\ timer_ticks \in 0 .. MaxTick
  /\ trap \in TrapPhase /\ waking \in WaitQueues \cup {NoQueue}
  /\ user_tasks \in [UserTasks -> {"UNUSED", "READY", "EXITED", "DESTROYED"}]
  /\ due \in [Tid -> Nat]

SchedInv ==
  /\ Agree(threads, ready_queue, sleep_queue, wait_queues, current_thread)
  /\ RestTyped
  /\ UserTaskAlive /\ OneThreadPerTask
  /\ panicked = FALSE

(* Steps that change no user task and no user_task pointer keep tasks alive. *)
LEMMA TasksKept ==
  ASSUME UserTaskAlive, OneThreadPerTask, user_tasks' = user_tasks,
         \A t \in Tid : threads'[t].user_task = threads[t].user_task
  PROVE  UserTaskAlive' /\ OneThreadPerTask'
BY DEF UserTaskAlive, OneThreadPerTask

(* Deadlines are numbers, wrapped or not. *)
LEMMA DeadlineTypes ==
  ASSUME timer_ticks \in 0 .. MaxTick, NEW ticks \in TickArgs
  PROVE  WakeTick(ticks) \in Nat /\ timer_ticks + ticks \in Nat
<1>1. TICK_MOD \in Nat \ {0} /\ timer_ticks \in Nat /\ ticks \in Nat
  BY TickAssumption
<1>2. \A a \in Nat, b \in Nat \ {0} : a % b \in Nat
  OBVIOUS
<1> QED  BY <1>1, <1>2 DEF WakeTick

(* thread_sleep() with a positive tick count. *)
LEMMA SleepForPreserves ==
  ASSUME SchedInv, CurrentIsReal, NEW ticks \in TickArgs, SleepFor(ticks)
  PROVE  SchedInv'
<1> DEFINE prev == current_thread
           w    == WakeTick(ticks)
           tcb  == Blocked(threads[prev], "SLEEP")
           r    == sleep_enqueue(tcb, w)
           thr  == [threads EXCEPT ![prev] = r]
<1>1. /\ Agree(threads, ready_queue, sleep_queue, wait_queues, prev)
      /\ threads \in [Tid -> TCB] /\ sleep_queue \in Seq(RealTid)
      /\ wait_queues \in [WaitQueues -> Seq(RealTid)]
      /\ HasNoDuplicates(sleep_queue)
      /\ \A q \in WaitQueues : HasNoDuplicates(wait_queues[q])
  BY AgreeTypes DEF SchedInv
<1>2. prev \in RealTid /\ prev \in Tid
  BY TidFacts DEF CurrentIsReal
<1>3. w \in Nat /\ timer_ticks + ticks \in Nat
  BY DeadlineTypes DEF SchedInv, RestTyped
<1>4. /\ threads[prev] \in TCB /\ threads[prev].state = "RUNNING" /\ threads[prev].trap_frame
      /\ ~threads[prev].in_ready_queue /\ ~threads[prev].in_sleep_queue
      /\ ~threads[prev].in_wait_queue /\ threads[prev].wait_queue = NoQueue
      /\ prev \notin ToSet(ready_queue) /\ prev \notin ToSet(sleep_queue)
      /\ \A q \in WaitQueues : prev \notin ToSet(wait_queues[q])
  BY <1>1, <1>2, RunningEntry
<1>5. /\ panicked' = \/ threads[prev].state # "RUNNING"
                     \/ SleepEnqueuePanics(tcb)
                     \/ DispatchPanics(thr, ready_queue)
      /\ sleep_queue' = sleep_queue_insert(sleep_queue, prev, w)
      /\ Dispatch(thr, ready_queue)
      /\ due' = [due EXCEPT ![prev] = timer_ticks + ticks]
      /\ UNCHANGED <<wait_queues, timer_ticks, trap, waking, user_tasks>>
  BY DEF SleepFor
<1>6. /\ tcb \in TCB /\ SameThread(tcb, threads[prev])
      /\ tcb.state = "BLOCKED" /\ tcb.wait_reason = "SLEEP" /\ tcb.wait_queue = NoQueue
      /\ ~tcb.in_ready_queue /\ ~tcb.in_sleep_queue /\ ~tcb.in_wait_queue
  <2>1. "SLEEP" \in WaitReason
    BY DEF WaitReason
  <2> QED  BY <1>4, <2>1, BlockedEntry
<1>7. r = sleep_enqueue(tcb, w)
  OBVIOUS
<1> HIDE DEF tcb, r, w
<1>8. /\ r \in TCB /\ SameThread(r, threads[prev])
      /\ r.state = "BLOCKED" /\ r.wait_reason = "SLEEP" /\ r.wait_queue = NoQueue
      /\ ~r.in_ready_queue /\ r.in_sleep_queue /\ ~r.in_wait_queue
  <2>1. /\ r \in TCB /\ SameThread(r, tcb)
        /\ r.state = tcb.state /\ r.wait_reason = tcb.wait_reason /\ r.wait_queue = tcb.wait_queue
        /\ r.in_ready_queue = tcb.in_ready_queue /\ r.in_sleep_queue = TRUE
        /\ r.in_wait_queue = tcb.in_wait_queue
    <3>1. tcb \in TCB
      BY <1>6
    <3>2. w \in Nat
      BY <1>3
    <3> HIDE DEF prev, thr
    <3> QED  BY <3>1, <3>2, <1>7, SleepEntry
  <2> QED  BY <1>6, <2>1 DEF SameThread
<1>9. /\ sleep_queue' \in Seq(RealTid) /\ HasNoDuplicates(sleep_queue')
      /\ ToSet(sleep_queue') = ToSet(sleep_queue) \cup {prev}
  BY <1>1, <1>2, <1>3, <1>4, <1>5, InsertSet
<1>10. EntryAgrees(prev, r, ready_queue, sleep_queue', wait_queues)
  BY <1>4, <1>8, <1>9, QueueAssumption DEF EntryAgrees, TimedReason, QueueReason
<1>11. /\ ~DispatchPanics(thr, ready_queue)
       /\ Agree(threads', ready_queue', sleep_queue', wait_queues, current_thread')
       /\ current_thread' \in Tid /\ reschedule_requested' = FALSE
       /\ threads'[prev].user_task = r.user_task
       /\ \A t \in Tid \ {prev} : threads'[t].user_task = threads[t].user_task
  <2>1. ToSet(sleep_queue') \ {prev} = ToSet(sleep_queue)
    BY <1>4, <1>9
  <2>2. \A q \in WaitQueues : ToSet(wait_queues[q]) \ {prev} = ToSet(wait_queues[q])
    BY <1>4
  <2>3. /\ r.state \notin {"RUNNING", "READY"}
        /\ r.state = "BLOCKED" <=> r.wait_reason # "NONE"
        /\ r.trap_frame <=> r.state \notin {"UNUSED", "EXITED"}
    BY <1>4, <1>8 DEF SameThread
  <2> QED  BY <1>1, <1>5, <1>8, <1>9, <1>10, <2>1, <2>2, <2>3, LeaveAgrees
<1>12. ~(Len(sleep_queue) >= QueueCapacity)
  BY <1>1, <1>2, <1>4, RoomForThread
<1>13. panicked' = FALSE
  BY <1>4, <1>5, <1>6, <1>11, <1>12 DEF SleepEnqueuePanics
<1>14. \A t \in Tid : threads'[t].user_task = threads[t].user_task
  BY <1>8, <1>11 DEF SameThread
<1>15. UserTaskAlive' /\ OneThreadPerTask'
  BY <1>5, <1>14, TasksKept DEF SchedInv
<1>16. RestTyped'
  BY <1>2, <1>3, <1>5, <1>11 DEF SchedInv, RestTyped
<1>17. Agree(threads', ready_queue', sleep_queue', wait_queues', current_thread')
  BY <1>5, <1>11
<1> QED  BY <1>13, <1>15, <1>16, <1>17 DEF SchedInv

(* An untimed wait (ticks = 0), and a timed one. *)
LEMMA BlockPreserves ==
  ASSUME SchedInv, CurrentIsReal, NEW q \in WaitQueues, NEW ticks, ticks \in TickArgs \cup {0},
         block_current(q, ticks)
  PROVE  SchedInv'
<1> DEFINE prev   == current_thread
           timed  == ticks # 0
           reason == IF timed THEN "QUEUE_TIMEOUT" ELSE "QUEUE"
           w      == WakeTick(ticks)
           tcb    == Blocked(threads[prev], reason)
           tcb1   == wait_enqueue(tcb, q)
           r      == IF timed THEN sleep_enqueue(tcb1, w) ELSE tcb1
           thr    == [threads EXCEPT ![prev] = r]
<1>1. /\ Agree(threads, ready_queue, sleep_queue, wait_queues, prev)
      /\ threads \in [Tid -> TCB] /\ sleep_queue \in Seq(RealTid)
      /\ wait_queues \in [WaitQueues -> Seq(RealTid)]
      /\ HasNoDuplicates(sleep_queue)
      /\ \A p \in WaitQueues : HasNoDuplicates(wait_queues[p])
  BY AgreeTypes DEF SchedInv
<1>2. prev \in RealTid /\ prev \in Tid
  BY TidFacts DEF CurrentIsReal
<1>3. timed => w \in Nat /\ timer_ticks + ticks \in Nat
  BY DeadlineTypes DEF SchedInv, RestTyped
<1>4. /\ threads[prev] \in TCB /\ threads[prev].state = "RUNNING" /\ threads[prev].trap_frame
      /\ ~threads[prev].in_ready_queue /\ ~threads[prev].in_sleep_queue
      /\ ~threads[prev].in_wait_queue /\ threads[prev].wait_queue = NoQueue
      /\ prev \notin ToSet(ready_queue) /\ prev \notin ToSet(sleep_queue)
      /\ \A p \in WaitQueues : prev \notin ToSet(wait_queues[p])
  BY <1>1, <1>2, RunningEntry
<1>5. /\ panicked' = \/ threads[prev].state # "RUNNING"
                     \/ WaitEnqueuePanics(tcb, q)
                     \/ timed /\ SleepEnqueuePanics(tcb1)
                     \/ DispatchPanics(thr, ready_queue)
      /\ wait_queues' = [wait_queues EXCEPT ![q] = Append(wait_queues[q], prev)]
      /\ sleep_queue' = IF timed THEN sleep_queue_insert(sleep_queue, prev, w) ELSE sleep_queue
      /\ Dispatch(thr, ready_queue)
      /\ due' = IF timed THEN [due EXCEPT ![prev] = timer_ticks + ticks] ELSE due
      /\ UNCHANGED <<timer_ticks, trap, waking, user_tasks>>
  BY DEF block_current
<1>6. reason \in {"QUEUE", "QUEUE_TIMEOUT"} /\ reason \in WaitReason /\ reason # "NONE"
      /\ (reason \in TimedReason <=> timed)
  BY DEF WaitReason, TimedReason
<1>7. /\ tcb = Blocked(threads[prev], reason) /\ tcb1 = wait_enqueue(tcb, q)
      /\ r = IF timed THEN sleep_enqueue(tcb1, w) ELSE tcb1
  OBVIOUS
<1> HIDE DEF tcb, tcb1, r, w, thr, reason, timed
<1>8. /\ tcb \in TCB /\ SameThread(tcb, threads[prev])
      /\ tcb.state = "BLOCKED" /\ tcb.wait_reason = reason
      /\ tcb.wait_queue = threads[prev].wait_queue
      /\ tcb.in_ready_queue = threads[prev].in_ready_queue
      /\ tcb.in_sleep_queue = threads[prev].in_sleep_queue
      /\ tcb.in_wait_queue = threads[prev].in_wait_queue
  <2>1. threads[prev] \in TCB  BY <1>4
  <2>2. reason \in WaitReason  BY <1>6
  <2> QED  BY <1>7, <2>1, <2>2, BlockedEntry
<1>9. /\ tcb1 \in TCB /\ SameThread(tcb1, tcb)
      /\ tcb1.state = tcb.state /\ tcb1.wait_reason = tcb.wait_reason /\ tcb1.wait_queue = q
      /\ tcb1.in_ready_queue = tcb.in_ready_queue /\ tcb1.in_sleep_queue = tcb.in_sleep_queue
      /\ tcb1.in_wait_queue = TRUE
  <2>1. tcb \in TCB  BY <1>8
  <2>2. tcb1 = wait_enqueue(tcb, q)  BY <1>7
  <2>3. tcb1 \in TCB /\ Waits(tcb1, tcb, q)
    BY <2>1, <2>2, WaitEntry
  <2> QED  BY <2>3 DEF Waits
<1>10. /\ r \in TCB /\ SameThread(r, tcb1)
       /\ r.state = tcb1.state /\ r.wait_reason = tcb1.wait_reason /\ r.wait_queue = q
       /\ r.in_ready_queue = tcb1.in_ready_queue
       /\ r.in_sleep_queue = IF timed THEN TRUE ELSE tcb1.in_sleep_queue
       /\ r.in_wait_queue = TRUE
  <2>1. CASE timed
    <3>1. tcb1 \in TCB /\ w \in Nat /\ r = sleep_enqueue(tcb1, w)
      BY <1>3, <1>7, <1>9, <2>1
    <3>2. /\ r \in TCB /\ SameThread(r, tcb1)
          /\ r.state = tcb1.state /\ r.wait_reason = tcb1.wait_reason
          /\ r.wait_queue = tcb1.wait_queue
          /\ r.in_ready_queue = tcb1.in_ready_queue /\ r.in_sleep_queue = TRUE
          /\ r.in_wait_queue = tcb1.in_wait_queue
      BY <3>1, SleepEntry
    <3> QED  BY <1>9, <2>1, <3>2
  <2>2. CASE ~timed
    BY <1>7, <1>9, <2>2 DEF SameThread
  <2> QED  BY <2>1, <2>2
<1>11. /\ SameThread(r, threads[prev]) /\ r.state = "BLOCKED" /\ r.wait_reason = reason
       /\ ~r.in_ready_queue /\ (r.in_sleep_queue <=> timed) /\ r.in_wait_queue
  <2>1. ~tcb.in_ready_queue /\ ~tcb.in_sleep_queue
    BY <1>4, <1>8
  <2>2. ~tcb1.in_ready_queue /\ ~tcb1.in_sleep_queue
    BY <1>9, <2>1
  <2>3. ~r.in_ready_queue /\ (r.in_sleep_queue <=> timed) /\ r.in_wait_queue
    BY <1>10, <2>2
  <2> QED  BY <1>8, <1>9, <1>10, <2>3 DEF SameThread
<1>12. /\ sleep_queue' \in Seq(RealTid) /\ HasNoDuplicates(sleep_queue')
       /\ ToSet(sleep_queue') = IF timed THEN ToSet(sleep_queue) \cup {prev} ELSE ToSet(sleep_queue)
  <2>1. CASE timed
    <3>1. w \in Nat  BY <1>3, <2>1
    <3> QED  BY <1>1, <1>2, <1>4, <1>5, <2>1, <3>1, InsertSet
  <2>2. CASE ~timed
    BY <1>1, <1>5, <2>2
  <2> QED  BY <2>1, <2>2
<1>13. /\ wait_queues' \in [WaitQueues -> Seq(RealTid)]
       /\ \A p \in WaitQueues : HasNoDuplicates(wait_queues'[p])
       /\ ToSet(wait_queues'[q]) = ToSet(wait_queues[q]) \cup {prev}
       /\ \A p \in WaitQueues : p # q => wait_queues'[p] = wait_queues[p]
  <2>1. /\ Append(wait_queues[q], prev) \in Seq(RealTid)
        /\ ToSet(Append(wait_queues[q], prev)) = ToSet(wait_queues[q]) \cup {prev}
        /\ HasNoDuplicates(Append(wait_queues[q], prev))
    BY <1>1, <1>2, <1>4, AppendSet
  <2> QED  BY <1>1, <1>5, <2>1
<1>14. EntryAgrees(prev, r, ready_queue, sleep_queue', wait_queues')
  <2>1. prev \in ToSet(sleep_queue') <=> timed
    BY <1>4, <1>12
  <2>2. \A p \in WaitQueues : prev \in ToSet(wait_queues'[p]) <=> p = q
    BY <1>4, <1>13
  <2> QED  BY <1>4, <1>6, <1>10, <1>11, <2>1, <2>2, QueueAssumption DEF EntryAgrees, QueueReason
<1>15. /\ ~DispatchPanics(thr, ready_queue)
       /\ Agree(threads', ready_queue', sleep_queue', wait_queues', current_thread')
       /\ current_thread' \in Tid /\ reschedule_requested' = FALSE
       /\ threads'[prev].user_task = r.user_task
       /\ \A t \in Tid \ {prev} : threads'[t].user_task = threads[t].user_task
  <2>1. ToSet(sleep_queue') \ {prev} = ToSet(sleep_queue)
    BY <1>4, <1>12
  <2>2. \A p \in WaitQueues : ToSet(wait_queues'[p]) \ {prev} = ToSet(wait_queues[p])
    BY <1>4, <1>13
  <2>3. /\ r.state \notin {"RUNNING", "READY"}
        /\ r.state = "BLOCKED" <=> r.wait_reason # "NONE"
        /\ r.trap_frame <=> r.state \notin {"UNUSED", "EXITED"}
    BY <1>4, <1>6, <1>11 DEF SameThread
  <2>4. r \in TCB /\ Dispatch([threads EXCEPT ![prev] = r], ready_queue)
    BY <1>5, <1>10 DEF thr
  <2> QED  BY <1>1, <1>12, <1>13, <1>14, <2>1, <2>2, <2>3, <2>4, LeaveAgrees DEF thr
<1>16. ~(Len(sleep_queue) >= QueueCapacity) /\ ~(Len(wait_queues[q]) >= QueueCapacity)
  BY <1>1, <1>2, <1>4, RoomForThread
<1>17. ~WaitEnqueuePanics(tcb, q) /\ ~SleepEnqueuePanics(tcb1)
  <2>1. ~tcb.in_ready_queue /\ ~tcb.in_sleep_queue /\ ~tcb.in_wait_queue /\ tcb.wait_queue = NoQueue
    BY <1>4, <1>8
  <2>2. ~tcb1.in_ready_queue /\ ~tcb1.in_sleep_queue
    BY <1>9, <2>1
  <2> QED  BY <1>16, <2>1, <2>2 DEF WaitEnqueuePanics, SleepEnqueuePanics
<1>18. panicked' = FALSE
  BY <1>4, <1>5, <1>15, <1>17
<1>19. \A t \in Tid : threads'[t].user_task = threads[t].user_task
  BY <1>11, <1>15 DEF SameThread
<1>20. UserTaskAlive' /\ OneThreadPerTask'
  BY <1>5, <1>19, TasksKept DEF SchedInv
<1>21. RestTyped'
  BY <1>2, <1>3, <1>5, <1>15 DEF SchedInv, RestTyped
<1> QED  BY <1>15, <1>18, <1>20, <1>21 DEF SchedInv

(* thread_exit(): nobody else refers to the destroyed user task. *)
LEMMA ExitPreserves ==
  ASSUME SchedInv, thread_exit(ExitFrameSPP)
  PROVE  SchedInv'
<1> DEFINE prev == current_thread
           task == threads[prev].user_task
           r    == Cleared("EXITED")
           thr  == [threads EXCEPT ![prev] = r]
<1>1. /\ Agree(threads, ready_queue, sleep_queue, wait_queues, prev)
      /\ threads \in [Tid -> TCB] /\ sleep_queue \in Seq(RealTid)
      /\ wait_queues \in [WaitQueues -> Seq(RealTid)]
      /\ HasNoDuplicates(sleep_queue)
      /\ \A q \in WaitQueues : HasNoDuplicates(wait_queues[q])
  BY AgreeTypes DEF SchedInv
<1>2. CurrentIsReal /\ prev \in RealTid /\ prev \in Tid
  BY TidFacts DEF CurrentIsReal, thread_exit
<1>3. /\ threads[prev] \in TCB /\ threads[prev].state = "RUNNING"
      /\ prev \notin ToSet(ready_queue) /\ prev \notin ToSet(sleep_queue)
      /\ \A q \in WaitQueues : prev \notin ToSet(wait_queues[q])
  BY <1>1, <1>2, RunningEntry
<1>4. /\ panicked' = \/ threads[prev].state # "RUNNING"
                     \/ task # NoTask /\ user_tasks[task] # "READY"
                     \/ DispatchPanics(thr, ready_queue)
      /\ Dispatch(thr, ready_queue)
      /\ user_tasks' = IF task = NoTask THEN user_tasks
                       ELSE [user_tasks EXCEPT ![task] = "DESTROYED"]
      /\ UNCHANGED <<sleep_queue, wait_queues, timer_ticks, trap, waking, due>>
  <2> DEFINE exited == [user_tasks EXCEPT ![task] = "EXITED"]
  <2>1. task # NoTask => task \in DOMAIN user_tasks
    BY <1>3 DEF TCB, SchedInv, RestTyped
  <2>2. task # NoTask => /\ exited[task] = "EXITED" /\ ~ExitFrameSPP
                         /\ [exited EXCEPT ![task] = "DESTROYED"] =
                              [user_tasks EXCEPT ![task] = "DESTROYED"]
    BY <2>1 DEF ExitFrameSPP
  <2>3. /\ panicked' = \/ threads[prev].state # "RUNNING"
                       \/ task # NoTask /\ (ExitFrameSPP \/ user_tasks[task] # "READY")
                       \/ task # NoTask /\ exited[task] # "EXITED"
                       \/ DispatchPanics(thr, ready_queue)
        /\ Dispatch(thr, ready_queue)
        /\ user_tasks' = IF task = NoTask THEN user_tasks
                         ELSE [exited EXCEPT ![task] = "DESTROYED"]
        /\ UNCHANGED <<sleep_queue, wait_queues, timer_ticks, trap, waking, due>>
    BY DEF thread_exit
  <2> HIDE DEF exited, thr
  <2> QED  BY <2>2, <2>3
<1>5. r = Cleared("EXITED") /\ "EXITED" \in ThreadState
  BY DEF ThreadState
<1> HIDE DEF r, thr
<1>6. /\ r \in TCB
      /\ r.state = "EXITED" /\ r.wait_reason = "NONE" /\ r.wait_queue = NoQueue
      /\ r.in_ready_queue = FALSE /\ r.in_sleep_queue = FALSE /\ r.in_wait_queue = FALSE
      /\ r.trap_frame = FALSE /\ r.user_task = NoTask
  BY <1>5, ClearedEntry
<1>7. EntryAgrees(prev, r, ready_queue, sleep_queue, wait_queues)
  BY <1>3, <1>6, QueueAssumption DEF EntryAgrees, TimedReason, QueueReason
<1>8. /\ ~DispatchPanics(thr, ready_queue)
      /\ Agree(threads', ready_queue', sleep_queue, wait_queues, current_thread')
      /\ current_thread' \in Tid /\ reschedule_requested' = FALSE
      /\ threads'[prev].user_task = r.user_task
      /\ \A t \in Tid \ {prev} : threads'[t].user_task = threads[t].user_task
  <2>1. ToSet(sleep_queue) \ {prev} = ToSet(sleep_queue)
    BY <1>3
  <2>2. \A q \in WaitQueues : ToSet(wait_queues[q]) \ {prev} = ToSet(wait_queues[q])
    BY <1>3
  <2>3. /\ r.state \notin {"RUNNING", "READY"}
        /\ r.state = "BLOCKED" <=> r.wait_reason # "NONE"
        /\ r.trap_frame <=> r.state \notin {"UNUSED", "EXITED"}
    BY <1>6
  <2>4. r \in TCB /\ Dispatch([threads EXCEPT ![prev] = r], ready_queue)
    BY <1>4, <1>6 DEF thr
  <2> QED  BY <1>1, <1>2, <1>7, <2>1, <2>2, <2>3, <2>4, LeaveAgrees DEF thr
<1>9. task # NoTask => user_tasks[task] = "READY"
  BY <1>2 DEF SchedInv, UserTaskAlive
<1>10. panicked' = FALSE
  BY <1>3, <1>4, <1>8, <1>9
<1>11. threads'[prev].user_task = NoTask
  BY <1>6, <1>8
<1>12. OneThreadPerTask'
  <2>1. ASSUME NEW s \in Tid, NEW t \in Tid, threads'[s].user_task # NoTask,
               threads'[s].user_task = threads'[t].user_task
        PROVE  s = t
    <3>1. s # prev /\ t # prev
      BY <1>11, <2>1
    <3>2. threads'[s].user_task = threads[s].user_task /\ threads'[t].user_task = threads[t].user_task
      BY <1>8, <3>1
    <3> QED  BY <2>1, <3>2 DEF SchedInv, OneThreadPerTask
  <2> QED  BY <2>1 DEF OneThreadPerTask
<1>13. UserTaskAlive'
  <2>1. ASSUME NEW t \in Tid, threads'[t].user_task # NoTask
        PROVE  user_tasks'[threads'[t].user_task] = "READY"
    <3>1. t # prev /\ threads'[t].user_task = threads[t].user_task
      BY <1>8, <1>11, <2>1
    <3>2. user_tasks[threads[t].user_task] = "READY"
      BY <2>1, <3>1 DEF SchedInv, UserTaskAlive
    <3>3. threads[t].user_task # task
      BY <1>2, <2>1, <3>1 DEF SchedInv, OneThreadPerTask
    <3>4. user_tasks'[threads[t].user_task] = user_tasks[threads[t].user_task]
      <4>1. threads[t].user_task \in UserTasks
        BY <1>1, <2>1, <3>1 DEF TCB
      <4> QED  BY <1>4, <3>3, <4>1 DEF SchedInv, RestTyped
    <3> QED  BY <3>1, <3>2, <3>4
  <2> QED  BY <2>1 DEF UserTaskAlive
<1>14. RestTyped'
  BY <1>4, <1>8 DEF SchedInv, RestTyped
<1>15. Agree(threads', ready_queue', sleep_queue', wait_queues', current_thread')
  BY <1>4, <1>8
<1> QED  BY <1>10, <1>12, <1>13, <1>14, <1>15 DEF SchedInv

(***************************************************************************)
(* A wake-up takes a blocked thread out of every queue it is in.           *)
(***************************************************************************)
LEMMA WakeNeverPanics ==
  ASSUME SchedInv, NEW tid \in RealTid, threads[tid].state = "BLOCKED"
  PROVE  ~WakePanics(tid)
<1>1. /\ ready_queue \in Seq(RealTid) /\ HasNoDuplicates(ready_queue)
      /\ EntryAgrees(tid, threads[tid], ready_queue, sleep_queue, wait_queues)
      /\ threads[tid] \in TCB
  BY TidFacts DEF SchedInv, Agree
<1>2. tid \notin ToSet(ready_queue) /\ ~threads[tid].in_ready_queue
  BY <1>1 DEF EntryAgrees
<1>3. ~(Len(ready_queue) >= QueueCapacity)
  BY <1>1, <1>2, RoomForThread
<1>4. threads[tid].in_sleep_queue => tid \in ToSet(sleep_queue)
  BY <1>1 DEF EntryAgrees
<1>5. threads[tid].in_wait_queue => /\ threads[tid].wait_queue # NoQueue
                                    /\ tid \in ToSet(wait_queues[threads[tid].wait_queue])
  <2>1. threads[tid].wait_queue \in WaitQueues \cup {NoQueue}
    BY <1>1 DEF TCB
  <2> QED  BY <1>1, <2>1 DEF EntryAgrees
<1> QED  BY <1>2, <1>3, <1>4, <1>5 DEF WakePanics

(* wake_blocked_thread() keeps the invariant. *)
LEMMA WakePreserves ==
  ASSUME SchedInv, NEW tid \in RealTid, threads[tid].state = "BLOCKED",
         NEW result \in WaitResult, wake_blocked_thread(tid, result),
         panicked' = FALSE, UNCHANGED <<reschedule_requested, trap>>,
         waking' = waking
  PROVE  SchedInv'
<1> DEFINE tcb == threads[tid]
           r   == Woken(tcb, result)
<1>1. /\ Agree(threads, ready_queue, sleep_queue, wait_queues, current_thread)
      /\ threads \in [Tid -> TCB] /\ ready_queue \in Seq(RealTid) /\ sleep_queue \in Seq(RealTid)
      /\ wait_queues \in [WaitQueues -> Seq(RealTid)]
      /\ HasNoDuplicates(ready_queue) /\ HasNoDuplicates(sleep_queue)
      /\ \A q \in WaitQueues : HasNoDuplicates(wait_queues[q])
  BY AgreeTypes DEF SchedInv
<1>2. tid \in Tid /\ tid # THREAD_NULL_TID /\ tcb \in TCB
  BY <1>1, TidFacts
<1>3. /\ EntryAgrees(tid, tcb, ready_queue, sleep_queue, wait_queues)
      /\ EntryState(tid, tcb, current_thread)
  BY <1>1, <1>2 DEF Agree
<1>4. tid # current_thread /\ tid \notin ToSet(ready_queue) /\ tcb.trap_frame
  BY <1>3 DEF EntryAgrees, EntryState
<1>5. /\ sleep_queue' = CancelTimeout(tid)
      /\ wait_queues' = IF tcb.in_wait_queue
                        THEN [wait_queues EXCEPT ![tcb.wait_queue] =
                                queue_remove(wait_queues[tcb.wait_queue], tid)]
                        ELSE wait_queues
      /\ threads' = [threads EXCEPT ![tid] = r]
      /\ ready_queue' = Append(ready_queue, tid)
      /\ due' = [due EXCEPT ![tid] = 0]
      /\ UNCHANGED <<current_thread, timer_ticks, user_tasks>>
  BY DEF wake_blocked_thread
<1>6. r = Woken(tcb, result)
  OBVIOUS
<1> HIDE DEF r
<1>7. /\ r \in TCB /\ SameThread(r, tcb)
      /\ r.state = "READY" /\ r.wait_reason = "NONE" /\ r.wait_queue = NoQueue
      /\ r.in_ready_queue = TRUE /\ r.in_sleep_queue = FALSE /\ r.in_wait_queue = FALSE
  <2>1. r \in TCB /\ Wakes(r, tcb)
    BY <1>2, <1>6, WokenEntry
  <2> QED  BY <2>1 DEF Wakes
<1>8. /\ ready_queue' \in Seq(RealTid) /\ HasNoDuplicates(ready_queue')
      /\ ToSet(ready_queue') = ToSet(ready_queue) \cup {tid}
  BY <1>1, <1>4, <1>5, AppendSet
<1>9. /\ sleep_queue' \in Seq(RealTid) /\ HasNoDuplicates(sleep_queue')
      /\ ToSet(sleep_queue') = ToSet(sleep_queue) \ {tid}
  <2>1. CASE tcb.in_sleep_queue
    BY <1>1, <1>5, <2>1, RemoveSet DEF CancelTimeout
  <2>2. CASE ~tcb.in_sleep_queue
    BY <1>1, <1>3, <1>5, <2>2 DEF CancelTimeout, EntryAgrees
  <2> QED  BY <2>1, <2>2
<1>10. /\ wait_queues' \in [WaitQueues -> Seq(RealTid)]
       /\ \A q \in WaitQueues : /\ HasNoDuplicates(wait_queues'[q])
                                /\ ToSet(wait_queues'[q]) = ToSet(wait_queues[q]) \ {tid}
  <2>1. CASE tcb.in_wait_queue
    <3> DEFINE p == tcb.wait_queue
               s == queue_remove(wait_queues[p], tid)
    <3>1. p \in WaitQueues
      BY <1>2, <1>3, <2>1 DEF EntryAgrees, TCB
    <3>2. s \in Seq(RealTid) /\ HasNoDuplicates(s) /\ ToSet(s) = ToSet(wait_queues[p]) \ {tid}
      BY <1>1, <3>1, RemoveSet
    <3>3. \A q \in WaitQueues : q # p => tid \notin ToSet(wait_queues[q])
      BY <1>3 DEF EntryAgrees
    <3>4. wait_queues' = [wait_queues EXCEPT ![p] = s]
      BY <1>5, <2>1
    <3> HIDE DEF p, s
    <3> QED  BY <1>1, <3>1, <3>2, <3>3, <3>4
  <2>2. CASE ~tcb.in_wait_queue
    <3>1. \A q \in WaitQueues : tid \notin ToSet(wait_queues[q])
      BY <1>3, <2>2, QueueAssumption DEF EntryAgrees
    <3> QED  BY <1>1, <1>5, <2>2, <3>1
  <2> QED  BY <2>1, <2>2
<1>11. EntryAgrees(tid, r, ready_queue', sleep_queue', wait_queues')
  BY <1>7, <1>8, <1>9, <1>10, QueueAssumption DEF EntryAgrees, TimedReason, QueueReason
<1>12. EntryState(tid, r, current_thread)
  BY <1>2, <1>4, <1>7 DEF EntryState, SameThread
<1>13. Moves(tid, r, ready_queue, sleep_queue, wait_queues, current_thread,
             ready_queue', sleep_queue', wait_queues', current_thread)
  BY <1>2, <1>7, <1>8, <1>9, <1>10, <1>11, <1>12 DEF Moves
<1>14. Agree([threads EXCEPT ![tid] = r], ready_queue', sleep_queue', wait_queues', current_thread)
  BY <1>1, <1>13, ReplaceAgrees
<1>15. Agree(threads', ready_queue', sleep_queue', wait_queues', current_thread')
  BY <1>5, <1>14
<1>16. \A t \in Tid : threads'[t].user_task = threads[t].user_task
  BY <1>1, <1>2, <1>5, <1>7 DEF SameThread
<1>17. UserTaskAlive' /\ OneThreadPerTask'
  BY <1>5, <1>16, TasksKept DEF SchedInv
<1>18. RestTyped'
  BY <1>2, <1>5 DEF SchedInv, RestTyped
<1> QED  BY <1>15, <1>17, <1>18 DEF SchedInv

-----------------------------------------------------------------------------
(* thread_init() establishes the invariant. *)
LEMMA InitHolds == Init => SchedInv
<1> SUFFICES ASSUME Init PROVE SchedInv
  OBVIOUS
<1>1. NoTask \in UserTasks \cup {NoTask} /\ "UNUSED" \in ThreadState
  BY DEF ThreadState
<1>2. /\ Installed(NoTask) \in TCB
      /\ Installed(NoTask).state = "READY" /\ Installed(NoTask).wait_reason = "NONE"
      /\ Installed(NoTask).trap_frame = TRUE /\ Installed(NoTask).user_task = NoTask
  BY <1>1, InstalledEntry
<1> DEFINE free == Cleared("UNUSED")
<1>3. free = Cleared("UNUSED")
  OBVIOUS
<1> HIDE DEF free
<1>4. /\ free \in TCB
      /\ free.state = "UNUSED" /\ free.wait_reason = "NONE" /\ free.wait_queue = NoQueue
      /\ free.in_ready_queue = FALSE /\ free.in_sleep_queue = FALSE /\ free.in_wait_queue = FALSE
      /\ free.trap_frame = FALSE /\ free.user_task = NoTask
  BY <1>1, <1>3, ClearedEntry
<1>5. /\ threads \in [Tid -> TCB] /\ threads[THREAD_NULL_TID] = Installed(NoTask)
      /\ \A t \in RealTid : threads[t] = free
      /\ \A t \in Tid : threads[t] = Installed(NoTask) \/ threads[t] = free
      /\ \A t \in Tid : threads[t].user_task = NoTask
  BY <1>2, <1>3, <1>4, TidFacts DEF Init
<1>6. /\ ready_queue = <<>> /\ sleep_queue = <<>> /\ current_thread = NoTid
      /\ wait_queues = [q \in WaitQueues |-> <<>>]
  BY DEF Init
<1>7. ToSet(<<>>) = {} /\ HasNoDuplicates(<<>>) /\ <<>> \in Seq(RealTid)
  BY DEF ToSet, HasNoDuplicates
<1>8. ASSUME NEW t \in RealTid
      PROVE  EntryAgrees(t, threads[t], ready_queue, sleep_queue, wait_queues)
  BY <1>4, <1>5, <1>6, <1>7, QueueAssumption DEF EntryAgrees, TimedReason, QueueReason
<1>9. ASSUME NEW t \in Tid PROVE EntryState(t, threads[t], current_thread)
  <2>1. t # current_thread
    BY <1>6, TidFacts
  <2>2. CASE t = THREAD_NULL_TID
    BY <1>2, <1>5, <2>1, <2>2 DEF EntryState
  <2>3. CASE t \in RealTid
    BY <1>4, <1>5, <2>1, <2>3, TidFacts DEF EntryState
  <2> QED  BY <2>2, <2>3, TidFacts
<1>10. Agree(threads, ready_queue, sleep_queue, wait_queues, current_thread)
  BY <1>5, <1>6, <1>7, <1>8, <1>9 DEF Agree
<1>11. RestTyped
  <2>1. 0 \in 0 .. MaxTick
    BY TickAssumption
  <2>2. user_tasks \in [UserTasks -> {"UNUSED", "READY", "EXITED", "DESTROYED"}]
    BY DEF Init
  <2>3. due \in [Tid -> Nat]
    BY DEF Init
  <2> QED  BY <1>6, <2>1, <2>2, <2>3 DEF Init, RestTyped, TrapPhase
<1>12. UserTaskAlive /\ OneThreadPerTask
  BY <1>5 DEF UserTaskAlive, OneThreadPerTask
<1> QED  BY <1>10, <1>11, <1>12 DEF Init, SchedInv

(* thread_create(). *)
LEMMA CreatePreserves ==
  ASSUME SchedInv, thread_create
  PROVE  SchedInv'
<1>1. PICK tid \in FreeSlots : CreateIn(tid, NoTask)
  BY DEF thread_create
<1>2. /\ panicked' = FALSE
      /\ Agree(threads', ready_queue', sleep_queue', wait_queues', current_thread')
      /\ threads'[tid].user_task = NoTask
      /\ \A t \in Tid \ {tid} : threads'[t].user_task = threads[t].user_task
  BY <1>1, CreateAgrees DEF SchedInv
<1>3. /\ user_tasks' = user_tasks
      /\ UNCHANGED <<current_thread, reschedule_requested, timer_ticks, trap, waking, due>>
  BY <1>1 DEF thread_create, CreateIn
<1>4. UserTaskAlive' /\ OneThreadPerTask'
  BY <1>2, <1>3 DEF SchedInv, UserTaskAlive, OneThreadPerTask
<1>5. RestTyped'
  BY <1>3 DEF SchedInv, RestTyped
<1> QED  BY <1>2, <1>4, <1>5 DEF SchedInv

(* thread_create_user(): the task is ready and has no thread yet. *)
LEMMA CreateUserPreserves ==
  ASSUME SchedInv, NEW u \in UserTasks, HasNoThread(u), thread_create_user(u)
  PROVE  SchedInv'
<1>1. PICK tid \in FreeSlots : CreateIn(tid, u)
  BY DEF thread_create_user
<1>2. /\ panicked' = FALSE
      /\ Agree(threads', ready_queue', sleep_queue', wait_queues', current_thread')
      /\ threads'[tid].user_task = u
      /\ \A t \in Tid \ {tid} : threads'[t].user_task = threads[t].user_task
  BY <1>1, CreateAgrees DEF SchedInv
<1>3. /\ user_tasks' = user_tasks /\ user_tasks[u] = "READY"
      /\ \A t \in Tid : threads[t].user_task # u
      /\ UNCHANGED <<current_thread, reschedule_requested, timer_ticks, trap, waking, due>>
  BY <1>1 DEF thread_create_user, CreateIn, HasNoThread
<1>4. UserTaskAlive' /\ OneThreadPerTask'
  BY <1>2, <1>3 DEF SchedInv, UserTaskAlive, OneThreadPerTask
<1>5. RestTyped'
  BY <1>3 DEF SchedInv, RestTyped
<1> QED  BY <1>2, <1>4, <1>5 DEF SchedInv

(* A task in use is not initialised again. *)
LEMMA TaskInitPreserves ==
  ASSUME SchedInv, NEW u \in UserTasks, user_task_init(u)
  PROVE  SchedInv'
<1>1. /\ user_tasks' = [user_tasks EXCEPT ![u] = "READY"]
      /\ UNCHANGED <<threads, ready_queue, sleep_queue, wait_queues, current_thread,
                     reschedule_requested, timer_ticks, trap, waking, panicked, due>>
  BY DEF user_task_init, sched
<1>2. RestTyped'
  BY <1>1 DEF SchedInv, RestTyped
<1>3. UserTaskAlive'
  BY <1>1 DEF SchedInv, RestTyped, UserTaskAlive
<1>4. OneThreadPerTask'
  BY <1>1 DEF SchedInv, OneThreadPerTask
<1> QED  BY <1>1, <1>2, <1>3, <1>4 DEF SchedInv

(* thread_start(): the first dispatch. *)
LEMMA StartPreserves ==
  ASSUME SchedInv, thread_start
  PROVE  SchedInv'
<1>1. /\ Agree(threads, ready_queue, sleep_queue, wait_queues, NoTid)
      /\ Dispatch(threads, ready_queue)
      /\ panicked' = DispatchPanics(threads, ready_queue)
      /\ UNCHANGED <<sleep_queue, wait_queues, timer_ticks, trap, waking, user_tasks, due>>
  BY DEF thread_start, threads_started, SchedInv
<1>2. /\ ~DispatchPanics(threads, ready_queue)
      /\ Agree(threads', ready_queue', sleep_queue, wait_queues, current_thread')
      /\ current_thread' \in Tid /\ reschedule_requested' = FALSE
      /\ \A t \in Tid : threads'[t].user_task = threads[t].user_task
  BY <1>1, DispatchAgrees
<1>3. panicked' = FALSE
  BY <1>1, <1>2
<1>4. UserTaskAlive' /\ OneThreadPerTask'
  BY <1>1, <1>2, TasksKept DEF SchedInv
<1>5. RestTyped'
  BY <1>1, <1>2 DEF SchedInv, RestTyped
<1>6. Agree(threads', ready_queue', sleep_queue', wait_queues', current_thread')
  BY <1>1, <1>2
<1> QED  BY <1>3, <1>4, <1>5, <1>6 DEF SchedInv

(* A switch that requeues the running thread keeps the invariant. *)
LEMMA SwitchPreserves ==
  ASSUME SchedInv, current_thread \in Tid, SwitchRequeue, trap' \in TrapPhase,
         UNCHANGED <<sleep_queue, wait_queues, timer_ticks, waking, user_tasks, due>>
  PROVE  SchedInv'
<1>1. /\ panicked' = FALSE
      /\ Agree(threads', ready_queue', sleep_queue, wait_queues, current_thread')
      /\ current_thread' \in Tid /\ reschedule_requested' = FALSE
      /\ \A t \in Tid : threads'[t].user_task = threads[t].user_task
  BY SwitchAgrees DEF SchedInv
<1>2. UserTaskAlive' /\ OneThreadPerTask'
  BY <1>1, TasksKept DEF SchedInv
<1>3. RestTyped'
  BY <1>1 DEF SchedInv, RestTyped
<1>4. Agree(threads', ready_queue', sleep_queue', wait_queues', current_thread')
  BY <1>1
<1> QED  BY <1>1, <1>2, <1>3, <1>4 DEF SchedInv

(* Only the quantum of the current thread, and who asks for a switch, change. *)
LEMMA QuantumPreserves ==
  ASSUME SchedInv, current_thread \in Tid, NEW v, v \in 0 .. THREAD_QUANTUM_TICKS,
         threads' = [threads EXCEPT ![current_thread].quantum_ticks = v],
         trap' \in TrapPhase, reschedule_requested' \in BOOLEAN,
         UNCHANGED <<ready_queue, sleep_queue, wait_queues, current_thread, timer_ticks,
                     waking, user_tasks, panicked, due>>
  PROVE  SchedInv'
<1>1. /\ Agree(threads', ready_queue, sleep_queue, wait_queues, current_thread)
      /\ \A t \in Tid : threads'[t].user_task = threads[t].user_task
  <2>1. Agree(threads, ready_queue, sleep_queue, wait_queues, current_thread)
    BY DEF SchedInv
  <2> QED  BY <2>1, QuantumAgrees
<1>2. UserTaskAlive' /\ OneThreadPerTask'
  BY <1>1, TasksKept DEF SchedInv
<1>3. RestTyped'
  BY DEF SchedInv, RestTyped
<1>4. Agree(threads', ready_queue', sleep_queue', wait_queues', current_thread')
  BY <1>1
<1> QED  BY <1>2, <1>3, <1>4 DEF SchedInv

(* thread_yield(), with and without a ready thread. *)
LEMMA YieldPreserves ==
  ASSUME SchedInv, thread_yield
  PROVE  SchedInv'
<1>1. /\ current_thread \in Tid /\ trap' \in TrapPhase
      /\ UNCHANGED <<sleep_queue, wait_queues, timer_ticks, waking, user_tasks, due>>
  BY DEF thread_yield, threads_started, SchedInv, RestTyped
<1>2. CASE ready_queue = <<>>
  <2>1. /\ threads' = [threads EXCEPT ![current_thread].quantum_ticks = 0]
        /\ UNCHANGED <<ready_queue, current_thread, reschedule_requested, panicked>>
    BY <1>2 DEF thread_yield
  <2>2. reschedule_requested' \in BOOLEAN
    BY <2>1 DEF SchedInv, RestTyped
  <2> QED  BY <1>1, <2>1, <2>2, FieldValues, QuantumPreserves
<1>3. CASE ready_queue # <<>>
  BY <1>1, <1>3, SwitchPreserves DEF thread_yield
<1> QED  BY <1>2, <1>3

(* An event wake-up: the head of a wait queue is blocked on it. *)
LEMMA WakeHeadPreserves ==
  ASSUME SchedInv, NEW q, q \in WaitQueues, wait_queues[q] # <<>>, WakeHead(q),
         UNCHANGED <<reschedule_requested, trap>>, waking' = waking
  PROVE  SchedInv'
<1> DEFINE tid == Oldest(q)
<1>1. wait_queues[q] \in Seq(RealTid)
  BY DEF SchedInv, Agree
<1>2. tid \in RealTid /\ tid \in ToSet(wait_queues[q])
  BY <1>1, TailSet DEF Oldest
<1>3. /\ panicked' = \/ tid \notin RealTid
                     \/ ~threads[tid].in_wait_queue
                     \/ threads[tid].wait_queue # q
                     \/ WakePanics(tid)
      /\ wake_blocked_thread(tid, "WAIT_OK")
  BY DEF WakeHead
<1> HIDE DEF tid
<1>4. /\ EntryAgrees(tid, threads[tid], ready_queue, sleep_queue, wait_queues)
      /\ EntryState(tid, threads[tid], current_thread)
  BY <1>2, TidFacts DEF SchedInv, Agree
<1>5. threads[tid].wait_queue = q /\ threads[tid].in_wait_queue
  BY <1>2, <1>4, QueueAssumption DEF EntryAgrees
<1>6. threads[tid].state = "BLOCKED"
  BY <1>4, <1>5 DEF EntryAgrees, EntryState, QueueReason
<1>7. ~WakePanics(tid)
  BY <1>2, <1>6, WakeNeverPanics
<1>8. panicked' = FALSE
  BY <1>2, <1>3, <1>5, <1>7
<1>9. "WAIT_OK" \in WaitResult
  BY DEF WaitResult
<1> QED  BY <1>2, <1>3, <1>6, <1>8, <1>9, WakePreserves

(* The head of the sleep queue is a timed waiter: sleep_dequeue_expired()   *)
(* does not PANIC, whether its deadline has passed or not.                  *)
LEMMA SleepHeadSound == ASSUME SchedInv PROVE ~SleepHeadPanics
<1> SUFFICES ASSUME sleep_queue # <<>> PROVE ~SleepHeadPanics
  BY DEF SleepHeadPanics
<1> DEFINE tid == Head(sleep_queue)
           tcb == threads[tid]
<1>1. tid \in RealTid /\ tid \in ToSet(sleep_queue)
  BY TailSet DEF SchedInv, Agree
<1> HIDE DEF tid
<1>2. /\ EntryAgrees(tid, tcb, ready_queue, sleep_queue, wait_queues)
      /\ EntryState(tid, tcb, current_thread)
  BY <1>1, TidFacts DEF SchedInv, Agree
<1>3. tcb.in_sleep_queue /\ tcb.wait_reason \in {"SLEEP", "QUEUE_TIMEOUT"}
  BY <1>1, <1>2 DEF EntryAgrees, TimedReason
<1>4. tcb.state = "BLOCKED"
  BY <1>2, <1>3 DEF EntryState
<1> QED  BY <1>3, <1>4 DEF SleepHeadPanics, tid

(* A timeout: the head of the sleep queue is a timed waiter. *)
LEMMA WakeSleeperPreserves ==
  ASSUME SchedInv, WakeSleeper
  PROVE  SchedInv'
<1> DEFINE tid    == Head(sleep_queue)
           tcb    == threads[tid]
           result == IF tcb.wait_reason = "QUEUE_TIMEOUT" THEN "WAIT_TIMEOUT" ELSE "WAIT_OK"
<1>1. sleep_queue \in Seq(RealTid) /\ sleep_queue # <<>>
  BY DEF SchedInv, Agree, WakeSleeper, HeadExpired
<1>2. tid \in RealTid /\ tid \in ToSet(sleep_queue)
  BY <1>1, TailSet
<1>3. /\ panicked' = \/ SleepHeadPanics
                     \/ tcb.wait_reason = "QUEUE_TIMEOUT" /\ ~tcb.in_wait_queue
                     \/ WakePanics(tid)
      /\ wake_blocked_thread(tid, result)
      /\ UNCHANGED <<reschedule_requested, trap>> /\ waking' = waking
  BY DEF WakeSleeper
<1>4. result \in WaitResult
  BY DEF WaitResult
<1> HIDE DEF tid, result
<1>5. /\ EntryAgrees(tid, tcb, ready_queue, sleep_queue, wait_queues)
      /\ EntryState(tid, tcb, current_thread)
  BY <1>2, TidFacts DEF SchedInv, Agree
<1>6. tcb.wait_reason \in {"SLEEP", "QUEUE_TIMEOUT"}
  BY <1>2, <1>5 DEF EntryAgrees, TimedReason
<1>7. tcb.wait_reason = "QUEUE_TIMEOUT" => tcb.in_wait_queue
  BY <1>5 DEF EntryAgrees, QueueReason
<1>8. tcb.state = "BLOCKED"
  BY <1>5, <1>6 DEF EntryState
<1>9. ~WakePanics(tid)
  BY <1>2, <1>8, WakeNeverPanics
<1>10. panicked' = FALSE
  BY <1>3, <1>7, <1>9, SleepHeadSound
<1> QED  BY <1>2, <1>3, <1>4, <1>8, <1>10, WakePreserves

(* The end of thread_on_timer_tick(). *)
LEMMA ChargeTickPreserves ==
  ASSUME SchedInv, ChargeTick
  PROVE  SchedInv'
<1> DEFINE old == threads[current_thread].quantum_ticks
           v   == IF old < THREAD_QUANTUM_TICKS THEN old + 1 ELSE old
           counted == [threads EXCEPT ![current_thread].quantum_ticks = v]
<1>1. /\ trap' = "preempt" /\ "preempt" \in TrapPhase
      /\ UNCHANGED <<ready_queue, sleep_queue, wait_queues, current_thread, timer_ticks,
                     waking, user_tasks, panicked, due>>
  BY SleepHeadSound DEF ChargeTick, TrapPhase, SchedInv, SleepHeadPanics
<1>2. CASE CurrentIsReal /\ threads[current_thread].state = "RUNNING"
  <2>1. current_thread \in Tid
    BY <1>2, TidFacts DEF CurrentIsReal
  <2>2. v \in 0 .. THREAD_QUANTUM_TICKS
    <3>1. old \in 0 .. THREAD_QUANTUM_TICKS
      <4>1. threads[current_thread] \in TCB
        BY <2>1 DEF SchedInv, Agree
      <4> QED  BY <4>1 DEF TCB
    <3> QED  BY <3>1, QuantumAssumption
  <2>3. /\ threads' = counted
        /\ reschedule_requested' = (reschedule_requested \/ QuantumUsed(counted[current_thread]))
    BY <1>2 DEF ChargeTick
  <2>4. reschedule_requested' \in BOOLEAN
    BY <2>3 DEF QuantumUsed
  <2> HIDE DEF v
  <2> QED  BY <1>1, <2>1, <2>2, <2>3, <2>4, QuantumPreserves
<1>3. CASE ~(CurrentIsReal /\ threads[current_thread].state = "RUNNING")
  <2>1. UNCHANGED <<threads, reschedule_requested>>
    BY <1>3 DEF ChargeTick
  <2>2. RestTyped'
    BY <1>1, <2>1 DEF SchedInv, RestTyped
  <2>3. UserTaskAlive' /\ OneThreadPerTask'
    BY <1>1, <2>1, TasksKept DEF SchedInv
  <2> QED  BY <1>1, <2>1, <2>2, <2>3 DEF SchedInv
<1> QED  BY <1>2, <1>3

(* thread_maybe_preempt_from_trap(). *)
LEMMA MaybePreemptPreserves ==
  ASSUME SchedInv, MaybePreempt
  PROVE  SchedInv'
<1>1. /\ trap' \in TrapPhase
      /\ UNCHANGED <<sleep_queue, wait_queues, timer_ticks, waking, user_tasks, due>>
  BY DEF MaybePreempt, TrapPhase
<1>2. CASE current_is_preemptible /\ SwitchRequeue
  <2>1. current_thread \in Tid
    BY <1>2, TidFacts DEF current_is_preemptible, CurrentIsReal
  <2> QED  BY <1>1, <1>2, <2>1, SwitchPreserves
<1>3. CASE CurrentIsReal /\ RestartQuantum /\ UNCHANGED <<ready_queue, current_thread, panicked>>
  <2>1. /\ current_thread \in Tid /\ reschedule_requested' \in BOOLEAN
        /\ threads' = [threads EXCEPT ![current_thread].quantum_ticks = 0]
    BY <1>3, TidFacts DEF CurrentIsReal, RestartQuantum
  <2> QED  BY <1>1, <1>3, <2>1, FieldValues, QuantumPreserves
<1>4. CASE UNCHANGED <<threads, ready_queue, current_thread, reschedule_requested, panicked>>
  <2>1. RestTyped'
    BY <1>1, <1>4 DEF SchedInv, RestTyped
  <2>2. UserTaskAlive' /\ OneThreadPerTask'
    BY <1>1, <1>4, TasksKept DEF SchedInv
  <2> QED  BY <1>1, <1>4, <2>1, <2>2 DEF SchedInv
<1> QED  BY <1>2, <1>3, <1>4 DEF MaybePreempt

(* The steps that touch neither the thread table nor a queue. *)
LEMMA QuietPreserves ==
  ASSUME SchedInv, UNCHANGED <<threads, ready_queue, sleep_queue, wait_queues, current_thread,
                               reschedule_requested, user_tasks, panicked, due>>,
         timer_ticks' \in 0 .. MaxTick, trap' \in TrapPhase, waking' \in WaitQueues \cup {NoQueue}
  PROVE  SchedInv'
<1>1. RestTyped'
  BY DEF SchedInv, RestTyped
<1>2. UserTaskAlive' /\ OneThreadPerTask'
  BY TasksKept DEF SchedInv
<1> QED  BY <1>1, <1>2 DEF SchedInv

(* Every call of the running thread keeps the invariant. *)
LEMMA ThreadOpPreserves ==
  ASSUME SchedInv, ThreadOp
  PROVE  SchedInv'
<1>1. CASE thread_create
  BY <1>1, CreatePreserves
<1>2. CASE thread_start
  BY <1>2, StartPreserves
<1>3. CASE thread_yield
  BY <1>3, YieldPreserves
<1>4. CASE thread_exit(ExitFrameSPP)
  BY <1>4, ExitPreserves
<1>5. ASSUME NEW u \in UserTasks, user_task_init(u) PROVE SchedInv'
  BY <1>5, TaskInitPreserves
<1>6. ASSUME NEW u \in UserTasks, HasNoThread(u), thread_create_user(u) PROVE SchedInv'
  BY <1>6, CreateUserPreserves
<1>7. ASSUME NEW ticks \in TickArgs, thread_sleep(ticks) PROVE SchedInv'
  <2>1. CASE ticks = 0
    BY <1>7, <2>1, YieldPreserves DEF thread_sleep
  <2>2. CASE ticks # 0
    BY <1>7, <2>2, SleepForPreserves DEF thread_sleep
  <2> QED  BY <2>1, <2>2
<1>8. ASSUME NEW q \in WaitQueues, wait_queue_sleep(q) PROVE SchedInv'
  <2>1. CurrentIsReal /\ block_current(q, 0) /\ 0 \in TickArgs \cup {0}
    BY <1>8 DEF wait_queue_sleep
  <2> QED  BY <2>1, BlockPreserves
<1>9. ASSUME NEW q \in WaitQueues, NEW ticks \in TickArgs, wait_queue_sleep_timeout(q, ticks)
      PROVE  SchedInv'
  <2>1. CurrentIsReal /\ block_current(q, ticks) /\ ticks \in TickArgs \cup {0}
    BY <1>9 DEF wait_queue_sleep_timeout
  <2> QED  BY <2>1, BlockPreserves
<1>10. ASSUME NEW q \in WaitQueues, wait_queue_wake_one(q) PROVE SchedInv'
  <2>1. /\ wait_queues[q] # <<>> /\ WakeHead(q)
        /\ UNCHANGED <<reschedule_requested, trap>> /\ waking' = waking
    BY <1>10 DEF wait_queue_wake_one
  <2> QED  BY <2>1, WakeHeadPreserves
<1>11. ASSUME NEW q \in WaitQueues, wait_queue_wake_all(q) PROVE SchedInv'
  <2>1. /\ waking' = q /\ timer_ticks' = timer_ticks /\ trap' = trap
        /\ UNCHANGED <<threads, ready_queue, sleep_queue, wait_queues, current_thread,
                       reschedule_requested, user_tasks, panicked, due>>
    BY <1>11 DEF wait_queue_wake_all, sched
  <2>2. timer_ticks' \in 0 .. MaxTick /\ trap' \in TrapPhase /\ waking' \in WaitQueues \cup {NoQueue}
    BY <2>1 DEF SchedInv, RestTyped
  <2> QED  BY <2>1, <2>2, QuietPreserves
<1> QED  BY <1>1, <1>2, <1>3, <1>4, <1>5, <1>6, <1>7, <1>8, <1>9, <1>10, <1>11 DEF ThreadOp

(* Every step of the timer trap and of wake_all keeps the invariant. *)
LEMMA KernelStepPreserves ==
  ASSUME SchedInv, KernelStep
  PROVE  SchedInv'
<1>1. CASE WakeAllStep
  <2>1. /\ waking \in WaitQueues /\ UNCHANGED <<reschedule_requested, trap>>
    BY <1>1 DEF WakeAllStep, SchedInv, RestTyped
  <2>2. CASE wait_queues[waking] # <<>>
    <3>1. WakeHead(waking) /\ waking' = waking
      BY <1>1, <2>2 DEF WakeAllStep
    <3> QED  BY <2>1, <2>2, <3>1, WakeHeadPreserves
  <2>3. CASE wait_queues[waking] = <<>>
    <3>1. /\ waking' = NoQueue /\ timer_ticks' = timer_ticks
          /\ UNCHANGED <<threads, ready_queue, sleep_queue, wait_queues, current_thread,
                         user_tasks, panicked, due>>
      BY <1>1, <2>3 DEF WakeAllStep, sched
    <3>2. timer_ticks' \in 0 .. MaxTick /\ trap' \in TrapPhase
      BY <2>1, <3>1 DEF SchedInv, RestTyped
    <3> QED  BY <2>1, <3>1, <3>2, QuietPreserves
  <2> QED  BY <2>2, <2>3
<1>2. CASE timer_handle_interrupt
  <2>1. /\ timer_ticks' = IF timer_ticks < MaxTick THEN timer_ticks + 1 ELSE timer_ticks
        /\ trap' = "expire" /\ waking' = waking
        /\ UNCHANGED <<threads, ready_queue, sleep_queue, wait_queues, current_thread,
                       reschedule_requested, user_tasks, panicked, due>>
    BY <1>2 DEF timer_handle_interrupt, sched
  <2>2. timer_ticks \in 0 .. MaxTick /\ MaxTick \in Nat
    BY TickAssumption DEF SchedInv, RestTyped
  <2>3. timer_ticks' \in 0 .. MaxTick
    BY <2>1, <2>2
  <2>4. trap' \in TrapPhase /\ waking' \in WaitQueues \cup {NoQueue}
    BY <2>1 DEF SchedInv, RestTyped, TrapPhase
  <2> QED  BY <2>1, <2>3, <2>4, QuietPreserves
<1>3. CASE WakeSleeper
  BY <1>3, WakeSleeperPreserves
<1>4. CASE ChargeTick
  BY <1>4, ChargeTickPreserves
<1>5. CASE MaybePreempt
  BY <1>5, MaybePreemptPreserves
<1> QED  BY <1>1, <1>2, <1>3, <1>4, <1>5 DEF KernelStep

(* The invariant is inductive. *)
LEMMA NextPreserves == SchedInv /\ [Next]_vars => SchedInv'
<1> SUFFICES ASSUME SchedInv, [Next]_vars PROVE SchedInv'
  OBVIOUS
<1>1. CASE ThreadOp
  BY <1>1, ThreadOpPreserves
<1>2. CASE KernelStep
  BY <1>2, KernelStepPreserves
<1>3. CASE UNCHANGED vars
  <2>1. /\ UNCHANGED <<threads, ready_queue, sleep_queue, wait_queues, current_thread,
                       reschedule_requested, user_tasks, panicked, due>>
        /\ timer_ticks' = timer_ticks /\ trap' = trap /\ waking' = waking
    BY <1>3 DEF vars
  <2>2. timer_ticks' \in 0 .. MaxTick /\ trap' \in TrapPhase /\ waking' \in WaitQueues \cup {NoQueue}
    BY <2>1 DEF SchedInv, RestTyped
  <2> QED  BY <2>1, <2>2, QuietPreserves
<1> QED  BY <1>1, <1>2, <1>3 DEF Next

(* SchedInv holds in every reachable state of the scheduler. *)
THEOREM SchedulerInvariant == Spec => []SchedInv
<1>1. Init => SchedInv
  BY InitHolds
<1>2. SchedInv /\ [Next]_vars => SchedInv'
  BY NextPreserves
<1> QED  BY <1>1, <1>2, PTL DEF Spec

(* Every field and every queue keeps its type, for any number of threads,  *)
(* wait queues and user tasks: the null task is never queued.              *)
THEOREM SchedulerTypeCorrect == Spec => []TypeOK
<1>1. SchedInv => TypeOK
  BY DEF SchedInv, RestTyped, Agree, TypeOK
<1> QED  BY <1>1, SchedulerInvariant, PTL

(* The thread table, the flags, the back pointers and the three kinds of   *)
(* queue always agree, through timeouts that race with events.             *)
THEOREM SchedulerConsistent == Spec => []QueuesAgree
<1>1. SchedInv => ReadyAgrees
  BY TidFacts DEF SchedInv, Agree, EntryAgrees, ReadyAgrees
<1>2. SchedInv => SleepAgrees
  BY TidFacts DEF SchedInv, Agree, EntryAgrees, SleepAgrees, TimedReason
<1>3. SchedInv => WaitAgrees
  BY TidFacts DEF SchedInv, Agree, EntryAgrees, WaitAgrees, QueueReason
<1>4. SchedInv => StateAgrees
  BY DEF SchedInv, Agree, EntryState, StateAgrees
<1>5. SchedInv => QueuesAgree
  BY <1>1, <1>2, <1>3, <1>4 DEF QueuesAgree
<1> QED  BY <1>5, SchedulerInvariant, PTL

(* No PANIC of the scheduler's consistency checks is reachable; in         *)
(* particular no queue of QueueCapacity entries ever overflows.            *)
THEOREM SchedulerNeverPanics == Spec => []NoPanic
<1>1. SchedInv => NoPanic
  BY DEF SchedInv, NoPanic
<1> QED  BY <1>1, SchedulerInvariant, PTL

(* No thread refers to a user task that has exited or been destroyed.      *)
THEOREM UserTasksStayAlive == Spec => []UserTaskAlive
<1>1. SchedInv => UserTaskAlive
  BY DEF SchedInv
<1> QED  BY <1>1, SchedulerInvariant, PTL

-----------------------------------------------------------------------------
(***************************************************************************)
(* Deadlines and order.  Only a wake-up changes the entry of a blocked     *)
(* thread; everything below follows the entries and the queues from there. *)
(***************************************************************************)
BlockedSame == \A t \in RealTid : threads[t].state = "BLOCKED" => threads'[t] = threads[t]

(* A switch writes the entries of the threads it switches between only, and *)
(* the dispatched one keeps its deadline.                                  *)
LEMMA DispatchKeeps ==
  ASSUME SchedInv, NEW thr \in [Tid -> TCB], NEW rq \in Seq(RealTid), Dispatch(thr, rq),
         ToSet(rq) \subseteq ToSet(ready_queue) \cup {current_thread},
         \A t \in Tid : t # current_thread => thr[t] = threads[t]
  PROVE  /\ BlockedSame
         /\ \A t \in Tid : threads'[t].wake_tick = thr[t].wake_tick
<1> DEFINE next == pick_next_thread(rq)
<1>1. next \in Tid /\ (next = THREAD_NULL_TID \/ next \in ToSet(ready_queue) \/ next = current_thread)
  BY TailSet, TidFacts DEF pick_next_thread
<1>2. threads' = [thr EXCEPT ![next] = Dispatched(thr[next])]
  BY DEF Dispatch
<1> HIDE DEF next
<1>3. ASSUME NEW t \in RealTid, threads[t].state = "BLOCKED" PROVE t # next /\ t # current_thread
  <2>1. /\ EntryAgrees(t, threads[t], ready_queue, sleep_queue, wait_queues)
        /\ EntryState(t, threads[t], current_thread)
    BY TidFacts DEF SchedInv, Agree
  <2> QED  BY <1>1, <1>3, <2>1, TidFacts DEF EntryAgrees, EntryState
<1>4. BlockedSame
  BY <1>2, <1>3, TidFacts DEF BlockedSame
<1>5. thr[next] \in TCB
  BY <1>1
<1>6. Dispatched(thr[next]).wake_tick = thr[next].wake_tick
  BY <1>5 DEF Dispatched, TCB
<1> QED  BY <1>1, <1>2, <1>4, <1>6

(* A switch that requeues the running thread. *)
LEMMA SwitchKeeps ==
  ASSUME SchedInv, current_thread \in Tid, SwitchRequeue
  PROVE  BlockedSame
<1> DEFINE prev == current_thread
           tcb == [threads[prev] EXCEPT !.state = "READY"]
           r   == IF prev # THREAD_NULL_TID THEN ready_enqueue(tcb) ELSE tcb
           rq  == EnqueueBehind(ready_queue, prev)
           thr == [threads EXCEPT ![prev] = r]
<1>1. threads \in [Tid -> TCB] /\ ready_queue \in Seq(RealTid) /\ threads[prev] \in TCB
  BY DEF SchedInv, Agree
<1>2. Dispatch(thr, rq)
  BY DEF SwitchRequeue
<1>3. tcb \in TCB
  BY <1>1, ReadyEntry
<1>4. ready_enqueue(tcb) \in TCB
  <2> HIDE DEF tcb
  <2> QED  BY <1>3, EnqueuedEntry
<1>5. r \in TCB
  BY <1>3, <1>4
<1> HIDE DEF r
<1>6. thr \in [Tid -> TCB] /\ \A t \in Tid : t # prev => thr[t] = threads[t]
  BY <1>1, <1>5
<1>7. rq \in Seq(RealTid) /\ ToSet(rq) \subseteq ToSet(ready_queue) \cup {prev}
  <2>1. prev # THREAD_NULL_TID => prev \in RealTid
    BY TidFacts
  <2> QED  BY <1>1, <2>1, AppendSet DEF EnqueueBehind
<1> HIDE DEF thr, rq
<1> QED  BY <1>2, <1>6, <1>7, DispatchKeeps

(* The running thread leaves with the entry r. *)
LEMMA LeaveKeeps ==
  ASSUME SchedInv, CurrentIsReal, NEW r \in TCB,
         Dispatch([threads EXCEPT ![current_thread] = r], ready_queue)
  PROVE  BlockedSame /\ threads'[current_thread].wake_tick = r.wake_tick
<1> DEFINE thr == [threads EXCEPT ![current_thread] = r]
<1>1. threads \in [Tid -> TCB] /\ ready_queue \in Seq(RealTid) /\ current_thread \in Tid
  BY TidFacts DEF SchedInv, Agree, CurrentIsReal
<1>2. /\ thr \in [Tid -> TCB] /\ thr[current_thread] = r
      /\ \A t \in Tid : t # current_thread => thr[t] = threads[t]
  BY <1>1
<1>3. Dispatch(thr, ready_queue)
  OBVIOUS
<1> HIDE DEF thr
<1> QED  BY <1>1, <1>2, <1>3, DispatchKeeps

(* The quantum of the running thread. *)
LEMMA QuantumKeeps ==
  ASSUME SchedInv, current_thread \in Tid, NEW v,
         threads' = [threads EXCEPT ![current_thread].quantum_ticks = v]
  PROVE  BlockedSame
<1>1. threads[current_thread].state = "RUNNING" /\ threads \in [Tid -> TCB]
  BY DEF SchedInv, Agree, EntryState
<1> QED  BY <1>1, TidFacts DEF BlockedSame

(* thread_create() fills a slot without a thread. *)
LEMMA CreateKeeps ==
  ASSUME SchedInv, NEW tid \in FreeSlots, NEW task, CreateIn(tid, task)
  PROVE  BlockedSame
<1>1. tid \in Tid /\ threads[tid].state # "BLOCKED" /\ threads \in [Tid -> TCB]
  BY TidFacts DEF FreeSlots, SchedInv, Agree
<1> QED  BY <1>1, TidFacts DEF BlockedSame, CreateIn

(* The sleep queue, the deadlines and the entries of blocked threads are    *)
(* left alone.                                                             *)
SleepersSame == sleep_queue' = sleep_queue /\ due' = due /\ BlockedSame

(* The running thread t enters the sleep queue. *)
Enters(t, ticks) ==
  /\ t \in RealTid /\ ticks \in TickArgs \ {0} /\ t = current_thread
  /\ sleep_queue' = sleep_queue_insert(sleep_queue, t, WakeTick(ticks))
  /\ due' = [due EXCEPT ![t] = timer_ticks + ticks]
  /\ threads'[t].wake_tick = WakeTick(ticks)
  /\ BlockedSame /\ timer_ticks' = timer_ticks /\ trap' = trap

(* thread_yield() *)
LEMMA YieldKeeps ==
  ASSUME SchedInv, thread_yield
  PROVE  SleepersSame
<1>1. current_thread \in Tid /\ sleep_queue' = sleep_queue /\ due' = due
  BY DEF thread_yield, threads_started, SchedInv, RestTyped
<1>2. CASE ready_queue = <<>>
  BY <1>1, <1>2, QuantumKeeps DEF thread_yield, SleepersSame
<1>3. CASE ready_queue # <<>>
  BY <1>1, <1>3, SwitchKeeps DEF thread_yield, SleepersSame
<1> QED  BY <1>2, <1>3

(* thread_sleep() with a positive tick count. *)
LEMMA SleepEnters ==
  ASSUME SchedInv, CurrentIsReal, NEW ticks \in TickArgs, ticks # 0, SleepFor(ticks)
  PROVE  Enters(current_thread, ticks)
<1> DEFINE prev == current_thread
           w    == WakeTick(ticks)
           tcb  == Blocked(threads[prev], "SLEEP")
           r    == sleep_enqueue(tcb, w)
<1>1. w \in Nat
  BY DeadlineTypes DEF SchedInv, RestTyped
<1>2. threads[prev] \in TCB /\ "SLEEP" \in WaitReason
  BY TidFacts DEF SchedInv, Agree, CurrentIsReal, WaitReason
<1>3. tcb \in TCB
  BY <1>2, BlockedEntry
<1>4. /\ Dispatch([threads EXCEPT ![prev] = r], ready_queue)
      /\ sleep_queue' = sleep_queue_insert(sleep_queue, prev, w)
      /\ due' = [due EXCEPT ![prev] = timer_ticks + ticks]
      /\ timer_ticks' = timer_ticks /\ trap' = trap
  BY DEF SleepFor
<1> HIDE DEF tcb, w
<1>5. r \in TCB /\ r.wake_tick = w
  BY <1>1, <1>3, SleepEntry DEF sleep_enqueue, TCB
<1> HIDE DEF r
<1>6. BlockedSame /\ threads'[prev].wake_tick = w
  BY <1>4, <1>5, LeaveKeeps
<1> QED  BY <1>4, <1>6 DEF Enters, CurrentIsReal, w

(* A wait, timed or not. *)
LEMMA BlockKeeps ==
  ASSUME SchedInv, CurrentIsReal, NEW q \in WaitQueues, NEW ticks \in TickArgs \cup {0},
         block_current(q, ticks)
  PROVE  IF ticks = 0 THEN SleepersSame ELSE Enters(current_thread, ticks)
<1> DEFINE prev   == current_thread
           timed  == ticks # 0
           reason == IF timed THEN "QUEUE_TIMEOUT" ELSE "QUEUE"
           w      == WakeTick(ticks)
           tcb    == Blocked(threads[prev], reason)
           tcb1   == wait_enqueue(tcb, q)
           r      == IF timed THEN sleep_enqueue(tcb1, w) ELSE tcb1
<1>1. timed => w \in Nat
  BY DeadlineTypes DEF SchedInv, RestTyped
<1>2. threads[prev] \in TCB /\ reason \in WaitReason
  BY TidFacts DEF SchedInv, Agree, CurrentIsReal, WaitReason
<1>3. tcb \in TCB
  <2> HIDE DEF reason
  <2> QED  BY <1>2, BlockedEntry
<1>4. /\ Dispatch([threads EXCEPT ![prev] = r], ready_queue)
      /\ sleep_queue' = IF timed THEN sleep_queue_insert(sleep_queue, prev, w) ELSE sleep_queue
      /\ due' = IF timed THEN [due EXCEPT ![prev] = timer_ticks + ticks] ELSE due
      /\ timer_ticks' = timer_ticks /\ trap' = trap
  BY DEF block_current
<1> HIDE DEF tcb, w
<1>5. tcb1 \in TCB
  BY <1>3, WaitEntry
<1> HIDE DEF tcb1
<1>6. r \in TCB /\ (timed => r.wake_tick = w)
  <2>1. timed => sleep_enqueue(tcb1, w) \in TCB /\ sleep_enqueue(tcb1, w).wake_tick = w
    BY <1>1, <1>5, SleepEntry DEF sleep_enqueue, TCB
  <2> QED  BY <1>5, <2>1
<1> HIDE DEF r
<1>7. BlockedSame /\ threads'[prev].wake_tick = r.wake_tick
  BY <1>4, <1>6, LeaveKeeps
<1> QED  BY <1>4, <1>6, <1>7 DEF Enters, SleepersSame, CurrentIsReal, w

(* An event wakes the thread t, the longest waiter of a queue. *)
EventWakes(t) ==
  /\ \E q \in WaitQueues : wait_queues[q] # <<>> /\ t = Oldest(q) /\ WakeHead(q)
  /\ trap' = trap

(* What a step does to the sleeping threads. *)
LEMMA StepKinds ==
  ASSUME SchedInv, Next
  PROVE  \/ SleepersSame /\ timer_ticks' = timer_ticks /\ trap' = trap
         \/ SleepersSame /\ (timer_handle_interrupt \/ ChargeTick \/ MaybePreempt)
         \/ \E ticks \in TickArgs : Enters(current_thread, ticks)
         \/ \E t \in RealTid : EventWakes(t)
         \/ WakeSleeper
<1> DEFINE Quiet == SleepersSame /\ timer_ticks' = timer_ticks /\ trap' = trap
           Sleeps == \E ticks \in TickArgs : Enters(current_thread, ticks)
<1>1. CASE thread_create
  BY <1>1, CreateKeeps DEF thread_create, CreateIn, SleepersSame
<1>2. CASE thread_start
  <2>1. /\ threads \in [Tid -> TCB] /\ ready_queue \in Seq(RealTid)
        /\ Dispatch(threads, ready_queue) /\ UNCHANGED <<sleep_queue, due, timer_ticks, trap>>
    BY <1>2 DEF SchedInv, Agree, thread_start
  <2> QED  BY <2>1, DispatchKeeps DEF SleepersSame
<1>3. CASE thread_yield
  BY <1>3, YieldKeeps DEF thread_yield
<1>4. CASE thread_exit(ExitFrameSPP)
  <2>1. Cleared("EXITED") \in TCB
    BY ClearedEntry DEF ThreadState
  <2>2. CurrentIsReal /\ Dispatch([threads EXCEPT ![current_thread] = Cleared("EXITED")], ready_queue)
        /\ UNCHANGED <<sleep_queue, due, timer_ticks, trap>>
    BY <1>4 DEF thread_exit
  <2> QED  BY <2>1, <2>2, LeaveKeeps DEF SleepersSame
<1>5. ASSUME NEW u \in UserTasks, user_task_init(u) PROVE Quiet
  BY <1>5 DEF user_task_init, sched, SleepersSame, BlockedSame
<1>6. ASSUME NEW u \in UserTasks, thread_create_user(u) PROVE Quiet
  BY <1>6, CreateKeeps DEF thread_create_user, CreateIn, SleepersSame
<1>7. ASSUME NEW ticks \in TickArgs, thread_sleep(ticks) PROVE Quiet \/ Sleeps
  <2>1. CASE ticks = 0
    BY <1>7, <2>1, YieldKeeps DEF thread_sleep, thread_yield
  <2>2. CASE ticks # 0
    BY <1>7, <2>2, SleepEnters DEF thread_sleep
  <2> QED  BY <2>1, <2>2
<1>8. ASSUME NEW q \in WaitQueues, wait_queue_sleep(q) PROVE Quiet
  <2>1. CurrentIsReal /\ block_current(q, 0) /\ 0 \in TickArgs \cup {0}
    BY <1>8 DEF wait_queue_sleep
  <2>2. timer_ticks' = timer_ticks /\ trap' = trap
    BY <2>1 DEF block_current
  <2> QED  BY <2>1, <2>2, BlockKeeps
<1>9. ASSUME NEW q \in WaitQueues, NEW ticks \in TickArgs, wait_queue_sleep_timeout(q, ticks)
      PROVE  Sleeps
  <2>1. CurrentIsReal /\ block_current(q, ticks) /\ ticks \in TickArgs \cup {0} /\ ticks # 0
    BY <1>9 DEF wait_queue_sleep_timeout
  <2> QED  BY <2>1, BlockKeeps
<1>10. ASSUME NEW q \in WaitQueues, wait_queues[q] # <<>>, WakeHead(q), trap' = trap
       PROVE  \E t \in RealTid : EventWakes(t)
  <2>1. wait_queues[q] \in Seq(RealTid)
    BY DEF SchedInv, Agree
  <2>2. Oldest(q) \in RealTid
    BY <1>10, <2>1, TailSet DEF Oldest
  <2> QED  BY <1>10, <2>2 DEF EventWakes
<1>11. ASSUME NEW q \in WaitQueues, wait_queue_wake_one(q) PROVE \E t \in RealTid : EventWakes(t)
  BY <1>10, <1>11 DEF wait_queue_wake_one
<1>12. ASSUME NEW q \in WaitQueues, wait_queue_wake_all(q) PROVE Quiet
  BY <1>12 DEF wait_queue_wake_all, sched, SleepersSame, BlockedSame
<1>13. CASE WakeAllStep
  <2>1. waking \in WaitQueues
    BY <1>13 DEF WakeAllStep, SchedInv, RestTyped
  <2>2. CASE wait_queues[waking] # <<>>
    BY <1>10, <1>13, <2>1, <2>2 DEF WakeAllStep
  <2>3. CASE wait_queues[waking] = <<>>
    BY <1>13, <2>3 DEF WakeAllStep, sched, SleepersSame, BlockedSame
  <2> QED  BY <2>2, <2>3
<1>14. CASE timer_handle_interrupt
  BY <1>14 DEF timer_handle_interrupt, sched, SleepersSame, BlockedSame
<1>15. CASE ChargeTick
  <2>1. CASE CurrentIsReal /\ threads[current_thread].state = "RUNNING"
    <3>1. current_thread \in Tid
      BY <2>1, TidFacts DEF CurrentIsReal
    <3> QED  BY <1>15, <2>1, <3>1, QuantumKeeps DEF ChargeTick, SleepersSame
  <2>2. CASE ~(CurrentIsReal /\ threads[current_thread].state = "RUNNING")
    BY <1>15, <2>2 DEF ChargeTick, SleepersSame, BlockedSame
  <2> QED  BY <2>1, <2>2
<1>16. CASE MaybePreempt
  <2>1. UNCHANGED <<sleep_queue, due>>
    BY <1>16 DEF MaybePreempt
  <2>2. CASE current_is_preemptible /\ SwitchRequeue
    <3>1. current_thread \in Tid
      BY <2>2, TidFacts DEF current_is_preemptible, CurrentIsReal
    <3> QED  BY <1>16, <2>1, <2>2, <3>1, SwitchKeeps DEF SleepersSame
  <2>3. CASE CurrentIsReal /\ RestartQuantum
    <3>1. current_thread \in Tid
      BY <2>3, TidFacts DEF CurrentIsReal
    <3> QED  BY <1>16, <2>1, <2>3, <3>1, QuantumKeeps DEF SleepersSame, RestartQuantum
  <2>4. CASE threads' = threads
    BY <1>16, <2>1, <2>4 DEF SleepersSame, BlockedSame
  <2> QED  BY <1>16, <2>2, <2>3, <2>4 DEF MaybePreempt
<1> QED
  BY <1>1, <1>2, <1>3, <1>4, <1>5, <1>6, <1>7, <1>8, <1>9, <1>11, <1>12, <1>13, <1>14, <1>15, <1>16
  DEF Next, ThreadOp, KernelStep

-----------------------------------------------------------------------------
(* The wake-up of a sleeper or a waiter. *)
LEMMA WakeFacts ==
  ASSUME SchedInv, NEW t \in RealTid, EventWakes(t) \/ (WakeSleeper /\ t = Head(sleep_queue))
  PROVE  /\ threads[t].state = "BLOCKED" /\ trap' = trap /\ timer_ticks' = timer_ticks
         /\ \A u \in Tid : u # t => threads'[u] = threads[u]
         /\ sleep_queue' = queue_remove(sleep_queue, t)
         /\ due' = [due EXCEPT ![t] = 0]
<1>1. EntryAgrees(t, threads[t], ready_queue, sleep_queue, wait_queues)
      /\ EntryState(t, threads[t], current_thread)
      /\ threads \in [Tid -> TCB] /\ t \in Tid /\ threads[t] \in TCB
  BY TidFacts DEF SchedInv, Agree
<1>2. PICK result : wake_blocked_thread(t, result)
  BY DEF EventWakes, WakeSleeper, WakeHead
<1>3. threads[t].state = "BLOCKED"
  <2>1. CASE EventWakes(t)
    <3>1. PICK q \in WaitQueues : wait_queues[q] # <<>> /\ t = Oldest(q)
      BY <2>1 DEF EventWakes
    <3>2. wait_queues[q] \in Seq(RealTid)
      BY DEF SchedInv, Agree
    <3>3. t \in ToSet(wait_queues[q])
      BY <3>1, <3>2, TailSet DEF Oldest
    <3>4. threads[t].wait_reason # "NONE"
      BY <1>1, <3>3, QueueAssumption DEF EntryAgrees, QueueReason
    <3> QED  BY <1>1, <3>4 DEF EntryState
  <2>2. CASE WakeSleeper /\ t = Head(sleep_queue)
    <3>1. sleep_queue \in Seq(RealTid) /\ sleep_queue # <<>>
      BY <2>2 DEF SchedInv, Agree, WakeSleeper, HeadExpired
    <3>2. t \in ToSet(sleep_queue)
      BY <2>2, <3>1, TailSet
    <3> QED  BY <1>1, <3>2 DEF EntryAgrees, EntryState, TimedReason
  <2> QED  BY <2>1, <2>2
<1>4. trap' = trap /\ timer_ticks' = timer_ticks
  BY <1>2 DEF EventWakes, WakeSleeper, wake_blocked_thread
<1>5. \A u \in Tid : u # t => threads'[u] = threads[u]
  BY <1>1, <1>2 DEF wake_blocked_thread
<1>6. sleep_queue' = queue_remove(sleep_queue, t)
  <2>1. threads[t].in_sleep_queue <=> t \in ToSet(sleep_queue)
    BY <1>1 DEF EntryAgrees
  <2> QED  BY <1>2, <2>1 DEF wake_blocked_thread, CancelTimeout, queue_remove
<1> QED  BY <1>2, <1>3, <1>4, <1>5, <1>6 DEF wake_blocked_thread

(***************************************************************************)
(* The inductive invariant behind NoOversleep: the sleep queue is sorted   *)
(* by deadline, and a deadline is never later than the tick asked for.     *)
(***************************************************************************)
Sorted(thr, s) ==
  \A i, j \in 1 .. Len(s) : i < j => thr[s[i]].wake_tick <= thr[s[j]].wake_tick

DeadlinesReached == \A t \in ToSet(sleep_queue) : threads[t].wake_tick <= due[t]

OrderInv == Sorted(threads, sleep_queue) /\ DeadlinesReached /\ NoOversleep

(* The ids in the sleep queue and their entries. *)
LEMMA SleeperFacts ==
  ASSUME SchedInv
  PROVE  /\ sleep_queue \in Seq(RealTid) /\ HasNoDuplicates(sleep_queue)
         /\ \A t \in ToSet(sleep_queue) :
              /\ t \in RealTid /\ t \in Tid /\ threads[t].state = "BLOCKED"
              /\ threads[t].wake_tick \in Nat /\ due[t] \in Nat
<1>1. /\ sleep_queue \in Seq(RealTid) /\ HasNoDuplicates(sleep_queue) /\ threads \in [Tid -> TCB]
      /\ due \in [Tid -> Nat]
  BY DEF SchedInv, Agree, RestTyped
<1>2. ASSUME NEW t \in ToSet(sleep_queue)
      PROVE  /\ t \in RealTid /\ t \in Tid /\ threads[t].state = "BLOCKED"
             /\ threads[t].wake_tick \in Nat /\ due[t] \in Nat
  <2>1. t \in RealTid /\ t \in Tid
    BY <1>1, TidFacts DEF ToSet
  <2>2. threads[t].wait_reason \in TimedReason
    BY <2>1 DEF SchedInv, Agree, EntryAgrees
  <2>3. threads[t].state = "BLOCKED"
    BY <2>1, <2>2 DEF SchedInv, Agree, EntryState, TimedReason
  <2>4. threads[t].wake_tick \in Nat
    BY <1>1, <2>1 DEF TCB
  <2> QED  BY <1>1, <2>1, <2>3, <2>4
<1> QED  BY <1>1, <1>2

(* Sortedness depends on the deadlines of the queued threads only. *)
LEMMA SortedSame ==
  ASSUME NEW s \in Seq(RealTid), NEW thr, NEW thr2, Sorted(thr, s),
         \A t \in ToSet(s) : thr2[t].wake_tick = thr[t].wake_tick
  PROVE  Sorted(thr2, s)
<1>1. \A i \in 1 .. Len(s) : s[i] \in ToSet(s)
  BY DEF ToSet
<1> QED  BY <1>1 DEF Sorted

(* A removal keeps the order of the rest. *)
LEMMA SortedRemove ==
  ASSUME NEW s \in Seq(RealTid), NEW thr, Sorted(thr, s), NEW t
  PROVE  Sorted(thr, queue_remove(s, t))
<1>1. CASE t \notin ToSet(s)
  BY <1>1 DEF queue_remove
<1>2. CASE t \in ToSet(s)
  <2>1. PICK i \in 1 .. Len(s) : queue_remove(s, t) = CloseGap(s, i)
    BY <1>2, FirstAtFinds DEF queue_remove
  <2> DEFINE r == CloseGap(s, i)
  <2>2. /\ Len(r) = Len(s) - 1 /\ Len(s) \in Nat
        /\ \A k \in 1 .. Len(s) - 1 : r[k] = IF k < i THEN s[k] ELSE s[k + 1]
    BY DEF CloseGap
  <2> HIDE DEF r
  <2>3. ASSUME NEW k \in 1 .. Len(r), NEW j \in 1 .. Len(r), k < j
        PROVE  thr[r[k]].wake_tick <= thr[r[j]].wake_tick
    <3>1. PICK a \in 1 .. Len(s) : r[k] = s[a] /\ a = IF k < i THEN k ELSE k + 1
      BY <2>2
    <3>2. PICK b \in 1 .. Len(s) : r[j] = s[b] /\ b = IF j < i THEN j ELSE j + 1
      BY <2>2
    <3>3. a < b
      BY <2>2, <2>3, <3>1, <3>2
    <3> QED  BY <3>1, <3>2, <3>3 DEF Sorted
  <2> QED  BY <2>1, <2>3 DEF Sorted, r
<1> QED  BY <1>1, <1>2

(* sleep_queue_insert() keeps a sorted queue sorted. *)
LEMMA SortedInsert ==
  ASSUME NEW s \in Seq(RealTid), threads \in [Tid -> TCB], NEW t \in RealTid, NEW w \in Nat,
         Sorted(threads, s), t \notin ToSet(s),
         NEW thr, thr[t].wake_tick = w, \A u \in ToSet(s) : thr[u].wake_tick = threads[u].wake_tick
  PROVE  Sorted(thr, sleep_queue_insert(s, t, w))
<1> DEFINE place(k) == /\ \A j \in 1 .. k - 1 : threads[s[j]].wake_tick <= w
                       /\ k <= Len(s) => threads[s[k]].wake_tick > w
           T == {k \in 1 .. Len(s) : threads[s[k]].wake_tick > w} \cup {Len(s) + 1}
           i == CHOOSE k \in 1 .. Len(s) + 1 : place(k)
           W(k) == threads[s[k]].wake_tick
<1>1. Len(s) \in Nat /\ \A k \in 1 .. Len(s) : s[k] \in ToSet(s) /\ threads[s[k]].wake_tick \in Nat
  <2>1. \A k \in 1 .. Len(s) : s[k] \in Tid /\ s[k] \in ToSet(s)
    BY TidFacts DEF ToSet
  <2>2. \A tcb \in TCB : tcb.wake_tick \in Nat
    BY DEF TCB
  <2> QED  BY <2>1, <2>2
<1>2. T \subseteq Nat /\ T # {}
  BY <1>1
<1>3. PICK k0 \in T : \A j \in T : k0 <= j
  BY <1>2, LeastNatural
<1>4. k0 \in 1 .. Len(s) + 1 /\ place(k0)
  BY <1>1, <1>3
<1>5. i \in 1 .. Len(s) + 1 /\ place(i)
  BY <1>4
<1>6. sleep_queue_insert(s, t, w) = OpenGap(s, i, t)
  BY DEF sleep_queue_insert
<1> HIDE DEF i
<1> DEFINE r == OpenGap(s, i, t)
<1>7. /\ Len(r) = Len(s) + 1
      /\ \A k \in 1 .. Len(s) + 1 : r[k] = IF k < i THEN s[k] ELSE IF k = i THEN t ELSE s[k - 1]
  BY <1>5, OpenGapProperties
<1> HIDE DEF r
<1>8. \A k \in 1 .. Len(s) : (k < i => W(k) <= w) /\ (k >= i => W(k) > w)
  <2>1. \A k \in 1 .. Len(s) : k < i => k \in 1 .. i - 1
    BY <1>5
  <2>2. \A k \in 1 .. Len(s) : k > i => i \in 1 .. Len(s) /\ W(i) <= W(k)
    BY <1>1, <1>5 DEF Sorted
  <2> QED  BY <1>1, <1>5, <2>1, <2>2
<1>9. /\ \A k \in 1 .. Len(s) : W(k) \in Nat /\ thr[s[k]].wake_tick = W(k)
      /\ \A k, j \in 1 .. Len(s) : k < j => W(k) <= W(j)
  BY <1>1 DEF Sorted
<1> HIDE DEF W
<1>10. ASSUME NEW k \in 1 .. Len(r), NEW j \in 1 .. Len(r), k < j
       PROVE  thr[r[k]].wake_tick <= thr[r[j]].wake_tick
  <2>1. CASE k < i
    <3>1. k \in 1 .. Len(s) /\ r[k] = s[k]
      BY <1>1, <1>5, <1>7, <2>1
    <3>2. CASE j < i
      BY <1>1, <1>5, <1>7, <1>9, <1>10, <3>1, <3>2
    <3>3. CASE j = i
      BY <1>7, <1>8, <1>9, <2>1, <3>1, <3>3
    <3>4. CASE j > i
      <4>1. j - 1 \in 1 .. Len(s) /\ r[j] = s[j - 1] /\ k < j - 1
        BY <1>1, <1>5, <1>7, <2>1, <3>4
      <4> QED  BY <1>9, <3>1, <4>1
    <3> QED  BY <1>5, <3>2, <3>3, <3>4
  <2>2. CASE k = i
    <3>1. j - 1 \in 1 .. Len(s) /\ r[j] = s[j - 1] /\ j - 1 >= i /\ r[k] = t
      BY <1>1, <1>5, <1>7, <1>10, <2>2
    <3> QED  BY <1>8, <1>9, <3>1
  <2>3. CASE k > i
    <3>1. /\ j - 1 \in 1 .. Len(s) /\ r[j] = s[j - 1]
          /\ k - 1 \in 1 .. Len(s) /\ r[k] = s[k - 1] /\ k - 1 < j - 1
      BY <1>1, <1>5, <1>7, <1>10, <2>3
    <3> QED  BY <1>9, <3>1
  <2> QED  BY <1>5, <2>1, <2>2, <2>3
<1> QED  BY <1>6, <1>10 DEF Sorted, r

(* A deadline, wrapped or not, is not later than the tick asked for. *)
LEMMA WakeTickBound ==
  ASSUME timer_ticks \in 0 .. MaxTick, NEW ticks \in TickArgs
  PROVE  /\ WakeTick(ticks) \in Nat /\ WakeTick(ticks) <= timer_ticks + ticks
         /\ timer_ticks + ticks < TICK_MOD => WakeTick(ticks) = timer_ticks + ticks
<1>1. TICK_MOD \in Nat \ {0} /\ timer_ticks \in Nat /\ ticks \in Nat
  BY TickAssumption
<1>2. PICK a \in Nat : a = timer_ticks + ticks
  BY <1>1
<1>3. PICK m \in Nat \ {0} : m = TICK_MOD
  BY <1>1
<1>4. a % m \in Nat /\ a % m <= a /\ (a < m => a % m = a)
  OBVIOUS
<1> QED  BY <1>2, <1>3, <1>4 DEF WakeTick

(* A step that leaves the sleepers and the clock alone. *)
LEMMA SameKeepsOrder ==
  ASSUME SchedInv, OrderInv, SleepersSame, timer_ticks' = timer_ticks,
         trap' = trap \/ trap # "expire"
  PROVE  OrderInv'
<1>1. \A t \in ToSet(sleep_queue) : threads'[t] = threads[t]
  BY SleeperFacts DEF SleepersSame, BlockedSame
<1>2. Sorted(threads', sleep_queue')
  BY <1>1, SleeperFacts, SortedSame DEF OrderInv, SleepersSame
<1>3. DeadlinesReached'
  BY <1>1 DEF OrderInv, DeadlinesReached, SleepersSame
<1>4. NoOversleep'
  BY DEF OrderInv, NoOversleep, SleepersSame
<1> QED  BY <1>2, <1>3, <1>4 DEF OrderInv

(* A wake-up. *)
LEMMA WakeKeepsOrder ==
  ASSUME SchedInv, OrderInv, NEW t \in RealTid,
         EventWakes(t) \/ (WakeSleeper /\ t = Head(sleep_queue))
  PROVE  OrderInv'
<1>1. /\ trap' = trap /\ timer_ticks' = timer_ticks
      /\ \A u \in Tid : u # t => threads'[u] = threads[u]
      /\ sleep_queue' = queue_remove(sleep_queue, t) /\ due' = [due EXCEPT ![t] = 0]
  BY WakeFacts
<1>2. /\ sleep_queue' \in Seq(RealTid) /\ ToSet(sleep_queue') = ToSet(sleep_queue) \ {t}
  BY <1>1, SleeperFacts, RemoveSet
<1>3. \A u \in ToSet(sleep_queue') : threads'[u] = threads[u] /\ due'[u] = due[u]
  BY <1>1, <1>2, SleeperFacts DEF SchedInv, RestTyped
<1>4. Sorted(threads', sleep_queue')
  <2>1. Sorted(threads, sleep_queue')
    BY <1>1, SleeperFacts, SortedRemove DEF OrderInv
  <2> QED  BY <1>2, <1>3, <2>1, SortedSame
<1>5. DeadlinesReached'
  BY <1>2, <1>3 DEF OrderInv, DeadlinesReached
<1>6. NoOversleep'
  BY <1>1, <1>2, <1>3 DEF OrderInv, NoOversleep
<1> QED  BY <1>4, <1>5, <1>6 DEF OrderInv

(* The running thread goes to sleep, or waits with a timeout. *)
LEMMA EnterKeepsOrder ==
  ASSUME SchedInv, OrderInv, NEW ticks \in TickArgs, Enters(current_thread, ticks)
  PROVE  OrderInv'
<1> DEFINE t == current_thread
           w == WakeTick(ticks)
<1>1. /\ t \in RealTid /\ t \in Tid /\ ticks # 0 /\ BlockedSame
      /\ sleep_queue' = sleep_queue_insert(sleep_queue, t, w)
      /\ due' = [due EXCEPT ![t] = timer_ticks + ticks]
      /\ threads'[t].wake_tick = w /\ timer_ticks' = timer_ticks /\ trap' = trap
  BY TidFacts DEF Enters
<1>2. /\ w \in Nat /\ w <= timer_ticks + ticks
      /\ timer_ticks \in Nat /\ ticks \in Nat /\ timer_ticks + ticks > timer_ticks
  <2>1. timer_ticks \in 0 .. MaxTick /\ timer_ticks \in Nat /\ ticks \in Nat
    BY TickAssumption DEF SchedInv, RestTyped
  <2> QED  BY <1>1, <2>1, WakeTickBound
<1>3. t \notin ToSet(sleep_queue) /\ threads \in [Tid -> TCB]
  BY <1>1, RunningEntry DEF SchedInv, Agree
<1>4. \A u \in ToSet(sleep_queue) : threads'[u] = threads[u] /\ due'[u] = due[u] /\ u # t
  BY <1>1, <1>3, SleeperFacts DEF BlockedSame, SchedInv, RestTyped
<1>5. due'[t] = timer_ticks + ticks
  BY <1>1 DEF SchedInv, RestTyped
<1> HIDE DEF w
<1>6. ToSet(sleep_queue') = ToSet(sleep_queue) \cup {t}
  BY <1>1, <1>2, <1>3, SleeperFacts, InsertSet
<1>7. Sorted(threads', sleep_queue')
  BY <1>1, <1>2, <1>3, <1>4, SleeperFacts, SortedInsert DEF OrderInv
<1>8. DeadlinesReached'
  BY <1>1, <1>2, <1>4, <1>5, <1>6 DEF OrderInv, DeadlinesReached
<1>9. NoOversleep'
  BY <1>1, <1>2, <1>4, <1>5, <1>6 DEF OrderInv, NoOversleep
<1> QED  BY <1>7, <1>8, <1>9 DEF OrderInv

(* The expiry loop ends at the first unexpired entry, and the queue is     *)
(* sorted: nobody behind it has expired.                                   *)
LEMMA ChargeKeepsOrder ==
  ASSUME SchedInv, OrderInv, SleepersSame, ChargeTick
  PROVE  OrderInv'
<1>1. \A t \in ToSet(sleep_queue) : threads'[t] = threads[t]
  BY SleeperFacts DEF SleepersSame, BlockedSame
<1>2. Sorted(threads', sleep_queue')
  BY <1>1, SleeperFacts, SortedSame DEF OrderInv, SleepersSame
<1>3. DeadlinesReached'
  BY <1>1 DEF OrderInv, DeadlinesReached, SleepersSame
<1>4. ASSUME NEW t \in ToSet(sleep_queue) PROVE due[t] > timer_ticks
  <2>1. PICK i \in 1 .. Len(sleep_queue) : sleep_queue[i] = t
    BY SleeperFacts DEF ToSet
  <2>2. /\ 1 \in 1 .. Len(sleep_queue) /\ sleep_queue # <<>> /\ Head(sleep_queue) = sleep_queue[1]
        /\ sleep_queue[1] \in ToSet(sleep_queue)
    BY <2>1, SleeperFacts DEF ToSet
  <2>3. timer_ticks \in Nat /\ threads[sleep_queue[1]].wake_tick \in Nat
        /\ threads[t].wake_tick \in Nat /\ due[t] \in Nat
    <3>1. timer_ticks \in Nat
      BY TickAssumption DEF SchedInv, RestTyped
    <3> QED  BY <2>2, <3>1, SleeperFacts
  <2>4. threads[sleep_queue[1]].wake_tick > timer_ticks
    BY <2>2, <2>3 DEF ChargeTick, HeadExpired
  <2>5. threads[sleep_queue[1]].wake_tick <= threads[t].wake_tick
    <3>1. CASE i = 1
      BY <2>1, <2>3, <3>1
    <3>2. CASE i # 1
      BY <2>1, <2>2, <3>2 DEF OrderInv, Sorted
    <3> QED  BY <3>1, <3>2
  <2>6. threads[t].wake_tick <= due[t]
    BY DEF OrderInv, DeadlinesReached
  <2> QED  BY <2>3, <2>4, <2>5, <2>6
<1>5. timer_ticks' = timer_ticks
  BY DEF ChargeTick
<1>6. NoOversleep'
  BY <1>4, <1>5 DEF NoOversleep, SleepersSame
<1> QED  BY <1>2, <1>3, <1>6 DEF OrderInv

(* The clock only moves into the expiry loop. *)
LEMMA TickKeepsOrder ==
  ASSUME SchedInv, OrderInv, SleepersSame, timer_handle_interrupt
  PROVE  OrderInv'
<1>1. \A t \in ToSet(sleep_queue) : threads'[t] = threads[t]
  BY SleeperFacts DEF SleepersSame, BlockedSame
<1>2. Sorted(threads', sleep_queue')
  BY <1>1, SleeperFacts, SortedSame DEF OrderInv, SleepersSame
<1>3. DeadlinesReached'
  BY <1>1 DEF OrderInv, DeadlinesReached, SleepersSame
<1>4. NoOversleep'
  BY DEF NoOversleep, timer_handle_interrupt
<1> QED  BY <1>2, <1>3, <1>4 DEF OrderInv

(* The order of the sleep queue is kept by every step. *)
LEMMA OrderStep == SchedInv /\ OrderInv /\ [Next]_vars => OrderInv'
<1> SUFFICES ASSUME SchedInv, OrderInv, [Next]_vars PROVE OrderInv'
  OBVIOUS
<1>1. CASE SleepersSame /\ timer_ticks' = timer_ticks /\ trap' = trap
  BY <1>1, SameKeepsOrder
<1>2. CASE SleepersSame /\ MaybePreempt
  BY <1>2, SameKeepsOrder DEF MaybePreempt
<1>3. CASE WakeSleeper
  <2>1. sleep_queue # <<>>
    BY <1>3 DEF WakeSleeper, HeadExpired
  <2>2. Head(sleep_queue) \in RealTid
    BY <2>1, SleeperFacts, TailSet
  <2> QED  BY <1>3, <2>2, WakeKeepsOrder
<1>4. CASE UNCHANGED vars
  <2>1. SleepersSame /\ timer_ticks' = timer_ticks /\ trap' = trap
    BY <1>4 DEF vars, SleepersSame, BlockedSame
  <2> QED  BY <2>1, SameKeepsOrder
<1> QED  BY <1>1, <1>2, <1>3, <1>4, StepKinds, TickKeepsOrder, ChargeKeepsOrder, EnterKeepsOrder,
            WakeKeepsOrder

(***************************************************************************)
(* Outside a timer trap no thread is asleep past the tick it asked for.    *)
(***************************************************************************)
THEOREM NobodyOversleeps == Spec => []NoOversleep
<1>1. Init => OrderInv
  BY DEF Init, OrderInv, Sorted, DeadlinesReached, NoOversleep, ToSet
<1>2. OrderInv => NoOversleep
  BY DEF OrderInv
<1> QED  BY <1>1, <1>2, OrderStep, SchedulerInvariant, PTL DEF Spec

-----------------------------------------------------------------------------
(***************************************************************************)
(* A reschedule request exists only between the tick that raises it and    *)
(* the exit of the same trap, and only for a real thread.                  *)
(***************************************************************************)
RequestInv == reschedule_requested => trap = "preempt" /\ CurrentIsReal

(* Every step keeps it: a request is raised by ChargeTick only, and          *)
(* MaybePreempt drops it.                                                    *)
LEMMA RequestStep == SchedInv /\ RequestInv /\ [Next]_vars => RequestInv'
<1> SUFFICES ASSUME SchedInv, RequestInv, [Next]_vars PROVE RequestInv'
  OBVIOUS
<1> USE DEF RequestInv
<1>1. CASE ThreadOp
  <2>1. reschedule_requested' = FALSE \/ reschedule_requested' = reschedule_requested
    BY <1>1 DEF ThreadOp, thread_create, CreateIn, thread_start, Dispatch, thread_yield, SwitchRequeue,
       thread_exit, user_task_init, thread_create_user, thread_sleep, SleepFor, wait_queue_sleep,
       block_current, wait_queue_wake_one, wait_queue_wake_all, wait_queue_sleep_timeout
  <2>2. trap = "none"
    BY <1>1 DEF ThreadOp, Running, thread_create, thread_start, thread_yield,
       thread_exit, user_task_init, thread_create_user, thread_sleep, wait_queue_sleep,
       wait_queue_wake_one, wait_queue_wake_all, wait_queue_sleep_timeout
  <2> QED  BY <2>1, <2>2
<1>2. CASE WakeAllStep
  BY <1>2 DEF WakeAllStep, WakeHead, wake_blocked_thread, CurrentIsReal
<1>3. CASE timer_handle_interrupt
  BY <1>3 DEF timer_handle_interrupt, Running
<1>4. CASE WakeSleeper
  BY <1>4 DEF WakeSleeper
<1>5. CASE ChargeTick
  BY <1>5 DEF ChargeTick, CurrentIsReal
<1>6. CASE MaybePreempt
  BY <1>6 DEF MaybePreempt, SwitchRequeue, Dispatch, RestartQuantum
<1>7. CASE UNCHANGED vars
  BY <1>7 DEF vars, CurrentIsReal
<1> QED  BY <1>1, <1>2, <1>3, <1>4, <1>5, <1>6, <1>7 DEF Next, KernelStep

(***************************************************************************)
(* No reschedule request survives the trap that raised it: an expired      *)
(* quantum is charged to the thread that used it.                          *)
(***************************************************************************)
THEOREM RequestsNotStale == Spec => []NoStaleReschedule
<1>1. Init => RequestInv
  BY DEF Init, RequestInv
<1>2. RequestInv => NoStaleReschedule
  BY DEF RequestInv, NoStaleReschedule, Running
<1> QED  BY <1>1, <1>2, RequestStep, SchedulerInvariant, PTL DEF Spec

-----------------------------------------------------------------------------
(* Only a wake-up releases a thread. *)
LEMMA ReleaseIsWake ==
  ASSUME SchedInv, Next, NEW t \in RealTid, Released(t)
  PROVE  EventWakes(t) \/ (WakeSleeper /\ t = Head(sleep_queue))
<1>1. ~BlockedSame
  BY DEF Released, BlockedSame
<1>2. (\E u \in RealTid : EventWakes(u)) \/ WakeSleeper
  BY <1>1, StepKinds DEF SleepersSame, Enters
<1>3. ASSUME NEW u \in RealTid, EventWakes(u) \/ (WakeSleeper /\ u = Head(sleep_queue)) PROVE u = t
  <2>1. \A v \in Tid : v # u => threads'[v] = threads[v]
    BY <1>3, WakeFacts
  <2> QED  BY <2>1, TidFacts DEF Released
<1>4. WakeSleeper => Head(sleep_queue) \in RealTid
  BY SleeperFacts, TailSet DEF WakeSleeper, HeadExpired
<1> QED  BY <1>2, <1>3, <1>4

(* What the released thread was waiting for, and the result it gets. *)
LEMMA ReleaseResult ==
  ASSUME SchedInv, NEW t \in RealTid
  PROVE  /\ EventWakes(t) => threads'[t].wait_result = "WAIT_OK" /\ threads[t].wait_reason # "SLEEP"
         /\ WakeSleeper /\ t = Head(sleep_queue) =>
              \/ threads[t].wait_reason = "SLEEP"
              \/ threads'[t].wait_result = "WAIT_TIMEOUT"
<1>1. /\ EntryAgrees(t, threads[t], ready_queue, sleep_queue, wait_queues)
      /\ threads \in [Tid -> TCB] /\ t \in Tid /\ threads[t] \in TCB
  BY TidFacts DEF SchedInv, Agree
<1>2. \A r \in WaitResult : Woken(threads[t], r).wait_result = r
  BY <1>1 DEF Woken, TCB
<1>3. ASSUME EventWakes(t)
      PROVE  threads'[t].wait_result = "WAIT_OK" /\ threads[t].wait_reason # "SLEEP"
  <2>1. PICK q \in WaitQueues : wait_queues[q] # <<>> /\ t = Oldest(q) /\ WakeHead(q)
    BY <1>3 DEF EventWakes
  <2>2. wait_queues[q] \in Seq(RealTid)
    BY DEF SchedInv, Agree
  <2>3. t \in ToSet(wait_queues[q])
    BY <2>1, <2>2, TailSet DEF Oldest
  <2>4. threads[t].wait_reason # "SLEEP"
    BY <1>1, <2>3, QueueAssumption DEF EntryAgrees, QueueReason
  <2>5. threads' = [threads EXCEPT ![t] = Woken(threads[t], "WAIT_OK")]
    BY <2>1 DEF WakeHead, wake_blocked_thread
  <2> QED  BY <1>1, <1>2, <2>4, <2>5 DEF WaitResult
<1>4. ASSUME WakeSleeper, t = Head(sleep_queue)
      PROVE  threads[t].wait_reason = "SLEEP" \/ threads'[t].wait_result = "WAIT_TIMEOUT"
  <2>1. sleep_queue # <<>>
    BY <1>4 DEF WakeSleeper, HeadExpired
  <2>2. t \in ToSet(sleep_queue)
    BY <1>4, <2>1, SleeperFacts, TailSet
  <2>3. threads[t].wait_reason \in {"SLEEP", "QUEUE_TIMEOUT"}
    BY <1>1, <2>2 DEF EntryAgrees, TimedReason
  <2>4. threads[t].wait_reason = "QUEUE_TIMEOUT" =>
          threads' = [threads EXCEPT ![t] = Woken(threads[t], "WAIT_TIMEOUT")]
    BY <1>4 DEF WakeSleeper, wake_blocked_thread
  <2> QED  BY <1>1, <1>2, <2>3, <2>4 DEF WaitResult
<1> QED  BY <1>3, <1>4

-----------------------------------------------------------------------------
(***************************************************************************)
(* Not early.  While timer_ticks + ticks stays below the modulus, which    *)
(* takes 2^64 ticks to fail, a deadline is the tick asked for.             *)
(***************************************************************************)
NoWrap == \A n \in TickArgs : MaxTick + n < TICK_MOD

DeadlinesExact == \A t \in ToSet(sleep_queue) : threads[t].wake_tick = due[t]

(* Deadlines stay exact. *)
LEMMA ExactStep ==
  ASSUME NoWrap
  PROVE  SchedInv /\ DeadlinesExact /\ [Next]_vars => DeadlinesExact'
<1> SUFFICES ASSUME SchedInv, DeadlinesExact, [Next]_vars PROVE DeadlinesExact'
  OBVIOUS
<1>1. CASE SleepersSame
  <2>1. \A t \in ToSet(sleep_queue) : threads'[t] = threads[t]
    BY <1>1, SleeperFacts DEF SleepersSame, BlockedSame
  <2> QED  BY <1>1, <2>1 DEF DeadlinesExact, SleepersSame
<1>2. ASSUME NEW ticks \in TickArgs, Enters(current_thread, ticks) PROVE DeadlinesExact'
  <2> DEFINE t == current_thread
  <2>1. /\ t \in RealTid /\ t \in Tid /\ BlockedSame
        /\ sleep_queue' = sleep_queue_insert(sleep_queue, t, WakeTick(ticks))
        /\ due' = [due EXCEPT ![t] = timer_ticks + ticks]
        /\ threads'[t].wake_tick = WakeTick(ticks)
    BY <1>2, TidFacts DEF Enters
  <2>2. WakeTick(ticks) \in Nat /\ WakeTick(ticks) = timer_ticks + ticks
    <3>1. timer_ticks \in 0 .. MaxTick
      BY DEF SchedInv, RestTyped
    <3>2. timer_ticks + ticks < TICK_MOD
      BY <3>1, TickAssumption DEF NoWrap
    <3> QED  BY <3>1, <3>2, WakeTickBound
  <2>3. t \notin ToSet(sleep_queue) /\ threads \in [Tid -> TCB]
    BY <2>1, RunningEntry DEF SchedInv, Agree
  <2>4. ToSet(sleep_queue') = ToSet(sleep_queue) \cup {t}
    BY <2>1, <2>2, <2>3, SleeperFacts, InsertSet
  <2>5. \A u \in ToSet(sleep_queue) : threads'[u] = threads[u] /\ due'[u] = due[u]
    BY <2>1, <2>3, SleeperFacts DEF BlockedSame, SchedInv, RestTyped
  <2>6. due'[t] = timer_ticks + ticks
    BY <2>1 DEF SchedInv, RestTyped
  <2> QED  BY <2>1, <2>2, <2>4, <2>5, <2>6 DEF DeadlinesExact
<1>3. ASSUME NEW t \in RealTid, EventWakes(t) \/ (WakeSleeper /\ t = Head(sleep_queue))
      PROVE  DeadlinesExact'
  <2>1. /\ \A u \in Tid : u # t => threads'[u] = threads[u]
        /\ sleep_queue' = queue_remove(sleep_queue, t) /\ due' = [due EXCEPT ![t] = 0]
    BY <1>3, WakeFacts
  <2>2. ToSet(sleep_queue') = ToSet(sleep_queue) \ {t}
    BY <2>1, SleeperFacts, RemoveSet
  <2>3. \A u \in ToSet(sleep_queue') : threads'[u] = threads[u] /\ due'[u] = due[u]
    BY <2>1, <2>2, SleeperFacts DEF SchedInv, RestTyped
  <2> QED  BY <2>2, <2>3 DEF DeadlinesExact
<1>4. WakeSleeper => Head(sleep_queue) \in RealTid
  BY SleeperFacts, TailSet DEF WakeSleeper, HeadExpired
<1>5. CASE UNCHANGED vars
  BY <1>1, <1>5 DEF vars, SleepersSame, BlockedSame
<1> QED  BY <1>1, <1>2, <1>3, <1>4, <1>5, StepKinds

(***************************************************************************)
(* Without a wrap of the clock, no sleep ends and no timeout is reported   *)
(* before the tick that was asked for.  (With one it is: run thread_wrap.) *)
(***************************************************************************)
THEOREM NobodyWakesEarly == ASSUME NoWrap PROVE Spec => NotEarly
<1> DEFINE Early(t) ==
             Released(t) /\ (threads[t].wait_reason = "SLEEP" \/ threads'[t].wait_result = "WAIT_TIMEOUT")
           Step == \A t \in RealTid : Early(t) => timer_ticks >= due[t]
<1>1. SchedInv /\ DeadlinesExact /\ [Next]_vars => [Step]_vars
  <2> SUFFICES ASSUME SchedInv, DeadlinesExact, Next, NEW t \in RealTid, Early(t)
               PROVE  timer_ticks >= due[t]
    OBVIOUS
  <2>1. ~EventWakes(t)
    BY ReleaseResult
  <2>2. WakeSleeper /\ t = Head(sleep_queue)
    BY <2>1, ReleaseIsWake
  <2>3. sleep_queue # <<>> /\ threads[t].wake_tick <= timer_ticks
    BY <2>2 DEF WakeSleeper, HeadExpired
  <2>4. t \in ToSet(sleep_queue)
    BY <2>2, <2>3, SleeperFacts, TailSet
  <2>5. threads[t].wake_tick = due[t] /\ due[t] \in Nat /\ timer_ticks \in Nat
    <3>1. timer_ticks \in Nat
      BY TickAssumption DEF SchedInv, RestTyped
    <3> QED  BY <2>4, <3>1, SleeperFacts DEF DeadlinesExact
  <2> QED  BY <2>3, <2>5
<1>2. Init => DeadlinesExact
  BY DEF Init, DeadlinesExact, ToSet
<1> QED  BY <1>1, <1>2, ExactStep, SchedulerInvariant, PTL DEF Spec, NotEarly

-----------------------------------------------------------------------------
(* A queue is a prefix of itself and of itself with one more entry, and its  *)
(* tail of what a requeue and a dispatch leave.                              *)
LEMMA QueuePrefixes ==
  ASSUME NEW s \in Seq(RealTid), NEW t \in RealTid
  PROVE  /\ IsPrefix(s, s) /\ IsPrefix(s, Append(s, t))
         /\ s # <<>> => /\ IsPrefix(Tail(s), Tail(s)) /\ IsPrefix(Tail(s), Tail(Append(s, t)))
                        /\ Append(s, t) # <<>> /\ Head(Append(s, t)) = Head(s)
<1>1. \A u \in Seq(RealTid) : IsPrefix(u, u) /\ IsPrefix(u, Append(u, t))
  <2> SUFFICES ASSUME NEW u \in Seq(RealTid) PROVE IsPrefix(u, u) /\ IsPrefix(u, Append(u, t))
    OBVIOUS
  <2>1. /\ Len(u) \in Nat /\ Append(u, t) \in Seq(RealTid) /\ Len(Append(u, t)) = Len(u) + 1
        /\ \A i \in 1 .. Len(u) : Append(u, t)[i] = u[i]
    OBVIOUS
  <2>2. SubSeq(u, 1, Len(u)) = SubSeq(Append(u, t), 1, Len(u))
    BY <2>1
  <2> QED  BY <2>1, <2>2 DEF IsPrefix
<1>2. ASSUME s # <<>>
      PROVE  /\ Tail(s) \in Seq(RealTid) /\ Tail(Append(s, t)) = Append(Tail(s), t)
             /\ Append(s, t) # <<>> /\ Head(Append(s, t)) = Head(s)
  BY <1>2
<1> QED  BY <1>1, <1>2

(* A switch takes the head of the ready queue. *)
LEMMA SwitchInOrder ==
  ASSUME SchedInv, current_thread \in Tid, ready_queue # <<>>, SwitchRequeue
  PROVE  DispatchesInOrder
<1> DEFINE rq == EnqueueBehind(ready_queue, current_thread)
<1>1. ready_queue \in Seq(RealTid)
  BY DEF SchedInv, Agree
<1>2. ready_queue' = (IF rq = <<>> THEN rq ELSE Tail(rq)) /\ current_thread' = pick_next_thread(rq)
  BY DEF SwitchRequeue, Dispatch
<1>3. /\ rq # <<>> /\ Head(rq) = Head(ready_queue) /\ IsPrefix(Tail(ready_queue), Tail(rq))
  <2>1. CASE current_thread = THREAD_NULL_TID
    <3>1. 1 \in RealTid
      BY ThreadMaxAssumption DEF RealTid
    <3> QED  BY <1>1, <2>1, <3>1, QueuePrefixes DEF EnqueueBehind
  <2>2. CASE current_thread \in RealTid
    BY <1>1, <2>2, TidFacts, QueuePrefixes DEF EnqueueBehind
  <2> QED  BY <2>1, <2>2, TidFacts
<1> QED  BY <1>2, <1>3 DEF DispatchesInOrder, pick_next_thread

(* A dispatch from the ready queue as it is. *)
LEMMA DispatchInOrder ==
  ASSUME SchedInv, NEW thr, Dispatch(thr, ready_queue)
  PROVE  DispatchesInOrder
<1>1. ready_queue \in Seq(RealTid) /\ 1 \in RealTid
  BY ThreadMaxAssumption DEF SchedInv, Agree, RealTid
<1>2. /\ ready_queue' = (IF ready_queue = <<>> THEN ready_queue ELSE Tail(ready_queue))
      /\ current_thread' = pick_next_thread(ready_queue)
  BY DEF Dispatch
<1> QED  BY <1>1, <1>2, QueuePrefixes DEF DispatchesInOrder, pick_next_thread

(* The ready queue is FIFO. *)
LEMMA NextInOrder ==
  ASSUME SchedInv, Next
  PROVE  DispatchesInOrder
<1>1. ready_queue \in Seq(RealTid) /\ 1 \in RealTid
  BY ThreadMaxAssumption DEF SchedInv, Agree, RealTid
<1>2. ASSUME ready_queue' = ready_queue PROVE DispatchesInOrder
  BY <1>1, <1>2, QueuePrefixes DEF DispatchesInOrder
<1>3. ASSUME NEW t \in RealTid, ready_queue' = Append(ready_queue, t) PROVE DispatchesInOrder
  BY <1>1, <1>3, QueuePrefixes DEF DispatchesInOrder
<1>4. CASE thread_yield
  <2>1. current_thread \in Tid
    BY <1>4 DEF thread_yield, threads_started, SchedInv, RestTyped
  <2> QED  BY <1>2, <1>4, <2>1, SwitchInOrder DEF thread_yield
<1>5. CASE thread_create \/ \E u \in UserTasks : thread_create_user(u)
  BY <1>3, <1>5 DEF thread_create, thread_create_user, CreateIn, FreeSlots
<1>6. CASE thread_start
  BY <1>6, DispatchInOrder DEF thread_start
<1>7. CASE thread_exit(ExitFrameSPP)
  BY <1>7, DispatchInOrder DEF thread_exit
<1>8. CASE \E u \in UserTasks : user_task_init(u)
  BY <1>2, <1>8 DEF user_task_init, sched
<1>9. CASE \E ticks \in TickArgs : thread_sleep(ticks)
  BY <1>4, <1>9, DispatchInOrder DEF thread_sleep, SleepFor
<1>10. CASE \E q \in WaitQueues : wait_queue_sleep(q) \/ \E ticks \in TickArgs : wait_queue_sleep_timeout(q, ticks)
  BY <1>10, DispatchInOrder DEF wait_queue_sleep, wait_queue_sleep_timeout, block_current
<1>11. CASE \E q \in WaitQueues : wait_queue_wake_all(q)
  BY <1>2, <1>11 DEF wait_queue_wake_all, sched
<1>12. ASSUME NEW q \in WaitQueues, wait_queues[q] # <<>>, WakeHead(q) PROVE DispatchesInOrder
  <2>1. wait_queues[q] \in Seq(RealTid)
    BY DEF SchedInv, Agree
  <2>2. Oldest(q) \in RealTid
    BY <1>12, <2>1, TailSet DEF Oldest
  <2> QED  BY <1>3, <1>12, <2>2 DEF WakeHead, wake_blocked_thread
<1>13. CASE \E q \in WaitQueues : wait_queue_wake_one(q)
  BY <1>12, <1>13 DEF wait_queue_wake_one
<1>14. CASE WakeAllStep
  <2>1. waking \in WaitQueues
    BY <1>14 DEF WakeAllStep, SchedInv, RestTyped
  <2> QED  BY <1>2, <1>12, <1>14, <2>1 DEF WakeAllStep, sched
<1>15. CASE timer_handle_interrupt
  BY <1>2, <1>15 DEF timer_handle_interrupt, sched
<1>16. CASE WakeSleeper
  <2>1. Head(sleep_queue) \in RealTid
    BY <1>16, SleeperFacts, TailSet DEF WakeSleeper, HeadExpired
  <2> QED  BY <1>3, <1>16, <2>1 DEF WakeSleeper, wake_blocked_thread
<1>17. CASE ChargeTick
  BY <1>2, <1>17 DEF ChargeTick
<1>18. CASE MaybePreempt
  BY <1>2, <1>18, SwitchInOrder, TidFacts DEF MaybePreempt, current_is_preemptible, CurrentIsReal
<1> QED
  BY <1>4, <1>5, <1>6, <1>7, <1>8, <1>9, <1>10, <1>11, <1>13, <1>14, <1>15, <1>16, <1>17, <1>18
  DEF Next, ThreadOp, KernelStep

(* The wait queues are FIFO. *)
LEMMA WakesFirst ==
  ASSUME SchedInv, Next
  PROVE  WakesInOrder
<1> SUFFICES ASSUME NEW q \in WaitQueues, NEW t \in RealTid, Released(t), threads[t].wait_queue = q,
                    threads'[t].wait_result = "WAIT_OK",
                    NEW i \in DOMAIN wait_queues[q], NEW j \in DOMAIN wait_queues[q],
                    wait_queues[q][j] = t, i < j
             PROVE  FALSE
  BY DEF WakesInOrder
<1>1. /\ EntryAgrees(t, threads[t], ready_queue, sleep_queue, wait_queues)
      /\ wait_queues[q] \in Seq(RealTid) /\ HasNoDuplicates(wait_queues[q])
  BY DEF SchedInv, Agree
<1>2. threads[t].wait_reason # "SLEEP"
  BY <1>1, QueueAssumption DEF EntryAgrees, QueueReason
<1>3. EventWakes(t)
  BY <1>2, ReleaseIsWake, ReleaseResult
<1>4. PICK p \in WaitQueues : wait_queues[p] # <<>> /\ t = Oldest(p)
  BY <1>3 DEF EventWakes
<1>5. wait_queues[p] \in Seq(RealTid)
  BY DEF SchedInv, Agree
<1>6. t \in ToSet(wait_queues[p]) /\ t = wait_queues[p][1] /\ 1 \in DOMAIN wait_queues[p]
  BY <1>4, <1>5, TailSet DEF Oldest
<1>7. p = q
  BY <1>1, <1>6 DEF EntryAgrees
<1>8. j = 1
  BY <1>1, <1>6, <1>7 DEF HasNoDuplicates
<1> QED  BY <1>1, <1>8

(***************************************************************************)
(* No thread overtakes another, at a wake-up by an event or at a dispatch, *)
(* whatever timeouts remove from the middle of the queues.                 *)
(***************************************************************************)
THEOREM SchedulerIsFifo == Spec => FifoOrder
<1>1. SchedInv /\ [Next]_vars => [WakesInOrder /\ DispatchesInOrder]_vars
  BY NextInOrder, WakesFirst
<1> QED  BY <1>1, SchedulerInvariant, PTL DEF Spec, FifoOrder

-----------------------------------------------------------------------------
(* The ring buffers behind the queues.  A ring with s in order from its     *)
(* head on.                                                                 *)
InOrder(ring, s) ==
  /\ ring.head \in 0 .. Ring!Places - 1 /\ ring.count = Len(s) /\ Len(s) <= Ring!Places
  /\ ring.tids \in [0 .. Ring!Places - 1 -> Nat]
  /\ ring.tail = Ring!Place(ring, Len(s))
  /\ \A k \in 1 .. Len(s) : ring.tids[Ring!Place(ring, k - 1)] = s[k]

(* The remainder of a number less than two turns of the ring. *)
LEMMA RingWrap ==
  ASSUME NEW x \in 0 .. 2 * Ring!Places - 1
  PROVE  x % Ring!Places = IF x < Ring!Places THEN x ELSE x - Ring!Places
<1>1. PICK C \in Nat : C = Ring!Places /\ C > 0
  BY ThreadMaxAssumption DEF Ring!Places
<1>2. x \in 0 .. 2 * C - 1
  BY <1>1
<1>3. CASE x < C
  <2>1. x % C = x
    BY <1>1, <1>2, <1>3
  <2> QED  BY <1>1, <1>3, <2>1
<1>4. CASE x >= C
  <2>1. x - C \in 0 .. C - 1
    BY <1>1, <1>2, <1>4
  <2>2. ((x - C) + C) % C = x - C
    BY <1>1, <2>1
  <2>3. (x - C) + C = x /\ ~(x < C)
    BY <1>1, <1>2, <1>4
  <2> QED  BY <1>1, <2>2, <2>3
<1> QED  BY <1>1, <1>2, <1>3, <1>4

(* Where the i-th entry is. *)
LEMMA PlaceIs ==
  ASSUME NEW ring, ring.head \in 0 .. Ring!Places - 1, NEW i \in 0 .. Ring!Places
  PROVE  /\ Ring!Place(ring, i) = IF ring.head + i < Ring!Places THEN ring.head + i ELSE ring.head + i - Ring!Places
         /\ Ring!Place(ring, i) \in 0 .. Ring!Places - 1
<1>1. PICK h, C : h = ring.head /\ C = Ring!Places
  OBVIOUS
<1>2. C \in Nat /\ C > 0 /\ h \in 0 .. C - 1 /\ i \in 0 .. C
  BY <1>1, ThreadMaxAssumption DEF Ring!Places
<1>3. PICK x : x = h + i /\ x \in 0 .. 2 * C - 1
  BY <1>2
<1>6. x \in 0 .. 2 * Ring!Places - 1
  BY <1>1, <1>3
<1>7. x % Ring!Places = IF x < Ring!Places THEN x ELSE x - Ring!Places
  BY <1>6, RingWrap
<1>4. (h + i) % C = IF h + i < C THEN h + i ELSE h + i - C
  BY <1>1, <1>2, <1>3, <1>7
<1>5. Ring!Place(ring, i) = (h + i) % C
  BY <1>1 DEF Ring!Place
<1> QED  BY <1>1, <1>2, <1>4, <1>5

(* Different entries are in different places. *)
LEMMA PlacesDiffer ==
  ASSUME NEW ring, ring.head \in 0 .. Ring!Places - 1,
         NEW i \in 0 .. Ring!Places - 1, NEW j \in 0 .. Ring!Places - 1, i # j
  PROVE  Ring!Place(ring, i) # Ring!Place(ring, j)
<1>1. PICK h, C : h = ring.head /\ C = Ring!Places
  OBVIOUS
<1>2. C \in Nat /\ h \in 0 .. C - 1 /\ i \in 0 .. C /\ j \in 0 .. C /\ i < C /\ j < C
  BY <1>1, ThreadMaxAssumption DEF Ring!Places
<1>3. /\ Ring!Place(ring, i) = IF h + i < C THEN h + i ELSE h + i - C
      /\ Ring!Place(ring, j) = IF h + j < C THEN h + j ELSE h + j - C
  BY <1>1, <1>2, PlaceIs
<1> QED  BY <1>2, <1>3

(* A ring with s in order holds s. *)
LEMMA InOrderHolds ==
  ASSUME NEW S, NEW s \in Seq(S), NEW ring, InOrder(ring, s)
  PROVE  Ring!Holds(ring, s)
<1>1. s = [k \in 1 .. Len(s) |-> s[k]] /\ Len(s) \in Nat
  OBVIOUS
<1>2. Ring!Contents(ring) = [k \in 1 .. Len(s) |-> ring.tids[Ring!Place(ring, k - 1)]]
  BY DEF Ring!Contents, InOrder
<1>3. Ring!Contents(ring) = [k \in 1 .. Len(s) |-> s[k]]
  BY <1>2 DEF InOrder
<1>4. ring.tail = Ring!Place(ring, ring.count)
  BY DEF InOrder
<1> QED  BY <1>1, <1>3, <1>4 DEF Ring!Holds

(* RingOf() puts a queue in order. *)
LEMMA RingOfInOrder ==
  ASSUME NEW s \in Seq(RealTid), Len(s) <= Ring!Places, NEW h \in 0 .. Ring!Places - 1, NEW u \in Nat
  PROVE  InOrder(Ring!RingOf(s, h, u), s)
<1> DEFINE C == Ring!Places
           offset(p) == (p + C - h) % C
           ring == Ring!RingOf(s, h, u)
           at(p) == IF offset(p) < Len(s) THEN s[offset(p) + 1] ELSE u
<1>1. C \in Nat /\ C > 0 /\ Len(s) \in Nat /\ h \in 0 .. C - 1 /\ Len(s) <= C
  BY ThreadMaxAssumption DEF Ring!Places
<1>2. ring = [tids |-> [p \in 0 .. C - 1 |-> at(p)], head |-> h, tail |-> (h + Len(s)) % C, count |-> Len(s)]
  BY DEF Ring!RingOf
<1>3. /\ ring.tids = [p \in 0 .. C - 1 |-> at(p)] /\ ring.head = h
      /\ ring.tail = (h + Len(s)) % C /\ ring.count = Len(s)
  <2> HIDE DEF at, ring, C
  <2> QED  BY <1>2
<1>4. ASSUME NEW p \in 0 .. C - 1
      PROVE  offset(p) = (IF p < h THEN p + C - h ELSE p - h) /\ offset(p) \in 0 .. C - 1
  <2>1. PICK x : x = p + C - h /\ x \in 0 .. 2 * C - 1
    BY <1>1
  <2>2. x % C = IF x < C THEN x ELSE x - C
    BY <2>1, RingWrap
  <2>3. offset(p) = x % C
    BY <2>1
  <2> HIDE DEF offset, C
  <2> QED  BY <1>1, <2>1, <2>2, <2>3
<1> HIDE DEF offset, ring
<1>5. \A k \in 1 .. Len(s) : s[k] \in Nat
  <2>1. \A k \in 1 .. Len(s) : s[k] \in RealTid
    OBVIOUS
  <2>2. RealTid \subseteq Nat
    BY DEF RealTid
  <2> QED  BY <2>1, <2>2
<1>6. ring.tids \in [0 .. C - 1 -> Nat]
  <2>1. ASSUME NEW p \in 0 .. C - 1 PROVE at(p) \in Nat
    <3>1. PICK o \in 0 .. C - 1 : o = offset(p)
      BY <1>4
    <3>2. CASE o < Len(s)
      <4>1. o + 1 \in 1 .. Len(s)
        BY <1>1, <3>1, <3>2
      <4>2. s[o + 1] \in Nat
        BY <1>5, <4>1
      <4> QED  BY <3>1, <3>2, <4>2
    <3>3. CASE ~(o < Len(s))
      BY <3>1, <3>3
    <3> QED  BY <3>2, <3>3
  <2> HIDE DEF at, C
  <2> QED  BY <1>3, <2>1
<1>7. ASSUME NEW k \in 1 .. Len(s)
      PROVE  ring.tids[Ring!Place(ring, k - 1)] = s[k]
  <2>1. PICK i \in 0 .. C - 1 : i = k - 1 /\ i \in 0 .. C
    BY <1>1
  <2>2. PICK p \in 0 .. C - 1 : p = Ring!Place(ring, i) /\ p = IF h + i < C THEN h + i ELSE h + i - C
    BY <1>1, <1>3, <2>1, PlaceIs
  <2>3. offset(p) = i
    <3>1. offset(p) = IF p < h THEN p + C - h ELSE p - h
      BY <1>4
    <3> HIDE DEF C
    <3> QED  BY <1>1, <2>1, <2>2, <3>1
  <2>4. at(p) = s[k]
    BY <1>1, <2>1, <2>3
  <2> HIDE DEF at, C
  <2> QED  BY <1>3, <2>1, <2>2, <2>4
<1>8. ring.tail = Ring!Place(ring, Len(s))
  BY <1>3 DEF Ring!Place
<1> QED  BY <1>1, <1>3, <1>6, <1>7, <1>8 DEF InOrder, ring

(* A pop leaves the tail of the queue in order. *)
LEMMA PopInOrder ==
  ASSUME NEW s \in Seq(RealTid), s # <<>>, NEW ring, InOrder(ring, s),
         ring = [tids |-> ring.tids, head |-> ring.head, tail |-> ring.tail, count |-> ring.count]
  PROVE  InOrder(Ring!queue_pop(ring), Tail(s)) /\ Ring!Contents(ring)[1] = Head(s)
<1>1. PICK C, h : C = Ring!Places /\ h = ring.head
  OBVIOUS
<1>2. /\ C \in Nat /\ C > 0 /\ Len(s) \in Nat /\ h \in 0 .. C - 1 /\ Len(s) <= C /\ Len(s) > 0
  BY <1>1, ThreadMaxAssumption DEF Ring!Places, InOrder
<1>3. /\ Tail(s) \in Seq(RealTid) /\ Len(Tail(s)) = Len(s) - 1
      /\ \A k \in 1 .. Len(s) - 1 : Tail(s)[k] = s[k + 1]
  BY <1>2
<1>4. PICK new : new = Ring!queue_pop(ring)
  OBVIOUS
<1>5. /\ new.tids = ring.tids /\ new.head = (h + 1) % C /\ new.tail = ring.tail /\ new.count = Len(s) - 1
  <2>1. new = [tids |-> ring.tids, head |-> (ring.head + 1) % Ring!Places, tail |-> ring.tail, count |-> ring.count - 1]
    BY <1>4 DEF Ring!queue_pop
  <2>2. ring.count = Len(s)
    BY DEF InOrder
  <2> QED  BY <1>1, <2>1, <2>2
<1>6. new.head = (IF h + 1 < C THEN h + 1 ELSE 0) /\ new.head \in 0 .. C - 1
  <2>1. 1 \in 0 .. Ring!Places
    BY <1>1, <1>2
  <2>2. Ring!Place(ring, 1) = IF h + 1 < C THEN h + 1 ELSE h + 1 - C
    BY <1>1, <2>1, PlaceIs DEF InOrder
  <2>3. new.head = Ring!Place(ring, 1)
    BY <1>1, <1>5 DEF Ring!Place
  <2> QED  BY <1>2, <2>2, <2>3
<1>7. ASSUME NEW i \in 0 .. C - 1 PROVE Ring!Place(new, i) = Ring!Place(ring, i + 1)
  <2>1. i \in 0 .. C /\ i + 1 \in 0 .. C
    BY <1>2
  <2>2. Ring!Place(new, i) = IF new.head + i < C THEN new.head + i ELSE new.head + i - C
    BY <1>1, <1>6, <2>1, PlaceIs
  <2>3. Ring!Place(ring, i + 1) = IF h + (i + 1) < C THEN h + (i + 1) ELSE h + (i + 1) - C
    BY <1>1, <2>1, PlaceIs DEF InOrder
  <2> QED  BY <1>2, <1>6, <2>2, <2>3
<1>8. new.tail = Ring!Place(new, Len(s) - 1)
  <2>1. ring.tail = Ring!Place(ring, Len(s))
    BY DEF InOrder
  <2>2. Len(s) - 1 \in 0 .. C - 1 /\ (Len(s) - 1) + 1 = Len(s)
    BY <1>2
  <2>3. Ring!Place(new, Len(s) - 1) = Ring!Place(ring, (Len(s) - 1) + 1)
    BY <1>7, <2>2
  <2> QED  BY <1>5, <2>1, <2>2, <2>3
<1>9. ASSUME NEW k \in 1 .. Len(s) - 1 PROVE new.tids[Ring!Place(new, k - 1)] = Tail(s)[k]
  <2>1. k - 1 \in 0 .. C - 1 /\ (k - 1) + 1 = (k + 1) - 1 /\ k + 1 \in 1 .. Len(s)
    BY <1>2
  <2>2. Ring!Place(new, k - 1) = Ring!Place(ring, (k + 1) - 1)
    BY <1>7, <2>1
  <2>3. ring.tids[Ring!Place(ring, (k + 1) - 1)] = s[k + 1]
    BY <2>1 DEF InOrder
  <2> QED  BY <1>3, <1>5, <2>2, <2>3
<1>10. InOrder(new, Tail(s))
  BY <1>1, <1>2, <1>3, <1>5, <1>6, <1>8, <1>9 DEF InOrder
<1>11. Ring!Contents(ring)[1] = Head(s)
  <2>1. Ring!Contents(ring) = s
    BY InOrderHolds DEF Ring!Holds
  <2> QED  BY <1>2, <2>1
<1> QED  BY <1>4, <1>10, <1>11

(* A push on a ring with room appends to the queue. *)
LEMMA PushInOrder ==
  ASSUME NEW s \in Seq(RealTid), Len(s) < Ring!Places, NEW ring, InOrder(ring, s), NEW tid \in RealTid
  PROVE  InOrder(Ring!queue_push(ring, tid), Append(s, tid))
<1>1. PICK C, h : C = Ring!Places /\ h = ring.head
  OBVIOUS
<1>2. /\ C \in Nat /\ C > 0 /\ Len(s) \in Nat /\ h \in 0 .. C - 1 /\ Len(s) < C
  BY <1>1, ThreadMaxAssumption DEF Ring!Places, InOrder
<1>3. /\ Append(s, tid) \in Seq(RealTid) /\ Len(Append(s, tid)) = Len(s) + 1
      /\ \A k \in 1 .. Len(s) : Append(s, tid)[k] = s[k]
      /\ Append(s, tid)[Len(s) + 1] = tid
  BY <1>2
<1>4. PICK new : new = Ring!queue_push(ring, tid)
  OBVIOUS
<1>5. /\ new.tids = [ring.tids EXCEPT ![ring.tail] = tid] /\ new.head = h
      /\ new.tail = (ring.tail + 1) % C /\ new.count = Len(s) + 1
  BY <1>1, <1>4 DEF Ring!queue_push, InOrder
<1>6. \A i : Ring!Place(new, i) = Ring!Place(ring, i)
  BY <1>1, <1>5 DEF Ring!Place
<1>7. PICK l \in 0 .. C - 1 : l = ring.tail /\ l = Ring!Place(ring, Len(s)) /\ l = IF h + Len(s) < C THEN h + Len(s) ELSE h + Len(s) - C
  <2>1. Len(s) \in 0 .. C
    BY <1>2
  <2> QED  BY <1>1, <2>1, PlaceIs DEF InOrder
<1>8. ring.tids \in [0 .. C - 1 -> Nat] /\ tid \in Nat
  BY <1>1 DEF InOrder, RealTid
<1>9. new.tids \in [0 .. C - 1 -> Nat] /\ new.tids[l] = tid /\ \A p \in 0 .. C - 1 : p # l => new.tids[p] = ring.tids[p]
  BY <1>5, <1>7, <1>8
<1>10. new.tail = Ring!Place(new, Len(s) + 1)
  <2>1. PICK x : x = l + 1 /\ x \in 0 .. 2 * C - 1
    BY <1>2, <1>7
  <2>2. x \in 0 .. 2 * Ring!Places - 1
    BY <1>1, <2>1
  <2>3. x % C = IF x < C THEN x ELSE x - C
    BY <1>1, <1>2, <2>2, RingWrap
  <2>4. Len(s) + 1 \in 0 .. C
    BY <1>2
  <2>5. Ring!Place(ring, Len(s) + 1) = IF h + (Len(s) + 1) < C THEN h + (Len(s) + 1) ELSE h + (Len(s) + 1) - C
    BY <1>1, <2>4, PlaceIs DEF InOrder
  <2>6. new.tail = x % C
    BY <1>5, <1>7, <2>1
  <2>7. x % C = IF h + (Len(s) + 1) < C THEN h + (Len(s) + 1) ELSE h + (Len(s) + 1) - C
    <3>1. PICK n \in 0 .. C - 1 : n = Len(s) /\ l = IF h + n < C THEN h + n ELSE h + n - C
      BY <1>2, <1>7
    <3>2. x = l + 1 /\ x % C = IF l + 1 < C THEN l + 1 ELSE l + 1 - C
      BY <1>2, <2>1, <2>3
    <3>3. (IF l + 1 < C THEN l + 1 ELSE l + 1 - C) = IF h + (n + 1) < C THEN h + (n + 1) ELSE h + (n + 1) - C
      BY <1>2, <3>1
    <3> QED  BY <3>1, <3>2, <3>3
  <2> QED  BY <1>6, <2>5, <2>6, <2>7
<1>11. ASSUME NEW k \in 1 .. Len(s) + 1 PROVE new.tids[Ring!Place(new, k - 1)] = Append(s, tid)[k]
  <2>1. CASE k = Len(s) + 1
    <3>1. k - 1 = Len(s)
      BY <1>2, <2>1
    <3> QED  BY <1>3, <1>6, <1>7, <1>9, <2>1, <3>1
  <2>2. CASE k # Len(s) + 1
    <3>1. PICK i \in 0 .. C - 1 : i = k - 1 /\ i # Len(s) /\ i \in 0 .. C
      BY <1>2, <2>2
    <3>2. Len(s) \in 0 .. C - 1 /\ k \in 1 .. Len(s)
      BY <1>2, <2>2
    <3>3. Ring!Place(ring, i) # l /\ Ring!Place(ring, i) \in 0 .. C - 1
      BY <1>1, <1>7, <3>1, <3>2, PlacesDiffer, PlaceIs DEF InOrder
    <3>4. ring.tids[Ring!Place(ring, i)] = s[k]
      BY <3>1, <3>2 DEF InOrder
    <3> QED  BY <1>3, <1>6, <1>9, <3>1, <3>2, <3>3, <3>4
  <2> QED  BY <2>1, <2>2
<1>12. InOrder(new, Append(s, tid))
  <2>1. PICK r : r = Append(s, tid)
    OBVIOUS
  <2>2. Len(r) = Len(s) + 1 /\ Len(r) <= C /\ \A k \in 1 .. Len(r) : new.tids[Ring!Place(new, k - 1)] = r[k]
    BY <1>2, <1>3, <1>11, <2>1
  <2>3. InOrder(new, r)
    BY <1>1, <1>2, <1>5, <1>9, <1>10, <2>2 DEF InOrder
  <2> QED  BY <2>1, <2>3
<1> QED  BY <1>4, <1>12

(* How far from the head a place is, and the array after n turns of the     *)
(* gap-closing loop that starts at offset f.                                *)
Offset(ring, p) == IF p < ring.head THEN p + Ring!Places - ring.head ELSE p - ring.head
Moved(ring, f, n) ==
  [p \in 0 .. Ring!Places - 1 |-> IF Offset(ring, p) \in f .. f + n - 1
                                 THEN ring.tids[Ring!Place(ring, Offset(ring, p) + 1)] ELSE ring.tids[p]]

(* Places and offsets correspond. *)
LEMMA OffsetIs ==
  ASSUME NEW ring, ring.head \in 0 .. Ring!Places - 1, NEW i \in 0 .. Ring!Places - 1
  PROVE  /\ Offset(ring, Ring!Place(ring, i)) = i
         /\ Offset(ring, i) \in 0 .. Ring!Places - 1 /\ Ring!Place(ring, Offset(ring, i)) = i
<1>1. PICK C, h : C = Ring!Places /\ h = ring.head
  OBVIOUS
<1>2. C \in Nat /\ h \in 0 .. C - 1 /\ i \in 0 .. C - 1
  BY <1>1, ThreadMaxAssumption DEF Ring!Places
<1>3. PICK o : o = Offset(ring, i) /\ o = (IF i < h THEN i + C - h ELSE i - h) /\ o \in 0 .. C - 1
  BY <1>1, <1>2 DEF Offset
<1>4. \A x \in 0 .. C - 1 : Ring!Place(ring, x) = IF h + x < C THEN h + x ELSE h + x - C
  <2>1. \A x \in 0 .. C - 1 : x \in 0 .. C
    BY <1>2
  <2> QED  BY <1>1, <2>1, PlaceIs
<1>5. Ring!Place(ring, o) = i
  <2>1. Ring!Place(ring, o) = IF h + o < C THEN h + o ELSE h + o - C
    BY <1>3, <1>4
  <2> QED  BY <1>2, <1>3, <2>1
<1>6. PICK p : p = Ring!Place(ring, i) /\ p = IF h + i < C THEN h + i ELSE h + i - C
  BY <1>2, <1>4
<1>7. Offset(ring, p) = IF p < h THEN p + C - h ELSE p - h
  BY <1>1 DEF Offset
<1>8. Offset(ring, p) = i
  BY <1>2, <1>6, <1>7
<1> QED  BY <1>1, <1>3, <1>5, <1>6, <1>8

(* One turn of the loop: the entry behind moves up. *)
LEMMA MovedStep ==
  ASSUME NEW ring, ring.head \in 0 .. Ring!Places - 1, ring.tids \in [0 .. Ring!Places - 1 -> Nat],
         NEW f \in Nat, NEW n \in Nat \ {0}, f + n <= Ring!Places - 1
  PROVE  Moved(ring, f, n) = [Moved(ring, f, n - 1) EXCEPT ![Ring!Place(ring, f + n - 1)] =
                                                               Moved(ring, f, n - 1)[Ring!Place(ring, f + n)]]
<1>1. PICK C : C = Ring!Places
  OBVIOUS
<1>2. C \in Nat /\ f + n - 1 \in 0 .. C - 1 /\ f + n \in 0 .. C - 1 /\ f + n \in 0 .. C /\ f + n - 1 \in 0 .. C
  BY <1>1, ThreadMaxAssumption DEF Ring!Places
<1>3. PICK dst \in 0 .. C - 1, src \in 0 .. C - 1 :
        dst = Ring!Place(ring, f + n - 1) /\ src = Ring!Place(ring, f + n)
  BY <1>1, <1>2, PlaceIs
<1>4. Offset(ring, dst) = f + n - 1 /\ Offset(ring, src) = f + n
  BY <1>1, <1>2, <1>3, OffsetIs
<1>5. \A p \in 0 .. C - 1 : Offset(ring, p) \in 0 .. C - 1 /\ (Offset(ring, p) = f + n - 1 => p = dst)
  BY <1>1, <1>3, OffsetIs
<1>6. ASSUME NEW m \in Nat, NEW p \in 0 .. C - 1
      PROVE  Moved(ring, f, m)[p] = IF Offset(ring, p) \in f .. f + m - 1
                                    THEN ring.tids[Ring!Place(ring, Offset(ring, p) + 1)] ELSE ring.tids[p]
  BY <1>1 DEF Moved
<1>7. n - 1 \in Nat /\ f + (n - 1) - 1 = f + n - 2
  OBVIOUS
<1>8. PICK old, new : old = Moved(ring, f, n - 1) /\ new = Moved(ring, f, n)
  OBVIOUS
<1>9. DOMAIN old = 0 .. C - 1 /\ new = [p \in 0 .. C - 1 |-> new[p]] /\ old = [p \in 0 .. C - 1 |-> old[p]]
  BY <1>1, <1>8 DEF Moved
<1>10. new[dst] = old[src]
  <2>1. Offset(ring, dst) \in f .. f + n - 1 /\ Offset(ring, dst) + 1 = f + n /\ Offset(ring, src) \notin f .. f + (n - 1) - 1
    BY <1>4
  <2>2. new[dst] = ring.tids[Ring!Place(ring, f + n)]
    BY <1>6, <1>8, <2>1
  <2>3. old[src] = ring.tids[src]
    BY <1>6, <1>7, <1>8, <2>1
  <2> QED  BY <1>3, <2>2, <2>3
<1>11. ASSUME NEW p \in 0 .. C - 1, p # dst PROVE new[p] = old[p]
  <2>1. Offset(ring, p) \in 0 .. C - 1 /\ Offset(ring, p) # f + n - 1
    BY <1>5, <1>11
  <2>2. Offset(ring, p) \in f .. f + n - 1 <=> Offset(ring, p) \in f .. f + (n - 1) - 1
    <3>1. PICK o \in Nat : o = Offset(ring, p) /\ o # f + n - 1
      BY <1>2, <2>1
    <3>2. o \in f .. f + n - 1 <=> o \in f .. f + (n - 1) - 1
      BY <3>1
    <3> QED  BY <3>1, <3>2
  <2> QED  BY <1>6, <1>7, <1>8, <2>2
<1>12. new = [old EXCEPT ![dst] = old[src]]
  BY <1>9, <1>10, <1>11
<1> QED  BY <1>3, <1>8, <1>12

(* The gap-closing loop, as a whole. *)
LEMMA CloseRingIs ==
  ASSUME NEW ring, ring.head \in 0 .. Ring!Places - 1, ring.tids \in [0 .. Ring!Places - 1 -> Nat],
         ring.count \in 1 .. Ring!Places, NEW f \in 0 .. ring.count - 1
  PROVE  Ring!CloseRing(ring, f) = Moved(ring, f, ring.count - 1 - f)
<1> DEFINE N == ring.count - 1 - f
           turns == Ring!Turns(f, ring.count - 2)
           D == 0 .. N
           E(a) == [n \in D |-> IF n = 0 THEN ring.tids
                               ELSE [a[n - 1] EXCEPT ![Ring!Place(ring, turns[n])] = a[n - 1][Ring!Place(ring, turns[n] + 1)]]]
           A == [n \in D |-> Moved(ring, f, n)]
<1>1. PICK C, c : C = Ring!Places /\ c = ring.count
  OBVIOUS
<1>2. C \in Nat /\ C > 0 /\ c \in 1 .. C /\ f \in 0 .. c - 1 /\ N = c - 1 - f /\ N \in Nat /\ N \in D
  BY <1>1, ThreadMaxAssumption DEF Ring!Places
<1>3. turns \in Seq(Nat) /\ Len(turns) = N /\ \A n \in 1 .. N : turns[n] = f + n - 1
  <2>1. turns = [n \in 1 .. (c - 2) - f + 1 |-> f + n - 1]
    BY <1>1 DEF Ring!Turns
  <2>2. (c - 2) - f + 1 = N
    BY <1>2
  <2>3. turns = [n \in 1 .. N |-> f + n - 1]
    BY <2>1, <2>2
  <2> HIDE DEF turns, N
  <2>4. turns \in [1 .. N -> Nat]
    BY <1>2, <2>3
  <2>5. turns \in Seq(Nat) /\ Len(turns) = N
    BY <1>2, <2>4
  <2> QED  BY <2>3, <2>5
<1> HIDE DEF turns, N
<1>4. Moved(ring, f, 0) = ring.tids
  <2>1. \A p \in 0 .. C - 1 : Offset(ring, p) \notin f .. f + 0 - 1
    BY <1>2
  <2> QED  BY <1>1, <2>1 DEF Moved
<1>5. ASSUME NEW n \in 1 .. N
      PROVE  Moved(ring, f, n) = [Moved(ring, f, n - 1) EXCEPT ![Ring!Place(ring, turns[n])] =
                                                                   Moved(ring, f, n - 1)[Ring!Place(ring, turns[n] + 1)]]
  <2>1. f \in Nat /\ n \in Nat \ {0} /\ f + n <= Ring!Places - 1 /\ turns[n] = f + n - 1 /\ turns[n] + 1 = f + n
    <3>1. turns[n] = f + n - 1
      BY <1>3
    <3>2. f \in Nat /\ n \in Nat \ {0} /\ f + n <= C - 1
      BY <1>2
    <3> QED  BY <1>1, <3>1, <3>2
  <2> QED  BY <2>1, MovedStep
<1>6. A = E(A)
  <2>1. ASSUME NEW n \in D, n # 0
        PROVE  A[n] = [A[n - 1] EXCEPT ![Ring!Place(ring, turns[n])] = A[n - 1][Ring!Place(ring, turns[n] + 1)]]
    <3>1. n \in 1 .. N /\ n - 1 \in D
      BY <1>2, <2>1
    <3>2. A[n] = Moved(ring, f, n) /\ A[n - 1] = Moved(ring, f, n - 1)
      BY <3>1
    <3> HIDE DEF A
    <3> QED  BY <1>5, <3>1, <3>2
  <2>2. 0 \in D => A[0] = ring.tids
    BY <1>4
  <2>3. A = [n \in D |-> A[n]]
    OBVIOUS
  <2> HIDE DEF A, D
  <2> QED  BY <2>1, <2>2, <2>3
<1> DEFINE after == Ring!AfterTurn(ring, turns)
<1>7. after = CHOOSE a : a = E(a)
  BY <1>3 DEF Ring!AfterTurn
<1>8. after = E(after)
  <2> HIDE DEF A, E, after
  <2> QED  BY <1>6, <1>7
<1> HIDE DEF after
<1>9. after[0] = ring.tids
  BY <1>2, <1>8
<1>10. ASSUME NEW n \in 1 .. N
       PROVE  after[n] = [after[n - 1] EXCEPT ![Ring!Place(ring, turns[n])] = after[n - 1][Ring!Place(ring, turns[n] + 1)]]
  <2>1. n \in D /\ n # 0
    BY <1>2
  <2> HIDE DEF D
  <2> QED  BY <1>8, <2>1
<1> DEFINE T == {n \in D : after[n] # Moved(ring, f, n)}
<1>11. T = {}
  <2>1. SUFFICES ASSUME T # {} PROVE FALSE
    OBVIOUS
  <2>2. PICK n \in T : \A j \in T : n <= j
    <3>1. T \subseteq Nat
      BY <1>2
    <3> HIDE DEF T
    <3> QED  BY <2>1, <3>1, LeastNatural
  <2>3. n \in 1 .. N /\ n - 1 \in D /\ n - 1 \notin T
    BY <1>2, <1>4, <1>9, <2>2
  <2>4. after[n - 1] = Moved(ring, f, n - 1)
    BY <2>3
  <2> QED  BY <1>5, <1>10, <2>2, <2>3, <2>4
<1>12. after[N] = Moved(ring, f, N)
  BY <1>2, <1>11
<1>13. Ring!CloseRing(ring, f) = after[N]
  BY <1>3 DEF Ring!CloseRing, Ring!MoveUp, after, turns
<1> QED  BY <1>12, <1>13 DEF N

(* A removal closes the gap of the entry it finds, and finds the first one. *)
LEMMA RemoveInOrder ==
  ASSUME NEW s \in Seq(RealTid), NEW ring, InOrder(ring, s), NEW tid
  PROVE  InOrder(Ring!wait_queue_remove(ring, tid), queue_remove(s, tid))
<1> DEFINE Found == {i \in 0 .. ring.count - 1 : ring.tids[Ring!Place(ring, i)] = tid}
<1>1. PICK C, h, c : C = Ring!Places /\ h = ring.head /\ c = Len(s)
  OBVIOUS
<1>2. /\ C \in Nat /\ C > 0 /\ c \in Nat /\ h \in 0 .. C - 1 /\ c <= C /\ ring.count = c
      /\ DOMAIN s = 1 .. c
  BY <1>1, ThreadMaxAssumption DEF Ring!Places, InOrder
<1>3. Found = {i \in 0 .. c - 1 : s[i + 1] = tid}
  <2>1. ASSUME NEW i \in 0 .. c - 1 PROVE ring.tids[Ring!Place(ring, i)] = s[i + 1]
    <3>1. i + 1 \in 1 .. Len(s) /\ (i + 1) - 1 = i
      BY <1>1, <1>2
    <3>2. ring.tids[Ring!Place(ring, (i + 1) - 1)] = s[i + 1]
      BY <3>1 DEF InOrder
    <3> QED  BY <3>1, <3>2
  <2> QED  BY <1>2, <2>1
<1>4. Ring!wait_queue_remove(ring, tid) =
        IF Found = {} THEN ring
        ELSE [tids |-> Ring!CloseRing(ring, Ring!Min(Found)), head |-> ring.head,
              tail |-> Ring!Place(ring, ring.count - 1), count |-> ring.count - 1]
  BY DEF Ring!wait_queue_remove
<1>5. Found = {} <=> tid \notin ToSet(s)
  <2>1. ASSUME NEW k \in 1 .. c, s[k] = tid PROVE Found # {}
    <3>1. k - 1 \in 0 .. c - 1 /\ s[(k - 1) + 1] = tid
      BY <1>2, <2>1
    <3> QED  BY <1>3, <3>1
  <2>2. ASSUME NEW i \in Found PROVE tid \in ToSet(s)
    <3>1. i + 1 \in 1 .. c /\ s[i + 1] = tid
      BY <1>2, <1>3
    <3> QED  BY <1>2, <3>1 DEF ToSet
  <2> QED  BY <1>2, <2>1, <2>2 DEF ToSet
<1> HIDE DEF Found
<1>6. CASE Found = {}
  BY <1>4, <1>5, <1>6 DEF queue_remove
<1>7. CASE Found # {}
  <2>2. Found \subseteq Nat
    BY <1>2, <1>3
  <2>1. PICK f \in Found : \A y \in Found : f <= y
    BY <1>7, <2>2, LeastNatural
  <2>3. Ring!Min(Found) = f
    <3>1. \A x \in Found : (\A y \in Found : x =< y) => x = f
      BY <2>1, <2>2
    <3>2. Ring!Min(Found) = CHOOSE x \in Found : \A y \in Found : x =< y
      BY DEF Ring!Min
    <3>3. PICK m : m = Ring!Min(Found)
      OBVIOUS
    <3>4. m \in Found /\ \A y \in Found : m =< y
      BY <2>1, <3>2, <3>3
    <3> QED  BY <3>1, <3>3, <3>4
  <2>4. f \in 0 .. c - 1 /\ s[f + 1] = tid
    BY <1>3
  <2>5. FirstAt(s, tid) = f + 1
    <3>1. f + 1 \in DOMAIN s /\ \A j \in 1 .. (f + 1) - 1 : s[j] # tid
      <4>1. ASSUME NEW j \in 1 .. (f + 1) - 1, s[j] = tid PROVE FALSE
        <5>1. j - 1 \in 0 .. c - 1 /\ s[(j - 1) + 1] = tid /\ ~(f <= j - 1)
          BY <1>2, <2>4, <4>1
        <5> QED  BY <1>3, <2>1, <5>1
      <4> QED  BY <1>2, <2>4, <4>1
    <3>2. \A k \in DOMAIN s : s[k] = tid /\ (\A j \in 1 .. k - 1 : s[j] # tid) => k = f + 1
      <4>1. ASSUME NEW k \in 1 .. c, s[k] = tid, \A j \in 1 .. k - 1 : s[j] # tid, k # f + 1 PROVE FALSE
        <5>1. CASE k < f + 1
          BY <1>2, <2>4, <3>1, <4>1, <5>1
        <5>2. CASE k > f + 1
          BY <1>2, <2>4, <4>1, <5>2
        <5> QED  BY <1>2, <2>4, <4>1, <5>1, <5>2
      <4> QED  BY <1>2, <4>1
    <3> QED  BY <2>4, <3>1, <3>2 DEF FirstAt
  <2>6. PICK r : r = queue_remove(s, tid) /\ r = CloseGap(s, f + 1)
    BY <1>5, <1>7, <2>5 DEF queue_remove
  <2>7. Len(r) = c - 1 /\ \A k \in 1 .. c - 1 : r[k] = IF k < f + 1 THEN s[k] ELSE s[k + 1]
    <3>1. f + 1 \in 1 .. Len(s)
      BY <1>1, <1>2, <2>4
    <3> QED  BY <1>1, <2>6, <3>1, CloseGapProperties
  <2>8. PICK new : new = Ring!wait_queue_remove(ring, tid)
    OBVIOUS
  <2>9. /\ new.tids = Moved(ring, f, c - 1 - f) /\ new.head = h
        /\ new.tail = Ring!Place(ring, c - 1) /\ new.count = c - 1
    <3>1. new.tids = Ring!CloseRing(ring, f) /\ new.head = h /\ new.tail = Ring!Place(ring, c - 1) /\ new.count = c - 1
      BY <1>1, <1>2, <1>4, <1>7, <2>3, <2>8
    <3>2. ring.count \in 1 .. Ring!Places /\ f \in 0 .. ring.count - 1
      BY <1>1, <1>2, <2>4
    <3>3. Ring!CloseRing(ring, f) = Moved(ring, f, ring.count - 1 - f)
      BY <3>2, CloseRingIs DEF InOrder
    <3> QED  BY <1>2, <3>1, <3>3
  <2>10. \A i : Ring!Place(new, i) = Ring!Place(ring, i)
    BY <1>1, <2>9 DEF Ring!Place
  <2>11. ASSUME NEW p \in 0 .. C - 1
         PROVE  new.tids[p] = IF Offset(ring, p) \in f .. c - 2
                              THEN ring.tids[Ring!Place(ring, Offset(ring, p) + 1)] ELSE ring.tids[p]
    <3>1. f + (c - 1 - f) - 1 = c - 2
      BY <1>2, <2>4
    <3> QED  BY <1>1, <2>9, <3>1 DEF Moved
  <2>12. new.tids \in [0 .. C - 1 -> Nat]
    <3>1. \A p \in 0 .. C - 1 : new.tids[p] \in Nat
      <4> SUFFICES ASSUME NEW p \in 0 .. C - 1 PROVE new.tids[p] \in Nat
        OBVIOUS
      <4>1. Offset(ring, p) \in 0 .. C - 1 /\ ring.tids \in [0 .. C - 1 -> Nat]
        BY <1>1, OffsetIs DEF InOrder
      <4>2. Offset(ring, p) + 1 \in 0 .. C
        BY <1>2, <4>1
      <4>3. Ring!Place(ring, Offset(ring, p) + 1) \in 0 .. C - 1
        BY <1>1, <4>2, PlaceIs DEF InOrder
      <4> QED  BY <2>11, <4>1, <4>3
    <3>2. new.tids = [p \in 0 .. C - 1 |-> new.tids[p]]
      BY <1>1, <2>9 DEF Moved
    <3> QED  BY <3>1, <3>2
  <2>13. ASSUME NEW k \in 1 .. c - 1 PROVE new.tids[Ring!Place(new, k - 1)] = r[k]
    <3>1. k - 1 \in 0 .. C - 1 /\ k - 1 \in 0 .. C /\ (k - 1) + 1 = k /\ (k + 1) - 1 = k /\ k \in 1 .. c /\ k + 1 \in 1 .. c
      BY <1>2
    <3>2. PICK p \in 0 .. C - 1 : p = Ring!Place(ring, k - 1) /\ Offset(ring, p) = k - 1
      BY <1>1, <3>1, PlaceIs, OffsetIs DEF InOrder
    <3>3. new.tids[p] = IF k - 1 \in f .. c - 2 THEN ring.tids[Ring!Place(ring, k)] ELSE ring.tids[p]
      BY <2>11, <3>1, <3>2
    <3>4. ring.tids[p] = s[k] /\ ring.tids[Ring!Place(ring, k)] = s[k + 1]
      <4>1. ring.tids[Ring!Place(ring, k - 1)] = s[k] /\ ring.tids[Ring!Place(ring, (k + 1) - 1)] = s[k + 1]
        BY <1>1, <3>1 DEF InOrder
      <4> QED  BY <3>1, <3>2, <4>1
    <3>5. k - 1 \in f .. c - 2 <=> ~(k < f + 1)
      BY <1>2, <2>4
    <3> QED  BY <2>7, <2>10, <3>2, <3>3, <3>4, <3>5
  <2>14. c - 1 <= C
    BY <1>2
  <2>15. InOrder(new, r)
    BY <1>1, <1>2, <2>7, <2>9, <2>10, <2>12, <2>13, <2>14 DEF InOrder
  <2> QED  BY <2>6, <2>8, <2>15
<1> QED  BY <1>6, <1>7

(* The arrays hold the queues: SchedInv bounds a queue by the number of      *)
(* threads that can be in it, which is the length of the array.              *)
LEMMA QueueFitsRing ==
  ASSUME NEW s \in Seq(RealTid), HasNoDuplicates(s)
  PROVE  Len(s) <= Ring!Places
<1>1. Len(s) \in Nat /\ Ring!Places \in Nat /\ QueueCapacity = Ring!Places
  BY ThreadMaxAssumption DEF QueueCapacity, Ring!Places
<1>2. CASE s = <<>>
  BY <1>1, <1>2
<1>3. CASE s # <<>>
  <2>1. /\ Tail(s) \in Seq(RealTid) /\ Head(s) \in RealTid
        /\ HasNoDuplicates(Tail(s)) /\ Head(s) \notin ToSet(Tail(s))
    BY <1>3, TailSet
  <2>2. ~(Len(Tail(s)) >= QueueCapacity)
    BY <2>1, RoomForThread
  <2>3. Len(Tail(s)) = Len(s) - 1
    BY <1>3
  <2> QED  BY <1>1, <2>2, <2>3
<1> QED  BY <1>2, <1>3

(* For every ring with its head anywhere, the ring's operations are those   *)
(* of the sequence.                                                         *)
LEMMA RingLikeQueue ==
  ASSUME NEW s \in Seq(RealTid), HasNoDuplicates(s), s # <<>>, NEW h \in 0 .. THREAD_MAX - 2
  PROVE  LET ring == Ring!RingOf(s, h, NoTid) IN
         /\ Ring!Holds(ring, s)
         /\ Ring!Contents(ring)[1] = Head(s) /\ Ring!Holds(Ring!queue_pop(ring), Tail(s))
         /\ \A tid \in RealTid :
              /\ Ring!Holds(Ring!wait_queue_remove(ring, tid), queue_remove(s, tid))
              /\ tid \notin ToSet(s) => Ring!Holds(Ring!queue_push(ring, tid), Append(s, tid))
<1>1. Ring!Places \in Nat /\ h \in 0 .. Ring!Places - 1 /\ NoTid \in Nat /\ QueueCapacity = Ring!Places
  BY ThreadMaxAssumption DEF Ring!Places, NoTid, QueueCapacity
<1>2. PICK ring : ring = Ring!RingOf(s, h, NoTid)
  OBVIOUS
<1>3. ring = [tids |-> ring.tids, head |-> ring.head, tail |-> ring.tail, count |-> ring.count]
  BY <1>2 DEF Ring!RingOf
<1>4. InOrder(ring, s)
  BY <1>1, <1>2, QueueFitsRing, RingOfInOrder
<1>5. Ring!Holds(ring, s)
  BY <1>4, InOrderHolds
<1>6. Ring!Contents(ring)[1] = Head(s) /\ Ring!Holds(Ring!queue_pop(ring), Tail(s))
  <2>1. InOrder(Ring!queue_pop(ring), Tail(s)) /\ Ring!Contents(ring)[1] = Head(s)
    BY <1>3, <1>4, PopInOrder
  <2>2. Tail(s) \in Seq(RealTid)
    BY TailSet
  <2> QED  BY <2>1, <2>2, InOrderHolds
<1>7. ASSUME NEW tid \in RealTid
      PROVE  Ring!Holds(Ring!wait_queue_remove(ring, tid), queue_remove(s, tid))
  <2>1. InOrder(Ring!wait_queue_remove(ring, tid), queue_remove(s, tid))
    BY <1>4, RemoveInOrder
  <2>2. queue_remove(s, tid) \in Seq(RealTid)
    BY RemoveSet
  <2> QED  BY <2>1, <2>2, InOrderHolds
<1>8. ASSUME NEW tid \in RealTid, tid \notin ToSet(s)
      PROVE  Ring!Holds(Ring!queue_push(ring, tid), Append(s, tid))
  <2>1. Len(s) \in Nat /\ ~(Len(s) >= QueueCapacity)
    BY <1>8, RoomForThread
  <2>2. Len(s) < Ring!Places
    BY <1>1, <2>1
  <2>3. InOrder(Ring!queue_push(ring, tid), Append(s, tid))
    BY <1>4, <2>2, PushInOrder
  <2>4. Append(s, tid) \in Seq(RealTid)
    OBVIOUS
  <2> QED  BY <2>3, <2>4, InOrderHolds
<1> QED  BY <1>2, <1>5, <1>6, <1>7, <1>8

(* The arrays behind the wait queues behave like the sequences the model     *)
(* has in their place: with its head anywhere, an array that holds a queue   *)
(* holds the right queue after a pop, a push and the removal, by the loop    *)
(* over the array, of any thread; in every reachable state, for every        *)
(* THREAD_MAX.                                                               *)
THEOREM RingsFaithful == Spec => []RingsAgree
<1>1. SchedInv => RingsAgree
  <2> SUFFICES ASSUME SchedInv, NEW q \in WaitQueues, wait_queues[q] # <<>>,
                      NEW h \in 0 .. THREAD_MAX - 2
               PROVE  LET s == wait_queues[q]
                          ring == Ring!RingOf(s, h, NoTid) IN
                      /\ Ring!Holds(ring, s)
                      /\ Ring!Contents(ring)[1] = Head(s) /\ Ring!Holds(Ring!queue_pop(ring), Tail(s))
                      /\ \A tid \in RealTid :
                           /\ Ring!Holds(Ring!wait_queue_remove(ring, tid), queue_remove(s, tid))
                           /\ tid \notin ToSet(s) => Ring!Holds(Ring!queue_push(ring, tid), Append(s, tid))
    BY DEF RingsAgree
  <2>1. wait_queues[q] \in Seq(RealTid) /\ HasNoDuplicates(wait_queues[q])
    BY DEF SchedInv, Agree
  <2>2. PICK s : s = wait_queues[q]
    OBVIOUS
  <2>3. s \in Seq(RealTid) /\ HasNoDuplicates(s) /\ s # <<>>
    BY <2>1, <2>2
  <2> QED  BY <2>2, <2>3, RingLikeQueue
<1> QED  BY <1>1, SchedulerInvariant, PTL
=============================================================================
