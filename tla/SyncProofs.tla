----------------------------- MODULE SyncProofs -----------------------------
(***************************************************************************)
(* The mutexes are correct on top of the scheduler, for every number of    *)
(* threads and mutexes: mutual exclusion, no orphaned mutex, no PANIC,     *)
(* timeouts that own nothing; and they implement the abstract FIFO lock.   *)
(***************************************************************************)
EXTENDS Sync, ThreadProofs

(* The states of a thread that exists. *)
Live == {"READY", "RUNNING", "BLOCKED"}

(* A step of the scheduler leaves thread t's wait as it is. *)
Kept(t) ==
  /\ threads'[t].state = "BLOCKED" <=> threads[t].state = "BLOCKED"
  /\ threads[t].state \in Live => /\ threads'[t].state \in Live
                                  /\ threads'[t].wait_queue = threads[t].wait_queue
                                  /\ threads'[t].wait_result = threads[t].wait_result

(* A dispatch keeps every thread's wait but that of the thread switched from, *)
(* which goes with the entry it was given.                                    *)
LEMMA DispatchKept ==
  ASSUME SchedInv, NEW thr \in [Tid -> TCB], NEW rq \in Seq(RealTid), Dispatch(thr, rq),
         ToSet(rq) \subseteq ToSet(ready_queue) \cup {current_thread},
         \A t \in Tid : t # current_thread => thr[t] = threads[t]
  PROVE  /\ \A t \in RealTid : t # current_thread => Kept(t)
         /\ current_thread \in RealTid =>
              /\ threads'[current_thread].wait_queue = thr[current_thread].wait_queue
              /\ threads'[current_thread].wait_result = thr[current_thread].wait_result
              /\ threads'[current_thread].state \in {thr[current_thread].state, "RUNNING"}
              /\ current_thread \notin ToSet(rq) => threads'[current_thread] = thr[current_thread]
<1> DEFINE next == pick_next_thread(rq)
<1>1. next \in Tid /\ (next = THREAD_NULL_TID \/ next \in ToSet(rq))
  BY TailSet, TidFacts DEF pick_next_thread
<1>2. threads' = [thr EXCEPT ![next] = Dispatched(thr[next])]
  BY DEF Dispatch
<1> HIDE DEF next
<1>3. thr[next] \in TCB
  BY <1>1
<1>4. /\ Dispatched(thr[next]).wait_queue = thr[next].wait_queue
      /\ Dispatched(thr[next]).wait_result = thr[next].wait_result
      /\ Dispatched(thr[next]).state = "RUNNING"
  BY <1>3 DEF Dispatched, TCB
<1>5. \A t \in Tid : IF t = next THEN threads'[t] = Dispatched(thr[next]) ELSE threads'[t] = thr[t]
  BY <1>2
<1>6. ASSUME NEW t \in RealTid, t # current_thread PROVE Kept(t)
  <2>1. thr[t] = threads[t] /\ t \in Tid /\ t # THREAD_NULL_TID
    BY <1>6, TidFacts
  <2>2. CASE t # next
    BY <1>5, <2>1, <2>2 DEF Kept
  <2>3. CASE t = next
    <3>1. t \in ToSet(ready_queue)
      BY <1>1, <1>6, <2>1, <2>3
    <3>2. threads[t].state = "READY"
      BY <3>1 DEF SchedInv, Agree, EntryAgrees
    <3> QED  BY <1>4, <1>5, <2>1, <2>3, <3>2 DEF Kept, Live
  <2> QED  BY <2>2, <2>3
<1> QED  BY <1>1, <1>4, <1>5, <1>6, TidFacts

(* A switch that requeues the running thread. *)
LEMMA SwitchKept ==
  ASSUME SchedInv, current_thread \in Tid, SwitchRequeue
  PROVE  \A t \in RealTid : Kept(t)
<1> DEFINE prev == current_thread
           tcb == [threads[prev] EXCEPT !.state = "READY"]
           r   == IF prev # THREAD_NULL_TID THEN ready_enqueue(tcb) ELSE tcb
           rq  == EnqueueBehind(ready_queue, prev)
           thr == [threads EXCEPT ![prev] = r]
<1>1. threads \in [Tid -> TCB] /\ ready_queue \in Seq(RealTid) /\ threads[prev] \in TCB
      /\ threads[prev].state = "RUNNING"
  BY DEF SchedInv, Agree, EntryState
<1>2. Dispatch(thr, rq)
  BY DEF SwitchRequeue
<1>3. /\ tcb \in TCB /\ tcb.state = "READY" /\ tcb.wait_queue = threads[prev].wait_queue
      /\ tcb.wait_result = threads[prev].wait_result
  BY <1>1, ReadyEntry DEF TCB
<1> HIDE DEF tcb
<1>4. /\ r \in TCB /\ r.state = "READY" /\ r.wait_queue = threads[prev].wait_queue
      /\ r.wait_result = threads[prev].wait_result
  <2>1. /\ ready_enqueue(tcb) \in TCB /\ ready_enqueue(tcb).state = "READY"
        /\ ready_enqueue(tcb).wait_queue = threads[prev].wait_queue
        /\ ready_enqueue(tcb).wait_result = threads[prev].wait_result
    BY <1>3, EnqueuedEntry DEF ready_enqueue, TCB
  <2> QED  BY <1>3, <2>1
<1> HIDE DEF r
<1>5. /\ thr \in [Tid -> TCB] /\ thr[prev] = r /\ \A t \in Tid : t # prev => thr[t] = threads[t]
  BY <1>1, <1>4
<1>6. rq \in Seq(RealTid) /\ ToSet(rq) \subseteq ToSet(ready_queue) \cup {prev}
  <2>1. prev # THREAD_NULL_TID => prev \in RealTid
    BY TidFacts
  <2> QED  BY <1>1, <2>1, AppendSet DEF EnqueueBehind
<1> HIDE DEF thr, rq
<1>7. /\ \A t \in RealTid : t # prev => Kept(t)
      /\ prev \in RealTid => /\ threads'[prev].wait_queue = r.wait_queue
                             /\ threads'[prev].wait_result = r.wait_result
                             /\ threads'[prev].state \in {r.state, "RUNNING"}
  BY <1>2, <1>5, <1>6, DispatchKept
<1>8. prev \in RealTid => Kept(prev)
  BY <1>1, <1>4, <1>7 DEF Kept, Live
<1> QED  BY <1>7, <1>8

(* The running thread leaves with the entry r. *)
LEMMA LeaveKept ==
  ASSUME SchedInv, CurrentIsReal, NEW r \in TCB,
         Dispatch([threads EXCEPT ![current_thread] = r], ready_queue)
  PROVE  /\ \A t \in RealTid : t # current_thread => Kept(t)
         /\ threads'[current_thread] = r
<1> DEFINE thr == [threads EXCEPT ![current_thread] = r]
<1>1. threads \in [Tid -> TCB] /\ ready_queue \in Seq(RealTid) /\ current_thread \in Tid
  BY TidFacts DEF SchedInv, Agree, CurrentIsReal
<1>2. /\ thr \in [Tid -> TCB] /\ thr[current_thread] = r
      /\ \A t \in Tid : t # current_thread => thr[t] = threads[t]
  BY <1>1
<1>3. Dispatch(thr, ready_queue)
  OBVIOUS
<1> HIDE DEF thr
<1>4. current_thread \notin ToSet(ready_queue) /\ current_thread \in RealTid
  BY <1>1, RunningEntry DEF SchedInv, CurrentIsReal
<1> QED  BY <1>1, <1>2, <1>3, <1>4, DispatchKept

(* The quantum of the running thread. *)
LEMMA QuantumKept ==
  ASSUME SchedInv, current_thread \in Tid, NEW v,
         threads' = [threads EXCEPT ![current_thread].quantum_ticks = v]
  PROVE  \A t \in RealTid : Kept(t)
<1>1. threads[current_thread] \in TCB /\ threads \in [Tid -> TCB]
  BY DEF SchedInv, Agree
<1>2. /\ threads'[current_thread].state = threads[current_thread].state
      /\ threads'[current_thread].wait_queue = threads[current_thread].wait_queue
      /\ threads'[current_thread].wait_result = threads[current_thread].wait_result
  BY <1>1 DEF TCB
<1>3. \A t \in Tid : t # current_thread => threads'[t] = threads[t]
  BY <1>1
<1> QED  BY <1>2, <1>3, TidFacts DEF Kept

(* thread_yield(). *)
LEMMA YieldKept ==
  ASSUME SchedInv, thread_yield
  PROVE  (\A t \in RealTid : Kept(t)) /\ wait_queues' = wait_queues
<1>1. current_thread \in Tid /\ wait_queues' = wait_queues
  BY DEF thread_yield, threads_started, SchedInv, RestTyped
<1>2. CASE ready_queue = <<>>
  BY <1>1, <1>2, QuantumKept DEF thread_yield
<1>3. CASE ready_queue # <<>>
  BY <1>1, <1>3, SwitchKept DEF thread_yield
<1> QED  BY <1>2, <1>3

(* The steps of the timer trap other than a wake-up. *)
LEMMA TrapKept ==
  ASSUME SchedInv, timer_handle_interrupt \/ ChargeTick \/ MaybePreempt
  PROVE  (\A t \in RealTid : Kept(t)) /\ wait_queues' = wait_queues
<1>1. ASSUME threads' = threads PROVE \A t \in RealTid : Kept(t)
  BY <1>1 DEF Kept
<1>2. CASE timer_handle_interrupt
  BY <1>1, <1>2 DEF timer_handle_interrupt, sched
<1>3. CASE ChargeTick
  <2>1. CurrentIsReal => current_thread \in Tid
    BY TidFacts DEF CurrentIsReal
  <2> QED  BY <1>1, <1>3, <2>1, QuantumKept DEF ChargeTick
<1>4. CASE MaybePreempt
  <2>1. CurrentIsReal => current_thread \in Tid
    BY TidFacts DEF CurrentIsReal
  <2>2. wait_queues' = wait_queues
    BY <1>4 DEF MaybePreempt
  <2>3. CASE current_is_preemptible /\ SwitchRequeue
    BY <2>1, <2>2, <2>3, SwitchKept DEF current_is_preemptible
  <2>4. CASE CurrentIsReal /\ RestartQuantum
    BY <2>1, <2>2, <2>4, QuantumKept DEF RestartQuantum
  <2>5. CASE threads' = threads
    BY <1>1, <2>2, <2>5
  <2> QED  BY <1>4, <2>3, <2>4, <2>5 DEF MaybePreempt
<1> QED  BY <1>2, <1>3, <1>4

(* thread_create() and the first dispatch. *)
LEMMA CreateKept ==
  ASSUME SchedInv, thread_create \/ thread_start
  PROVE  (\A t \in RealTid : Kept(t)) /\ wait_queues' = wait_queues
<1>1. threads \in [Tid -> TCB] /\ ready_queue \in Seq(RealTid)
  BY DEF SchedInv, Agree
<1>2. CASE thread_create
  <2>1. PICK tid \in FreeSlots : CreateIn(tid, NoTask)
    BY <1>2 DEF thread_create
  <2>2. /\ threads' = [threads EXCEPT ![tid] = ready_enqueue(Installed(NoTask))]
        /\ wait_queues' = wait_queues /\ tid \in RealTid /\ tid \in Tid
        /\ threads[tid].state \notin Live
    BY <2>1, TidFacts DEF CreateIn, FreeSlots, Live
  <2>3. ready_enqueue(Installed(NoTask)).state = "READY"
    BY DEF ready_enqueue, Installed
  <2>4. Kept(tid)
    BY <1>1, <2>2, <2>3 DEF Kept, Live
  <2>5. \A t \in Tid : t # tid => threads'[t] = threads[t]
    BY <1>1, <2>2
  <2> QED  BY <2>2, <2>4, <2>5, TidFacts DEF Kept
<1>3. CASE thread_start
  <2>1. Dispatch(threads, ready_queue) /\ wait_queues' = wait_queues /\ current_thread = NoTid
    BY <1>3 DEF thread_start, threads_started
  <2>2. current_thread \notin RealTid
    BY <2>1, TidFacts
  <2> QED  BY <1>1, <2>1, <2>2, DispatchKept
<1> QED  BY <1>2, <1>3

-----------------------------------------------------------------------------
(***************************************************************************)
(* The inductive invariant: what a thread's mutex call says agrees with    *)
(* where the scheduler keeps the thread, and a call is never about a mutex *)
(* that its thread has already.                                            *)
(***************************************************************************)
CallAgrees(t) ==
  /\ call[t].op = "none" => call[t] = NoCall
  /\ call[t].op # "none" => call[t].mutex \in Mutex /\ threads[t].state \in Live
  /\ threads[t].state = "BLOCKED" => threads[t].wait_queue = call[t].mutex
  /\ call[t].mutex \notin holds[t]

CallsAgree == \A t \in RealTid : CallAgrees(t)

MutexInv ==
  SyncTypeOK /\ MutualExclusion /\ NoOrphanedMutex /\ TimeoutMeansNotOwner /\ CallsAgree

(* A step that is none of the mutex layer's business: it leaves t's wait as *)
(* it is, or t is in no mutex call and at most goes to sleep.               *)
Undisturbed(t) ==
  Kept(t) \/ (call[t] = NoCall /\ (threads'[t].state = "BLOCKED" => threads'[t].wait_queue = NoQueue))

(* An owner is a real thread; the mutex of no call is none. *)
LEMMA OwnerFacts ==
  ASSUME MutexInv
  PROVE  /\ NoCall.op = "none" /\ NoCall.mutex = NoQueue /\ NoQueue \notin Mutex
         /\ MUTEX_NO_OWNER \notin RealTid
         /\ owner \in [Mutex -> RealTid \cup {MUTEX_NO_OWNER}]
         /\ call \in [RealTid -> Call] /\ holds \in [RealTid -> SUBSET Mutex]
BY QueueAssumption, TidFacts DEF NoCall, Mutex, MUTEX_NO_OWNER, MutexInv, SyncTypeOK

(* Such a step keeps the mutex layer's invariant. *)
LEMMA UndisturbedKeeps ==
  ASSUME MutexInv, \A t \in RealTid : Undisturbed(t), wait_queues' = wait_queues, UNCHANGED svars
  PROVE  MutexInv'
<1>1. owner' = owner /\ call' = call /\ holds' = holds
  BY DEF svars
<1>2. SyncTypeOK' /\ MutualExclusion'
  BY <1>1 DEF MutexInv, SyncTypeOK, MutualExclusion
<1>3. ASSUME NEW t \in RealTid, call[t].op # "none" PROVE Kept(t)
  BY <1>3, OwnerFacts DEF Undisturbed
<1>4. ASSUME NEW t \in RealTid PROVE CallAgrees(t)'
  <2>1. CallAgrees(t)
    BY DEF MutexInv, CallsAgree
  <2>2. CASE Kept(t)
    BY <1>1, <2>1, <2>2 DEF Kept, CallAgrees, Live
  <2>3. CASE ~Kept(t)
    <3>1. call[t] = NoCall /\ (threads'[t].state = "BLOCKED" => threads'[t].wait_queue = NoQueue)
      BY <2>3 DEF Undisturbed
    <3> QED  BY <1>1, <2>1, <3>1, OwnerFacts DEF CallAgrees
  <2> QED  BY <2>2, <2>3
<1>5. NoOrphanedMutex'
  <2>1. ASSUME NEW m \in Mutex, owner[m] # MUTEX_NO_OWNER
        PROVE  m \in holds[owner[m]] \/ (call[owner[m]].mutex = m /\ threads'[owner[m]].state # "BLOCKED")
    <3>1. m \in holds[owner[m]] \/ (call[owner[m]].mutex = m /\ threads[owner[m]].state # "BLOCKED")
      BY <2>1 DEF MutexInv, NoOrphanedMutex
    <3>2. owner[m] \in RealTid
      BY <2>1, OwnerFacts
    <3>3. call[owner[m]].mutex = m => call[owner[m]].op # "none"
      BY <3>2, OwnerFacts DEF MutexInv, CallsAgree, CallAgrees
    <3> QED  BY <1>3, <3>1, <3>2, <3>3 DEF Kept
  <2> QED  BY <1>1, <2>1 DEF MutexInv, NoOrphanedMutex
<1>6. TimeoutMeansNotOwner'
  <2>1. ASSUME NEW t \in RealTid, call[t].op = "lock_timeout", threads'[t].state # "BLOCKED"
        PROVE  threads'[t].wait_result = "WAIT_TIMEOUT" <=> owner[call[t].mutex] # t
    <3>1. Kept(t) /\ threads[t].state \in Live
      BY <1>3, <2>1 DEF MutexInv, CallsAgree, CallAgrees
    <3> QED  BY <2>1, <3>1 DEF Kept, MutexInv, TimeoutMeansNotOwner
  <2> QED  BY <1>1, <2>1 DEF TimeoutMeansNotOwner
<1> QED  BY <1>2, <1>4, <1>5, <1>6 DEF MutexInv, CallsAgree

(* thread_sleep() and thread_exit() of a thread in no mutex call. *)
LEMMA LeaveUndisturbed ==
  ASSUME SchedInv, InThreadCode, thread_exit(ExitFrameSPP) \/ \E ticks \in TickArgs : thread_sleep(ticks)
  PROVE  (\A t \in RealTid : Undisturbed(t)) /\ wait_queues' = wait_queues
<1>1. CurrentIsReal /\ current_thread \in RealTid /\ call[current_thread] = NoCall
  BY DEF thread_exit, thread_sleep, InThreadCode, CurrentIsReal, self
<1>2. /\ threads[current_thread] \in TCB /\ threads[current_thread].wait_queue = NoQueue
      /\ current_thread \in Tid
  <2>1. current_thread \in Tid
    BY <1>1, TidFacts
  <2> QED  BY <1>1, <2>1, RunningEntry DEF SchedInv
<1>3. ASSUME NEW r \in TCB, Dispatch([threads EXCEPT ![current_thread] = r], ready_queue),
             r.state = "BLOCKED" => r.wait_queue = NoQueue
      PROVE  \A t \in RealTid : Undisturbed(t)
  <2>1. /\ \A t \in RealTid : t # current_thread => Kept(t)
        /\ threads'[current_thread] = r
    BY <1>1, <1>3, LeaveKept
  <2> QED  BY <1>1, <1>3, <2>1 DEF Undisturbed
<1>4. CASE thread_exit(ExitFrameSPP)
  <2> DEFINE r == Cleared("EXITED")
  <2>1. Dispatch([threads EXCEPT ![current_thread] = r], ready_queue) /\ wait_queues' = wait_queues
    BY <1>4 DEF thread_exit
  <2>2. r = Cleared("EXITED") /\ "EXITED" \in ThreadState
    BY DEF ThreadState
  <2> HIDE DEF r
  <2>3. r \in TCB /\ r.wait_queue = NoQueue
    BY <2>2, ClearedEntry
  <2> QED  BY <1>3, <2>1, <2>3
<1>5. ASSUME NEW ticks \in TickArgs, thread_sleep(ticks)
      PROVE  (\A t \in RealTid : Undisturbed(t)) /\ wait_queues' = wait_queues
  <2>1. CASE ticks = 0
    BY <1>5, <2>1, YieldKept DEF thread_sleep, Undisturbed
  <2>2. CASE ticks # 0
    <3> DEFINE w   == WakeTick(ticks)
               tcb == Blocked(threads[current_thread], "SLEEP")
               r   == sleep_enqueue(tcb, w)
    <3>1. w \in Nat
      BY DeadlineTypes DEF SchedInv, RestTyped
    <3>2. Dispatch([threads EXCEPT ![current_thread] = r], ready_queue) /\ wait_queues' = wait_queues
      BY <1>5, <2>2 DEF thread_sleep, SleepFor
    <3> HIDE DEF w
    <3>3. "SLEEP" \in WaitReason /\ tcb = Blocked(threads[current_thread], "SLEEP")
      BY DEF WaitReason
    <3> HIDE DEF tcb
    <3>4. tcb \in TCB /\ tcb.wait_queue = NoQueue
      BY <1>2, <3>3, BlockedEntry
    <3>5. r = sleep_enqueue(tcb, w)
      OBVIOUS
    <3> HIDE DEF r
    <3>6. r \in TCB /\ r.wait_queue = NoQueue
      BY <3>1, <3>4, <3>5, SleepEntry
    <3> QED  BY <1>3, <3>2, <3>6
  <2> QED  BY <2>1, <2>2
<1> QED  BY <1>4, <1>5

(* Every step of the scheduler but a timeout leaves the mutexes alone. *)
LEMMA SchedulerKeeps ==
  ASSUME SchedInv, MutexInv, SchedulerStep, ~WakeSleeper
  PROVE  MutexInv' /\ UNCHANGED svars /\ wait_queues' = wait_queues
<1>1. UNCHANGED svars
  BY DEF SchedulerStep, TimerInterrupt, TimerTrapStep
<1>2. (\A t \in RealTid : Undisturbed(t)) /\ wait_queues' = wait_queues
  <2>1. CASE timer_handle_interrupt \/ ChargeTick \/ MaybePreempt
    BY <2>1, TrapKept DEF Undisturbed
  <2>2. CASE thread_create \/ thread_start
    BY <2>2, CreateKept DEF Undisturbed
  <2>3. CASE thread_yield
    BY <2>3, YieldKept DEF Undisturbed
  <2>4. CASE InThreadCode /\ (thread_exit(ExitFrameSPP) \/ \E ticks \in TickArgs : thread_sleep(ticks))
    BY <2>4, LeaveUndisturbed
  <2> QED  BY <2>1, <2>2, <2>3, <2>4 DEF SchedulerStep, TimerInterrupt, TimerTrapStep
<1> QED  BY <1>1, <1>2, UndisturbedKeeps

(***************************************************************************)
(* A wake-up of t, by a timeout or by an unlock.                           *)
(***************************************************************************)
LEMMA WokenFacts ==
  ASSUME SchedInv, NEW t \in RealTid, threads[t].state = "BLOCKED", NEW result \in WaitResult,
         wake_blocked_thread(t, result)
  PROVE  /\ \A u \in RealTid : u # t => threads'[u] = threads[u]
         /\ threads'[t].state = "READY" /\ threads'[t].wait_result = result
         /\ wait_queues' = IF threads[t].wait_queue = NoQueue THEN wait_queues
                           ELSE [wait_queues EXCEPT ![threads[t].wait_queue] =
                                   queue_remove(wait_queues[threads[t].wait_queue], t)]
         /\ threads[t].wait_queue # NoQueue =>
              threads[t].wait_queue \in Mutex /\ t \in ToSet(wait_queues[threads[t].wait_queue])
<1>1. /\ threads \in [Tid -> TCB] /\ t \in Tid /\ threads[t] \in TCB
      /\ EntryAgrees(t, threads[t], ready_queue, sleep_queue, wait_queues)
  BY TidFacts DEF SchedInv, Agree
<1>2. threads' = [threads EXCEPT ![t] = Woken(threads[t], result)]
  BY DEF wake_blocked_thread
<1>3. Woken(threads[t], result).state = "READY" /\ Woken(threads[t], result).wait_result = result
  BY <1>1 DEF Woken, TCB
<1>4. threads[t].wait_queue \in Mutex \cup {NoQueue}
  BY <1>1 DEF TCB, Mutex
<1>5. threads[t].in_wait_queue <=> threads[t].wait_queue # NoQueue
  BY <1>1 DEF EntryAgrees
<1>6. \A u \in Tid : u # t => threads'[u] = threads[u]
  BY <1>1, <1>2
<1>7. threads'[t] = Woken(threads[t], result)
  BY <1>1, <1>2
<1>8. threads[t].wait_queue # NoQueue => t \in ToSet(wait_queues[threads[t].wait_queue])
  BY <1>1, <1>4 DEF EntryAgrees, Mutex
<1> QED  BY <1>3, <1>4, <1>5, <1>6, <1>7, <1>8, TidFacts DEF wake_blocked_thread

(* A blocked thread owns no mutex it waits for. *)
LEMMA BlockedOwnsNot ==
  ASSUME MutexInv, NEW t \in RealTid, threads[t].state = "BLOCKED", NEW m \in Mutex, owner[m] = t
  PROVE  m \in holds[t] /\ m # call[t].mutex
<1>1. owner[m] # MUTEX_NO_OWNER
  BY OwnerFacts
<1> QED  BY <1>1 DEF MutexInv, NoOrphanedMutex, CallsAgree, CallAgrees

(* A deadline takes the waiter out of the queue before it runs. *)
LEMMA TimeoutKeeps ==
  ASSUME SchedInv, MutexInv, WakeSleeper, UNCHANGED svars
  PROVE  /\ MutexInv'
         /\ \/ wait_queues' = wait_queues
            \/ \E t \in RealTid, m \in Mutex :
                 /\ t \in ToSet(wait_queues[m])
                 /\ wait_queues' = [wait_queues EXCEPT ![m] = queue_remove(wait_queues[m], t)]
<1> DEFINE t == Head(sleep_queue)
           result == IF threads[t].wait_reason = "QUEUE_TIMEOUT" THEN "WAIT_TIMEOUT" ELSE "WAIT_OK"
           p == threads[t].wait_queue
<1>1. sleep_queue \in Seq(RealTid) /\ sleep_queue # <<>> /\ t \in RealTid
  <2>1. sleep_queue \in Seq(RealTid) /\ sleep_queue # <<>>
    BY DEF SchedInv, Agree, WakeSleeper, HeadExpired
  <2> QED  BY <2>1, TailSet
<1>2. wake_blocked_thread(t, result) /\ result \in WaitResult
  BY DEF WakeSleeper, WaitResult
<1>3. threads[t].wait_reason \in TimedReason
  <2>1. t \in ToSet(sleep_queue)
    BY <1>1, TailSet
  <2> QED  BY <1>1, <2>1 DEF SchedInv, Agree, EntryAgrees
<1>4. threads[t].state = "BLOCKED"
  BY <1>1, <1>3, TidFacts DEF SchedInv, Agree, EntryState, TimedReason
<1>5. p # NoQueue => result = "WAIT_TIMEOUT"
  <2>1. p # NoQueue => threads[t].wait_reason \in QueueReason
    BY <1>1 DEF SchedInv, Agree, EntryAgrees
  <2> QED  BY <1>3, <2>1 DEF QueueReason, TimedReason
<1> HIDE DEF t, result, p
<1>6. /\ \A u \in RealTid : u # t => threads'[u] = threads[u]
      /\ threads'[t].state = "READY" /\ threads'[t].wait_result = result
      /\ wait_queues' = IF p = NoQueue THEN wait_queues
                        ELSE [wait_queues EXCEPT ![p] = queue_remove(wait_queues[p], t)]
      /\ p # NoQueue => p \in Mutex /\ t \in ToSet(wait_queues[p])
  BY <1>1, <1>2, <1>4, WokenFacts DEF p
<1>7. owner' = owner /\ call' = call /\ holds' = holds
  BY DEF svars
<1>8. SyncTypeOK' /\ MutualExclusion'
  BY <1>7 DEF MutexInv, SyncTypeOK, MutualExclusion
<1>9. CallsAgree'
  <2>1. ASSUME NEW u \in RealTid PROVE CallAgrees(u)'
    <3>1. CallAgrees(u)
      BY DEF MutexInv, CallsAgree
    <3> QED  BY <1>6, <1>7, <3>1 DEF CallAgrees, Live
  <2> QED  BY <2>1 DEF CallsAgree
<1>10. NoOrphanedMutex'
  <2>1. ASSUME NEW m \in Mutex, wait_queues'[m] # <<>> PROVE wait_queues[m] # <<>>
    <3>1. CASE p # NoQueue /\ m = p
      BY <1>6, <3>1 DEF ToSet
    <3>2. CASE p = NoQueue \/ m # p
      BY <1>6, <2>1, <3>2 DEF SchedInv, Agree, Mutex
    <3> QED  BY <3>1, <3>2
  <2>2. ASSUME NEW m \in Mutex, owner[m] # MUTEX_NO_OWNER
        PROVE  m \in holds[owner[m]] \/ (call[owner[m]].mutex = m /\ threads'[owner[m]].state # "BLOCKED")
    <3>1. owner[m] \in RealTid
      BY <2>2, OwnerFacts
    <3>2. CASE owner[m] = t
      BY <1>1, <1>4, <3>2, BlockedOwnsNot
    <3>3. CASE owner[m] # t
      BY <1>6, <2>2, <3>1, <3>3 DEF MutexInv, NoOrphanedMutex
    <3> QED  BY <3>2, <3>3
  <2> QED  BY <1>7, <2>1, <2>2 DEF MutexInv, NoOrphanedMutex
<1>11. TimeoutMeansNotOwner'
  <2>1. ASSUME NEW u \in RealTid, call[u].op = "lock_timeout", threads'[u].state # "BLOCKED"
        PROVE  threads'[u].wait_result = "WAIT_TIMEOUT" <=> owner[call[u].mutex] # u
    <3>1. CASE u = t
      <4>1. call[t].mutex \in Mutex /\ call[t].mutex = p
        BY <1>1, <1>4, <2>1, <3>1 DEF MutexInv, CallsAgree, CallAgrees, p
      <4>2. owner[p] # t
        BY <1>1, <1>4, <4>1, BlockedOwnsNot
      <4>3. p # NoQueue
        BY <4>1, OwnerFacts
      <4> QED  BY <1>5, <1>6, <3>1, <4>1, <4>2, <4>3
    <3>2. CASE u # t
      BY <1>6, <2>1, <3>2 DEF MutexInv, TimeoutMeansNotOwner
    <3> QED  BY <3>1, <3>2
  <2> QED  BY <1>7, <2>1 DEF TimeoutMeansNotOwner
<1>12. MutexInv'
  BY <1>8, <1>9, <1>10, <1>11 DEF MutexInv
<1> QED  BY <1>1, <1>6, <1>12

(* The owner of a free mutex, and of one whose owner gives it up, is nobody *)
(* to the other mutexes: what an assignment to owner[m] leaves to prove.    *)
LEMMA OwnerChange ==
  ASSUME MutexInv, NEW m \in Mutex, NEW new \in RealTid \cup {MUTEX_NO_OWNER},
         owner' = [owner EXCEPT ![m] = new]
  PROVE  /\ owner'[m] = new /\ owner' \in [Mutex -> RealTid \cup {MUTEX_NO_OWNER}]
         /\ \A k \in Mutex : k # m => owner'[k] = owner[k]
BY OwnerFacts

(* mutex_unlock() without a waiter frees the mutex. *)
LEMMA FreeKeeps ==
  ASSUME SchedInv, MutexInv, NEW m \in Mutex, mutex_unlock(m), wait_queues[m] = <<>>
  PROVE  MutexInv' /\ UNCHANGED vars /\ owner' = [owner EXCEPT ![m] = MUTEX_NO_OWNER]
<1>1. /\ self \in RealTid /\ owner[m] = self /\ m \in holds[self] /\ call' = call
      /\ owner' = [owner EXCEPT ![m] = MUTEX_NO_OWNER]
      /\ holds' = [holds EXCEPT ![self] = holds[self] \ {m}]
      /\ call[self] = NoCall
  BY DEF mutex_unlock, NextOwner, InKernelThread, InThreadCode, CurrentIsReal, self
<1>2. UNCHANGED vars
  BY DEF mutex_unlock
<1>3. threads' = threads /\ wait_queues' = wait_queues
  BY <1>2 DEF vars
<1>4. /\ owner'[m] = MUTEX_NO_OWNER /\ owner' \in [Mutex -> RealTid \cup {MUTEX_NO_OWNER}]
      /\ \A k \in Mutex : k # m => owner'[k] = owner[k]
  BY <1>1, OwnerChange
<1>5. /\ holds' \in [RealTid -> SUBSET Mutex] /\ holds'[self] = holds[self] \ {m}
      /\ \A u \in RealTid : u # self => holds'[u] = holds[u]
  BY <1>1, OwnerFacts
<1>6. \A u \in RealTid : u # self => m \notin holds[u]
  BY <1>1 DEF MutexInv, MutualExclusion
<1>7. SyncTypeOK'
  BY <1>1, <1>4, <1>5 DEF MutexInv, SyncTypeOK
<1>8. MutualExclusion'
  <2>1. ASSUME NEW u \in RealTid, NEW k \in holds'[u] PROVE owner'[k] = u
    <3>1. k \in holds[u] /\ k # m /\ k \in Mutex
      BY <1>5, <1>6, <2>1, OwnerFacts
    <3> QED  BY <1>4, <3>1 DEF MutexInv, MutualExclusion
  <2> QED  BY <2>1 DEF MutualExclusion
<1>9. CallsAgree'
  <2>1. ASSUME NEW u \in RealTid PROVE CallAgrees(u)'
    <3>1. CallAgrees(u) /\ holds'[u] \subseteq holds[u]
      BY <1>5 DEF MutexInv, CallsAgree
    <3> QED  BY <1>1, <1>3, <3>1 DEF CallAgrees
  <2> QED  BY <2>1 DEF CallsAgree
<1>10. NoOrphanedMutex'
  <2>1. ASSUME NEW k \in Mutex, k # m, owner[k] # MUTEX_NO_OWNER
        PROVE  k \in holds'[owner[k]] \/ (call[owner[k]].mutex = k /\ threads[owner[k]].state # "BLOCKED")
    <3>1. owner[k] \in RealTid
      BY <2>1, OwnerFacts
    <3> QED  BY <1>5, <2>1, <3>1 DEF MutexInv, NoOrphanedMutex
  <2> QED  BY <1>1, <1>3, <1>4, <2>1 DEF MutexInv, NoOrphanedMutex
<1>11. TimeoutMeansNotOwner'
  <2>1. ASSUME NEW u \in RealTid, call[u].op = "lock_timeout", threads[u].state # "BLOCKED"
        PROVE  threads[u].wait_result = "WAIT_TIMEOUT" <=> owner'[call[u].mutex] # u
    <3>1. u # self /\ call[u].mutex \in Mutex
      BY <1>1, <2>1, OwnerFacts DEF MutexInv, CallsAgree, CallAgrees
    <3>2. owner'[call[u].mutex] = u <=> owner[call[u].mutex] = u
      BY <1>1, <1>4, <3>1, OwnerFacts
    <3> QED  BY <2>1, <3>2 DEF MutexInv, TimeoutMeansNotOwner
  <2> QED  BY <1>1, <1>3, <2>1 DEF TimeoutMeansNotOwner
<1> QED  BY <1>1, <1>2, <1>7, <1>8, <1>9, <1>10, <1>11 DEF MutexInv

(* Removing the head of a queue leaves its tail. *)
LEMMA RemoveHead ==
  ASSUME NEW S, NEW s \in Seq(S), s # <<>>, HasNoDuplicates(s)
  PROVE  queue_remove(s, Head(s)) = Tail(s)
<1>1. Head(s) \in ToSet(s) /\ 1 \in 1 .. Len(s) /\ s[1] = Head(s) /\ Len(s) \in Nat
  BY TailSet
<1>2. FirstAt(s, Head(s)) = 1
  <2>1. FirstAt(s, Head(s)) \in 1 .. Len(s) /\ s[FirstAt(s, Head(s))] = Head(s)
    BY <1>1, FirstAtFinds
  <2> QED  BY <1>1, <2>1 DEF HasNoDuplicates
<1>3. queue_remove(s, Head(s)) = CloseGap(s, 1)
  BY <1>1, <1>2 DEF queue_remove
<1>4. /\ CloseGap(s, 1) \in Seq(S) /\ Len(CloseGap(s, 1)) = Len(s) - 1
      /\ \A k \in 1 .. Len(s) - 1 : CloseGap(s, 1)[k] = s[k + 1]
  BY <1>1, CloseGapProperties
<1>5. /\ Tail(s) \in Seq(S) /\ Len(Tail(s)) = Len(s) - 1
      /\ \A k \in 1 .. Len(s) - 1 : Tail(s)[k] = s[k + 1]
  BY <1>1
<1>6. CloseGap(s, 1) = Tail(s)
  BY <1>1, <1>4, <1>5
<1> QED  BY <1>3, <1>6

(* mutex_unlock() with waiters hands the mutex to the longest one. *)
LEMMA HandOverKeeps ==
  ASSUME SchedInv, MutexInv, NEW m \in Mutex, mutex_unlock(m), wait_queues[m] # <<>>
  PROVE  /\ MutexInv' /\ SchedInv'
         /\ owner' = [owner EXCEPT ![m] = Head(wait_queues[m])]
         /\ wait_queues' = [wait_queues EXCEPT ![m] = Tail(wait_queues[m])]
<1> DEFINE t == Head(wait_queues[m])
<1>1. /\ self \in RealTid /\ owner[m] = self /\ m \in holds[self] /\ call' = call
      /\ owner' = [owner EXCEPT ![m] = t]
      /\ holds' = [holds EXCEPT ![self] = holds[self] \ {m}]
      /\ call[self] = NoCall
  BY DEF mutex_unlock, NextOwner, Oldest, InKernelThread, InThreadCode, CurrentIsReal, self
<1>2. WakeHead(m) /\ wait_queue_wake_one(m) /\ wake_blocked_thread(t, "WAIT_OK")
  BY DEF mutex_unlock, wait_queue_wake_one, WakeHead, Oldest
<1>3. SchedInv'
  BY <1>2, ThreadOpPreserves DEF ThreadOp, Mutex
<1>4. /\ wait_queues[m] \in Seq(RealTid) /\ HasNoDuplicates(wait_queues[m])
      /\ wait_queues \in [Mutex -> Seq(RealTid)]
  BY DEF SchedInv, Agree, Mutex
<1>5. t \in RealTid /\ t \in ToSet(wait_queues[m]) /\ queue_remove(wait_queues[m], t) = Tail(wait_queues[m])
  BY <1>4, TailSet, RemoveHead
<1> HIDE DEF t
<1>6. threads[t].wait_queue = m /\ threads[t].wait_reason \in QueueReason
  BY <1>5, OwnerFacts DEF SchedInv, Agree, EntryAgrees, Mutex
<1>7. threads[t].state = "BLOCKED"
  BY <1>5, <1>6, TidFacts DEF SchedInv, Agree, EntryState, QueueReason
<1>8. call[t].mutex = m /\ call[t].op # "none" /\ t # self /\ m \notin holds[t]
  <2>1. CallAgrees(t) /\ NoCall.mutex # m
    BY <1>5, OwnerFacts DEF MutexInv, CallsAgree
  <2> QED  BY <1>1, <1>6, <1>7, <2>1 DEF CallAgrees
<1>9. /\ \A u \in RealTid : u # t => threads'[u] = threads[u]
      /\ threads'[t].state = "READY" /\ threads'[t].wait_result = "WAIT_OK"
      /\ wait_queues' = [wait_queues EXCEPT ![m] = Tail(wait_queues[m])]
  <2>1. "WAIT_OK" \in WaitResult /\ m # NoQueue
    BY OwnerFacts DEF WaitResult
  <2> QED  BY <1>2, <1>5, <1>6, <1>7, <2>1, WokenFacts
<1>10. /\ owner'[m] = t /\ owner' \in [Mutex -> RealTid \cup {MUTEX_NO_OWNER}]
       /\ \A k \in Mutex : k # m => owner'[k] = owner[k]
  BY <1>1, <1>5, OwnerChange
<1>11. /\ holds' \in [RealTid -> SUBSET Mutex] /\ holds'[self] = holds[self] \ {m}
       /\ \A u \in RealTid : u # self => holds'[u] = holds[u]
  BY <1>1, OwnerFacts
<1>12. \A u \in RealTid : u # self => m \notin holds[u]
  BY <1>1 DEF MutexInv, MutualExclusion
<1>13. SyncTypeOK'
  BY <1>1, <1>10, <1>11 DEF MutexInv, SyncTypeOK
<1>14. MutualExclusion'
  <2>1. ASSUME NEW u \in RealTid, NEW k \in holds'[u] PROVE owner'[k] = u
    <3>1. k \in holds[u] /\ k # m /\ k \in Mutex
      BY <1>11, <1>12, <2>1, OwnerFacts
    <3> QED  BY <1>10, <3>1 DEF MutexInv, MutualExclusion
  <2> QED  BY <2>1 DEF MutualExclusion
<1>15. CallsAgree'
  <2>1. ASSUME NEW u \in RealTid PROVE CallAgrees(u)'
    <3>1. CallAgrees(u) /\ holds'[u] \subseteq holds[u]
      BY <1>11 DEF MutexInv, CallsAgree
    <3> QED  BY <1>1, <1>9, <3>1 DEF CallAgrees, Live
  <2> QED  BY <2>1 DEF CallsAgree
<1>16. NoOrphanedMutex'
  <2>1. ASSUME NEW k \in Mutex, k # m
        PROVE  /\ wait_queues'[k] # <<>> => owner'[k] # MUTEX_NO_OWNER
               /\ owner'[k] # MUTEX_NO_OWNER =>
                    \/ k \in holds'[owner'[k]]
                    \/ call[owner'[k]].mutex = k /\ threads'[owner'[k]].state # "BLOCKED"
    <3>1. wait_queues'[k] = wait_queues[k] /\ owner'[k] = owner[k]
      BY <1>4, <1>9, <1>10, <2>1
    <3>2. owner[k] # MUTEX_NO_OWNER => owner[k] \in RealTid
      BY OwnerFacts
    <3>3. owner[k] # MUTEX_NO_OWNER =>
            k \in holds[owner[k]] \/ (call[owner[k]].mutex = k /\ threads'[owner[k]].state # "BLOCKED")
      <4>1. CASE owner[k] = t
        BY <1>5, <1>7, <2>1, <4>1, BlockedOwnsNot
      <4>2. CASE owner[k] # t
        BY <1>9, <3>2, <4>2 DEF MutexInv, NoOrphanedMutex
      <4> QED  BY <4>1, <4>2
    <3> QED  BY <1>11, <2>1, <3>1, <3>2, <3>3 DEF MutexInv, NoOrphanedMutex
  <2>2. /\ owner'[m] # MUTEX_NO_OWNER
        /\ call[owner'[m]].mutex = m /\ threads'[owner'[m]].state # "BLOCKED"
    BY <1>5, <1>8, <1>9, <1>10, OwnerFacts
  <2> QED  BY <1>1, <2>1, <2>2 DEF NoOrphanedMutex
<1>17. TimeoutMeansNotOwner'
  <2>1. ASSUME NEW u \in RealTid, call[u].op = "lock_timeout", threads'[u].state # "BLOCKED"
        PROVE  threads'[u].wait_result = "WAIT_TIMEOUT" <=> owner'[call[u].mutex] # u
    <3>1. CASE u = t
      BY <1>8, <1>9, <1>10, <3>1
    <3>2. CASE u # t
      <4>1. u # self /\ call[u].mutex \in Mutex
        BY <1>1, <2>1, OwnerFacts DEF MutexInv, CallsAgree, CallAgrees
      <4>2. owner'[call[u].mutex] = u <=> owner[call[u].mutex] = u
        BY <1>1, <1>10, <3>2, <4>1
      <4> QED  BY <1>9, <2>1, <3>2, <4>2 DEF MutexInv, TimeoutMeansNotOwner
    <3> QED  BY <3>1, <3>2
  <2> QED  BY <1>1, <2>1 DEF TimeoutMeansNotOwner
<1>18. MutexInv'
  BY <1>13, <1>14, <1>15, <1>16, <1>17 DEF MutexInv
<1> QED  BY <1>1, <1>3, <1>9, <1>18 DEF t

(* A lock call returns with the mutex: taken, or handed over before. *)
LEMMA ObtainKeeps ==
  ASSUME SchedInv, MutexInv, self \in RealTid, NEW m \in Mutex,
         owner[m] \in {MUTEX_NO_OWNER, self}, call[self].mutex \in {m, NoQueue},
         owner' = [owner EXCEPT ![m] = self], Obtained(m), Return,
         threads' = threads, wait_queues' = wait_queues
  PROVE  MutexInv'
<1>1. threads[self].state = "RUNNING" /\ threads[self].state # "BLOCKED"
  BY TidFacts, RunningEntry DEF SchedInv, self
<1>2. /\ owner'[m] = self /\ owner' \in [Mutex -> RealTid \cup {MUTEX_NO_OWNER}]
      /\ \A k \in Mutex : k # m => owner'[k] = owner[k]
  BY OwnerChange
<1>3. /\ holds' \in [RealTid -> SUBSET Mutex] /\ holds'[self] = holds[self] \cup {m}
      /\ \A u \in RealTid : u # self => holds'[u] = holds[u]
  BY OwnerFacts DEF Obtained
<1>4. /\ call' \in [RealTid -> Call] /\ call'[self] = NoCall
      /\ \A u \in RealTid : u # self => call'[u] = call[u]
  <2>1. NoCall \in Call
    BY DEF NoCall, Call
  <2> HIDE DEF NoCall
  <2> QED  BY <2>1, OwnerFacts DEF Return
<1>5. SyncTypeOK'
  BY <1>2, <1>3, <1>4 DEF SyncTypeOK
<1>6. MutualExclusion'
  <2>1. ASSUME NEW u \in RealTid, NEW k \in holds'[u] PROVE owner'[k] = u
    <3>1. k \in Mutex /\ (k \in holds[u] => owner[k] = u)
      BY <1>3 DEF MutexInv, MutualExclusion
    <3>2. CASE k = m
      BY <1>2, <1>3, <2>1, <3>1, <3>2, OwnerFacts
    <3>3. CASE k # m
      BY <1>2, <1>3, <2>1, <3>1, <3>3
    <3> QED  BY <3>2, <3>3
  <2> QED  BY <2>1 DEF MutualExclusion
<1>7. CallsAgree'
  <2>1. ASSUME NEW u \in RealTid PROVE CallAgrees(u)'
    <3>1. CASE u = self
      <4>1. NoCall.mutex \notin holds'[self]
        BY <1>3, OwnerFacts
      <4> QED  BY <1>1, <1>4, <3>1, <4>1, OwnerFacts DEF CallAgrees
    <3>2. CASE u # self
      <4>1. CallAgrees(u)
        BY DEF MutexInv, CallsAgree
      <4> QED  BY <1>3, <1>4, <3>2, <4>1 DEF CallAgrees
    <3> QED  BY <3>1, <3>2
  <2> QED  BY <2>1 DEF CallsAgree
<1>8. NoOrphanedMutex'
  <2>1. ASSUME NEW k \in Mutex, k # m, owner[k] # MUTEX_NO_OWNER
        PROVE  k \in holds'[owner[k]] \/ (call'[owner[k]].mutex = k /\ threads[owner[k]].state # "BLOCKED")
    <3>1. owner[k] \in RealTid /\ k # NoQueue
      BY <2>1, OwnerFacts
    <3> QED  BY <1>3, <1>4, <2>1, <3>1 DEF MutexInv, NoOrphanedMutex
  <2>2. m \in holds'[owner'[m]] /\ owner'[m] # MUTEX_NO_OWNER
    BY <1>2, <1>3, OwnerFacts
  <2>3. ASSUME NEW k \in Mutex
        PROVE  /\ wait_queues[k] # <<>> => owner'[k] # MUTEX_NO_OWNER
               /\ owner'[k] # MUTEX_NO_OWNER =>
                    \/ k \in holds'[owner'[k]]
                    \/ call'[owner'[k]].mutex = k /\ threads[owner'[k]].state # "BLOCKED"
    <3>1. CASE k = m
      BY <2>2, <3>1
    <3>2. CASE k # m
      BY <1>2, <2>1, <3>2 DEF MutexInv, NoOrphanedMutex
    <3> QED  BY <3>1, <3>2
  <2> QED  BY <2>3 DEF NoOrphanedMutex
<1>9. TimeoutMeansNotOwner'
  <2>1. ASSUME NEW u \in RealTid, call'[u].op = "lock_timeout", threads[u].state # "BLOCKED"
        PROVE  threads[u].wait_result = "WAIT_TIMEOUT" <=> owner'[call'[u].mutex] # u
    <3>1. u # self /\ call'[u] = call[u]
      BY <1>4, <2>1, OwnerFacts
    <3>2. call[u].mutex \in Mutex
      BY <2>1, <3>1 DEF MutexInv, CallsAgree, CallAgrees
    <3>3. owner'[call[u].mutex] = u <=> owner[call[u].mutex] = u
      BY <1>2, <3>1, <3>2, OwnerFacts
    <3> QED  BY <2>1, <3>1, <3>3 DEF MutexInv, TimeoutMeansNotOwner
  <2> QED  BY <2>1 DEF TimeoutMeansNotOwner
<1> QED  BY <1>5, <1>6, <1>7, <1>8, <1>9 DEF MutexInv

(* A timed call returns WAIT_TIMEOUT. *)
LEMMA GiveUpKeeps ==
  ASSUME SchedInv, MutexInv, self \in RealTid, call[self].mutex \in Mutex,
         owner[call[self].mutex] # self, Return, UNCHANGED <<owner, holds>>,
         threads' = threads, wait_queues' = wait_queues
  PROVE  MutexInv'
<1>1. threads[self].state = "RUNNING" /\ threads[self].state # "BLOCKED"
  BY TidFacts, RunningEntry DEF SchedInv, self
<1>2. /\ call' \in [RealTid -> Call] /\ call'[self] = NoCall
      /\ \A u \in RealTid : u # self => call'[u] = call[u]
  <2>1. NoCall \in Call
    BY DEF NoCall, Call
  <2> HIDE DEF NoCall
  <2> QED  BY <2>1, OwnerFacts DEF Return
<1>3. SyncTypeOK' /\ MutualExclusion'
  BY <1>2 DEF MutexInv, SyncTypeOK, MutualExclusion
<1>4. CallsAgree'
  <2>1. ASSUME NEW u \in RealTid PROVE CallAgrees(u)'
    <3>1. CASE u = self
      <4>1. NoCall.mutex \notin holds[self]
        BY OwnerFacts
      <4> QED  BY <1>1, <1>2, <3>1, <4>1, OwnerFacts DEF CallAgrees
    <3>2. CASE u # self
      <4>1. CallAgrees(u)
        BY DEF MutexInv, CallsAgree
      <4> QED  BY <1>2, <3>2, <4>1 DEF CallAgrees
    <3> QED  BY <3>1, <3>2
  <2> QED  BY <2>1 DEF CallsAgree
<1>5. NoOrphanedMutex'
  <2>1. ASSUME NEW k \in Mutex, owner[k] # MUTEX_NO_OWNER
        PROVE  k \in holds[owner[k]] \/ (call'[owner[k]].mutex = k /\ threads[owner[k]].state # "BLOCKED")
    <3>1. owner[k] \in RealTid
      BY <2>1, OwnerFacts
    <3> QED  BY <1>2, <2>1, <3>1 DEF MutexInv, NoOrphanedMutex
  <2> QED  BY <2>1 DEF MutexInv, NoOrphanedMutex
<1>6. TimeoutMeansNotOwner'
  <2>1. ASSUME NEW u \in RealTid, call'[u].op = "lock_timeout", threads[u].state # "BLOCKED"
        PROVE  threads[u].wait_result = "WAIT_TIMEOUT" <=> owner[call'[u].mutex] # u
    <3>1. u # self /\ call'[u] = call[u]
      BY <1>2, <2>1, OwnerFacts
    <3> QED  BY <2>1, <3>1 DEF MutexInv, TimeoutMeansNotOwner
  <2> QED  BY <2>1 DEF TimeoutMeansNotOwner
<1> QED  BY <1>3, <1>4, <1>5, <1>6 DEF MutexInv

(* What block_current_from_trap() does to the thread table. *)
LEMMA BlockKept ==
  ASSUME SchedInv, CurrentIsReal, NEW q \in WaitQueues, NEW ticks \in TickArgs \cup {0},
         block_current(q, ticks)
  PROVE  /\ \A t \in RealTid : t # current_thread => Kept(t)
         /\ threads'[current_thread].state = "BLOCKED"
         /\ threads'[current_thread].wait_queue = q
         /\ wait_queues' = [wait_queues EXCEPT ![q] = Append(wait_queues[q], current_thread)]
<1> DEFINE prev   == current_thread
           reason == IF ticks # 0 THEN "QUEUE_TIMEOUT" ELSE "QUEUE"
           w      == WakeTick(ticks)
           tcb    == Blocked(threads[prev], reason)
           tcb1   == wait_enqueue(tcb, q)
           r      == IF ticks # 0 THEN sleep_enqueue(tcb1, w) ELSE tcb1
<1>1. ticks # 0 => w \in Nat
  BY DeadlineTypes DEF SchedInv, RestTyped
<1>2. threads[prev] \in TCB /\ reason \in WaitReason
  BY TidFacts DEF SchedInv, Agree, CurrentIsReal, WaitReason
<1>3. /\ Dispatch([threads EXCEPT ![prev] = r], ready_queue)
      /\ wait_queues' = [wait_queues EXCEPT ![q] = Append(wait_queues[q], prev)]
  BY DEF block_current
<1>4. tcb = Blocked(threads[prev], reason) /\ tcb1 = wait_enqueue(tcb, q)
  OBVIOUS
<1> HIDE DEF w, reason, tcb, tcb1
<1>5. tcb \in TCB /\ tcb.state = "BLOCKED"
  BY <1>2, <1>4, BlockedEntry
<1>6. tcb1 \in TCB /\ tcb1.state = "BLOCKED" /\ tcb1.wait_queue = q
  <2>1. tcb1 \in TCB /\ Waits(tcb1, tcb, q)
    BY <1>4, <1>5, WaitEntry
  <2> QED  BY <1>5, <2>1 DEF Waits
<1>7. r \in TCB /\ r.state = "BLOCKED" /\ r.wait_queue = q
  <2> DEFINE e == sleep_enqueue(tcb1, w)
  <2>1. e = sleep_enqueue(tcb1, w)
    OBVIOUS
  <2> HIDE DEF e
  <2>2. ticks # 0 => e \in TCB /\ e.state = "BLOCKED" /\ e.wait_queue = q
    BY <1>1, <1>6, <2>1, SleepEntry
  <2> QED  BY <1>6, <2>1, <2>2
<1> HIDE DEF r
<1>8. /\ \A t \in RealTid : t # prev => Kept(t)
      /\ threads'[prev] = r
  BY <1>3, <1>7, LeaveKept
<1> QED  BY <1>3, <1>7, <1>8

(* A lock call blocks on a mutex that another thread owns. *)
LEMMA BlockInKeeps ==
  ASSUME SchedInv, MutexInv, CurrentIsReal, NEW m \in Mutex, NEW ticks \in TickArgs \cup {0},
         NEW op \in {"lock", "lock_timeout"}, BlockIn(op, m, ticks),
         owner[m] \notin {MUTEX_NO_OWNER, self}, call[self].mutex \in {m, NoQueue}
  PROVE  /\ MutexInv' /\ SchedInv' /\ owner' = owner
         /\ wait_queues' = [wait_queues EXCEPT ![m] = Append(wait_queues[m], self)]
<1> DEFINE c == [op |-> op, mutex |-> m, ticks |-> ticks]
<1>1. /\ self = current_thread /\ self \in RealTid /\ m \in WaitQueues
      /\ owner' = owner /\ holds' = holds
  BY DEF self, CurrentIsReal, Mutex, BlockIn
<1>2. /\ \A t \in RealTid : t # self => Kept(t)
      /\ threads'[self].state = "BLOCKED" /\ threads'[self].wait_queue = m
      /\ wait_queues' = [wait_queues EXCEPT ![m] = Append(wait_queues[m], self)]
  BY <1>1, BlockKept DEF BlockIn
<1>3. SchedInv'
  BY <1>1, BlockPreserves DEF BlockIn
<1>4. c \in Call /\ c.op = op /\ c.mutex = m /\ op # "none"
  BY DEF Call
<1>5. call' = [call EXCEPT ![self] = c]
  BY DEF BlockIn
<1> HIDE DEF c
<1>6. /\ call' \in [RealTid -> Call] /\ call'[self] = c
      /\ \A u \in RealTid : u # self => call'[u] = call[u]
  BY <1>1, <1>4, <1>5, OwnerFacts
<1>7. SyncTypeOK' /\ MutualExclusion'
  BY <1>1, <1>6 DEF MutexInv, SyncTypeOK, MutualExclusion
<1>8. CallsAgree'
  <2>1. ASSUME NEW u \in RealTid PROVE CallAgrees(u)'
    <3>1. CASE u = self
      <4>1. m \notin holds[self]
        BY <1>1 DEF MutexInv, MutualExclusion
      <4> QED  BY <1>1, <1>2, <1>4, <1>6, <3>1, <4>1 DEF CallAgrees, Live
    <3>2. CASE u # self
      <4>1. CallAgrees(u) /\ Kept(u) /\ call'[u] = call[u] /\ holds'[u] = holds[u]
        BY <1>1, <1>2, <1>6, <3>2 DEF MutexInv, CallsAgree
      <4> QED  BY <4>1 DEF CallAgrees, Kept, Live
    <3> QED  BY <3>1, <3>2
  <2> QED  BY <2>1 DEF CallsAgree
<1>9. NoOrphanedMutex'
  <2>1. ASSUME NEW k \in Mutex, owner[k] # MUTEX_NO_OWNER
        PROVE  k \in holds[owner[k]] \/ (call'[owner[k]].mutex = k /\ threads'[owner[k]].state # "BLOCKED")
    <3>1. owner[k] \in RealTid /\ k # NoQueue
      BY <2>1, OwnerFacts
    <3>2. k \in holds[owner[k]] \/ (call[owner[k]].mutex = k /\ threads[owner[k]].state # "BLOCKED")
      BY <2>1 DEF MutexInv, NoOrphanedMutex
    <3>3. CASE owner[k] = self
      BY <3>1, <3>2, <3>3
    <3>4. CASE owner[k] # self
      BY <1>2, <1>6, <3>1, <3>2, <3>4 DEF Kept
    <3> QED  BY <3>3, <3>4
  <2>2. \A k \in Mutex : wait_queues'[k] # <<>> => k = m \/ wait_queues[k] # <<>>
    BY <1>2 DEF SchedInv, Agree, Mutex
  <2> QED  BY <1>1, <2>1, <2>2 DEF MutexInv, NoOrphanedMutex
<1>10. TimeoutMeansNotOwner'
  <2>1. ASSUME NEW u \in RealTid, call'[u].op = "lock_timeout", threads'[u].state # "BLOCKED"
        PROVE  threads'[u].wait_result = "WAIT_TIMEOUT" <=> owner[call'[u].mutex] # u
    <3>1. u # self /\ call'[u] = call[u] /\ Kept(u)
      BY <1>2, <1>6, <2>1
    <3>2. threads[u].state \in Live
      BY <2>1, <3>1 DEF MutexInv, CallsAgree, CallAgrees
    <3> QED  BY <2>1, <3>1, <3>2 DEF Kept, MutexInv, TimeoutMeansNotOwner
  <2> QED  BY <1>1, <2>1 DEF TimeoutMeansNotOwner
<1>11. MutexInv'
  BY <1>7, <1>8, <1>9, <1>10 DEF MutexInv
<1> QED  BY <1>1, <1>2, <1>3, <1>11

-----------------------------------------------------------------------------
(* The steps of the abstract lock, as the mutexes take them. *)
Acquires(m) ==
  /\ owner[m] = MUTEX_NO_OWNER /\ wait_queues[m] = <<>> /\ self \in RealTid
  /\ owner' = [owner EXCEPT ![m] = self] /\ wait_queues' = wait_queues

WaitsFor(m) ==
  /\ owner[m] \notin {MUTEX_NO_OWNER, self} /\ self \in RealTid /\ self \notin ToSet(wait_queues[m])
  /\ wait_queues' = [wait_queues EXCEPT ![m] = Append(wait_queues[m], self)] /\ owner' = owner

GivesUp(t, m) ==
  /\ t \in ToSet(wait_queues[m])
  /\ wait_queues' = [wait_queues EXCEPT ![m] = queue_remove(wait_queues[m], t)] /\ owner' = owner

HandsOver(m) ==
  /\ owner[m] # MUTEX_NO_OWNER
  /\ IF wait_queues[m] = <<>>
     THEN owner' = [owner EXCEPT ![m] = MUTEX_NO_OWNER] /\ wait_queues' = wait_queues
     ELSE /\ owner' = [owner EXCEPT ![m] = Head(wait_queues[m])]
          /\ wait_queues' = [wait_queues EXCEPT ![m] = Tail(wait_queues[m])]

LockStep ==
  \/ owner' = owner /\ wait_queues' = wait_queues
  \/ \E m \in Mutex : Acquires(m) \/ WaitsFor(m) \/ HandsOver(m) \/ \E t \in RealTid : GivesUp(t, m)

(* A running thread is in no wait queue. *)
LEMMA SelfNotQueued ==
  ASSUME SchedInv, CurrentIsReal
  PROVE  self \in RealTid /\ \A m \in Mutex : self \notin ToSet(wait_queues[m])
<1>1. current_thread \in RealTid /\ current_thread \in Tid
  BY TidFacts DEF CurrentIsReal
<1> QED  BY <1>1, RunningEntry DEF SchedInv, self, Mutex

(* Nothing of the scheduler changes. *)
LEMMA SchedSame ==
  ASSUME SchedInv, UNCHANGED vars
  PROVE  SchedInv' /\ threads' = threads /\ wait_queues' = wait_queues
<1>1. [Next]_vars
  OBVIOUS
<1> QED  BY <1>1, NextPreserves DEF vars

(* A call enters: it takes a free mutex or waits for its owner. *)
LEMMA EnterKeeps ==
  ASSUME SchedInv, MutexInv, NEW m \in Mutex, NEW op \in {"lock", "lock_timeout"},
         NEW ticks \in TickArgs \cup {0}, Enter(m),
         IF owner[m] = MUTEX_NO_OWNER THEN Take(m) /\ UNCHANGED call ELSE BlockIn(op, m, ticks)
  PROVE  SchedInv' /\ MutexInv' /\ LockStep
<1>1. CurrentIsReal /\ call[self] = NoCall /\ owner[m] # self
  BY DEF Enter, InThreadCode, InKernelThread
<1>2. self \in RealTid /\ self \notin ToSet(wait_queues[m])
  BY <1>1, SelfNotQueued
<1>3. call[self].mutex \in {m, NoQueue}
  BY <1>1, OwnerFacts
<1>4. CASE owner[m] = MUTEX_NO_OWNER
  <2>1. Take(m) /\ call' = call /\ owner' = [owner EXCEPT ![m] = self] /\ Obtained(m)
    BY <1>4 DEF Take
  <2>2. SchedInv' /\ threads' = threads /\ wait_queues' = wait_queues
    BY <2>1, SchedSame DEF Take
  <2>3. Return
    BY <1>1, <1>2, <2>1, OwnerFacts DEF Return
  <2>4. MutexInv'
    BY <1>2, <1>3, <1>4, <2>1, <2>2, <2>3, ObtainKeeps
  <2>5. Acquires(m)
    BY <1>2, <1>4, <2>1, <2>2 DEF Acquires, MutexInv, NoOrphanedMutex
  <2> QED  BY <2>2, <2>4, <2>5 DEF LockStep
<1>5. CASE owner[m] # MUTEX_NO_OWNER
  <2>1. owner[m] \notin {MUTEX_NO_OWNER, self} /\ BlockIn(op, m, ticks)
    BY <1>1, <1>5
  <2>2. /\ MutexInv' /\ SchedInv' /\ owner' = owner
        /\ wait_queues' = [wait_queues EXCEPT ![m] = Append(wait_queues[m], self)]
    BY <1>1, <1>3, <2>1, BlockInKeeps
  <2> QED  BY <1>2, <2>1, <2>2 DEF LockStep, WaitsFor
<1> QED  BY <1>4, <1>5

(* mutex_lock() goes on after a wake-up. *)
LEMMA LockResumeKeeps ==
  ASSUME SchedInv, MutexInv, mutex_lock_resume
  PROVE  SchedInv' /\ MutexInv' /\ LockStep
<1> DEFINE m == call[self].mutex
<1>1. CurrentIsReal /\ call[self].op = "lock"
  BY DEF mutex_lock_resume, Resumes
<1>2. self \in RealTid /\ m \in Mutex
  BY <1>1, SelfNotQueued DEF MutexInv, CallsAgree, CallAgrees
<1>3. self \notin ToSet(wait_queues[m])
  BY <1>1, <1>2, SelfNotQueued
<1>4. CASE owner[m] = self
  <2>1. Return /\ Obtained(m) /\ UNCHANGED vars /\ owner' = owner
    BY <1>4 DEF mutex_lock_resume
  <2>2. SchedInv' /\ threads' = threads /\ wait_queues' = wait_queues
    BY <2>1, SchedSame
  <2>3. owner' = [owner EXCEPT ![m] = self]
    BY <1>2, <1>4, <2>1, OwnerFacts
  <2>4. MutexInv'
    BY <1>2, <1>4, <2>1, <2>2, <2>3, ObtainKeeps
  <2> QED  BY <2>1, <2>2, <2>4 DEF LockStep
<1>5. CASE owner[m] = MUTEX_NO_OWNER
  <2>1. Return /\ Obtained(m) /\ UNCHANGED vars /\ owner' = [owner EXCEPT ![m] = self]
    BY <1>2, <1>5, OwnerFacts DEF mutex_lock_resume, Take
  <2>2. SchedInv' /\ threads' = threads /\ wait_queues' = wait_queues
    BY <2>1, SchedSame
  <2>3. MutexInv'
    BY <1>2, <1>5, <2>1, <2>2, ObtainKeeps
  <2>4. Acquires(m)
    BY <1>2, <1>5, <2>1, <2>2 DEF Acquires, MutexInv, NoOrphanedMutex
  <2> QED  BY <1>2, <2>2, <2>3, <2>4 DEF LockStep
<1>6. CASE owner[m] \notin {self, MUTEX_NO_OWNER}
  <2>1. BlockIn("lock", m, 0) /\ 0 \in TickArgs \cup {0} /\ "lock" \in {"lock", "lock_timeout"}
    BY <1>6 DEF mutex_lock_resume
  <2>2. /\ MutexInv' /\ SchedInv' /\ owner' = owner
        /\ wait_queues' = [wait_queues EXCEPT ![m] = Append(wait_queues[m], self)]
    BY <1>1, <1>2, <1>6, <2>1, BlockInKeeps
  <2> QED  BY <1>2, <1>3, <1>6, <2>2 DEF LockStep, WaitsFor
<1> QED  BY <1>4, <1>5, <1>6

(* mutex_lock_timeout() goes on after a wake-up: no PANIC. *)
LEMMA TimedResumeKeeps ==
  ASSUME SchedInv, MutexInv, mutex_lock_timeout_resume
  PROVE  SchedInv' /\ MutexInv' /\ LockStep
<1> DEFINE m == call[self].mutex
<1>1. CurrentIsReal /\ call[self].op = "lock_timeout" /\ Return
  BY DEF mutex_lock_timeout_resume, Resumes
<1>2. self \in RealTid /\ m \in Mutex
  BY <1>1, SelfNotQueued DEF MutexInv, CallsAgree, CallAgrees
<1>3. threads[self].state # "BLOCKED"
  BY <1>2, TidFacts, RunningEntry DEF SchedInv, self
<1>4. threads[self].wait_result = "WAIT_TIMEOUT" <=> owner[m] # self
  BY <1>1, <1>2, <1>3 DEF MutexInv, TimeoutMeansNotOwner
<1>5. /\ UNCHANGED <<threads, ready_queue, sleep_queue, wait_queues, current_thread,
                     reschedule_requested, user_tasks, due>>
      /\ timer_ticks' = timer_ticks /\ trap' = trap /\ waking' = waking /\ owner' = owner
  BY DEF mutex_lock_timeout_resume, sched
<1>6. panicked' = panicked
  BY <1>4 DEF mutex_lock_timeout_resume, SchedInv
<1>7. SchedInv'
  <2>1. timer_ticks' \in 0 .. MaxTick /\ trap' \in TrapPhase /\ waking' \in WaitQueues \cup {NoQueue}
    BY <1>5 DEF SchedInv, RestTyped
  <2> QED  BY <1>5, <1>6, <2>1, QuietPreserves
<1>8. CASE threads[self].wait_result = "WAIT_TIMEOUT"
  <2>1. holds' = holds /\ owner[m] # self
    BY <1>4, <1>8 DEF mutex_lock_timeout_resume
  <2> QED  BY <1>1, <1>2, <1>5, <1>7, <2>1, GiveUpKeeps DEF LockStep
<1>9. CASE threads[self].wait_result # "WAIT_TIMEOUT"
  <2>1. Obtained(m) /\ owner[m] = self
    BY <1>4, <1>9 DEF mutex_lock_timeout_resume
  <2>2. owner' = [owner EXCEPT ![m] = self]
    BY <1>2, <1>5, <2>1, OwnerFacts
  <2>3. MutexInv'
    BY <1>1, <1>2, <1>5, <2>1, <2>2, ObtainKeeps
  <2> QED  BY <1>5, <1>7, <2>3 DEF LockStep
<1> QED  BY <1>8, <1>9

(* Every step keeps both invariants and is a step of the abstract lock. *)
LEMMA SyncNextKeeps ==
  ASSUME SchedInv, MutexInv, SyncNext
  PROVE  SchedInv' /\ MutexInv' /\ LockStep
<1>1. CASE mutex_lock_resume
  BY <1>1, LockResumeKeeps
<1>2. CASE mutex_lock_timeout_resume
  BY <1>2, TimedResumeKeeps
<1>3. ASSUME NEW m \in Mutex, mutex_lock(m) PROVE SchedInv' /\ MutexInv' /\ LockStep
  <2>1. /\ Enter(m) /\ 0 \in TickArgs \cup {0} /\ "lock" \in {"lock", "lock_timeout"}
        /\ IF owner[m] = MUTEX_NO_OWNER THEN Take(m) /\ UNCHANGED call ELSE BlockIn("lock", m, 0)
    BY <1>3 DEF mutex_lock
  <2> QED  BY <2>1, EnterKeeps
<1>4. ASSUME NEW m \in Mutex, mutex_trylock(m) PROVE SchedInv' /\ MutexInv' /\ LockStep
  <2>1. /\ Enter(m) /\ 0 \in TickArgs \cup {0} /\ "lock" \in {"lock", "lock_timeout"}
        /\ IF owner[m] = MUTEX_NO_OWNER THEN Take(m) /\ UNCHANGED call ELSE BlockIn("lock", m, 0)
    BY <1>4 DEF mutex_trylock
  <2> QED  BY <2>1, EnterKeeps
<1>5. ASSUME NEW m \in Mutex, NEW ticks \in TickArgs, mutex_lock_timeout(m, ticks)
      PROVE  SchedInv' /\ MutexInv' /\ LockStep
  <2>1. /\ Enter(m) /\ ticks \in TickArgs \cup {0} /\ "lock_timeout" \in {"lock", "lock_timeout"}
        /\ IF owner[m] = MUTEX_NO_OWNER THEN Take(m) /\ UNCHANGED call
                                        ELSE BlockIn("lock_timeout", m, ticks)
    BY <1>5 DEF mutex_lock_timeout
  <2> QED  BY <2>1, EnterKeeps
<1>6. ASSUME NEW m \in Mutex, mutex_unlock(m) PROVE SchedInv' /\ MutexInv' /\ LockStep
  <2>1. owner[m] # MUTEX_NO_OWNER
    BY <1>6, OwnerFacts DEF mutex_unlock, InKernelThread, CurrentIsReal, self
  <2>2. CASE wait_queues[m] = <<>>
    <3>1. MutexInv' /\ UNCHANGED vars /\ owner' = [owner EXCEPT ![m] = MUTEX_NO_OWNER]
      BY <1>6, <2>2, FreeKeeps
    <3>2. SchedInv' /\ wait_queues' = wait_queues
      BY <3>1, SchedSame
    <3> QED  BY <2>1, <2>2, <3>1, <3>2 DEF LockStep, HandsOver
  <2>3. CASE wait_queues[m] # <<>>
    <3>1. /\ MutexInv' /\ SchedInv'
          /\ owner' = [owner EXCEPT ![m] = Head(wait_queues[m])]
          /\ wait_queues' = [wait_queues EXCEPT ![m] = Tail(wait_queues[m])]
      BY <1>6, <2>3, HandOverKeeps
    <3> QED  BY <2>1, <2>3, <3>1 DEF LockStep, HandsOver
  <2> QED  BY <2>2, <2>3
<1>7. CASE SchedulerStep
  <2>1. SchedInv'
    <3>1. ThreadOp \/ KernelStep
      BY <1>7 DEF SchedulerStep, TimerInterrupt, TimerTrapStep, ThreadOp, KernelStep
    <3> QED  BY <3>1, ThreadOpPreserves, KernelStepPreserves
  <2>2. CASE ~WakeSleeper
    <3>1. MutexInv' /\ owner' = owner /\ wait_queues' = wait_queues
      BY <1>7, <2>2, SchedulerKeeps DEF svars
    <3> QED  BY <2>1, <3>1 DEF LockStep
  <2>3. CASE WakeSleeper
    <3>1. UNCHANGED svars
      BY <1>7 DEF SchedulerStep, TimerInterrupt, TimerTrapStep
    <3>2. /\ MutexInv'
          /\ \/ wait_queues' = wait_queues
             \/ \E t \in RealTid, m \in Mutex :
                  /\ t \in ToSet(wait_queues[m])
                  /\ wait_queues' = [wait_queues EXCEPT ![m] = queue_remove(wait_queues[m], t)]
      BY <2>3, <3>1, TimeoutKeeps
    <3>3. owner' = owner
      BY <3>1 DEF svars
    <3> QED  BY <2>1, <3>2, <3>3 DEF LockStep, GivesUp
  <2> QED  BY <2>2, <2>3
<1> QED  BY <1>1, <1>2, <1>3, <1>4, <1>5, <1>6, <1>7 DEF SyncNext, MutexStep

(* mutex_init() of every mutex establishes the invariant. *)
LEMMA SyncInitHolds == SyncInit => SchedInv /\ MutexInv
<1> SUFFICES ASSUME SyncInit PROVE SchedInv /\ MutexInv
  OBVIOUS
<1>1. SchedInv
  BY InitHolds DEF SyncInit
<1>2. \A t \in RealTid : call[t] = NoCall /\ holds[t] = {}
  BY DEF SyncInit
<1>3. \A m \in Mutex : owner[m] = MUTEX_NO_OWNER /\ wait_queues[m] = <<>>
  BY DEF SyncInit, Init, Mutex
<1>4. NoCall \in Call /\ NoCall.op = "none" /\ NoCall.mutex = NoQueue
  BY DEF NoCall, Call
<1>5. SyncTypeOK
  <2>1. call = [t \in RealTid |-> NoCall] /\ holds = [t \in RealTid |-> {}]
        /\ owner = [m \in Mutex |-> MUTEX_NO_OWNER]
    BY DEF SyncInit
  <2> QED  BY <1>4, <2>1 DEF SyncTypeOK
<1>6. \A t \in RealTid : threads[t].state # "BLOCKED"
  <2>1. ASSUME NEW t \in RealTid PROVE threads[t] = Cleared("UNUSED")
    BY TidFacts DEF SyncInit, Init
  <2>2. Cleared("UNUSED").state = "UNUSED"
    BY DEF Cleared, Installed
  <2> QED  BY <2>1, <2>2
<1>7. CallsAgree
  BY <1>2, <1>4, <1>6 DEF CallsAgree, CallAgrees
<1>8. MutualExclusion /\ NoOrphanedMutex /\ TimeoutMeansNotOwner
  BY <1>2, <1>3, <1>4 DEF MutualExclusion, NoOrphanedMutex, TimeoutMeansNotOwner
<1> QED  BY <1>1, <1>5, <1>7, <1>8 DEF MutexInv

(* A stuttering step. *)
LEMMA SyncStutter ==
  ASSUME SchedInv, MutexInv, UNCHANGED syncvars
  PROVE  SchedInv' /\ MutexInv' /\ LockStep
<1>1. UNCHANGED vars /\ UNCHANGED svars
  BY DEF syncvars
<1>2. SchedInv' /\ threads' = threads /\ wait_queues' = wait_queues
  BY <1>1, SchedSame
<1>3. \A t \in RealTid : Undisturbed(t)
  BY <1>2 DEF Undisturbed, Kept
<1>4. MutexInv' /\ owner' = owner
  BY <1>1, <1>2, <1>3, UndisturbedKeeps DEF svars
<1> QED  BY <1>2, <1>4 DEF LockStep

(* The scheduler's invariant and the mutex layer's hold in every reachable   *)
(* state of a system that uses mutexes.                                      *)
THEOREM MutexInvariant == SyncSpec => [](SchedInv /\ MutexInv)
<1>1. SyncInit => SchedInv /\ MutexInv
  BY SyncInitHolds
<1>2. SchedInv /\ MutexInv /\ [SyncNext]_syncvars => (SchedInv /\ MutexInv)'
  BY SyncNextKeeps, SyncStutter
<1> QED  BY <1>1, <1>2, PTL DEF SyncSpec

(* No mutex is orphaned: somebody will unlock it, nobody waits for a free    *)
(* one, and no lock call reaches a PANIC.                                    *)
THEOREM MutexesNeverOrphaned == SyncSpec => []SyncInv
<1>1. SchedInv /\ MutexInv => SyncInv
  BY DEF SchedInv, MutexInv, SyncInv, NoPanic
<1> QED  BY <1>1, MutexInvariant, PTL

(* Two threads never both hold a mutex: what a lock call returned as locked  *)
(* belongs to its caller until mutex_unlock().                               *)
THEOREM MutexesExclude == SyncSpec => []MutualExclusion
<1>1. SchedInv /\ MutexInv => MutualExclusion
  BY DEF MutexInv
<1> QED  BY <1>1, MutexInvariant, PTL

(* mutex_lock_timeout() reports a timeout exactly when it does not own the   *)
(* mutex, however the deadline races with the hand-over.                     *)
THEOREM TimeoutsOwnNothing == SyncSpec => []TimeoutMeansNotOwner
<1>1. SchedInv /\ MutexInv => TimeoutMeansNotOwner
  BY DEF MutexInv
<1> QED  BY <1>1, MutexInvariant, PTL

(* The mutexes implement the abstract FIFO lock: hand-over in arrival order, *)
(* no barging past a waiter, timeouts that only give up a place.             *)
THEOREM MutexesAreFifoLocks == SyncSpec => FifoHandOver
<1>1. SyncInit => Lock!Init
  BY DEF SyncInit, Init, Lock!Init, Mutex
<1>2. ASSUME SchedInv, MutexInv, [SyncNext]_syncvars
      PROVE  [Lock!Next]_<<owner, wait_queues>>
  <2>1. LockStep
    BY <1>2, SyncNextKeeps, SyncStutter
  <2>2. ASSUME NEW m \in Mutex, Acquires(m) PROVE Lock!Next
    <3>1. Lock!Acquire(self, m)
      BY <2>2 DEF Acquires, Lock!Acquire
    <3> QED  BY <2>2, <3>1 DEF Acquires, Lock!Next
  <2>3. ASSUME NEW m \in Mutex, WaitsFor(m) PROVE Lock!Next
    <3>1. Lock!Wait(self, m)
      BY <2>3 DEF WaitsFor, Lock!Wait, ToSet, Lock!ToSet
    <3> QED  BY <2>3, <3>1 DEF WaitsFor, Lock!Next
  <2>4. ASSUME NEW m \in Mutex, NEW t \in RealTid, GivesUp(t, m) PROVE Lock!Next
    <3>1. Lock!GiveUp(t, m)
      BY <2>4 DEF GivesUp, Lock!GiveUp, ToSet, Lock!ToSet, queue_remove, Lock!queue_remove,
                  CloseGap, Lock!CloseGap, FirstAt, Lock!FirstAt
    <3> QED  BY <3>1 DEF Lock!Next
  <2>5. ASSUME NEW m \in Mutex, HandsOver(m) PROVE Lock!Next
    <3>1. Lock!Release(m)
      BY <2>5 DEF HandsOver, Lock!Release
    <3> QED  BY <3>1 DEF Lock!Next
  <2> QED  BY <2>1, <2>2, <2>3, <2>4, <2>5 DEF LockStep
<1> QED  BY <1>1, <1>2, MutexInvariant, PTL DEF SyncSpec, FifoHandOver, Lock!Spec
=============================================================================
