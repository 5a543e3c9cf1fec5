-------------------------------- MODULE Sync --------------------------------
(***************************************************************************)
(* The mutexes of kernel/core/sync.c on top of the scheduler.  Mutex m     *)
(* waits on wait queue m.  Each operation masks interrupts around its      *)
(* check of the owner and the blocking trap, so a call up to the point     *)
(* where it blocks is one step; a blocked call resumes, still masked, when *)
(* the scheduler dispatches its thread again: `call' remembers which call  *)
(* that is and disables everything else until the call has gone on.        *)
(*                                                                         *)
(* The API's contract (docs/design/sync.md) is part of the model: a thread *)
(* does not lock a mutex it owns, unlocks only what it owns, and releases  *)
(* its mutexes before it exits.                                            *)
(***************************************************************************)
EXTENDS Thread

MUTEX_NO_OWNER == NoTid

VARIABLES
  owner,     \* mutex->owner, per mutex
  call,      \* per thread: the mutex call it is blocked in, if any
  holds      \* history: mutexes a thread's calls have returned as locked

svars    == <<owner, call, holds>>
syncvars == <<vars, svars>>

Mutex  == WaitQueues
NoCall == [op |-> "none", mutex |-> NoQueue, ticks |-> 0]
Call   == [op : {"none", "lock", "lock_timeout"}, mutex : Mutex \cup {NoQueue}, ticks : TickArgs \cup {0}]

(* mutex_init() of every mutex, before the threads start. *)
SyncInit ==
  /\ Init
  /\ owner = [m \in Mutex |-> MUTEX_NO_OWNER]
  /\ call  = [t \in RealTid |-> NoCall]
  /\ holds = [t \in RealTid |-> {}]

self == current_thread

(* The current thread runs its own code, with interrupts enabled. *)
InThreadCode == CurrentIsReal => call[self] = NoCall

(* It comes back from the blocking trap inside a mutex call. *)
Resumes(op) == Running /\ CurrentIsReal /\ call[self].op = op

Return     == call' = [call EXCEPT ![self] = NoCall]
Obtained(m) == holds' = [holds EXCEPT ![self] = @ \cup {m}]

(* The mutex is free: the caller becomes its owner and the call returns. *)
Take(m) ==
  /\ owner' = [owner EXCEPT ![m] = self]
  /\ Obtained(m)
  /\ UNCHANGED vars

BlockIn(op, m, ticks) ==
  /\ call' = [call EXCEPT ![self] = [op |-> op, mutex |-> m, ticks |-> ticks]]
  /\ block_current(m, ticks)
  /\ UNCHANGED <<owner, holds>>

Enter(m) == Running /\ InThreadCode /\ InKernelThread /\ owner[m] # self

-----------------------------------------------------------------------------
(* mutex_lock(): takes a free mutex, otherwise blocks. *)
mutex_lock(m) ==
  /\ Enter(m)
  /\ IF owner[m] = MUTEX_NO_OWNER THEN Take(m) /\ UNCHANGED call
                                  ELSE BlockIn("lock", m, 0)

(* The loop of mutex_lock() after a wake-up: ownership has been handed     *)
(* over, or the loop tests the owner again.                                *)
mutex_lock_resume ==
  LET m == call[self].mutex
  IN  /\ Resumes("lock")
      /\ IF owner[m] = self THEN Return /\ Obtained(m) /\ UNCHANGED <<vars, owner>>
         ELSE IF owner[m] = MUTEX_NO_OWNER THEN Return /\ Take(m)
         ELSE BlockIn("lock", m, 0)

(* mutex_lock_timeout(): zero ticks on a held mutex returns WAIT_TIMEOUT   *)
(* and changes nothing.                                                    *)
mutex_lock_timeout(m, ticks) ==
  /\ Enter(m)
  /\ IF owner[m] = MUTEX_NO_OWNER THEN Take(m) /\ UNCHANGED call
     ELSE ticks # 0 /\ WakeTick(ticks) <= MaxTick /\ BlockIn("lock_timeout", m, ticks)

(* A timed call after its wake-up: WAIT_TIMEOUT leaves without the mutex,  *)
(* WAIT_OK without ownership is a PANIC.                                   *)
mutex_lock_timeout_resume ==
  LET m == call[self].mutex
  IN  /\ Resumes("lock_timeout")
      /\ Return
      /\ IF threads[self].wait_result = "WAIT_TIMEOUT"
         THEN UNCHANGED <<holds, panicked>>
         ELSE Obtained(m) /\ panicked' = (owner[m] # self)
      /\ UNCHANGED <<sched, current_thread, reschedule_requested, timer_ticks, trap,
                     waking, user_tasks, due, owner>>

mutex_trylock_NoCheck(m) == Enter(m) /\ Take(m) /\ UNCHANGED call

(* mutex_trylock() on a free mutex; on a held one it returns 0. *)
mutex_trylock(m) ==
  /\ Enter(m) /\ owner[m] = MUTEX_NO_OWNER
  /\ Take(m) /\ UNCHANGED call

(* The new owner: the thread wait_queue_wake_one() selected, if any. *)
NextOwner_None(m) == MUTEX_NO_OWNER
NextOwner(m) == IF wait_queues[m] = <<>> THEN MUTEX_NO_OWNER ELSE Oldest(m)

mutex_unlock_NoWake(m) ==
  /\ Running /\ InThreadCode /\ InKernelThread
  /\ owner[m] = self /\ m \in holds[self]
  /\ owner' = [owner EXCEPT ![m] = MUTEX_NO_OWNER]
  /\ holds' = [holds EXCEPT ![self] = @ \ {m}]
  /\ UNCHANGED <<vars, call>>

(* mutex_unlock(): wakes the longest waiter and makes it the owner. *)
mutex_unlock(m) ==
  /\ Running /\ InThreadCode /\ InKernelThread
  /\ owner[m] = self /\ m \in holds[self]
  /\ IF wait_queues[m] = <<>> THEN UNCHANGED vars ELSE wait_queue_wake_one(m)
  /\ owner' = [owner EXCEPT ![m] = NextOwner(m)]
  /\ holds' = [holds EXCEPT ![self] = @ \ {m}]
  /\ UNCHANGED call

-----------------------------------------------------------------------------
(* Scheduler steps between mutex operations.  A timer interrupt waits      *)
(* until the masked tail of a resumed mutex call has run.                  *)
TimerInterrupt == timer_handle_interrupt /\ InThreadCode /\ UNCHANGED svars
TimerTrapStep  == (WakeSleeper \/ ChargeTick \/ MaybePreempt) /\ UNCHANGED svars

SchedulerStep ==
  \/ TimerInterrupt \/ TimerTrapStep
  \/ /\ \/ thread_create /\ InThreadCode
        \/ thread_start
        \/ thread_yield /\ InThreadCode
        \/ thread_exit(ExitFrameSPP) /\ InThreadCode /\ holds[self] = {}
        \/ \E ticks \in TickArgs : thread_sleep(ticks) /\ InThreadCode
     /\ UNCHANGED svars

MutexStep ==
  \/ mutex_lock_resume \/ mutex_lock_timeout_resume
  \/ \E m \in Mutex : \/ mutex_lock(m) \/ mutex_trylock(m) \/ mutex_unlock(m)
                      \/ \E ticks \in TickArgs : mutex_lock_timeout(m, ticks)

SyncNext == MutexStep \/ SchedulerStep

SyncSpec == SyncInit /\ [][SyncNext]_syncvars

(***************************************************************************)
(* Fairness: the scheduler's (Thread), the masked tail of a resumed call   *)
(* runs on, and a thread that gets the processor again and again while it  *)
(* holds a mutex comes to its mutex_unlock().                              *)
(***************************************************************************)
SyncFairness ==
  /\ WF_syncvars(thread_start /\ UNCHANGED svars)
  /\ WF_syncvars(TimerTrapStep)
  /\ WF_syncvars(mutex_lock_resume) /\ WF_syncvars(mutex_lock_timeout_resume)
  /\ SF_syncvars(TimerInterrupt)
  /\ SF_syncvars(NullYield /\ UNCHANGED svars)
  /\ \A m \in Mutex : SF_syncvars(mutex_unlock(m))

FairSyncSpec == SyncSpec /\ SyncFairness

-----------------------------------------------------------------------------
(* Properties. *)

(* Type invariant of the mutex layer. *)
SyncTypeOK ==
  /\ owner \in [Mutex -> RealTid \cup {MUTEX_NO_OWNER}]
  /\ call \in [RealTid -> Call]
  /\ holds \in [RealTid -> SUBSET Mutex]

(* Mutual exclusion: a mutex a thread's lock call has returned belongs to    *)
(* that thread until it unlocks it, across hand-over, timeouts, preemption   *)
(* and the reuse of thread slots.                                            *)
MutualExclusion ==
  \A t \in RealTid : \A m \in holds[t] : owner[m] = t

(* No lost wake-up: nobody waits for a mutex that nobody owns, and an owner  *)
(* is either past its lock call or on its way out of it.                     *)
NoOrphanedMutex ==
  \A m \in Mutex :
    /\ wait_queues[m] # <<>> => owner[m] # MUTEX_NO_OWNER
    /\ owner[m] # MUTEX_NO_OWNER =>
         m \in holds[owner[m]] \/ (call[owner[m]].mutex = m /\ threads[owner[m]].state # "BLOCKED")

(* What the mutex layer keeps in agreement: its types, no PANIC in it or in  *)
(* the scheduler below, and no mutex without somebody to unlock it.          *)
SyncInv == SyncTypeOK /\ NoPanic /\ NoOrphanedMutex

(* A deadline that beats the hand-over takes the waiter out of the queue     *)
(* before it runs: a call about to return WAIT_TIMEOUT does not own the      *)
(* mutex, and one about to return WAIT_OK does.                              *)
TimeoutMeansNotOwner ==
  \A t \in RealTid :
    call[t].op = "lock_timeout" /\ threads[t].state # "BLOCKED" =>
      (threads[t].wait_result = "WAIT_TIMEOUT" <=> owner[call[t].mutex] # t)

(* The mutexes implement the abstract FIFO lock.                             *)
Lock == INSTANCE FifoLock WITH Locks <- Mutex, Clients <- RealTid, Nobody <- MUTEX_NO_OWNER,
                               holder <- owner, queue <- wait_queues
FifoHandOver == Lock!Spec

(* Two threads wait without a deadline, each for the mutex the other owns. *)
CircularWait ==
  \E t, u \in RealTid :
    /\ call[t].op = "lock" /\ call[u].op = "lock"
    /\ owner[call[t].mutex] = u /\ owner[call[u].mutex] = t

(* A blocked lock call returns, however many threads compete for the mutex     *)
(* and whatever else its owner waits for: mutex_lock_timeout() always does,    *)
(* and only a circular wait stops a mutex_lock().                              *)
LockReturns ==
  \A t \in RealTid :
    call[t] # NoCall ~> (call[t] = NoCall \/ (call[t].op = "lock" /\ CircularWait))
=============================================================================
