------------------------------- MODULE Thread -------------------------------
(***************************************************************************)
(* The preemptive FIFO round-robin scheduler of kernel/core/thread.c: the  *)
(* thread table, the ready queue, the sorted timeout ("sleep") queue, the  *)
(* FIFO wait queues, the timer tick with its quantum, and the life cycle   *)
(* of the user task a thread may carry.                                    *)
(*                                                                         *)
(* The kernel runs on one hart and every scheduler operation runs with     *)
(* supervisor interrupts masked, so one operation is one step.  The two    *)
(* operations that loop over threads, the expiry loop of a timer tick and  *)
(* wait_queue_wake_all(), take one step per iteration: `trap' and `waking' *)
(* say where the kernel is, and disable everything else.                   *)
(*                                                                         *)
(* PANIC halts the kernel.  An action whose code path contains PANIC       *)
(* checks sets `panicked' to their disjunction; nothing is enabled after.  *)
(***************************************************************************)
EXTENDS TidQueue

CONSTANTS
  THREAD_MAX,             \* size of the thread table, null task included
  THREAD_QUANTUM_TICKS,   \* ticks a thread runs before it may be preempted
  WaitQueues,             \* the wait_queue_t objects of the kernel
  NoQueue,                \* a NULL wait_queue_t pointer
  UserTasks,              \* the user_task_t objects
  NoTask,                 \* a NULL user_task_t pointer
  TickArgs,               \* tick counts passed to the sleep and timed-wait calls
  TICK_MOD,               \* 2^64 in the code: the modulus of a wake_tick
  MaxTick                 \* bound: the clock stands still from this tick on

ASSUME ThreadMaxAssumption == THREAD_MAX \in Nat /\ THREAD_MAX > 1
ASSUME QuantumAssumption   == THREAD_QUANTUM_TICKS \in Nat \ {0}
ASSUME QueueAssumption     == NoQueue \notin WaitQueues
ASSUME TaskAssumption      == NoTask \notin UserTasks
ASSUME TickAssumption      == /\ TICK_MOD \in Nat \ {0}
                              /\ MaxTick \in 0 .. TICK_MOD - 1
                              /\ TickArgs \subseteq 0 .. TICK_MOD - 1

THREAD_NULL_TID == 0
Tid     == 0 .. THREAD_MAX - 1
RealTid == 1 .. THREAD_MAX - 1
NoTid   == THREAD_MAX      \* THREAD_INVALID_TID, and a NULL current_thread

VARIABLES
  threads,                \* the thread table: a TCB per tid
  ready_queue,            \* sequence of tids
  sleep_queue,            \* sequence of tids, by deadline
  wait_queues,            \* a sequence of tids per wait queue
  current_thread,
  reschedule_requested,
  timer_ticks,
  trap,                   \* where the timer trap is: TrapPhase
  waking,                 \* the queue wait_queue_wake_all() is emptying
  user_tasks,             \* user_task_t.state per task
  panicked,
  due                     \* history: deadline each timed thread asked for

sched == <<threads, ready_queue, sleep_queue, wait_queues>>
vars  == <<threads, ready_queue, sleep_queue, wait_queues, current_thread,
           reschedule_requested, timer_ticks, trap, waking, user_tasks,
           panicked, due>>

ThreadState == {"UNUSED", "READY", "RUNNING", "BLOCKED", "EXITED"}
WaitReason  == {"NONE", "SLEEP", "QUEUE", "QUEUE_TIMEOUT"}
WaitResult  == {"WAIT_OK", "WAIT_TIMEOUT"}
TrapPhase   == {"none", "expire", "preempt"}  \* no trap, in wake_sleepers(), on the way out

TCB == [state : ThreadState, wait_reason : WaitReason,
        wait_queue : WaitQueues \cup {NoQueue}, trap_frame : BOOLEAN,
        user_task : UserTasks \cup {NoTask},
        quantum_ticks : 0 .. THREAD_QUANTUM_TICKS,
        in_ready_queue : BOOLEAN, in_sleep_queue : BOOLEAN,
        in_wait_queue : BOOLEAN, wake_tick : Nat, wait_result : WaitResult]

(***************************************************************************)
(* The thread table entry written by install_thread() and, with its task,  *)
(* by install_user_thread(); and the one left by thread_init() and exit.   *)
(***************************************************************************)
Installed(task) ==
  [state |-> "READY", wait_reason |-> "NONE", wait_queue |-> NoQueue,
   trap_frame |-> TRUE, user_task |-> task, quantum_ticks |-> 0,
   in_ready_queue |-> FALSE, in_sleep_queue |-> FALSE, in_wait_queue |-> FALSE,
   wake_tick |-> 0, wait_result |-> "WAIT_OK"]

Cleared(state) ==
  [Installed(NoTask) EXCEPT !.state = state, !.trap_frame = FALSE]

(***************************************************************************)
(* thread_init(): the table holds the null task only.  The count of ticks  *)
(* starts at thread_start(): earlier ticks touch no scheduler state.       *)
(***************************************************************************)
Init ==
  /\ threads = [t \in Tid |-> IF t = THREAD_NULL_TID THEN Installed(NoTask)
                                                     ELSE Cleared("UNUSED")]
  /\ ready_queue = <<>> /\ sleep_queue = <<>>
  /\ wait_queues = [q \in WaitQueues |-> <<>>]
  /\ current_thread = NoTid
  /\ reschedule_requested = FALSE
  /\ timer_ticks = 0 /\ trap = "none" /\ waking = NoQueue
  /\ user_tasks = [u \in UserTasks |-> "UNUSED"]
  /\ panicked = FALSE
  /\ due = [t \in Tid |-> 0]

threads_started == current_thread # NoTid

(* Between the steps of traps and loops: a thread, or before thread_start() *)
(* the boot code, is executing.                                            *)
Running == ~panicked /\ trap = "none" /\ waking = NoQueue

CurrentIsReal == current_thread \in RealTid

(* Rules of the callers.  The boot code and kernel threads call the C      *)
(* interfaces, user threads make system calls; and a user task is given to *)
(* one thread, although thread_create_user() itself would take it twice.   *)
InKernelThread == CurrentIsReal /\ threads[current_thread].user_task = NoTask
InKernelCode   == current_thread = NoTid \/ InKernelThread
HasNoThread(u) == \A t \in Tid : threads[t].user_task # u

-----------------------------------------------------------------------------
(* Queues. *)

QueueCapacity == THREAD_MAX - 1

sleep_queue_insert_AtTail(s, tid, wake_tick) == Append(s, tid)

(* sleep_queue_insert(): behind every entry whose deadline is not later.   *)
sleep_queue_insert(s, tid, wake_tick) ==
  LET i == CHOOSE k \in 1 .. Len(s) + 1 :
             /\ \A j \in 1 .. k - 1 : threads[s[j]].wake_tick <= wake_tick
             /\ k <= Len(s) => threads[s[k]].wake_tick > wake_tick
  IN  OpenGap(s, i, tid)

(* ready_enqueue() of thread tid with the entry tcb: its PANICs, and what   *)
(* it writes to the entry.                                                 *)
ReadyEnqueuePanics(tcb, tid) ==
  \/ tid \notin RealTid
  \/ tcb.state # "READY"
  \/ tcb.in_ready_queue \/ tcb.in_sleep_queue \/ tcb.in_wait_queue
  \/ Len(ready_queue) >= QueueCapacity

ready_enqueue(tcb) == [tcb EXCEPT !.in_ready_queue = TRUE]

(* pick_next_thread(): the head of the ready queue, else the null task. *)
pick_next_thread(rq) == IF rq = <<>> THEN THREAD_NULL_TID ELSE Head(rq)

(* PANICs of ready_dequeue() and of the check on the next thread's frame. *)
DispatchPanics(thr, rq) ==
  LET next == pick_next_thread(rq)
  IN  \/ ~thr[next].trap_frame
      \/ rq # <<>> /\ \/ next \notin RealTid
                      \/ thr[next].state # "READY"
                      \/ ~thr[next].in_ready_queue

Dispatched(tcb) ==
  [tcb EXCEPT !.in_ready_queue = FALSE, !.state = "RUNNING", !.quantum_ticks = 0]

(* The tail of every switch: the next thread runs with a fresh quantum and *)
(* a pending reschedule request is dropped.                                *)
Dispatch(thr, rq) ==
  LET next == pick_next_thread(rq)
  IN  /\ ready_queue' = IF rq = <<>> THEN rq ELSE Tail(rq)
      /\ threads' = [thr EXCEPT ![next] = Dispatched(@)]
      /\ current_thread' = next
      /\ reschedule_requested' = FALSE

(* The null task is never queued: it only changes state. *)
EnqueueBehind(rq, tid) == IF tid = THREAD_NULL_TID THEN rq ELSE Append(rq, tid)

(***************************************************************************)
(* switch_to_next_from_trap(frame, 1), and switch_null_to_next_from_trap() *)
(* when the null task is current: the caller has seen a non-empty queue.   *)
(***************************************************************************)
SwitchRequeue ==
  LET prev == current_thread
      real == prev # THREAD_NULL_TID
      rq   == EnqueueBehind(ready_queue, prev)
      tcb  == [threads[prev] EXCEPT !.state = "READY"]
      thr  == [threads EXCEPT ![prev] = IF real THEN ready_enqueue(tcb) ELSE tcb]
  IN  /\ panicked' = \/ threads[prev].state # "RUNNING"
                     \/ real /\ ReadyEnqueuePanics(tcb, prev)
                     \/ DispatchPanics(thr, rq)
      /\ Dispatch(thr, rq)

-----------------------------------------------------------------------------
(* Thread creation and start. *)

(* The slot thread_create() and thread_create_user() choose. *)
FreeSlots == {t \in RealTid : threads[t].state \in {"UNUSED", "EXITED"}}

CreateIn(tid, task) ==
  /\ panicked' = ReadyEnqueuePanics(Installed(task), tid)
  /\ threads' = [threads EXCEPT ![tid] = ready_enqueue(Installed(task))]
  /\ ready_queue' = Append(ready_queue, tid)
  /\ UNCHANGED <<sleep_queue, wait_queues, current_thread, reschedule_requested,
                 timer_ticks, trap, waking, due>>

(* The first free slot, scanning from tid 1; no slot: -1 and no change. *)
thread_create ==
  /\ Running /\ InKernelCode
  /\ \E tid \in FreeSlots : /\ \A t \in FreeSlots : tid <= t
                            /\ CreateIn(tid, NoTask)
  /\ UNCHANGED user_tasks

(* user_task_init() as the scheduler sees it: a task that is unused or     *)
(* destroyed becomes ready (a failed one stays unused).                    *)
user_task_init(u) ==
  /\ Running /\ InKernelCode
  /\ user_tasks[u] \in {"UNUSED", "DESTROYED"}
  /\ user_tasks' = [user_tasks EXCEPT ![u] = "READY"]
  /\ UNCHANGED <<sched, current_thread, reschedule_requested, timer_ticks,
                 trap, waking, panicked, due>>

thread_create_user_AnyTask(u) ==
  /\ Running /\ InKernelCode
  /\ \E tid \in FreeSlots : /\ \A t \in FreeSlots : tid <= t
                            /\ CreateIn(tid, u)
  /\ UNCHANGED user_tasks

(* thread_create_user() takes ready tasks only. *)
thread_create_user(u) ==
  /\ Running /\ InKernelCode
  /\ user_tasks[u] = "READY"
  /\ \E tid \in FreeSlots : /\ \A t \in FreeSlots : tid <= t
                            /\ CreateIn(tid, u)
  /\ UNCHANGED user_tasks

(* thread_start(): the first dispatch. *)
thread_start ==
  /\ Running /\ ~threads_started
  /\ panicked' = DispatchPanics(threads, ready_queue)
  /\ Dispatch(threads, ready_queue)
  /\ UNCHANGED <<sleep_queue, wait_queues, timer_ticks, trap, waking, user_tasks, due>>

-----------------------------------------------------------------------------
(* Control traps of the current thread. *)

(* thread_yield_current_from_trap(): nobody ready, the quantum restarts. *)
thread_yield ==
  /\ Running /\ threads_started
  /\ IF ready_queue = <<>>
     THEN /\ threads' = [threads EXCEPT ![current_thread].quantum_ticks = 0]
          /\ UNCHANGED <<ready_queue, current_thread, reschedule_requested, panicked>>
     ELSE SwitchRequeue
  /\ UNCHANGED <<sleep_queue, wait_queues, timer_ticks, trap, waking, user_tasks, due>>

(* The deadline, computed in uint64_t arithmetic.  The bound keeps every   *)
(* deadline the model sets within reach of its clock.                      *)
WakeTick(ticks) == (timer_ticks + ticks) % TICK_MOD

Blocked(tcb, reason) ==
  [tcb EXCEPT !.state = "BLOCKED", !.wait_reason = reason, !.quantum_ticks = 0,
              !.wait_result = "WAIT_OK"]

(* sleep_enqueue(): its PANICs, and what it writes to the entry tcb. *)
SleepEnqueuePanics(tcb) ==
  tcb.in_ready_queue \/ tcb.in_sleep_queue \/ Len(sleep_queue) >= QueueCapacity

sleep_enqueue(tcb, wake_tick) == [tcb EXCEPT !.wake_tick = wake_tick, !.in_sleep_queue = TRUE]

(* thread_sleep(): zero ticks yields, otherwise the thread leaves the      *)
(* processor until the tick count reaches its deadline.                    *)
SleepFor(ticks) ==
  LET prev == current_thread
      tcb  == Blocked(threads[prev], "SLEEP")
      thr  == [threads EXCEPT ![prev] = sleep_enqueue(tcb, WakeTick(ticks))]
  IN  /\ panicked' = \/ threads[prev].state # "RUNNING"
                     \/ SleepEnqueuePanics(tcb)
                     \/ DispatchPanics(thr, ready_queue)
      /\ sleep_queue' = sleep_queue_insert(sleep_queue, prev, WakeTick(ticks))
      /\ Dispatch(thr, ready_queue)
      /\ due' = [due EXCEPT ![prev] = timer_ticks + ticks]
      /\ UNCHANGED <<wait_queues, timer_ticks, trap, waking, user_tasks>>

thread_sleep(ticks) ==
  /\ Running /\ CurrentIsReal
  /\ WakeTick(ticks) <= MaxTick
  /\ IF ticks = 0 THEN thread_yield ELSE SleepFor(ticks)

(* wait_enqueue() on queue q: its PANICs, and what it writes to the entry. *)
WaitEnqueuePanics(tcb, q) ==
  \/ tcb.in_ready_queue \/ tcb.in_wait_queue
  \/ tcb.wait_queue # NoQueue
  \/ Len(wait_queues[q]) >= QueueCapacity

wait_enqueue(tcb, q) == [tcb EXCEPT !.wait_queue = q, !.in_wait_queue = TRUE]

(***************************************************************************)
(* block_current_from_trap(): with ticks = 0 an untimed wait, otherwise    *)
(* the thread enters the wait queue and the sleep queue.                   *)
(***************************************************************************)
block_current(q, ticks) ==
  LET prev  == current_thread
      timed == ticks # 0
      tcb   == Blocked(threads[prev], IF timed THEN "QUEUE_TIMEOUT" ELSE "QUEUE")
      tcb1  == wait_enqueue(tcb, q)
      thr   == [threads EXCEPT ![prev] = IF timed THEN sleep_enqueue(tcb1, WakeTick(ticks))
                                                  ELSE tcb1]
  IN  /\ panicked' = \/ threads[prev].state # "RUNNING"
                     \/ WaitEnqueuePanics(tcb, q)
                     \/ timed /\ SleepEnqueuePanics(tcb1)
                     \/ DispatchPanics(thr, ready_queue)
      /\ wait_queues' = [wait_queues EXCEPT ![q] = Append(@, prev)]
      /\ sleep_queue' = IF timed THEN sleep_queue_insert(sleep_queue, prev, WakeTick(ticks))
                        ELSE sleep_queue
      /\ Dispatch(thr, ready_queue)
      /\ due' = IF timed THEN [due EXCEPT ![prev] = timer_ticks + ticks] ELSE due
      /\ UNCHANGED <<timer_ticks, trap, waking, user_tasks>>

wait_queue_sleep(q) == Running /\ CurrentIsReal /\ block_current(q, 0)

(* Zero ticks returns WAIT_TIMEOUT at once and changes nothing. *)
wait_queue_sleep_timeout(q, ticks) ==
  /\ Running /\ CurrentIsReal
  /\ ticks # 0 /\ WakeTick(ticks) <= MaxTick
  /\ block_current(q, ticks)

(* SSTATUS_SPP in the frame of an exiting thread.  Kernel threads call      *)
(* thread_exit(); a user thread exits by its system call, which            *)
(* user_syscall_exit() takes from user mode only.                          *)
ExitFrameSPP == threads[current_thread].user_task = NoTask

(***************************************************************************)
(* thread_exit() and the exit system call: the slot becomes reusable; the  *)
(* user task of the thread is marked exited and, once the next thread has  *)
(* been chosen, destroyed, which takes an exited task only.                *)
(***************************************************************************)
thread_exit(spp) ==
  LET prev   == current_thread
      task   == threads[prev].user_task
      exited == [user_tasks EXCEPT ![task] = "EXITED"]
      thr    == [threads EXCEPT ![prev] = Cleared("EXITED")]
  IN  /\ Running /\ CurrentIsReal
      /\ panicked' = \/ threads[prev].state # "RUNNING"
                     \/ task # NoTask /\ (spp \/ user_tasks[task] # "READY")
                     \/ task # NoTask /\ exited[task] # "EXITED"
                     \/ DispatchPanics(thr, ready_queue)
      /\ Dispatch(thr, ready_queue)
      /\ user_tasks' = IF task = NoTask THEN user_tasks
                       ELSE [exited EXCEPT ![task] = "DESTROYED"]
      /\ UNCHANGED <<sleep_queue, wait_queues, timer_ticks, trap, waking, due>>

-----------------------------------------------------------------------------
(* Wake-ups. *)

Woken_KeepsTimeoutFlag(tcb, result) ==
  [tcb EXCEPT !.state = "READY", !.wait_reason = "NONE", !.wake_tick = 0,
              !.wait_result = result, !.wait_queue = NoQueue,
              !.in_wait_queue = FALSE, !.in_ready_queue = TRUE]

Woken(tcb, result) ==
  [tcb EXCEPT !.state = "READY", !.wait_reason = "NONE", !.wake_tick = 0,
              !.wait_result = result, !.wait_queue = NoQueue,
              !.in_wait_queue = FALSE, !.in_sleep_queue = FALSE,
              !.in_ready_queue = TRUE]

(* PANICs of wake_blocked_thread(), timeout_remove(), wait_remove() and of *)
(* ready_enqueue(): the thread is blocked and is where its flags say.      *)
WakePanics(tid) ==
  LET tcb == threads[tid]
  IN  \/ tcb.state # "BLOCKED" \/ tcb.in_ready_queue
      \/ tcb.in_sleep_queue /\ tid \notin ToSet(sleep_queue)
      \/ tcb.in_wait_queue /\ \/ tcb.wait_queue = NoQueue
                              \/ tid \notin ToSet(wait_queues[tcb.wait_queue])
      \/ Len(ready_queue) >= QueueCapacity

CancelTimeout_Forgotten(tid) == sleep_queue

CancelTimeout(tid) ==
  IF threads[tid].in_sleep_queue THEN queue_remove(sleep_queue, tid) ELSE sleep_queue

(* wake_blocked_thread(): out of both queues, result delivered, READY.     *)
(* The caller's dequeue of the head of a queue is part of the removal.     *)
wake_blocked_thread(tid, result) ==
  LET tcb == threads[tid]
  IN  /\ sleep_queue' = CancelTimeout(tid)
      /\ wait_queues' = IF tcb.in_wait_queue
                        THEN [wait_queues EXCEPT ![tcb.wait_queue] = queue_remove(@, tid)]
                        ELSE wait_queues
      /\ threads' = [threads EXCEPT ![tid] = Woken(@, result)]
      /\ ready_queue' = Append(ready_queue, tid)
      /\ due' = [due EXCEPT ![tid] = 0]
      /\ UNCHANGED <<current_thread, timer_ticks, user_tasks>>

Oldest_Newest(q) == Last(wait_queues[q])

(* The waiter wait_dequeue() takes. *)
Oldest(q) == Head(wait_queues[q])

(* wait_dequeue() and wake_blocked_thread(): the longest waiter wakes. *)
WakeHead(q) ==
  LET tid == Oldest(q)
  IN  /\ panicked' = \/ tid \notin RealTid
                     \/ ~threads[tid].in_wait_queue
                     \/ threads[tid].wait_queue # q
                     \/ WakePanics(tid)
      /\ wake_blocked_thread(tid, "WAIT_OK")

(* An empty queue: no thread woken and no change. *)
wait_queue_wake_one(q) ==
  /\ Running /\ InKernelThread
  /\ wait_queues[q] # <<>>
  /\ WakeHead(q)
  /\ UNCHANGED <<reschedule_requested, trap, waking>>

wait_queue_wake_all(q) ==
  /\ Running /\ InKernelThread
  /\ waking' = q
  /\ UNCHANGED <<sched, current_thread, reschedule_requested, timer_ticks,
                 trap, user_tasks, panicked, due>>

WakeAllStep ==
  /\ ~panicked /\ waking # NoQueue
  /\ IF wait_queues[waking] # <<>>
     THEN WakeHead(waking) /\ UNCHANGED waking
     ELSE /\ waking' = NoQueue
          /\ UNCHANGED <<sched, current_thread, timer_ticks, user_tasks, panicked, due>>
  /\ UNCHANGED <<reschedule_requested, trap>>

-----------------------------------------------------------------------------
(* The timer trap. *)

(* timer_handle_interrupt(): one tick, whatever the lateness. *)
timer_handle_interrupt ==
  /\ Running /\ threads_started
  /\ timer_ticks' = IF timer_ticks < MaxTick THEN timer_ticks + 1 ELSE timer_ticks
  /\ trap' = "expire"
  /\ UNCHANGED <<sched, current_thread, reschedule_requested, waking,
                 user_tasks, panicked, due>>

HeadExpired_OneTickEarly ==
  sleep_queue # <<>> /\ threads[Head(sleep_queue)].wake_tick <= timer_ticks + 1

HeadExpired_NotWhenIdle ==
  /\ CurrentIsReal
  /\ sleep_queue # <<>> /\ threads[Head(sleep_queue)].wake_tick <= timer_ticks

(* sleep_dequeue_expired() finds a thread. *)
HeadExpired ==
  sleep_queue # <<>> /\ threads[Head(sleep_queue)].wake_tick <= timer_ticks

(* PANIC of sleep_dequeue_expired(), which looks at the head of the queue  *)
(* before it compares the deadline.                                        *)
SleepHeadPanics ==
  /\ sleep_queue # <<>>
  /\ LET tcb == threads[Head(sleep_queue)]
     IN  \/ tcb.state # "BLOCKED" \/ ~tcb.in_sleep_queue
         \/ tcb.wait_reason \notin {"SLEEP", "QUEUE_TIMEOUT"}

(* One iteration of wake_sleepers(). *)
WakeSleeper ==
  LET tid == Head(sleep_queue)
      tcb == threads[tid]
  IN  /\ ~panicked /\ trap = "expire" /\ HeadExpired
      /\ panicked' = \/ SleepHeadPanics
                     \/ tcb.wait_reason = "QUEUE_TIMEOUT" /\ ~tcb.in_wait_queue
                     \/ WakePanics(tid)
      /\ wake_blocked_thread(tid, IF tcb.wait_reason = "QUEUE_TIMEOUT"
                                  THEN "WAIT_TIMEOUT" ELSE "WAIT_OK")
      /\ UNCHANGED <<reschedule_requested, trap, waking>>

(* The quantum is used up, which a tick turns into a reschedule request. *)
QuantumUsed_Overrun(tcb) == tcb.quantum_ticks > THREAD_QUANTUM_TICKS
QuantumUsed(tcb) == tcb.quantum_ticks >= THREAD_QUANTUM_TICKS

(* The last iteration of wake_sleepers(), which finds nobody, and the rest  *)
(* of thread_on_timer_tick(): the tick is charged to a real thread.         *)
ChargeTick ==
  LET counted == [threads EXCEPT ![current_thread].quantum_ticks =
                    IF @ < THREAD_QUANTUM_TICKS THEN @ + 1 ELSE @]
  IN  /\ ~panicked /\ trap = "expire" /\ ~HeadExpired
      /\ trap' = "preempt"
      /\ panicked' = SleepHeadPanics
      /\ IF CurrentIsReal /\ threads[current_thread].state = "RUNNING"
         THEN /\ threads' = counted
              /\ reschedule_requested' =
                   (reschedule_requested \/ QuantumUsed(counted[current_thread]))
         ELSE UNCHANGED <<threads, reschedule_requested>>
      /\ UNCHANGED <<ready_queue, sleep_queue, wait_queues, current_thread, timer_ticks,
                     waking, user_tasks, due>>

(***************************************************************************)
(* thread_maybe_preempt_from_trap() on the way out of the timer trap: a    *)
(* requested switch happens when somebody is ready; when nobody is, a real *)
(* thread starts a new quantum.                                            *)
(***************************************************************************)
current_is_preemptible ==
  /\ CurrentIsReal
  /\ threads[current_thread].state = "RUNNING"
  /\ ready_queue # <<>>

RestartQuantum_KeepsRequest ==
  /\ threads' = [threads EXCEPT ![current_thread].quantum_ticks = 0]
  /\ UNCHANGED reschedule_requested

RestartQuantum ==
  /\ threads' = [threads EXCEPT ![current_thread].quantum_ticks = 0]
  /\ reschedule_requested' = FALSE

MaybePreempt ==
  /\ ~panicked /\ trap = "preempt"
  /\ trap' = "none"
  /\ \/ /\ reschedule_requested /\ current_is_preemptible
        /\ SwitchRequeue
     \/ /\ reschedule_requested /\ CurrentIsReal /\ ready_queue = <<>>
        /\ RestartQuantum
        /\ UNCHANGED <<ready_queue, current_thread, panicked>>
     \/ /\ ~reschedule_requested \/ ~CurrentIsReal
        /\ UNCHANGED <<threads, ready_queue, current_thread, reschedule_requested, panicked>>
  /\ UNCHANGED <<sleep_queue, wait_queues, timer_ticks, waking, user_tasks, due>>

-----------------------------------------------------------------------------
ThreadOp ==
  \/ thread_create \/ thread_start \/ thread_yield \/ thread_exit(ExitFrameSPP)
  \/ \E u \in UserTasks : user_task_init(u) \/ (HasNoThread(u) /\ thread_create_user(u))
  \/ \E ticks \in TickArgs : thread_sleep(ticks)
  \/ \E q \in WaitQueues :
       \/ wait_queue_sleep(q) \/ wait_queue_wake_one(q) \/ wait_queue_wake_all(q)
       \/ \E ticks \in TickArgs : wait_queue_sleep_timeout(q, ticks)

KernelStep == WakeAllStep \/ timer_handle_interrupt \/ WakeSleeper \/ ChargeTick \/ MaybePreempt

Next == ThreadOp \/ KernelStep

Spec == Init /\ [][Next]_vars

(***************************************************************************)
(* Fairness.  A kernel loop, once entered, runs to its end.  A pending     *)
(* timer interrupt is taken when interrupts are next enabled, whatever the *)
(* running thread does: strong fairness, because each operation masks      *)
(* them for a while.  The null task runs its wfi-and-yield loop.           *)
(***************************************************************************)
NullYield == current_thread = THREAD_NULL_TID /\ thread_yield

Fairness ==
  /\ WF_vars(thread_start)
  /\ WF_vars(WakeAllStep) /\ WF_vars(WakeSleeper)
  /\ WF_vars(ChargeTick) /\ WF_vars(MaybePreempt)
  /\ SF_vars(timer_handle_interrupt)
  /\ SF_vars(NullYield)

FairSpec == Spec /\ Fairness

-----------------------------------------------------------------------------
(* Properties. *)

(* Type invariant: every field of the scheduler holds a value of its C type, *)
(* and the queues hold real tids only (the null task is never queued).       *)
TypeOK ==
  /\ threads \in [Tid -> TCB]
  /\ ready_queue \in Seq(RealTid) /\ sleep_queue \in Seq(RealTid)
  /\ wait_queues \in [WaitQueues -> Seq(RealTid)]
  /\ current_thread \in Tid \cup {NoTid}
  /\ reschedule_requested \in BOOLEAN
  /\ timer_ticks \in 0 .. MaxTick
  /\ trap \in TrapPhase /\ waking \in WaitQueues \cup {NoQueue}
  /\ user_tasks \in [UserTasks -> {"UNUSED", "READY", "EXITED", "DESTROYED"}]
  /\ panicked \in BOOLEAN
  /\ due \in [Tid -> Nat]

(* No sequence of scheduler calls, wake-ups and ticks makes the kernel hit   *)
(* one of the consistency PANICs of thread.c: full queues, threads in two    *)
(* queues, a wake-up of a thread that is not blocked, a switch to a thread   *)
(* without a frame, the exit of a user thread whose task is gone.            *)
NoPanic == ~panicked

(* The thread table and the queues agree: the ready queue holds exactly the  *)
(* READY threads, the sleep queue exactly the timed BLOCKED ones, and each   *)
(* wait queue exactly the threads BLOCKED on it; the in_*_queue flags and    *)
(* the wait_queue back pointer say the same; one thread runs, the current.   *)
ReadyAgrees ==
  /\ HasNoDuplicates(ready_queue)
  /\ \A t \in RealTid : /\ t \in ToSet(ready_queue) <=> threads[t].state = "READY"
                        /\ threads[t].in_ready_queue <=> threads[t].state = "READY"

SleepAgrees ==
  /\ HasNoDuplicates(sleep_queue)
  /\ \A t \in RealTid :
       /\ t \in ToSet(sleep_queue) <=> threads[t].wait_reason \in {"SLEEP", "QUEUE_TIMEOUT"}
       /\ threads[t].in_sleep_queue <=> threads[t].wait_reason \in {"SLEEP", "QUEUE_TIMEOUT"}

WaitAgrees ==
  /\ \A q \in WaitQueues : HasNoDuplicates(wait_queues[q])
  /\ \A t \in RealTid :
       /\ \A q \in WaitQueues : t \in ToSet(wait_queues[q]) <=> threads[t].wait_queue = q
       /\ threads[t].in_wait_queue <=> threads[t].wait_queue # NoQueue
       /\ threads[t].in_wait_queue <=> threads[t].wait_reason \in {"QUEUE", "QUEUE_TIMEOUT"}

StateAgrees ==
  \A t \in Tid : /\ threads[t].state = "RUNNING" <=> t = current_thread
                 /\ threads[t].state = "BLOCKED" <=> threads[t].wait_reason # "NONE"
                 /\ threads[t].trap_frame <=> threads[t].state \notin {"UNUSED", "EXITED"}

QueuesAgree == ReadyAgrees /\ SleepAgrees /\ WaitAgrees /\ StateAgrees

(* Outside a timer trap no thread is left asleep past the deadline it asked  *)
(* for: the expiry loop stops at the first unexpired entry, so it relies on  *)
(* the order that insertions and cancellations of timeouts leave behind.     *)
NoOversleep ==
  trap # "expire" => \A t \in ToSet(sleep_queue) : due[t] > timer_ticks

(* A quantum that expires is charged to the thread that used it: no          *)
(* reschedule request survives the trap that raised it.                      *)
NoStaleReschedule == Running => ~reschedule_requested

(* A user task a thread refers to is alive: neither exited nor destroyed.    *)
UserTaskAlive ==
  \A t \in Tid : threads[t].user_task # NoTask => user_tasks[threads[t].user_task] = "READY"

(* A timeout is reported to no thread before the tick it asked for, and a    *)
(* sleeping thread is not released earlier either.                           *)
Released(t) == threads[t].state = "BLOCKED" /\ threads'[t].state # "BLOCKED"

NotEarly ==
  [][\A t \in RealTid :
       Released(t) /\ (threads[t].wait_reason = "SLEEP" \/ threads'[t].wait_result = "WAIT_TIMEOUT")
         => timer_ticks >= due[t]]_vars

(* A thread woken with WAIT_OK from a wait queue leaves nobody behind who    *)
(* was queued before it.                                                     *)
WakesInOrder ==
  \A q \in WaitQueues, t \in RealTid :
    Released(t) /\ threads[t].wait_queue = q /\ threads'[t].wait_result = "WAIT_OK"
      => \A i, j \in DOMAIN wait_queues[q] :
           wait_queues[q][j] = t /\ i < j => Released(wait_queues[q][i])

(* The ready queue is only shortened at its head. *)
DispatchesInOrder ==
  \/ IsPrefix(ready_queue, ready_queue')
  \/ /\ ready_queue # <<>> /\ current_thread' = Head(ready_queue)
     /\ IsPrefix(Tail(ready_queue), ready_queue')

(* No thread overtakes another: event wake-ups are FIFO, even when timeouts  *)
(* remove waiters from the middle of the queue, and so is the dispatch of    *)
(* threads that were woken, preempted, created or expired.                   *)
FifoOrder == [][WakesInOrder /\ DispatchesInOrder]_vars

(* Starvation freedom: a ready thread gets the processor, however long the   *)
(* others compute without giving it up.                                      *)
ReadyRuns == \A t \in RealTid : threads[t].state = "READY" ~> threads[t].state = "RUNNING"

(* A sleep and a timed wait end, with or without an event.                   *)
TimedWaitEnds ==
  \A t \in RealTid : threads[t].wait_reason \in {"SLEEP", "QUEUE_TIMEOUT"}
                       ~> threads[t].state = "RUNNING"

(* The arrays behind the queues. *)
Ring == INSTANCE TidRing

(* The ring buffers do what the scheduler takes for granted of its queues:   *)
(* wherever the head of a ring is that holds a wait queue's threads, a push, *)
(* a pop and a removal from the middle, wrapped around the end of the array  *)
(* or not, leave the threads in order and lose and repeat none of them.      *)
RingsAgree ==
  \A q \in WaitQueues : wait_queues[q] # <<>> =>
    LET s == wait_queues[q] IN
    \A head \in 0 .. THREAD_MAX - 2 :
      LET ring == Ring!RingOf(s, head, NoTid) IN
      /\ Ring!Holds(ring, s)
      /\ Ring!Contents(ring)[1] = Head(s) /\ Ring!Holds(Ring!queue_pop(ring), Tail(s))
      /\ \A tid \in RealTid :
           /\ Ring!Holds(Ring!wait_queue_remove(ring, tid), queue_remove(s, tid))
           /\ tid \notin ToSet(s) => Ring!Holds(Ring!queue_push(ring, tid), Append(s, tid))
=============================================================================
