# A TLA+ verification of the RISC-V kernel

This directory specifies the parts of the kernel whose correctness depends on the
order of events, in TLA+, checks them with TLC on small instances and proves the
central results with TLAPS for every instance. `PROJECT.json` maps each
definition to the source lines it models; paths below are relative to
`src/kernel/`.

## The system

The kernel runs on one hart. Kernel threads and user tasks share one preemptive
FIFO round-robin scheduler; supervisor interrupts are masked inside every kernel
operation, so concurrency means: which thread runs next, where a timer tick falls,
and what other threads do while an operation is blocked. A consistency check
that fails is a `PANIC`, which stops the kernel.

| Component | State | Operations | Interacts with |
|---|---|---|---|
| scheduler `core/thread.c` | thread table, ready, sleep and wait queues, current thread, reschedule flag | create, start, yield, sleep, wait (timed), wake one/all, exit, tick, preempt | everything; called from traps |
| timer `drivers/timer.c` | tick count, next deadline | init, interrupt handler | scheduler, machine-mode shim |
| machine-mode shim `arch/riscv64/machine.c` | compare register, pending supervisor interrupt | set-timer call, machine timer interrupt | timer |
| traps `arch/riscv64/trap.S`, `core/trap.c` | the hart's trap registers, saved frames | entry from user and supervisor mode, dispatch, return to either | scheduler, timer, system calls, usercopy |
| mutexes `core/sync.c` | owner and wait queue per mutex | lock, timed lock, trylock, unlock | scheduler's wait queues |
| accelerator driver `drivers/accel.c` | one request slot, quarantine flag | submit, interrupt handler, reset, self-test, acknowledge | device, wait queue |
| device simulator `arch/riscv64/accel_platform.c` | six registers | device step | driver; stepped by a worker thread |
| accelerator system call `user/accel_syscall.c` | two pages per call | memset | driver, page allocator, usercopy |
| page allocator `memory/page_alloc.c` | bitmap, free count, hint | alloc, free | heap, tables, tasks |
| heap `memory/heap.c` | pools of pages, free list and bitmap per page, counters | kmalloc, kzalloc, kfree | page allocator |
| user tasks `user/task.c` | state, address space, three pages | init, mark exited, destroy | scheduler, page allocator, virtual memory |
| virtual memory `memory/vm.c`, `user_space.c` | page tables | map, unmap, walk, destroy | page allocator |
| usercopy and syscalls `memory/usercopy.c`, `user/syscall.c` | a fault probe per thread | validate, copy | virtual memory, traps |
| trace `core/trace.c` | ring of events | emit, dump | called by everything |
| device registry `drivers/device.c`, kernel paging `memory/paging.c`, console, boot, scenarios | - | - | - |

What is hard here: a timed waiter sits in two queues at once and two events may
take it out; ownership of a mutex is handed to a thread that runs only later, or
whose deadline passes meanwhile; the accelerator's deadline, completion and reset
race each other, with a device whose step can be preempted; a user task is
destroyed while the trap that ends it still runs; a system call blocks in a trap
inside its trap, so that one thread has two saved frames; a copy trusts pages that were checked
before another thread ran; the timer is driven by two privilege modes that interrupt
each other; the allocators keep the same fact in several places (bitmap, counter,
hint, list). `PROJECT.json` lists these
hazards at their lines with the properties that cover them.

## Modules

```
TidQueue   <- Thread <- Sync        FifoLock  (abstract lock, refined by Sync)
           <- TidRing               (ring buffers, compared with TidQueue's sequences)
Timer      <- Trace
Trap, UserRange <- Usercopy
Accel                               PagePool  (abstract pool, refined by PageAlloc)
PageAlloc  <- Heap
           <- Vm <- UserTask
MC*        instances for TLC, with the .cfg files of the same component

ThreadProofs    <- SyncProofs
PageAllocProofs <- HeapProofs
                <- UserTaskProofs
AccelProofs, TraceProofs (with Timer), UsercopyProofs (with Trap and UserRange)
```

A definition named after another one with an underscore and a capitalised suffix
(`Oldest_Newest`, `page_free_KeepsCount`) is a deliberately wrong variant of it. No
specification uses these; each one is a fault that a property must detect when it
replaces the original.

### TidQueue, TidRing and Thread

The three kinds of bounded tid arrays are sequences. `CloseGap` and `OpenGap` are
the shifting loops. The thread table is a function to records with the fields of
`thread_t` that control depends on; `trap_frame` is only "present or NULL" (`Trap` has
the frames). One action stands for one masked operation, the
dispatch of the next thread included (`Dispatch`). The two loops over threads take one
step per iteration: the expiry loop of a tick (`trap = "expire"`, then
`ChargeTick`, then `MaybePreempt`) and `wait_queue_wake_all()` (`waking`).
Each action sets `panicked` to the disjunction of the PANIC conditions on its path,
so `NoPanic` says something about every check in the file; the check of the sleep queue's head (`SleepHeadPanics`) runs
in every turn of the expiry loop, also in the last one, which finds nothing due. `thread_exit` has the status the trap saved
(`ExitFrameSPP`) as its argument. `due` is a history
variable: the deadline a thread asked for, without wrap-around. `NoTid` stands for
`THREAD_INVALID_TID` and for a NULL `current_thread`.

`TidRing` is the representation: an array with head, tail and count, and the
push, pop and removal as they are done to it, the gap-closing loop assignment by assignment (`AfterTurn`, the array after each turn). `RingsAgree` compares them
with the sequence operations on every wait queue reached and every position of the head.

Operations that return an error and change nothing (no free slot, zero-tick wait,
wake of an empty queue) are stutters and have no action of their own. Who may call what comes from
the callers: `thread_create` and the wake-ups from the boot code and kernel
threads, exit, sleep and waits from any thread but the null task. A task is given to one
thread only: `thread_create_user()` does not enforce it and neither does its action; `HasNoThread`, in `ThreadOp`, is the rule its callers keep.

### Sync and FifoLock

`Sync` extends `Thread`. Mutex m waits on wait queue m. A call up to its blocking trap is one step;
`call` remembers the call a thread is blocked in, and until the masked rest of
a resumed call has run nothing else of that thread, and no timer interrupt, is
possible. `holds` is a history variable: what the thread's calls have
returned as locked. The contract in `docs/design/sync.md` (no recursive lock,
unlock only by the owner, release before exit) is part of the guards.
`FifoLock` is the promise: one owner, direct hand-over in arrival order, no barging, waiters may
give up.

### Timer and Trace

`Timer` has both sides of the tick. A machine-mode trap is not interruptible, so `MachineTimerInterrupt` and the
set-timer call are one step each; `timer_init()` and `timer_handle_interrupt()` take a step per access to the clock
or to the shim, the catch-up loop one per turn, and the clock moves between any two. `at` says what the
supervisor executes. `start` and `now` are the clock as init and handler last read it. `TrapReturn` may go to code
with interrupts masked: the handler can switch to a thread that blocked inside a masked section.
`Trace` adds the event ring: `trace_emit` masks interrupts, so it is one step, possible wherever kernel code
runs. `Timer` is independent of `Thread`, whose `timer_handle_interrupt` is one whole interrupt of this module.

### Trap, UserRange and Usercopy

`Trap` is the processor's view of thread switching. `cpu` holds the registers the kernel shares with the
hardware (mode, interrupt enable, SUM, satp, stvec, sscratch) and of the others pc, sp, a0 and a1; `frames[t][0]` is
the trap context page of task t, `frames[t][d]` the d-th frame on thread t's kernel stack. Entry, C handler and return are a step each.
Threads run short programs given as constants; a timer interrupt is possible after every instruction that has interrupts enabled.
Which ready thread follows is any of them, and which blocked one a tick or an event wakes too: `Thread` decides that.
Waits are one kind: a wait without a deadline is one whose deadline never comes. The memset system call is the
special one. It runs as code of its own (`"syscall"`), blocks in an ebreak trap that saves a second frame for its thread, and after its wake-up
(`"woken"`) answers the first one, which it still has as its argument (`sysframe`); it also stands for the validation that may refuse it.
`crashed` is a PANIC or a trap whose entry code does not fit the registers. Frames that nobody may read any
more, and the registers of C code, are set to a fixed value. `calls` and `want` are history variables.

`UserRange` is the arithmetic of the bounds checks modulo `ADDR_MOD`, with one device range in place of two.
`Usercopy` extends both with `copy_from_user()` and `copy_to_user()`: bounds, a page per step with interrupts
enabled, the masked copy byte by byte under the probe, the fault with its recovery, which compares the fault with the kind of fault the call told its probe to expect
(`FaultOf` is the hardware's side of that comparison). Another thread takes pages or rights
away at any step at which it can run. `bytes` is a history variable.

### Accel

One record per register file, request slot and worker. Descriptor t belongs to
thread t; its status word and whether the device has executed it (`executed`) are what
the properties need. `accel_submit_resume` is the masked rest of a submit
call and, for user threads, of the system call: it resets the device on a timeout
and returns, after which descriptor and bounce page are free. The worker is the loop that the scenarios
run: device step, dispatch of the pending interrupt, yield. Each of its accesses to a register or to the descriptor's status is a
step of its own (`StepRead` to `IrqRead`); only the fill of the buffer, and the masked rest of the interrupt handler, are one step. With `Preemptible = TRUE`, which is what the kernel permits, other threads
run between any two of them; with `FALSE` they run only where the worker yields. The second is the
usual schedule: a yield starts a quantum of 10 ticks of 10000 cycles and the loop body
is far shorter. The wait queue is used through the contract `Thread` establishes: a waiter leaves once,
by a wake-up or by its deadline.

### PageAlloc, PagePool and Heap

Pages are indices; the scan from the hint is `Probe(0), Probe(1), ...`. `PagePool` promises only that no page is handed
out twice and that a refusal means exhaustion. `Heap` extends `PageAlloc`: a block
is a page and an index, free lists are sequences in link order, `raw` are the
pages other kernel code holds. A free of something that is not allocated is a PANIC in
the code and is left out.

### Vm and UserTask

`Vm` extends `PageAlloc`. A table is a function from indices to entries, an entry is invalid, a pointer to
a table or a leaf; access flags are left out. A virtual page is the triple of its indices. `vm_map_page()` takes one
step per level of its walk and one per table it rolls back, `vm_space_destroy()` one per table it frees;
`masked` keeps everybody else out meanwhile. `FreePage` is `page_free()` with its PANIC. `walk.before` is a history
component: the allocated pages at the start of the call.

`UserTask` runs `user_task_init()` and the release of a task call by call (`pc`), with interrupts enabled in between, as in
the code; `UserVa` are the four fixed addresses: code and stack share the first level of the tree, trampoline and trap context
share a whole branch, so that a task needs nine pages. Because of that shared branch the fourth mapping cannot run
out of memory, and the undo in `user_space_map_trap_support()` (unmap 0) is never taken with this layout. Other kernel code takes pages for good (`kept`: the heap
never gives a page back) or for a while (`raw`: the accelerator system call). One caller works on a task at a time:
`user_task_init()` leaves the state UNUSED until it is done and does not enforce this.

## Runs

| Run | Shows |
|---|---|
| `thread` | Three threads, a wait queue, a user task, quantum 2, four ticks: no PANIC, table and queues agree, nobody sleeps past a deadline, no request to reschedule outlives its trap, tasks of threads are alive; no early release, FIFO wake-up and dispatch; the ring buffers agree with the sequences. A ready thread runs, a sleep or timed wait ends. |
| `sync` | Three threads, two mutexes: exclusion, no PANIC and no orphaned mutex (`SyncInv`), timeout and ownership exclude each other, refinement of `FifoLock`; a blocked lock call returns, unless threads wait in a circle, and a timed one even then. |
| `timer_trace` | A period of three and a clock of eleven, three slots and eight events: outside the handler the tick is armed or pending, never neither; deadlines stay on the grid of periods; a period has at most one tick; a deadline that passed is served; the dump is the latest events in order (`TraceInv`). |
| `trap` | Two user and two kernel threads: trap registers fit the mode, frames are the right ones and no PANIC (`TrapInv`), a thread gets back its registers, a call is carried out once; probe and SUM end with the copy, the copy's result is true, the bounds are exact. |
| `accel_preempt` | Full preemption: the slot has one owner (`AccelInv`), completion wakes it. |
| `accel_yield` | Usual schedule: a START left behind by a timeout is refused, and the device left alone, until a reset (`Quarantine`); the result is the truth about the buffer, no write after the call, every submit call returns. |
| `user_task` | A task that is built, fails at any allocation, exits and is reused: no page leaked or freed twice and a ready task completely mapped (`TaskInv`), no mapping to a page that is gone, a failed mapping leaves nothing. Of the allocator below: exact count, refinement of `PagePool`. |
| `heap` | Free list and bitmap complementary, byte counters exact, no PANIC (`HeapInv`), one owner per page, refusals honest. |
| `thread_wrap`, `accel_timeout_wins`, `accel_stale_irq`, `accel_forgotten` | Sentences of the documentation that the code does not keep; see below. |

`SyncInv`, `AccelInv`, `TaskInv`, `HeapInv`, `TraceInv` and `TrapInv` are conjunctions of a component's invariants, types included where it has some. The types of `Thread` and
`PageAlloc`, and the allocator's `HintSound` (hence lowest free page first), are not repeated in a run: they are proved.

Bounds. Three real threads are the fewest that give a queue a middle to remove from while another thread acts; the two
mutexes of `sync` distinguish "its queue" from "a queue"; a quantum of 2 separates a tick from an expiry. `MaxTick`
stops the clock, and calls whose deadline would lie behind it are not made, so every deadline
set is reached. `TICK_MOD` stands for 2^64: 100 is out of reach, 6 (in
`thread_wrap`) is not. One kernel thread and one
user thread give the accelerator both timeout policies and a competitor for the one request slot. Nine pages are what one task needs; with `kept` growing at any time every allocation of an
initialisation is the one that fails, and one `raw` page makes holes on both sides of the hint. Two indices per table are enough for the four addresses to
share tables as they do in Sv39. The heap's two classes hold two blocks and one block a page; a size
above the largest class and size 0 are included. The clock of `timer_trace` lets a handler run three periods late and still leaves a deadline to be met;
eight events wrap the ring of three slots twice. The programs of `trap` contain every system call and every control trap, a wait inside a masked section, and
a copy across a page boundary that loses either page; the arguments of the copy include the empty range, NULL, the last user byte,
one byte too many, the device range, and ranges that end at and past the end of the address space. `MaxDepth` is 2: a frame on the kernel stack
is never nested in another here, so 2 would be exceeded by a trap that saves one frame too many.

Fairness. Kernel loops run to their end (weak). The timer interrupt is strongly fair: every
operation masks it for a while, but a pending one is taken at the next unmasking.
Nothing is assumed of threads, except in `sync`, that a thread which holds a
mutex and keeps getting the processor comes to its `mutex_unlock()`, and in
`accel_yield`, that the worker keeps stepping the device and a thread whose wait is over is scheduled (which is `ReadyRuns`).
In `timer_trace` machine mode takes its interrupt, `timer_init()` and handlers run on and masked sections end (weak), and the hart takes a pending timer
interrupt if interrupts are enabled again and again (strong).

### Where code and documentation disagree

* `thread_wrap`: `core/thread.c:1129` adds ticks to the clock in 64 bits; a tick count close to
  2^64 yields a deadline in the past. `docs/ddr/0011` says sleepers wake when their delay expires.
* `accel_timeout_wins`: a completion between the deadline and the submitter's next turn is
  returned as success, with the descriptor marked timed out and the device
  quarantined (`drivers/accel.c:327`). `docs/ddr/0030` says that timeout wins.
* `accel_stale_irq`: the handler reads the status before it masks interrupts (`drivers/accel.c:54`).
  Preempted there, it later fails a fresh request. `docs/design/accelerator.md` says
  stale bits do not poison the next submit.
* `accel_forgotten`: a device step preempted behind its descriptor check goes on after the
  reset of a timed-out system call and writes to pages that call has freed. `docs/ddr/0036` says the
  reset proves that the device has forgotten them.

The last two need a preemption inside the worker's short loop body.

## Proofs

Everything below holds for every value of the constants that meets the named
assumptions of the modules (at least one real thread, a positive quantum, NULL values
outside their sets, tick arguments below the modulus, at least one page, programs that end in an exit and
so on); where a theorem assumes more, it is said. All safety properties of the passing runs are proved.

`ThreadProofs`: type correctness, agreement of table and queues, absence of PANICs, and that the tasks of
threads are alive. None of them is inductive alone. That `Dispatch` does not panic needs the queues to agree with
the table; that the queues agree after a step needs that the step did not panic; that
a queue has room needs a counting argument: it holds no thread twice and not the one that is about to be
appended, so it has at most `THREAD_MAX - 2` entries (`QueueHasRoom`). The inductive
invariant `SchedInv` is the agreement stated over explicit arguments (`Agree`), the types of the rest, "the null task is
never blocked or queued and keeps its frame", "the entry of the running thread is in no queue", "a task belongs to at
most one thread" (without which an exit could destroy another thread's task), and `~panicked`. The proof has a lemma per kind of
change (append, remove, dispatch, wake) and a step per action. On top of it: `OrderInv`, the sleep queue is sorted by wake tick and outside the expiry
loop no deadline has passed, gives `NoOversleep` (the loop may stop at the first entry that has not expired *because* the
queue is sorted); `RequestInv`, a request exists only between `ChargeTick` and `MaybePreempt`, gives `NoStaleReschedule`;
`DeadlinesExact` gives `NotEarly` under the assumption `NoWrap`, that clock plus tick argument stays below the modulus, which is exactly what
`thread_wrap` shows to be needed; `FifoOrder` follows from `SchedInv` action by action.
The module starts with the facts about the shifting loops: what is in a sequence after a gap is opened or closed, that duplicates do not appear, that order is
kept. It ends with the arrays behind the queues: `InOrder` says that an array has a sequence in order from its head on, wrapped or not, and is kept by push, pop and
removal. The gap-closing loop is a recursive function of its turn; `Moved` gives
the array after n turns in closed form. `MovedStep` is one turn, and the least turn after which the two differ cannot exist (`LeastNatural`), which needs no induction principle. A queue fits its array because it holds no thread twice (`QueueFitsRing`), and `RingsFaithful`
is the result, for every `THREAD_MAX` and head.

`SyncProofs`: `SchedInv` carries over, because a step of `Sync` is a step of `Thread` or leaves its variables alone. `MutexInv` adds `CallsAgree`,
which ties the scheduler's entry of a thread to the lock call it is in: a blocked thread waits in the queue of the mutex of its call, a thread in a lock call is
alive, and it does not hold that mutex yet. Without it a hand-over could go to a thread that waits for something else, and the invariants of
the run could not be carried over the step: they are proved together. `MutexesAreFifoLocks` is the refinement of `FifoLock`,
a step of the abstract lock or a stutter per action.

`AccelProofs`: `SlotInv` (the slot is owned by the thread inside a submit call, a thread waits exactly while it is inside one, a completed request has a woken owner, and a
quarantined slot is free) holds for both schedules and gives `AccelInv` and `NoLostWakeup`. `Quarantine`, `ResultTruthful` and `NoLateDma` are proved for the
schedule in which the worker is not preempted (`ASSUME ~Preemptible`). The last two need it, as the runs `accel_stale_irq` and `accel_forgotten` show, and so does the first:
a device step preempted in its descriptor checks can, after timeout, reset and a new submission, still mark that descriptor invalid under the new START. What quarantine keeps under any schedule is
`QuarantinedUntouched`: from timeout to reset only the worker changes the device.
Their invariant `YieldInv` follows the one command in flight through registers and worker: it is at one stage of the device step at a time, and what was
executed is what the interrupt reports.

`TraceProofs`: `TimerInv` says for every position of handler and shim which of compare register and pending bit carries the tick (`NoLostTick`), how the deadline
relates to the clock as last read (`OnTime`) and that deadlines are whole periods from the start (`OnGrid`). `RingInv` gives for every slot the sequence
number it holds, hence the dump.

`PageAllocProofs`: types, `FreeCountExact` (cardinality of a set with one element more or less), `HintSound`, and the
refinement of `PagePool`, whose one hard case is that a scan of `total_pages` probes
visits every page, so that a refusal means that none is free.

`HeapProofs`: `HeapIInv` has, per page, who owns it and how free list, count and bitmap share out its blocks, next to the allocator's own invariant. The byte counters are sums over
all pages. What a step does to a sum is shown by prefix sums: the least page at which they differ by something else cannot exist (`LeastNatural`), which
needs no induction principle.

`UserTaskProofs`: the run's invariants speak of the pages reachable from a task's root, and reachability is hard to carry over a step that
changes one entry. `UserInv` gives every page one *owner* instead: nobody, other kernel code, or a task together with the page's place in it (root, table below entry i,
table below entries i and j, one of its three pages). Owners agree with links in both directions (`Forest`), with leaves (`Maps`), with the bitmap (`Owners`) and with the pages
a task's record names (`HasPages`). That tables are a tree and that no page is in two places then follow from the owner being a function of the page. `TasksOK` says for
every point of `user_task_init()` and of the release which pages and mappings exist; `WalkOK` what the walk has taken so far and where it linked it, which is what the rollback
takes back. Owners and mappings are existentially quantified: they are not variables of the model, and each action is shown to have new ones. `TaskInv`, `MappedPagesLive` and
`FailedMapLeavesNothing` follow. Because no page is freed that is not allocated, the task code uses the allocator as `PageAlloc` describes it (`TasksUseAllocator`),
so that its theorems, the refinement of `PagePool` included, hold beneath the tasks (`TasksSeePool`). `UserVaAssumption`: the four fixed addresses are made of table indices.

`UsercopyProofs`: a thread's *context* is what it needs to go on: the registers, or the frame a handler has of them, for the current one, the frame
`trap_frame` points to for others. `TrapIInv` says what a context holds by the code it is in (its program, a waiting system call,
a kernel thread's program, a copy call) and where it is kept: `Home`, the trap context page if it returns to user mode, else the first frame of the kernel stack.
Entry and return then only move contexts, and the other actions replace one by a good one. `TrapInv`, `TrapsOnce` and `ContextIntact` follow; the
second frame of a system call that waits is part of `InCall`, and "a wait's result does not disturb what the code expects" part of
`ParkedAs`. For the copies `InCopy` keeps the checked range, the bytes moved so far and the probe in step. That the range checks are exact is arithmetic
modulo `ADDR_MOD` (`RangeAccepted`, `RangeRefused`), for every layout with a device hole; that a refused page belongs to a byte of the range is `PageFacts`.

Only model-checked: the liveness properties `ReadyRuns`, `TimedWaitEnds`, `LockReturns`, `SubmitReturns` and `DeadlineServed`, as fairness and `ENABLED` are
out of the prover's reach, and the four runs that show a violation. For the task memory TLC uses one task and nine pages; the theorems have no such bound.

## Not modelled

The uart, the panic path, boot, the kernel's identity map and the device registry (both built once at boot by sequential code and only read afterwards),
the user programs and the smoke test have no protocol state of their own. The
scenarios are test programs; only their worker loop is modelled. Of modelled components these parts are left out: the copies through a task's own page
table (`copy_user_task_bytes()`: masked, no fault possible), the trap self-test before the scheduler starts, the exit path of a user program that has no
thread, the payload of trace events, the benchmark counters, and traps the kernel answers with a PANIC because nothing raises them.

## Plan

Done, in this order: `TidQueue`, `Thread`, `Sync` with `FifoLock`, `Accel`, `PageAlloc` with `PagePool`, `Heap`, `Vm` with `UserTask`; proofs about
the scheduler and the page allocator; `Timer`, `Trace`, `Trap`, `UserRange`, `Usercopy`, `TidRing`; proofs about all of them, `UserTask` and `TidRing` last.

Open:
1. `Usercopy`: the copies through a task's own page table, on top of `Vm`, so that the bytes of the accelerator system call are followed to the user's buffer.
2. A thread that exits while it owns a mutex: the contract forbids it and nothing checks it (`core/thread.c:745`). Once the code has a rule for it, `Sync` gets the action.
