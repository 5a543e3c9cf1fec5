-------------------------------- MODULE Trap --------------------------------
(***************************************************************************)
(* Trap entry, dispatch and return: kernel/arch/riscv64/trap.S,            *)
(* kernel/core/trap.c, the trap side of kernel/core/thread.c, and the      *)
(* system calls of kernel/user/syscall.c and kernel/user/accel_syscall.c.  *)
(*                                                                         *)
(* The state is what the code shares with the hardware: the registers of   *)
(* the hart, and the memory a frame is saved in.  frames[t][0] is the trap *)
(* context page of user task t; frames[t][d] for d > 0 is the d-th frame   *)
(* on the kernel stack of thread t.  A trap takes three steps: entry       *)
(* (hardware and assembly), the C handler, and the return (C and assembly).*)
(* The memset system call is the exception: its handler may block in a     *)
(* trap of its own, and goes on when its thread is dispatched again.       *)
(*                                                                         *)
(* A thread runs a program: a sequence of instructions, of which only      *)
(* those that trap matter; "step" stands for all others.  Which ready      *)
(* thread is dispatched is Thread's concern: here it is any of them.       *)
(***************************************************************************)
EXTENDS Naturals, Sequences

CONSTANTS
  KThreads,     \* kernel threads
  UThreads,     \* threads of user tasks; a task is named by its thread
  Idle,         \* the null thread
  Program,      \* per thread, its instructions, an exit last
  MaxDepth      \* bound: frames on one kernel stack

KERNEL == "kernel"                      \* the kernel's satp
Real   == KThreads \cup UThreads
Thread == Real \cup {Idle}

(* What programs are made of; "copy" and "remap" are Usercopy's. *)
Syscall    == {"u_exit", "u_yield", "u_sleep", "u_memset", "u_noop", "u_unknown"}
Control    == {"yield", "sleep", "wait", "exit"}
UserCode   == Syscall \cup {"step"}
KernelCode == Control \cup {"step", "mask", "unmask", "copy", "remap"}

ASSUME TrapAssumption ==
  /\ KThreads \cap UThreads = {} /\ Idle \notin Real /\ KERNEL \notin UThreads
  /\ MaxDepth \in Nat \ {0}
  /\ \A t \in Real : /\ Program[t] \in Seq(IF t \in UThreads THEN UserCode ELSE KernelCode)
                     /\ Program[t] # <<>>
                     /\ Program[t][Len(Program[t])] = IF t \in UThreads THEN "u_exit" ELSE "exit"
  /\ Program[Idle] = <<"yield", "loop">>  \* null_task()

VARIABLES
  cpu,          \* the registers of the hart
  frames,       \* memory: saved frames per thread and depth
  handler,      \* the C trap handler: its cause and its frame argument
  sysframe,     \* per thread: the frame argument of its blocking system call
  current,      \* current_thread
  state,        \* per thread: threads[t].state, and why it is blocked
  trap_frame,   \* per thread: threads[t].trap_frame
  crashed,      \* PANIC, or a trap that runs the wrong entry code
  calls,        \* history: per thread, the traps its code asked for and got
  want          \* history: per thread, what its register a0 must hold

pvars == <<cpu, frames, handler, sysframe, current, state, trap_frame, crashed, calls, want>>

OK          == "ok"     \* WAIT_OK and USER_SYSCALL_OK: both are zero
ERR_UNKNOWN == "unknown"
MemsetResult == {OK, "rejected", "failed", "timeout"}

NoRef  == <<Idle, 0>>                     \* a NULL trap_frame_t pointer
UserSp == <<Idle, 0>>                     \* a stack pointer into user memory
Ref(t, d) == <<t, d>>
Pc(t, at, n) == [t |-> t, at |-> at, n |-> n]   \* at: which code of thread t

Frame(pc, spp, sp) ==
  [pc |-> pc, a0 |-> OK, a1 |-> 0, sp |-> sp, spp |-> spp, spie |-> TRUE, sum |-> FALSE]

(* What a frame nobody may read any more holds: popped, consumed or freed. *)
Dead == Frame(Pc(Idle, "dead", 0), "S", Ref(Idle, 0))

(***************************************************************************)
(* install_thread() puts a kernel thread's first frame on its stack, to    *)
(* return to supervisor mode; install_user_thread() takes the one          *)
(* user_task_init() wrote to the task's trap context.  thread_start()      *)
(* returns from the handler to the first thread.                           *)
(***************************************************************************)
InitialRef(t) == IF t \in UThreads THEN Ref(t, 0) ELSE Ref(t, 1)

TrapInit ==
  /\ frames = [t \in Thread |-> [d \in 0 .. MaxDepth |->
       IF Ref(t, d) # InitialRef(t) THEN Dead
       ELSE IF t \in UThreads THEN Frame(Pc(t, "user", 1), "U", UserSp)
                              ELSE Frame(Pc(t, "thread", 1), "S", Ref(t, 0))]]
  /\ trap_frame = [t \in Thread |-> InitialRef(t)]
  /\ current \in Real
  /\ state = [t \in Thread |-> IF t = current THEN "RUNNING" ELSE "READY"]
  /\ handler = [cause |-> "return", frame |-> InitialRef(current)]
  /\ cpu = [mode |-> "S", sie |-> FALSE, sum |-> FALSE, satp |-> KERNEL,
            stvec |-> "trap_entry", sscratch |-> "zero",
            pc |-> Pc(Idle, "boot", 0), a0 |-> OK, a1 |-> 0, sp |-> Ref(Idle, 0)]
  /\ sysframe = [t \in Thread |-> NoRef]
  /\ crashed = FALSE
  /\ calls = [t \in Real |-> <<>>]
  /\ want = [t \in Real |-> OK]

NoHandler    == [cause |-> "none", frame |-> NoRef]
Handling(c)  == ~crashed /\ handler.cause = c
InCode(at)   == Handling("none") /\ cpu.pc.at = at
Instruction  == Program[cpu.pc.t][cpu.pc.n]
InProgram    == (InCode("user") /\ cpu.mode = "U") \/ (InCode("thread") /\ cpu.mode = "S")
FrameAt(ref) == frames[ref[1]][ref[2]]
Panic        == crashed' = TRUE

-----------------------------------------------------------------------------
(* Trap entry. *)

Saved == [pc |-> cpu.pc, a0 |-> cpu.a0, a1 |-> cpu.a1, sp |-> cpu.sp,
          spp |-> cpu.mode, spie |-> cpu.sie, sum |-> cpu.sum]

(* user_trap_entry: save into the trap context that the user page table    *)
(* maps, go to the kernel's page table and to the empty stack recorded     *)
(* there.  trap_entry: push onto the stack in use.  Each needs sscratch to *)
(* be what the interrupted mode leaves in it.                              *)
EntryRef == IF cpu.stvec = "user_trap_entry" THEN Ref(cpu.satp, 0)
                                             ELSE Ref(cpu.sp[1], cpu.sp[2] + 1)

EntersRight == (cpu.stvec = "user_trap_entry") <=> (cpu.sscratch = "context")

(* The C code uses the registers of the context that was saved. *)
InHandler == [cpu EXCEPT !.pc = Pc(Idle, "handler", 0), !.a0 = OK, !.a1 = 0, !.mode = "S",
                         !.satp = KERNEL, !.stvec = "trap_entry", !.sp = EntryRef]

EnterKernel_KeepsSie     == [InHandler EXCEPT !.sscratch = "zero"]
EnterKernel              == [InHandler EXCEPT !.sie = FALSE, !.sscratch = "zero"]

TrapEntry(cause) ==
  /\ EntersRight => EntryRef[2] <= MaxDepth
  /\ IF EntersRight
     THEN /\ frames' = [frames EXCEPT ![EntryRef[1]][EntryRef[2]] = Saved]
          /\ cpu' = EnterKernel
          /\ handler' = [cause |-> cause, frame |-> EntryRef]
          /\ UNCHANGED crashed
     ELSE Panic /\ UNCHANGED <<frames, cpu, handler>>
  /\ UNCHANGED <<sysframe, current, state, trap_frame, calls, want>>

(* A timer interrupt is taken in user mode, and in kernel code that has     *)
(* interrupts enabled.                                                      *)
TimerInterrupt ==
  /\ ~crashed /\ (cpu.mode = "U" \/ cpu.sie)
  /\ TrapEntry("timer")

Ecall  == InCode("user") /\ Instruction \in Syscall /\ TrapEntry("ecall")
Ebreak ==
  /\ \/ InCode("thread") /\ Instruction \in Control
     \/ InCode("syscall")            \* accel_submit_sync_timeout() waits
  /\ TrapEntry("ebreak")

-----------------------------------------------------------------------------
(* Instructions that do not trap. *)

Goto(n) == [cpu.pc EXCEPT !.n = n]
Retire(c) == cpu' = c /\ UNCHANGED <<frames, handler, sysframe, current, state, trap_frame, crashed, calls>>

Step ==
  /\ InProgram /\ Instruction = "step"
  /\ Retire([cpu EXCEPT !.pc = Goto(cpu.pc.n + 1), !.a0 = "data"])
  /\ want' = [want EXCEPT ![cpu.pc.t] = "data"]

irq_save ==
  /\ InProgram /\ Instruction = "mask"
  /\ Retire([cpu EXCEPT !.pc = Goto(cpu.pc.n + 1), !.sie = FALSE]) /\ UNCHANGED want

irq_restore ==
  /\ InProgram /\ Instruction = "unmask"
  /\ Retire([cpu EXCEPT !.pc = Goto(cpu.pc.n + 1), !.sie = TRUE]) /\ UNCHANGED want

IdleLoop ==
  /\ InProgram /\ Instruction = "loop"
  /\ Retire([cpu EXCEPT !.pc = Goto(1)]) /\ UNCHANGED want

-----------------------------------------------------------------------------
(* Switching threads inside the handler. *)

Return(ref) == handler' = [cause |-> "return", frame |-> ref]
Record(ref) == calls' = IF current = Idle THEN calls
                        ELSE [calls EXCEPT ![current] = Append(@, FrameAt(ref).pc.n)]

ReadyReal == {t \in Real : state[t] = "READY"}

(* pick_next_thread() and the switch to it, with the outgoing thread in st. *)
SwitchFrom(st, ref) ==
  \E next \in IF ReadyReal # {} THEN ReadyReal ELSE {Idle} :
    /\ current' = next
    /\ state' = [state EXCEPT ![current] = st, ![next] = "RUNNING"]
    /\ trap_frame' = [trap_frame EXCEPT ![current] = ref]
    /\ Return(trap_frame'[next])

(* thread_yield_current_from_trap(): go on when nobody else is ready. *)
thread_yield_current_from_trap(ref) ==
  IF ReadyReal = {} THEN Return(ref) /\ UNCHANGED <<current, state, trap_frame>>
                    ELSE SwitchFrom("READY", ref)

thread_maybe_preempt_from_trap(ref) ==
  \/ Return(ref) /\ UNCHANGED <<current, state, trap_frame>>
  \/ current # Idle /\ ReadyReal # {} /\ SwitchFrom("READY", ref)

(* wake_blocked_thread(): the result goes to the frame the thread resumes. *)
ResultRef_UserFrame(t) == Ref(t, 0)
ResultRef(t) == trap_frame[t]

wake_blocked_thread(t, result) ==
  /\ state' = [state EXCEPT ![t] = "READY"]
  /\ frames' = [frames EXCEPT ![ResultRef(t)[1]][ResultRef(t)[2]].a0 = result]
  /\ want' = IF FrameAt(trap_frame[t]).pc.at = "thread" THEN [want EXCEPT ![t] = result] ELSE want
  /\ UNCHANGED <<cpu, handler, sysframe, current, trap_frame, crashed, calls>>

(* The tick ends sleeps and waits; a wait also ends when its queue is woken, *)
(* by a kernel thread or by the reset of a system call that timed out.       *)
Wake ==
  \E t \in Real :
    \/ Handling("timer") /\ state[t] = "SLEEP" /\ wake_blocked_thread(t, OK)
    \/ Handling("timer") /\ state[t] = "QUEUE" /\ wake_blocked_thread(t, "timeout")
    \/ /\ (InCode("thread") /\ current \in KThreads) \/ InCode("woken")
       /\ state[t] = "QUEUE" /\ wake_blocked_thread(t, OK)

-----------------------------------------------------------------------------
(* trap_handle(). *)

HandleTimer ==
  /\ Handling("timer")
  /\ thread_maybe_preempt_from_trap(handler.frame)
  /\ UNCHANGED <<cpu, frames, sysframe, crashed, calls, want>>

(* The saved program counter behind the instruction that trapped. *)
Advance(pc) == IF pc.at = "syscall" THEN [pc EXCEPT !.at = "woken"] ELSE [pc EXCEPT !.n = @ + 1]

Advanced(ref) == [frames EXCEPT ![ref[1]][ref[2]].pc = Advance(@)]
Answered(ref, result) ==
  [frames EXCEPT ![ref[1]][ref[2]].pc = Advance(@), ![ref[1]][ref[2]].a0 = result]

(* thread_handle_control_trap_from_trap(): a kernel thread, or a system     *)
(* call of a user thread, gives up the processor.                           *)
thread_handle_control_trap_from_trap ==
  LET ref == handler.frame
      op  == IF FrameAt(ref).pc.at = "syscall" THEN "wait"
             ELSE Program[FrameAt(ref).pc.t][FrameAt(ref).pc.n]
  IN /\ Handling("ebreak")
     /\ frames' = IF op = "exit" THEN [frames EXCEPT ![ref[1]][ref[2]] = Dead] ELSE Advanced(ref)
     /\ \/ op = "yield" /\ thread_yield_current_from_trap(ref)
        \/ op = "sleep" /\ SwitchFrom("SLEEP", ref)
        \/ op = "wait"  /\ SwitchFrom("QUEUE", ref)
        \/ op = "exit"  /\ SwitchFrom("EXITED", NoRef)
     /\ IF FrameAt(ref).pc.at = "syscall" THEN UNCHANGED calls ELSE Record(ref)
     /\ UNCHANGED <<cpu, sysframe, crashed, want>>

(* thread_current_user_task_for_frame() # NULL. *)
UserTaskForFrame_AnyFrame(ref) ==
  current \in UThreads /\ (trap_frame[current] = ref \/ ref = Ref(current, 0))
UserTaskForFrame(ref) ==
  /\ current \in UThreads /\ FrameAt(ref).spp = "U"
  /\ trap_frame[current] = ref \/ ref = Ref(current, 0)

(* user_syscall_dispatch().  memset runs on as code of its own; exit also   *)
(* destroys the task, trap context included.  A sleep of no ticks is a      *)
(* yield.  The exit of a user program that has no thread, from before there *)
(* were user threads, is left out.                                          *)
user_syscall_dispatch ==
  LET ref  == handler.frame
      call == Program[FrameAt(ref).pc.t][FrameAt(ref).pc.n]
      Answer(result) == frames' = Answered(ref, result) /\ want' = [want EXCEPT ![current] = result]
      Stay == UNCHANGED <<current, state, trap_frame>>
  IN /\ Handling("ecall")
     /\ Record(ref)
     /\ IF ~UserTaskForFrame(ref)
        THEN Panic /\ Stay /\ UNCHANGED <<cpu, frames, handler, sysframe, want>>
        ELSE /\ \/ /\ call = "u_exit" /\ SwitchFrom("EXITED", NoRef)
                   /\ frames' = [frames EXCEPT ![current][0] = Dead]
                   /\ UNCHANGED <<cpu, sysframe, want>>
                \/ /\ call = "u_yield" /\ Answer(OK) /\ thread_yield_current_from_trap(ref)
                   /\ UNCHANGED <<cpu, sysframe>>
                \/ /\ call = "u_sleep" /\ Answer(OK) /\ SwitchFrom("SLEEP", ref)
                   /\ UNCHANGED <<cpu, sysframe>>
                \/ /\ call = "u_noop" /\ Answer(OK) /\ Return(ref) /\ Stay
                   /\ UNCHANGED <<cpu, sysframe>>
                \/ /\ call = "u_unknown" /\ Answer(ERR_UNKNOWN) /\ Return(ref) /\ Stay
                   /\ UNCHANGED <<cpu, sysframe>>
                \/ /\ call = "u_memset" /\ Stay
                   /\ cpu' = [cpu EXCEPT !.pc = Pc(current, "syscall", 0)]
                   /\ sysframe' = [sysframe EXCEPT ![current] = ref]
                   /\ handler' = NoHandler
                   /\ UNCHANGED <<frames, want>>
             /\ UNCHANGED crashed

(***************************************************************************)
(* user_accel_syscall_memset() returns: without having waited when it      *)
(* rejects the call, else once it was woken.  A wait that ended in time    *)
(* does not make it return a timeout; one that did not may find that the   *)
(* command has completed since.  A wake-up without a completion makes it   *)
(* wait again (Accel has the driver's side).                               *)
(***************************************************************************)
user_accel_syscall_memset ==
  LET t == cpu.pc.t IN
  /\ \E result \in MemsetResult :
       /\ \/ InCode("syscall") /\ result \in {"rejected", "timeout"}
          \/ InCode("woken") /\ result # "rejected" /\ (cpu.a0 = OK => result # "timeout")
       /\ frames' = Answered(sysframe[t], result)
       /\ want' = [want EXCEPT ![t] = result]
  /\ Return(sysframe[t])
  /\ sysframe' = [sysframe EXCEPT ![t] = NoRef]
  /\ UNCHANGED <<cpu, current, state, trap_frame, crashed, calls>>

WaitAgain ==
  /\ InCode("woken") /\ cpu.a0 = OK
  /\ Retire([cpu EXCEPT !.pc.at = "syscall"]) /\ UNCHANGED want

-----------------------------------------------------------------------------
(* trap_return_from_handler(). *)

Restored(f) == [cpu EXCEPT !.mode = f.spp, !.sie = f.spie, !.sum = f.sum, !.pc = f.pc,
                           !.a0 = f.a0, !.a1 = f.a1, !.sp = f.sp]

(* trap_return_to_user() and user_trampoline_userret. *)
trap_return_to_user(task) ==
  IF FrameAt(Ref(task, 0)).spp # "U"
  THEN Panic /\ UNCHANGED <<cpu, frames, handler>>
  ELSE /\ cpu' = [Restored(FrameAt(Ref(task, 0))) EXCEPT !.satp = task,
                    !.stvec = "user_trap_entry", !.sscratch = "context"]
       /\ frames' = [frames EXCEPT ![task][0] = Dead]
       /\ handler' = NoHandler
       /\ UNCHANGED crashed

ScratchFor(f) == IF f.spp = "S" THEN "zero" ELSE "kernel stack"

trap_restore(ref) ==
  /\ cpu' = [Restored(FrameAt(ref)) EXCEPT !.sscratch = ScratchFor(FrameAt(ref))]
  /\ frames' = [frames EXCEPT ![ref[1]][ref[2]] = Dead]
  /\ handler' = NoHandler
  /\ UNCHANGED crashed

trap_return_from_handler ==
  LET ref == handler.frame IN
  /\ Handling("return")
  /\ IF UserTaskForFrame(ref)
     THEN trap_frame' = [trap_frame EXCEPT ![current] = ref] /\ trap_return_to_user(current)
     ELSE UNCHANGED trap_frame /\ trap_restore(ref)
  /\ UNCHANGED <<sysframe, current, state, calls, want>>

TrapNext ==
  \/ TimerInterrupt \/ Ecall \/ Ebreak
  \/ Step \/ irq_save \/ irq_restore \/ IdleLoop
  \/ Wake
  \/ HandleTimer \/ thread_handle_control_trap_from_trap \/ user_syscall_dispatch
  \/ user_accel_syscall_memset \/ WaitAgain
  \/ trap_return_from_handler

TrapSpec == TrapInit /\ [][TrapNext]_pvars

-----------------------------------------------------------------------------
(* Properties. *)

(* Type invariant of the trap machinery. *)
Sp == {Ref(t, d) : t \in Thread, d \in 0 .. MaxDepth}
TrapTypeOK ==
  /\ cpu.mode \in {"U", "S"} /\ cpu.sie \in BOOLEAN /\ cpu.sum \in BOOLEAN
  /\ cpu.satp \in UThreads \cup {KERNEL} /\ cpu.sp \in Sp
  /\ cpu.sscratch \in {"zero", "context"}
  /\ handler.cause \in {"none", "timer", "ecall", "ebreak", "fault", "return"}
  /\ handler.frame \in Sp
  /\ current \in Thread /\ trap_frame \in [Thread -> Sp] /\ sysframe \in [Thread -> Sp]
  /\ state \in [Thread -> {"READY", "RUNNING", "SLEEP", "QUEUE", "EXITED"}]

(* The kernel does not PANIC, and no trap runs the entry code of the other   *)
(* mode, whatever is interrupted, blocked or switched.                       *)
NoTrapPanic == ~crashed

(* The trap registers fit the mode in every state: user mode runs under its  *)
(* own task's page table with the trampoline and the trap context ready;     *)
(* everything else under the kernel's, with sscratch zero; and handlers and  *)
(* system calls are never interrupted.                                       *)
RegistersFitMode ==
  /\ IF cpu.mode = "U"
     THEN cpu.satp = current /\ cpu.stvec = "user_trap_entry" /\ cpu.sscratch = "context"
     ELSE cpu.satp = KERNEL /\ cpu.stvec = "trap_entry" /\ cpu.sscratch = "zero"
  /\ handler.cause # "none" \/ cpu.pc.at \in {"syscall", "woken"} => ~cpu.sie /\ cpu.mode = "S"

(* The calls s are those of the trapping instructions of t before the n-th. *)
Did(t, s, n) ==
  /\ {s[i] : i \in DOMAIN s} = {i \in 1 .. n - 1 : Program[t][i] \in Syscall \cup Control}
  /\ \A i, j \in DOMAIN s : i < j => s[i] < s[j]

(* Every system call and control trap a thread executes is carried out       *)
(* exactly once, in program order, however often it is interrupted, blocked  *)
(* inside the call or switched away: when a thread is back in its own code   *)
(* the traps carried out for it are those of the instructions behind it.     *)
TrapsOnce == InProgram /\ current # Idle => Did(current, calls[current], cpu.pc.n)

(* A thread gets back the context it lost: the code running is the current   *)
(* thread's, on its own stack, and a0 holds what its last instruction put    *)
(* there or the result of its last call.                                     *)
ContextIntact ==
  InProgram /\ current # Idle =>
    /\ cpu.pc.t = current
    /\ cpu.a0 = want[current]
    /\ cpu.sp = IF cpu.mode = "U" THEN UserSp ELSE Ref(current, 0)

(* The frame of a thread off the processor is its own and of the right kind: *)
(* one to user mode only in its trap context, which also stays untouched     *)
(* while a system call of it waits on a frame of the kernel stack.           *)
SavedFrames ==
  \A t \in Real :
    /\ state[t] \in {"READY", "SLEEP", "QUEUE"} =>
         /\ FrameAt(trap_frame[t]).pc.t = t
         /\ FrameAt(trap_frame[t]).spp = "U" <=> trap_frame[t] = Ref(t, 0)
    /\ sysframe[t] # NoRef =>
         /\ sysframe[t] = Ref(t, 0)
         /\ FrameAt(sysframe[t]).pc = Pc(t, "user", calls[t][Len(calls[t])])

(* What the trap code keeps in agreement with the hardware and the thread    *)
(* table, so that every trap finds its handler and every handler its frame.  *)
TrapInv == TrapTypeOK /\ NoTrapPanic /\ RegistersFitMode /\ SavedFrames
=============================================================================
