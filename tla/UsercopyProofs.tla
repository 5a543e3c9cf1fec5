--------------------------- MODULE UsercopyProofs ---------------------------
(***************************************************************************)
(* Traps, system calls and user copies are correct for every set of        *)
(* threads, all their programs and every layout of user memory.            *)
(*                                                                         *)
(* The context of a thread is what it needs to go on: for the current one  *)
(* the registers, or the frame they were saved in while a handler runs;    *)
(* for another one the frame trap_frame points to.  Entry to and return    *)
(* from a trap only move contexts; the invariant says what they hold.      *)
(***************************************************************************)
EXTENDS Usercopy, TLAPS

Active == IF handler.cause = "none" THEN Saved ELSE FrameAt(handler.frame)
Ctx(t) == IF t = current THEN Active ELSE FrameAt(trap_frame[t])

(* Types. *)
Places  == {"user", "thread", "syscall", "woken", "validate", "begin", "copy", "fixup",
            "dead", "handler", "boot"}
Values  == {"ok", "unknown", "rejected", "failed", "timeout", "data", "invalid", "fault"}
PcSet   == [t : Thread, at : Places, n : Nat]
Context == [pc : PcSet, a0 : Values, a1 : Nat, sp : Sp, spp : {"U", "S"}, spie : BOOLEAN,
            sum : BOOLEAN]
CpuSet  == [mode : {"U", "S"}, sie : BOOLEAN, sum : BOOLEAN, satp : UThreads \cup {KERNEL},
            stvec : {"trap_entry", "user_trap_entry"}, sscratch : {"zero", "context"},
            pc : PcSet, a0 : Values, a1 : Nat, sp : Sp]
Causes  == {"none", "timer", "ecall", "ebreak", "fault", "return"}
CopyRecord == [start : Nat, len : Nat, right : Rights, fault_cause : {"load", "store"}, sie : BOOLEAN]
CopySet == {c \in CopyRecord : FaultOf[c.right] = c.fault_cause}

Typed ==
  /\ cpu \in CpuSet /\ handler \in [cause : Causes, frame : Sp]
  /\ frames \in [Thread -> [0 .. MaxDepth -> Context]]
  /\ current \in Thread /\ trap_frame \in [Thread -> Sp] /\ sysframe \in [Thread -> Sp]
  /\ state \in [Thread -> {"READY", "RUNNING", "SLEEP", "QUEUE", "EXITED"}]
  /\ calls \in [Real -> Seq(Nat)] /\ want \in [Real -> Values]
  /\ probe \in [KThreads -> BOOLEAN] /\ copy \in [KThreads -> CopySet]
  /\ bytes \in [KThreads -> SUBSET Nat]

(* What a context c of thread t holds, by the code it is in: its program, *)
AtLine(t, c) == c.pc.n \in 1 .. Len(Program[t])

InUser(t, c) ==
  /\ t \in UThreads /\ c.pc.at = "user" /\ c.spp = "U" /\ c.sp = UserSp /\ ~c.sum
  /\ AtLine(t, c) /\ Did(t, calls[t], c.pc.n)
  /\ sysframe[t] = NoRef

(* a system call that waits, whose user context is in its trap context page, *)
InCall(t, c) ==
  LET f == frames[t][0]
  IN  /\ t \in UThreads /\ c.pc.at \in {"syscall", "woken"} /\ c.pc.n = 0
      /\ c.spp = "S" /\ ~c.spie /\ c.sp = Ref(t, 0) /\ ~c.sum
      /\ sysframe[t] = Ref(t, 0)
      /\ f.pc.t = t /\ f.pc.at = "user" /\ f.spp = "U" /\ f.sp = UserSp /\ ~f.sum
      /\ AtLine(t, f) /\ Program[t][f.pc.n] = "u_memset"
      /\ Did(t, calls[t], f.pc.n + 1) /\ calls[t] # <<>> /\ calls[t][Len(calls[t])] = f.pc.n

(* a kernel thread's program, *)
CopyTruth(t, result) ==
  \/ result = "ok" /\ bytes[t] = Bytes(t)
  \/ result = "fault" /\ \E k \in Bytes(t) : bytes[t] = copy[t].start .. k - 1
  \/ result = "invalid" /\ bytes[t] = {}

InThread(t, c) ==
  /\ t \in KThreads \cup {Idle} /\ c.pc.at = "thread" /\ c.spp = "S" /\ c.sp = Ref(t, 0) /\ ~c.sum
  /\ AtLine(t, c)
  /\ t \in KThreads =>
       /\ Did(t, calls[t], c.pc.n) /\ sysframe[t] = NoRef /\ bytes[t] \subseteq UserByte
       /\ c.pc.n > 1 /\ Program[t][c.pc.n - 1] = "copy" => CopyTruth(t, c.a0)

(* or a copy call, whose range has been checked.                            *)
Checked(cp) ==
  /\ cp.len > 0 /\ cp.start + cp.len <= USER_SPACE_TOP + 1
  /\ cp.start .. cp.start + cp.len - 1 \subseteq UserByte

InCopy(t, c) ==
  /\ t \in KThreads /\ c.pc.at \in {"validate", "begin", "copy", "fixup"}
  /\ c.spp = "S" /\ c.sp = Ref(t, 0) /\ AtLine(t, c) /\ Program[t][c.pc.n] = "copy"
  /\ Did(t, calls[t], c.pc.n) /\ sysframe[t] = NoRef
  /\ Checked(copy[t])
  /\ c.pc.at \in {"validate", "begin"} => bytes[t] = {} /\ ~c.sum
  /\ c.pc.at = "validate" =>
       c.a1 \in PageOf(copy[t].start) .. PageOf(copy[t].start + copy[t].len - 1)
  /\ c.pc.at \in {"copy", "fixup"} => ~c.spie /\ c.sum /\ bytes[t] = copy[t].start .. c.a1 - 1
  /\ c.pc.at = "copy" => /\ probe[t] = TRUE
                         /\ c.a1 \in copy[t].start .. copy[t].start + copy[t].len
  /\ c.pc.at = "fixup" => c.a1 \in Bytes(t)

Good(t, c) ==
  /\ c.pc.t = t
  /\ InUser(t, c) \/ InCall(t, c) \/ InThread(t, c) \/ InCopy(t, c)
  /\ c.pc.at \in {"user", "thread"} /\ t # Idle => c.a0 = want[t]

(* Where a context is saved: in the trap context page to go on in user mode, *)
(* else at the bottom of the kernel stack.                                   *)
Home(t, c) == IF c.spp = "U" THEN Ref(t, 0) ELSE Ref(t, 1)

(* A thread that waits for the processor or is blocked, in state st with its *)
(* context c saved at ref: never inside the copy loop, and a wait's result   *)
(* will not disturb what its code expects.                                   *)
ParkedAs(t, st, ref, c) ==
  /\ ref = Home(t, c) /\ c.pc.at \notin {"copy", "fixup"}
  /\ st \in {"READY", "SLEEP", "QUEUE"}
  /\ st = "SLEEP" => c.pc.at \in {"user", "thread"}
  /\ st = "SLEEP" /\ c.pc.at = "user" => want[t] = OK
  /\ st = "QUEUE" => c.pc.at \in {"thread", "woken"}
  /\ st # "READY" => t # Idle
  /\ st # "READY" /\ t \in KThreads => c.pc.n > 1 /\ Program[t][c.pc.n - 1] # "copy"
Parked(t) == ParkedAs(t, state[t], trap_frame[t], FrameAt(trap_frame[t]))

Gone(t) == sysframe[t] = NoRef /\ (t \in KThreads => bytes[t] = {} /\ copy[t] = NoCopy)

ThreadOK(t) ==
  /\ state[t] # "EXITED" => Good(t, Ctx(t))
  /\ state[t] = "EXITED" => t # Idle /\ Gone(t)
  /\ t # current /\ state[t] # "EXITED" => Parked(t)
  /\ t \in KThreads /\ probe[t] = TRUE => t = current /\ Active.pc.at = "copy"

(* The handler has the frame of the current thread, saved for its cause.    *)
HandlerFits ==
  handler.cause # "none" =>
    /\ cpu.mode = "S" /\ ~cpu.sie /\ cpu.sum = Active.sum
    /\ handler.frame = Home(current, Active)
    /\ handler.cause # "return" => cpu.sp = handler.frame
    /\ handler.cause = "timer" => Active.spp = "U" \/ Active.spie
    /\ handler.cause = "ecall" =>
         Active.pc.at = "user" /\ Program[current][Active.pc.n] \in Syscall
    /\ handler.cause = "ebreak" =>
         \/ Active.pc.at = "thread" /\ Program[current][Active.pc.n] \in Control
         \/ Active.pc.at = "syscall"
    /\ handler.cause = "fault" =>
         Active.pc.at = "copy" /\ Active.a1 # copy[current].start + copy[current].len

TrapIInv ==
  /\ Typed /\ crashed = FALSE /\ RegistersFitMode /\ HandlerFits
  /\ state[current] = "RUNNING"
  /\ \A t \in Thread : ThreadOK(t)

-----------------------------------------------------------------------------
(* Places where frames are saved. *)
LEMMA RefFacts ==
  /\ \A t \in Thread, d \in 0 .. MaxDepth :
       Ref(t, d) \in Sp /\ Ref(t, d)[1] = t /\ Ref(t, d)[2] = d
  /\ \A t \in Thread : Ref(t, 0) \in Sp /\ Ref(t, 1) \in Sp /\ Ref(t, 0) # Ref(t, 1)
  /\ \A r \in Sp : r[1] \in Thread /\ r[2] \in 0 .. MaxDepth /\ r = Ref(r[1], r[2])
  /\ NoRef \in Sp /\ UserSp \in Sp /\ \A t \in Real : Ref(t, 0) # NoRef
  /\ 0 \in 0 .. MaxDepth /\ 1 \in 0 .. MaxDepth
<1>1. 0 \in 0 .. MaxDepth /\ 1 \in 0 .. MaxDepth
  BY TrapAssumption
<1>2. Idle \in Thread /\ \A t \in Real : t # Idle /\ t \in Thread
  BY TrapAssumption DEF Thread
<1> QED  BY <1>1, <1>2 DEF Sp, Ref, NoRef, UserSp

(* The threads. *)
LEMMA ThreadFacts ==
  /\ \A t \in Thread : \/ t \in UThreads /\ t \notin KThreads /\ t # Idle /\ t \in Real
                       \/ t \in KThreads /\ t \notin UThreads /\ t # Idle /\ t \in Real
                       \/ t = Idle /\ t \notin UThreads /\ t \notin KThreads /\ t \notin Real
  /\ \A t \in UThreads : t \in Thread /\ t \in Real
  /\ \A t \in KThreads : t \in Thread /\ t \in Real
  /\ Idle \in Thread /\ KERNEL \notin UThreads
BY TrapAssumption DEF Thread, Real

(* A line of a user program; an exit is the last. *)
LEMMA UserLine ==
  ASSUME NEW t \in UThreads, NEW n \in 1 .. Len(Program[t])
  PROVE  /\ Program[t][n] \in UserCode /\ n \in Nat \ {0} /\ Len(Program[t]) \in Nat \ {0}
         /\ Program[t][n] # "u_exit" => n + 1 \in 1 .. Len(Program[t])
<1> DEFINE s == Program[t]
<1>1. s \in Seq(UserCode) /\ s # <<>> /\ s[Len(s)] = "u_exit" /\ n \in 1 .. Len(s)
  BY TrapAssumption DEF Real
<1> HIDE DEF s
<1>2. /\ Len(s) \in Nat \ {0} /\ n \in Nat \ {0} /\ s[n] \in UserCode
      /\ s[n] # "u_exit" => n + 1 \in 1 .. Len(s)
  BY <1>1
<1> QED  BY <1>2 DEF s

(* A line of a kernel thread's program. *)
LEMMA KernelLine ==
  ASSUME NEW t \in KThreads, NEW n \in 1 .. Len(Program[t])
  PROVE  /\ Program[t][n] \in KernelCode /\ n \in Nat \ {0} /\ Len(Program[t]) \in Nat \ {0}
         /\ Program[t][n] # "exit" => n + 1 \in 1 .. Len(Program[t])
<1> DEFINE s == Program[t]
<1>1. s \in Seq(KernelCode) /\ s # <<>> /\ s[Len(s)] = "exit" /\ n \in 1 .. Len(s)
  BY TrapAssumption DEF Real
<1> HIDE DEF s
<1>2. /\ Len(s) \in Nat \ {0} /\ n \in Nat \ {0} /\ s[n] \in KernelCode
      /\ s[n] # "exit" => n + 1 \in 1 .. Len(s)
  BY <1>1
<1> QED  BY <1>2 DEF s

(* The program of the null thread. *)
LEMMA IdleLine ==
  /\ Len(Program[Idle]) = 2 /\ Program[Idle][1] = "yield" /\ Program[Idle][2] = "loop"
  /\ 1 .. Len(Program[Idle]) = {1, 2}
<1>1. Program[Idle] = <<"yield", "loop">>
  BY TrapAssumption
<1> QED  BY <1>1

(* Every program has a first line. *)
LEMMA FirstLine ==
  ASSUME NEW t \in Thread
  PROVE  1 \in 1 .. Len(Program[t])
<1>1. CASE t \in UThreads
  <2>1. Program[t] \in Seq(UserCode) /\ Program[t] # <<>>
    BY <1>1, TrapAssumption DEF Real
  <2> QED  BY <2>1
<1>2. CASE t \in KThreads
  <2>1. Program[t] \in Seq(KernelCode) /\ Program[t] # <<>>
    BY <1>2, TrapAssumption DEF Real
  <2> QED  BY <2>1
<1>3. CASE t = Idle
  BY <1>3, IdleLine
<1> QED  BY <1>1, <1>2, <1>3, ThreadFacts

(* The record of a thread's calls, behind an instruction that traps, *)
LEMMA DidCall ==
  ASSUME NEW t, NEW s \in Seq(Nat), NEW n \in Nat \ {0}, Did(t, s, n),
         Program[t][n] \in Syscall \cup Control
  PROVE  Did(t, Append(s, n), n + 1) /\ Append(s, n) \in Seq(Nat)
         /\ Append(s, n) # <<>> /\ Append(s, n)[Len(Append(s, n))] = n
<1> DEFINE r == Append(s, n)
           Traps(i) == Program[t][i] \in Syscall \cup Control
<1>1. /\ Len(s) \in Nat /\ r \in Seq(Nat) /\ Len(r) = Len(s) + 1 /\ r # <<>> /\ r[Len(r)] = n
      /\ DOMAIN s = 1 .. Len(s) /\ DOMAIN r = 1 .. Len(s) + 1
      /\ \A i \in 1 .. Len(s) : r[i] = s[i]
  OBVIOUS
<1>2. /\ {s[i] : i \in DOMAIN s} = {i \in 1 .. n - 1 : Traps(i)}
      /\ \A i, j \in DOMAIN s : i < j => s[i] < s[j]
  BY DEF Did
<1>3. Traps(n)
  OBVIOUS
<1> HIDE DEF r, Traps
<1>4. \A i \in 1 .. Len(s) : s[i] \in 1 .. n - 1 /\ Traps(s[i])
  BY <1>1, <1>2
<1>5. {r[i] : i \in DOMAIN r} = {i \in 1 .. n : Traps(i)}
  <2>1. ASSUME NEW i \in DOMAIN r PROVE r[i] \in {j \in 1 .. n : Traps(j)}
    <3>1. CASE i = Len(s) + 1
      BY <1>1, <1>3, <3>1
    <3>2. CASE i # Len(s) + 1
      BY <1>1, <1>4, <3>2
    <3> QED  BY <3>1, <3>2
  <2>2. ASSUME NEW j \in 1 .. n, Traps(j) PROVE \E i \in DOMAIN r : j = r[i]
    <3>1. CASE j = n
      BY <1>1, <3>1
    <3>2. CASE j # n
      <4>1. j \in {i \in 1 .. n - 1 : Traps(i)}
        BY <2>2, <3>2
      <4>2. PICK i \in DOMAIN s : j = s[i]
        BY <1>2, <4>1
      <4> QED  BY <1>1, <4>2
    <3> QED  BY <3>1, <3>2
  <2> QED  BY <2>1, <2>2
<1>6. ASSUME NEW i \in DOMAIN r, NEW j \in DOMAIN r, i < j PROVE r[i] < r[j]
  <2>1. i \in DOMAIN s /\ r[i] = s[i] /\ s[i] \in 1 .. n - 1
    BY <1>1, <1>4, <1>6
  <2>2. CASE j = Len(s) + 1
    BY <1>1, <2>1, <2>2
  <2>3. CASE j # Len(s) + 1
    <3>1. j \in DOMAIN s /\ r[j] = s[j]
      BY <1>1, <2>3
    <3> QED  BY <1>2, <1>6, <2>1, <3>1
  <2> QED  BY <2>2, <2>3
<1>7. n + 1 - 1 = n
  OBVIOUS
<1> QED  BY <1>1, <1>5, <1>6, <1>7 DEF Did, r, Traps

(* and behind one that does not. *)
LEMMA DidStep ==
  ASSUME NEW t, NEW s \in Seq(Nat), NEW n \in Nat \ {0}, Did(t, s, n),
         Program[t][n] \notin Syscall \cup Control
  PROVE  Did(t, s, n + 1)
<1> DEFINE Traps(i) == Program[t][i] \in Syscall \cup Control
<1>1. ~Traps(n) /\ n + 1 - 1 = n
  OBVIOUS
<1> HIDE DEF Traps
<1>2. {i \in 1 .. n : Traps(i)} = {i \in 1 .. n - 1 : Traps(i)}
  BY <1>1
<1> QED  BY <1>1, <1>2 DEF Did, Traps

(* What a step leaves to thread t: its history, the frame argument of its   *)
(* system call and its copy call; and its frames and its place in the       *)
(* thread table.                                                            *)
KeepsData(t) ==
  /\ sysframe'[t] = sysframe[t]
  /\ t \in Real => calls'[t] = calls[t] /\ want'[t] = want[t]
  /\ t \in KThreads => copy'[t] = copy[t] /\ bytes'[t] = bytes[t] /\ probe'[t] = probe[t]

KeepsThread(t) ==
  /\ KeepsData(t) /\ frames'[t] = frames[t]
  /\ trap_frame'[t] = trap_frame[t] /\ state'[t] = state[t]

(* A good context stays good while the thread's data does. *)
LEMMA GoodStays ==
  ASSUME NEW t \in Thread, NEW c, Good(t, c), KeepsData(t),
         c.pc.at \in {"syscall", "woken"} => frames'[t][0] = frames[t][0]
  PROVE  Good(t, c)'
<1>1. ASSUME InUser(t, c) PROVE InUser(t, c)'
  BY <1>1, ThreadFacts DEF InUser, KeepsData, AtLine
<1>2. ASSUME InCall(t, c) PROVE InCall(t, c)'
  BY <1>2, ThreadFacts DEF InCall, KeepsData, AtLine
<1>3. ASSUME InThread(t, c) PROVE InThread(t, c)'
  BY <1>3, ThreadFacts DEF InThread, KeepsData, AtLine, CopyTruth, Bytes
<1>4. ASSUME InCopy(t, c) PROVE InCopy(t, c)'
  BY <1>4, ThreadFacts DEF InCopy, KeepsData, AtLine, Bytes
<1>5. c.pc.at \in {"user", "thread"} /\ t # Idle => c.a0 = want'[t]
  BY ThreadFacts DEF Good, KeepsData
<1> QED  BY <1>1, <1>2, <1>3, <1>4, <1>5 DEF Good

(* A parked thread's frame is one of its own. *)
LEMMA ParkedFrame ==
  ASSUME NEW t \in Thread, Parked(t)
  PROVE  /\ trap_frame[t] \in {Ref(t, 0), Ref(t, 1)} /\ trap_frame[t][1] = t
         /\ trap_frame[t][2] \in 0 .. MaxDepth
         /\ FrameAt(trap_frame[t]) = frames[t][trap_frame[t][2]]
<1>1. trap_frame[t] \in {Ref(t, 0), Ref(t, 1)}
  BY DEF Parked, ParkedAs, Home
<1>2. trap_frame[t][1] = t /\ trap_frame[t][2] \in 0 .. MaxDepth
  BY <1>1, RefFacts
<1> QED  BY <1>1, <1>2 DEF FrameAt

(* A thread that is neither current before nor after a step that leaves it  *)
(* everything stays as it was.                                              *)
LEMMA OtherStays ==
  ASSUME NEW t \in Thread, ThreadOK(t), t # current, t # current', KeepsThread(t)
  PROVE  ThreadOK(t)'
<1>1. CASE state[t] = "EXITED"
  BY <1>1, ThreadFacts DEF ThreadOK, KeepsThread, KeepsData, Gone
<1>2. CASE state[t] # "EXITED"
  <2>1. Parked(t) /\ Good(t, FrameAt(trap_frame[t])) /\ (t \in KThreads => probe[t] # TRUE)
    BY <1>2 DEF ThreadOK, Ctx
  <2>2. PICK c : c = FrameAt(trap_frame[t])
    OBVIOUS
  <2>3. FrameAt(trap_frame[t])' = c
    BY <2>1, <2>2, ParkedFrame DEF FrameAt, KeepsThread
  <2>4. Good(t, c)'
    BY <2>1, <2>2, GoodStays DEF KeepsThread
  <2>5. Parked(t)'
    BY <2>1, <2>2, <2>3, ThreadFacts DEF Parked, ParkedAs, KeepsThread, KeepsData
  <2>6. Ctx(t)' = c
    BY <2>3 DEF Ctx
  <2>7. Good(t, Ctx(t))'
    BY <2>4, <2>6
  <2> QED  BY <1>2, <2>1, <2>5, <2>7 DEF ThreadOK, KeepsThread, KeepsData
<1> QED  BY <1>1, <1>2

(* The copy calls of a step by which no thread exits. *)
LEMMA ForgetsNothing ==
  ASSUME TrapIInv, Forget,
         \A t \in KThreads : state'[t] = "EXITED" => state[t] = "EXITED"
  PROVE  copy' = copy /\ bytes' = bytes
<1>1. ASSUME NEW t \in KThreads PROVE copy'[t] = copy[t] /\ bytes'[t] = bytes[t]
  <2>1. ThreadOK(t)
    BY ThreadFacts DEF TrapIInv
  <2> QED  BY <2>1 DEF ThreadOK, Gone, Forget
<1> QED  BY <1>1 DEF Forget, TrapIInv, Typed

-----------------------------------------------------------------------------
(* Trap entry saves the context of the current thread where it belongs. *)
LEMMA EntryPlace ==
  ASSUME TrapIInv, handler.cause = "none"
  PROVE  EntersRight /\ EntryRef = Home(current, Saved) /\ Saved \in Context
         /\ Good(current, Saved) /\ Active = Saved
<1>1. Active = Saved /\ Good(current, Saved) /\ current \in Thread
  BY DEF TrapIInv, Typed, ThreadOK, Ctx, Active
<1>2. Saved \in Context /\ Saved.spp = cpu.mode /\ Saved.sp = cpu.sp
  BY DEF TrapIInv, Typed, CpuSet, Context, Saved
<1>3. CASE cpu.mode = "U"
  <2>1. cpu.satp = current /\ cpu.stvec = "user_trap_entry" /\ cpu.sscratch = "context"
    BY <1>3 DEF TrapIInv, RegistersFitMode
  <2> QED  BY <1>1, <1>2, <1>3, <2>1 DEF EntersRight, EntryRef, Home
<1>4. CASE cpu.mode # "U"
  <2>1. cpu.satp = KERNEL /\ cpu.stvec = "trap_entry" /\ cpu.sscratch = "zero"
    BY <1>4 DEF TrapIInv, RegistersFitMode
  <2>2. cpu.sp = Ref(current, 0)
    BY <1>1, <1>2, <1>4 DEF Good, InUser, InCall, InThread, InCopy
  <2>3. Ref(cpu.sp[1], cpu.sp[2] + 1) = Ref(current, 1)
    BY <2>2 DEF Ref
  <2> QED  BY <1>1, <1>2, <1>4, <2>1, <2>3 DEF EntersRight, EntryRef, Home
<1> QED  BY <1>3, <1>4

(* Trap entry keeps the invariant. *)
LEMMA EntryKeeps ==
  ASSUME TrapIInv, NEW cause \in {"timer", "ecall", "ebreak", "fault"}, TrapEntry(cause),
         handler.cause = "none", UNCHANGED <<probe, copy, bytes>>,
         cause = "timer" => cpu.mode = "U" \/ cpu.sie,
         cause = "ecall" => cpu.pc.at = "user" /\ Program[current][cpu.pc.n] \in Syscall,
         cause = "ebreak" => \/ cpu.pc.at = "thread" /\ Program[current][cpu.pc.n] \in Control
                             \/ cpu.pc.at = "syscall",
         cause = "fault" => cpu.pc.at = "copy" /\ cpu.a1 # copy[current].start + copy[current].len
  PROVE  TrapIInv'
<1>1. /\ EntersRight /\ EntryRef = Home(current, Saved) /\ Saved \in Context
      /\ Good(current, Saved) /\ Active = Saved
  BY EntryPlace
<1>2. PICK c \in Context, t \in Thread, d \in {0, 1} :
        c = Saved /\ t = current /\ EntryRef = Ref(t, d) /\ (c.spp = "U" <=> d = 0)
  <2>1. current \in Thread
    BY DEF TrapIInv, Typed
  <2> QED  BY <1>1, <2>1 DEF Home
<1>3. /\ frames' = [frames EXCEPT ![t][d] = c]
      /\ cpu' = EnterKernel /\ handler' = [cause |-> cause, frame |-> Ref(t, d)]
      /\ UNCHANGED <<crashed, sysframe, current, state, trap_frame, calls, want>>
  <2>1. Ref(t, d)[1] = t /\ Ref(t, d)[2] = d
    BY DEF Ref
  <2> QED  BY <1>1, <1>2, <2>1 DEF TrapEntry
<1>4. d \in 0 .. MaxDepth /\ Ref(t, d) \in Sp /\ Ref(t, d) = Home(t, c)
  BY <1>2, RefFacts DEF Home
<1>5. /\ frames' \in [Thread -> [0 .. MaxDepth -> Context]] /\ frames'[t][d] = c
      /\ \A u \in Thread : u # t => frames'[u] = frames[u]
      /\ \A e \in 0 .. MaxDepth : e # d => frames'[t][e] = frames[t][e]
  <2>1. Typed
    BY DEF TrapIInv
  <2> QED  BY <1>3, <1>4, <2>1 DEF Typed
<1>6. handler'.cause = cause /\ handler'.frame = Ref(t, d) /\ current' = t
  BY <1>2, <1>3
<1>7. Active' = c
  BY <1>5, <1>6, RefFacts, <1>4 DEF Active, FrameAt
<1>8. /\ cpu'.mode = "S" /\ cpu'.sie = FALSE /\ cpu'.sum = c.sum /\ cpu'.satp = KERNEL
      /\ cpu'.stvec = "trap_entry" /\ cpu'.sscratch = "zero" /\ cpu'.sp = Ref(t, d)
      /\ cpu' \in CpuSet
  <2>1. Pc(Idle, "handler", 0) \in PcSet
    BY ThreadFacts DEF Pc, PcSet, Places
  <2> QED  BY <1>2, <1>3, <1>4, <2>1 DEF TrapIInv, Typed, CpuSet, EnterKernel, InHandler, Saved, OK, Values
<1>9. \A u \in Thread : KeepsData(u)
  BY <1>3 DEF KeepsData
<1>10. Good(t, c)'
  <2>1. c.pc.at \in {"syscall", "woken"} => d = 1
    BY <1>1, <1>2 DEF Good, InUser, InCall, InThread, InCopy
  <2>2. c.pc.at \in {"syscall", "woken"} => frames'[t][0] = frames[t][0]
    BY <1>5, <2>1, RefFacts
  <2> QED  BY <1>1, <1>2, <1>9, <2>2, GoodStays
<1>11. ThreadOK(t)'
  <2>1. state'[t] = "RUNNING" /\ ThreadOK(t) /\ t = current
    BY <1>2, <1>3 DEF TrapIInv
  <2>2. t \in KThreads /\ probe'[t] = TRUE => c.pc.at = "copy"
    BY <1>1, <1>2, <2>1 DEF ThreadOK
  <2>3. Good(t, Ctx(t))'
    BY <1>6, <1>7, <1>10 DEF Ctx
  <2> QED  BY <1>6, <1>7, <2>1, <2>2, <2>3 DEF ThreadOK
<1>12. ASSUME NEW u \in Thread PROVE ThreadOK(u)'
  <2>1. CASE u = t
    BY <1>11, <2>1
  <2>2. CASE u # t
    <3>1. KeepsThread(u) /\ ThreadOK(u) /\ u # current /\ u # current'
      BY <1>2, <1>3, <1>5, <1>6, <1>9, <2>2 DEF KeepsThread, TrapIInv
    <3> QED  BY <3>1, OtherStays
  <2> QED  BY <2>1, <2>2
<1>13. Typed'
  BY <1>3, <1>4, <1>5, <1>8 DEF TrapIInv, Typed, Causes
<1>14. RegistersFitMode'
  BY <1>8 DEF RegistersFitMode
<1>15. HandlerFits'
  <2>1. c.pc = cpu.pc /\ c.a1 = cpu.a1 /\ c.spp = cpu.mode /\ c.spie = cpu.sie /\ t = current
    BY <1>2 DEF Saved
  <2> QED  BY <1>3, <1>4, <1>6, <1>7, <1>8, <2>1 DEF HandlerFits
<1>16. state'[current'] = "RUNNING" /\ crashed' = FALSE
  BY <1>3 DEF TrapIInv
<1> QED  BY <1>12, <1>13, <1>14, <1>15, <1>16 DEF TrapIInv

-----------------------------------------------------------------------------
(* The handler's frame is the current thread's, and good. *)
LEMMA HandlerFrame ==
  ASSUME TrapIInv, handler.cause # "none"
  PROVE  \E c \in Context, t \in Thread, d \in {0, 1} :
           /\ c = FrameAt(handler.frame) /\ c = Active /\ t = current /\ Good(t, c)
           /\ handler.frame = Ref(t, d) /\ (c.spp = "U" <=> d = 0) /\ d \in 0 .. MaxDepth
           /\ handler.frame = Home(t, c) /\ c = frames[t][d]
<1>1. Active = FrameAt(handler.frame) /\ Good(current, Active) /\ current \in Thread
  BY DEF TrapIInv, Typed, ThreadOK, Ctx, Active
<1>2. handler.frame = Home(current, Active)
  BY DEF TrapIInv, HandlerFits
<1>3. PICK d \in {0, 1} : handler.frame = Ref(current, d) /\ (Active.spp = "U" <=> d = 0)
  BY <1>2 DEF Home
<1>4. d \in 0 .. MaxDepth /\ Ref(current, d)[1] = current /\ Ref(current, d)[2] = d
  BY <1>1, <1>3, RefFacts
<1>5. FrameAt(handler.frame) = frames[current][d]
  BY <1>3, <1>4 DEF FrameAt
<1>6. frames[current][d] \in Context
  <2>1. frames \in [Thread -> [0 .. MaxDepth -> Context]]
    BY DEF TrapIInv, Typed
  <2>2. frames[current] \in [0 .. MaxDepth -> Context]
    BY <1>1, <2>1
  <2> QED  BY <1>4, <2>2
<1> QED  BY <1>1, <1>2, <1>3, <1>4, <1>5, <1>6

(* A consumed frame is a frame. *)
LEMMA DeadContext == Dead \in Context
BY RefFacts, ThreadFacts DEF Dead, Frame, Pc, Context, PcSet, Places, Values, OK

(* The return from a trap keeps the invariant. *)
LEMMA ReturnKeeps ==
  ASSUME TrapIInv, trap_return_from_handler, UNCHANGED <<probe, copy, bytes>>
  PROVE  TrapIInv'
<1>1. handler.cause = "return"
  BY DEF trap_return_from_handler, Handling
<1>2. PICK c \in Context, t \in Thread, d \in {0, 1} :
           /\ c = FrameAt(handler.frame) /\ c = Active /\ t = current /\ Good(t, c)
           /\ handler.frame = Ref(t, d) /\ (c.spp = "U" <=> d = 0) /\ d \in 0 .. MaxDepth
           /\ handler.frame = Home(t, c) /\ c = frames[t][d]
  BY <1>1, HandlerFrame
<1>3. Typed /\ cpu \in CpuSet /\ cpu.satp = KERNEL /\ cpu.stvec = "trap_entry" /\ cpu.sscratch = "zero"
  BY <1>1 DEF TrapIInv, Typed, RegistersFitMode, HandlerFits
<1>4. /\ frames' = [frames EXCEPT ![t][d] = Dead] /\ handler' = NoHandler
      /\ crashed' = crashed /\ \A u \in Thread : u # t => trap_frame'[u] = trap_frame[u]
      /\ trap_frame' \in [Thread -> Sp]
      /\ UNCHANGED <<sysframe, current, state, calls, want>>
      /\ cpu' = [mode |-> c.spp, sie |-> c.spie, sum |-> c.sum,
                 satp |-> IF c.spp = "U" THEN t ELSE KERNEL,
                 stvec |-> IF c.spp = "U" THEN "user_trap_entry" ELSE "trap_entry",
                 sscratch |-> IF c.spp = "U" THEN "context" ELSE "zero",
                 pc |-> c.pc, a0 |-> c.a0, a1 |-> c.a1, sp |-> c.sp]
  <2>1. CASE c.spp = "U"
    <3>1. t \in UThreads /\ d = 0
      BY <1>2, <2>1 DEF Good, InUser, InCall, InThread, InCopy
    <3>2. UserTaskForFrame(handler.frame)
      BY <1>2, <2>1, <3>1 DEF UserTaskForFrame
    <3>3. FrameAt(Ref(t, 0)) = c
      BY <1>2, <3>1
    <3>4. trap_frame' = [trap_frame EXCEPT ![t] = Ref(t, 0)] /\ trap_return_to_user(t)
      BY <1>2, <3>1, <3>2 DEF trap_return_from_handler
    <3>5. /\ cpu' = [Restored(c) EXCEPT !.satp = t, !.stvec = "user_trap_entry", !.sscratch = "context"]
          /\ frames' = [frames EXCEPT ![t][0] = Dead] /\ handler' = NoHandler /\ crashed' = crashed
      BY <2>1, <3>3, <3>4 DEF trap_return_to_user
    <3>6. trap_frame' \in [Thread -> Sp] /\ \A u \in Thread : u # t => trap_frame'[u] = trap_frame[u]
      BY <1>3, <3>4, RefFacts DEF Typed
    <3>7. cpu' = [mode |-> c.spp, sie |-> c.spie, sum |-> c.sum, satp |-> t,
                  stvec |-> "user_trap_entry", sscratch |-> "context",
                  pc |-> c.pc, a0 |-> c.a0, a1 |-> c.a1, sp |-> c.sp]
      BY <1>3, <3>5 DEF Restored, CpuSet
    <3> QED  BY <2>1, <3>1, <3>5, <3>6, <3>7 DEF trap_return_from_handler
  <2>2. CASE c.spp = "S"
    <3>1. d = 1 /\ ~UserTaskForFrame(handler.frame)
      BY <1>2, <2>2 DEF UserTaskForFrame
    <3>2. trap_frame' = trap_frame /\ trap_restore(handler.frame)
      BY <3>1 DEF trap_return_from_handler
    <3>3. Ref(t, d)[1] = t /\ Ref(t, d)[2] = d
      BY DEF Ref
    <3>4. /\ cpu' = [Restored(c) EXCEPT !.sscratch = "zero"]
          /\ frames' = [frames EXCEPT ![t][d] = Dead] /\ handler' = NoHandler /\ crashed' = crashed
      BY <1>2, <2>2, <3>2, <3>3 DEF trap_restore, ScratchFor
    <3>5. cpu' = [mode |-> c.spp, sie |-> c.spie, sum |-> c.sum, satp |-> KERNEL,
                  stvec |-> "trap_entry", sscratch |-> "zero",
                  pc |-> c.pc, a0 |-> c.a0, a1 |-> c.a1, sp |-> c.sp]
      BY <1>3, <3>4 DEF Restored, CpuSet
    <3> QED  BY <1>3, <2>2, <3>2, <3>4, <3>5 DEF trap_return_from_handler, Typed
  <2> QED  BY <2>1, <2>2 DEF Context
<1>5. /\ frames' \in [Thread -> [0 .. MaxDepth -> Context]]
      /\ \A u \in Thread : u # t => frames'[u] = frames[u]
      /\ \A e \in 0 .. MaxDepth : e # d => frames'[t][e] = frames[t][e]
  BY <1>2, <1>3, <1>4, DeadContext DEF Typed
<1>6. handler'.cause = "none" /\ handler' \in [cause : Causes, frame : Sp] /\ current' = t
  BY <1>2, <1>4, RefFacts DEF NoHandler, Causes
<1>7. Active' = c
  <2>1. Active' = Saved'
    BY <1>6 DEF Active
  <2>2. Saved' = [pc |-> c.pc, a0 |-> c.a0, a1 |-> c.a1, sp |-> c.sp, spp |-> c.spp,
                  spie |-> c.spie, sum |-> c.sum]
    BY <1>4 DEF Saved
  <2> QED  BY <2>1, <2>2 DEF Context
<1>8. c.spp = "U" => t \in UThreads
  BY <1>2 DEF Good, InUser, InCall, InThread, InCopy
<1>9. cpu' \in CpuSet
  BY <1>4, <1>8 DEF Context, CpuSet
<1>10. \A u \in Thread : KeepsData(u)
  BY <1>4 DEF KeepsData
<1>11. Good(t, c)'
  <2>1. c.pc.at \in {"syscall", "woken"} => d = 1
    BY <1>2 DEF Good, InUser, InCall, InThread, InCopy
  <2>2. c.pc.at \in {"syscall", "woken"} => frames'[t][0] = frames[t][0]
    BY <1>5, <2>1, RefFacts
  <2> QED  BY <1>2, <1>10, <2>2, GoodStays
<1>12. ThreadOK(t)'
  <2>1. state'[t] = "RUNNING" /\ ThreadOK(t) /\ t = current
    BY <1>2, <1>4 DEF TrapIInv
  <2>2. t \in KThreads /\ probe'[t] = TRUE => c.pc.at = "copy"
    BY <1>2, <2>1 DEF ThreadOK
  <2>3. Good(t, Ctx(t))'
    BY <1>6, <1>7, <1>11 DEF Ctx
  <2> QED  BY <1>6, <1>7, <2>1, <2>2, <2>3 DEF ThreadOK
<1>13. ASSUME NEW u \in Thread PROVE ThreadOK(u)'
  <2>1. CASE u = t
    BY <1>12, <2>1
  <2>2. CASE u # t
    <3>1. KeepsThread(u) /\ ThreadOK(u) /\ u # current /\ u # current'
      BY <1>2, <1>4, <1>5, <1>6, <1>10, <2>2 DEF KeepsThread, TrapIInv
    <3> QED  BY <3>1, OtherStays
  <2> QED  BY <2>1, <2>2
<1>14. Typed'
  BY <1>3, <1>4, <1>5, <1>6, <1>9 DEF Typed
<1>15. RegistersFitMode'
  <2>1. c.pc.at \in {"syscall", "woken"} => ~c.spie /\ c.spp = "S"
    BY <1>2 DEF Good, InUser, InCall, InThread, InCopy
  <2> QED  BY <1>4, <1>6, <2>1 DEF RegistersFitMode
<1>16. HandlerFits'
  BY <1>6 DEF HandlerFits
<1>17. state'[current'] = "RUNNING" /\ crashed' = FALSE
  BY <1>4 DEF TrapIInv
<1> QED  BY <1>13, <1>14, <1>15, <1>16, <1>17 DEF TrapIInv

-----------------------------------------------------------------------------
(* A step of the current thread, or of its handler, that stays with it. *)
LEMMA CurrentKeeps ==
  ASSUME TrapIInv, UNCHANGED <<current, state, crashed>>, Typed', RegistersFitMode', HandlerFits',
         NEW t \in Thread, t = current, NEW c, c = Active', Good(t, c)',
         t \in KThreads /\ probe'[t] = TRUE => c.pc.at = "copy",
         \A u \in Thread : u # t => KeepsThread(u)
  PROVE  TrapIInv'
<1>1. ThreadOK(t)'
  <2>1. state'[t] = "RUNNING" /\ t = current' /\ Active' = c
    BY DEF TrapIInv
  <2>2. Good(t, Ctx(t))'
    BY <2>1 DEF Ctx
  <2> QED  BY <2>1, <2>2 DEF ThreadOK
<1>2. ASSUME NEW u \in Thread PROVE ThreadOK(u)'
  <2>1. CASE u = t
    BY <1>1, <2>1
  <2>2. CASE u # t
    <3>1. KeepsThread(u) /\ ThreadOK(u) /\ u # current /\ u # current'
      BY <2>2 DEF TrapIInv
    <3> QED  BY <3>1, OtherStays
  <2> QED  BY <2>1, <2>2
<1>3. state'[current'] = "RUNNING" /\ crashed' = FALSE
  BY DEF TrapIInv
<1> QED  BY <1>2, <1>3 DEF TrapIInv

(* The current thread t leaves the processor in state st: for good, or with *)
(* its context c saved at ref.                                              *)
Outgoing(t, st, ref, c) ==
  \/ st = "EXITED" /\ ref = NoRef /\ t # Idle /\ Gone(t)
  \/ /\ st \in {"READY", "SLEEP", "QUEUE"} /\ ref \in Sp /\ c = FrameAt(ref)
     /\ Good(t, c) /\ ParkedAs(t, st, ref, c)

(* The switch to another thread keeps the invariant. *)
LEMMA SwitchKeeps ==
  ASSUME TrapIInv, handler.cause # "none", Active.sum = FALSE,
         NEW st, NEW ref, SwitchFrom(st, ref), UNCHANGED <<cpu, crashed>>,
         NEW t \in Thread, t = current, t = Idle => ReadyReal # {}, NEW c, Outgoing(t, st, ref, c)',
         t \in KThreads => probe'[t] # TRUE,
         \A u \in Thread : u # t => KeepsData(u) /\ frames'[u] = frames[u],
         /\ frames' \in [Thread -> [0 .. MaxDepth -> Context]] /\ sysframe' \in [Thread -> Sp]
         /\ calls' \in [Real -> Seq(Nat)] /\ want' \in [Real -> Values]
         /\ probe' \in [KThreads -> BOOLEAN] /\ copy' \in [KThreads -> CopySet]
         /\ bytes' \in [KThreads -> SUBSET Nat]
  PROVE  TrapIInv'
<1>1. PICK next \in IF ReadyReal # {} THEN ReadyReal ELSE {Idle} :
        /\ current' = next
        /\ state' = [state EXCEPT ![current] = st, ![next] = "RUNNING"]
        /\ trap_frame' = [trap_frame EXCEPT ![current] = ref]
        /\ handler' = [cause |-> "return", frame |-> trap_frame'[next]]
  BY DEF SwitchFrom, Return
<1>2. /\ Typed /\ state[t] = "RUNNING" /\ \A u \in Thread : ThreadOK(u)
      /\ state \in [Thread -> {"READY", "RUNNING", "SLEEP", "QUEUE", "EXITED"}]
      /\ trap_frame \in [Thread -> Sp]
  BY DEF TrapIInv, Typed
<1>3. next \in Thread /\ next # t /\ state[next] # "EXITED"
  <2>1. CASE ReadyReal # {}
    <3>1. next \in ReadyReal
      BY <1>1, <2>1
    <3>2. next \in Real /\ state[next] = "READY"
      BY <3>1 DEF ReadyReal
    <3> QED  BY <1>2, <3>2 DEF Thread
  <2>2. CASE ReadyReal = {}
    BY <1>1, <1>2, <2>2, ThreadFacts DEF ThreadOK
  <2> QED  BY <2>1, <2>2
<1>4. ThreadOK(next) /\ Parked(next) /\ Good(next, FrameAt(trap_frame[next]))
  BY <1>2, <1>3 DEF ThreadOK, Ctx
<1>5. PICK n : n = FrameAt(trap_frame[next])
  OBVIOUS
<1>6. /\ trap_frame' \in [Thread -> Sp] /\ trap_frame'[t] = ref
      /\ \A u \in Thread : u # t => trap_frame'[u] = trap_frame[u]
  BY <1>1, <1>2, RefFacts DEF Outgoing
<1>7. /\ state' \in [Thread -> {"READY", "RUNNING", "SLEEP", "QUEUE", "EXITED"}]
      /\ state'[t] = st /\ state'[next] = "RUNNING"
      /\ \A u \in Thread : u # t /\ u # next => state'[u] = state[u]
  BY <1>1, <1>2, <1>3 DEF Outgoing
<1>8. handler'.cause = "return" /\ handler'.frame = trap_frame[next]
  BY <1>1, <1>3, <1>6
<1>9. Active' = n /\ trap_frame[next] = Home(next, n) /\ n.sum = FALSE
  <2>1. FrameAt(trap_frame[next])' = frames'[next][trap_frame'[next][2]]
    BY <1>3, <1>4, <1>6, ParkedFrame DEF FrameAt
  <2>2. frames'[next][trap_frame'[next][2]] = n
    BY <1>3, <1>4, <1>5, <1>6, ParkedFrame
  <2>3. Active' = n
    BY <1>3, <1>6, <1>8, <2>1, <2>2 DEF Active, FrameAt
  <2>4. trap_frame[next] = Home(next, n) /\ n.pc.at \notin {"copy", "fixup"} /\ Good(next, n)
    BY <1>4, <1>5 DEF Parked, ParkedAs
  <2>5. ~n.sum
    BY <2>4 DEF Good, InUser, InCall, InThread, InCopy
  <2>6. n \in Context
    <3>1. frames[next] \in [0 .. MaxDepth -> Context]
      BY <1>2, <1>3 DEF Typed
    <3>2. n = frames[next][trap_frame[next][2]] /\ trap_frame[next][2] \in 0 .. MaxDepth
      BY <1>3, <1>4, <1>5, ParkedFrame
    <3> QED  BY <3>1, <3>2
  <2>7. n.sum = FALSE
    BY <2>5, <2>6 DEF Context
  <2> QED  BY <2>3, <2>4, <2>7
<1>10. Good(next, n)'
  BY <1>3, <1>4, <1>5, GoodStays
<1>11. ThreadOK(next)'
  <2>1. Good(next, Ctx(next))'
    BY <1>1, <1>9, <1>10 DEF Ctx
  <2>2. next \in KThreads => probe'[next] # TRUE
    BY <1>3, <1>4 DEF ThreadOK, KeepsData
  <2> QED  BY <1>1, <1>7, <2>1, <2>2 DEF ThreadOK
<1>12. ThreadOK(t)'
  <2>1. CASE st = "EXITED" /\ ref = NoRef /\ t # Idle /\ Gone(t)'
    BY <1>1, <1>3, <1>7, <2>1 DEF ThreadOK
  <2>2. CASE /\ st \in {"READY", "SLEEP", "QUEUE"} /\ ref \in Sp /\ c = FrameAt(ref)'
             /\ Good(t, c)' /\ ParkedAs(t, st, ref, c)'
    <3>1. FrameAt(trap_frame[t])' = c
      BY <1>6, <2>2 DEF FrameAt
    <3>2. Ctx(t)' = c
      BY <1>1, <1>3, <3>1 DEF Ctx
    <3>3. Good(t, Ctx(t))'
      BY <2>2, <3>2
    <3>4. Parked(t)'
      BY <1>6, <1>7, <2>2, <3>1 DEF Parked
    <3> QED  BY <1>7, <2>2, <3>3, <3>4 DEF ThreadOK
  <2> QED  BY <2>1, <2>2 DEF Outgoing
<1>13. ASSUME NEW u \in Thread PROVE ThreadOK(u)'
  <2>1. CASE u # t /\ u # next
    <3>1. KeepsThread(u) /\ ThreadOK(u) /\ u # current /\ u # current'
      BY <1>1, <1>2, <1>6, <1>7, <2>1 DEF KeepsThread
    <3> QED  BY <3>1, OtherStays
  <2> QED  BY <1>11, <1>12, <2>1
<1>14. cpu.mode = "S" /\ ~cpu.sie /\ cpu.sum = FALSE
  BY DEF TrapIInv, HandlerFits
<1>15. Typed'
  <2>1. trap_frame[next] \in Sp
    BY <1>2, <1>3
  <2>2. handler' \in [cause : Causes, frame : Sp]
    BY <1>1, <1>3, <1>6, <2>1 DEF Causes
  <2> QED  BY <1>1, <1>2, <1>3, <1>6, <1>7, <2>2 DEF Typed
<1>16. RegistersFitMode'
  BY <1>14 DEF TrapIInv, RegistersFitMode
<1>17. HandlerFits'
  BY <1>1, <1>8, <1>9, <1>14 DEF HandlerFits
<1>18. state'[current'] = "RUNNING" /\ crashed' = FALSE
  BY <1>1, <1>7 DEF TrapIInv
<1> QED  BY <1>13, <1>15, <1>16, <1>17, <1>18 DEF TrapIInv

-----------------------------------------------------------------------------
(* An instruction of the current thread that does not trap. *)
LEMMA RetireKeeps ==
  ASSUME TrapIInv, handler.cause = "none",
         UNCHANGED <<frames, handler, sysframe, current, state, trap_frame, crashed, calls>>,
         cpu' \in CpuSet, cpu'.mode = cpu.mode, cpu'.satp = cpu.satp, cpu'.stvec = cpu.stvec,
         cpu'.sscratch = cpu.sscratch,
         want' \in [Real -> Values], probe' \in [KThreads -> BOOLEAN],
         copy' \in [KThreads -> CopySet], bytes' \in [KThreads -> SUBSET Nat],
         NEW t \in Thread, t = current, NEW c, c = Saved', Good(t, c)',
         t \in KThreads /\ probe'[t] = TRUE => c.pc.at = "copy",
         \A u \in Thread : u # t => KeepsData(u)
  PROVE  TrapIInv'
<1>1. handler'.cause = "none"
  OBVIOUS
<1>2. Active' = c
  BY <1>1 DEF Active
<1>3. Typed'
  BY DEF TrapIInv, Typed
<1>4. c.pc = cpu'.pc /\ c.spp = cpu'.mode /\ c.spie = cpu'.sie
  BY DEF Saved
<1>5. c.pc.at \in {"syscall", "woken"} => ~c.spie /\ c.spp = "S"
  BY DEF Good, InUser, InCall, InThread, InCopy
<1>6. RegistersFitMode'
  <2>1. /\ cpu'.mode = "U" => cpu'.satp = current' /\ cpu'.stvec = "user_trap_entry" /\ cpu'.sscratch = "context"
        /\ cpu'.mode # "U" => cpu'.satp = KERNEL /\ cpu'.stvec = "trap_entry" /\ cpu'.sscratch = "zero"
    BY DEF TrapIInv, RegistersFitMode
  <2> QED  BY <1>1, <1>4, <1>5, <2>1 DEF RegistersFitMode
<1>7. HandlerFits'
  BY <1>1 DEF HandlerFits
<1>8. \A u \in Thread : u # t => KeepsThread(u)
  BY DEF KeepsThread
<1> QED  BY <1>2, <1>3, <1>6, <1>7, <1>8, CurrentKeeps

(* The code that runs is the current thread's. *)
LEMMA RunningCode ==
  ASSUME TrapIInv, handler.cause = "none"
  PROVE  \E c \in Context, t \in Thread :
           /\ c = Saved /\ t = current /\ Good(t, c) /\ cpu.pc = c.pc /\ cpu.pc.t = t
           /\ c = Active /\ c.spp = cpu.mode
<1>1. EntryRef = EntryRef /\ Saved \in Context /\ Good(current, Saved) /\ Active = Saved
  BY EntryPlace
<1>2. current \in Thread
  BY DEF TrapIInv, Typed
<1>3. cpu.pc = Saved.pc /\ Saved.spp = cpu.mode
  BY DEF Saved
<1> QED  BY <1>1, <1>2, <1>3 DEF Good

(* In the program of a thread, by its kind. *)
LEMMA RunningProgram ==
  ASSUME NEW t \in Thread, NEW c, Good(t, c), c.pc.at \in {"user", "thread"}
  PROVE  /\ c.pc.n \in 1 .. Len(Program[t]) /\ (t # Idle => c.a0 = want[t]) /\ ~c.sum
         /\ \/ t \in UThreads /\ InUser(t, c) /\ c.pc.at = "user" /\ Did(t, calls[t], c.pc.n)
            \/ t \in KThreads /\ InThread(t, c) /\ c.pc.at = "thread" /\ Did(t, calls[t], c.pc.n)
            \/ t = Idle /\ InThread(t, c) /\ c.pc.at = "thread"
BY ThreadFacts DEF Good, InUser, InCall, InThread, InCopy, AtLine

(* An instruction that neither traps nor copies keeps the invariant. *)
LEMMA AdvanceKeeps ==
  ASSUME TrapIInv, InProgram, Instruction \in {"step", "mask", "unmask", "remap"},
         NEW sie \in BOOLEAN, NEW v \in Values,
         Retire([cpu EXCEPT !.pc = Goto(cpu.pc.n + 1), !.sie = sie, !.a0 = v]),
         want' = [want EXCEPT ![cpu.pc.t] = v], UNCHANGED <<probe, copy, bytes>>
  PROVE  TrapIInv'
<1>1. /\ handler.cause = "none" /\ cpu.pc.at \in {"user", "thread"}
      /\ cpu' = [cpu EXCEPT !.pc = Goto(cpu.pc.n + 1), !.sie = sie, !.a0 = v]
      /\ UNCHANGED <<frames, handler, sysframe, current, state, trap_frame, crashed, calls>>
  BY DEF InProgram, InCode, Handling, Retire
<1>2. PICK c \in Context, t \in Thread :
           /\ c = Saved /\ t = current /\ Good(t, c) /\ cpu.pc = c.pc /\ cpu.pc.t = t
           /\ c = Active /\ c.spp = cpu.mode
  BY <1>1, RunningCode
<1>3. PICK n : n = c.pc.n
  OBVIOUS
<1>4. /\ Program[t][n] \in {"step", "mask", "unmask", "remap"}
      /\ n \in 1 .. Len(Program[t]) /\ n \in Nat
  BY <1>1, <1>2, <1>3, RunningProgram DEF Instruction, Context, PcSet
<1>5. /\ Typed /\ cpu \in CpuSet /\ want \in [Real -> Values] /\ calls \in [Real -> Seq(Nat)]
  BY DEF TrapIInv, Typed
<1>6. /\ cpu' \in CpuSet /\ cpu'.mode = cpu.mode /\ cpu'.satp = cpu.satp /\ cpu'.stvec = cpu.stvec
      /\ cpu'.sscratch = cpu.sscratch /\ cpu'.sie = sie /\ cpu'.sum = cpu.sum
      /\ cpu'.a0 = v /\ cpu'.a1 = cpu.a1 /\ cpu'.sp = cpu.sp
      /\ cpu'.pc.t = t /\ cpu'.pc.at = c.pc.at /\ cpu'.pc.n = n + 1
  <2>1. PICK pc : pc = Goto(cpu.pc.n + 1)
    OBVIOUS
  <2>2. pc \in PcSet /\ pc.t = t /\ pc.at = c.pc.at /\ pc.n = n + 1
    <3>1. c.pc \in PcSet /\ pc = [c.pc EXCEPT !.n = n + 1] /\ c.pc.t = t
      BY <1>2, <1>3, <2>1 DEF Context, Goto
    <3>2. n + 1 \in Nat
      BY <1>4
    <3> QED  BY <3>1, <3>2 DEF PcSet
  <2>3. cpu' = [cpu EXCEPT !.pc = pc, !.sie = sie, !.a0 = v]
    BY <1>1, <2>1
  <2> QED  BY <1>5, <2>2, <2>3 DEF CpuSet
<1>7. PICK d : d = Saved'
  OBVIOUS
<1>8. /\ d.pc.t = t /\ d.pc.at = c.pc.at /\ d.pc.n = n + 1 /\ d.a0 = v
      /\ d.sp = c.sp /\ d.spp = c.spp /\ d.sum = c.sum
  BY <1>2, <1>6, <1>7 DEF Saved
<1>9. /\ t \in Real /\ want'[t] = v /\ want' \in [Real -> Values]
      /\ \A u \in Real : u # t => want'[u] = want[u]
  <2>1. t # Idle
    BY <1>4, IdleLine
  <2>2. t \in Real
    BY <2>1 DEF Thread
  <2> QED  BY <1>2, <1>5, <2>2
<1>10. Program[t][n] \notin Syscall \cup Control /\ calls[t] \in Seq(Nat)
  BY <1>4, <1>5, <1>9 DEF Syscall, Control
<1>11. CASE t \in UThreads
  <2>1. InUser(t, c) /\ c.pc.at = "user" /\ Did(t, calls[t], n)
    BY <1>1, <1>2, <1>3, <1>11, RunningProgram, ThreadFacts
  <2>2. n + 1 \in 1 .. Len(Program[t]) /\ n \in Nat \ {0}
    BY <1>4, <1>11, UserLine
  <2>3. Did(t, calls[t], n + 1)
    BY <1>10, <2>1, <2>2, DidStep
  <2>4. InUser(t, d)'
    BY <1>1, <1>8, <2>1, <2>2, <2>3 DEF InUser, AtLine
  <2>5. Good(t, d)'
    BY <1>8, <1>9, <2>4 DEF Good
  <2>6. t \notin KThreads /\ \A u \in Thread : u # t => KeepsData(u)
    BY <1>1, <1>9, <1>11, ThreadFacts DEF KeepsData
  <2> QED  BY <1>1, <1>2, <1>5, <1>6, <1>7, <1>9, <2>5, <2>6, RetireKeeps DEF Typed
<1>12. CASE t \in KThreads
  <2>1. InThread(t, c) /\ c.pc.at = "thread" /\ Did(t, calls[t], n)
    BY <1>1, <1>2, <1>3, <1>12, RunningProgram, ThreadFacts
  <2>2. n + 1 \in 1 .. Len(Program[t]) /\ n \in Nat \ {0} /\ n + 1 - 1 = n
    BY <1>4, <1>12, KernelLine
  <2>3. Did(t, calls[t], n + 1)
    BY <1>10, <2>1, <2>2, DidStep
  <2>4. Program[t][n + 1 - 1] # "copy"
    BY <1>4, <2>2
  <2>5. InThread(t, d)'
    BY <1>1, <1>8, <2>1, <2>2, <2>3, <2>4 DEF InThread, AtLine
  <2>6. Good(t, d)'
    BY <1>8, <1>9, <2>5 DEF Good
  <2>7. probe'[t] # TRUE /\ \A u \in Thread : u # t => KeepsData(u)
    <3>1. ThreadOK(t)
      BY DEF TrapIInv
    <3> QED  BY <1>1, <1>2, <1>9, <1>12, <2>1, <3>1 DEF KeepsData, ThreadOK
  <2> QED  BY <1>1, <1>2, <1>5, <1>6, <1>7, <1>9, <2>6, <2>7, RetireKeeps DEF Typed
<1> QED  BY <1>9, <1>11, <1>12 DEF Real

(* Ordinary instructions, and masking and unmasking interrupts, *)
LEMMA StepKeeps ==
  ASSUME TrapIInv, Step \/ irq_save \/ irq_restore, UNCHANGED <<probe, copy, bytes>>
  PROVE  TrapIInv'
<1>1. InProgram /\ handler.cause = "none" /\ cpu.pc.at \in {"user", "thread"}
  BY DEF Step, irq_save, irq_restore, InProgram, InCode, Handling
<1>2. PICK c \in Context, t \in Thread :
           /\ c = Saved /\ t = current /\ Good(t, c) /\ cpu.pc = c.pc /\ cpu.pc.t = t
           /\ c = Active /\ c.spp = cpu.mode
  BY <1>1, RunningCode
<1>3. cpu \in CpuSet /\ want \in [Real -> Values] /\ c.a0 = cpu.a0
  BY <1>2 DEF TrapIInv, Typed, Saved
<1>4. CASE Step
  <2>1. /\ Instruction = "step" /\ Retire([cpu EXCEPT !.pc = Goto(cpu.pc.n + 1), !.a0 = "data"])
        /\ want' = [want EXCEPT ![cpu.pc.t] = "data"]
    BY <1>4 DEF Step
  <2>2. [cpu EXCEPT !.pc = Goto(cpu.pc.n + 1), !.a0 = "data"]
        = [cpu EXCEPT !.pc = Goto(cpu.pc.n + 1), !.sie = cpu.sie, !.a0 = "data"]
    BY <1>3 DEF CpuSet
  <2>3. cpu.sie \in BOOLEAN /\ "data" \in Values
    BY <1>3 DEF CpuSet, Values
  <2> QED  BY <1>1, <2>1, <2>2, <2>3, AdvanceKeeps
<1>5. ASSUME NEW sie \in BOOLEAN, Instruction \in {"mask", "unmask"}, UNCHANGED want,
             Retire([cpu EXCEPT !.pc = Goto(cpu.pc.n + 1), !.sie = sie])
      PROVE  TrapIInv'
  <2>1. [cpu EXCEPT !.pc = Goto(cpu.pc.n + 1), !.sie = sie]
        = [cpu EXCEPT !.pc = Goto(cpu.pc.n + 1), !.sie = sie, !.a0 = cpu.a0]
    BY <1>3 DEF CpuSet
  <2>2. cpu.a0 \in Values
    BY <1>3 DEF CpuSet
  <2>3. t \in Real
    <3>1. t # Idle
      BY <1>2, <1>1, <1>5, IdleLine, RunningProgram DEF Instruction
    <3> QED  BY <3>1 DEF Thread
  <2>4. want[t] = cpu.a0
    BY <1>1, <1>2, <1>3, <2>3, RunningProgram, ThreadFacts
  <2>5. want' = [want EXCEPT ![cpu.pc.t] = cpu.a0]
    BY <1>2, <1>3, <1>5, <2>3, <2>4
  <2> QED  BY <1>1, <1>5, <2>1, <2>2, <2>5, AdvanceKeeps
<1>6. CASE irq_save
  BY <1>5, <1>6 DEF irq_save
<1>7. CASE irq_restore
  BY <1>5, <1>7 DEF irq_restore
<1> QED  BY <1>4, <1>6, <1>7

(* and the loop of the null thread. *)
LEMMA IdleLoopKeeps ==
  ASSUME TrapIInv, IdleLoop, UNCHANGED <<probe, copy, bytes>>
  PROVE  TrapIInv'
<1>1. /\ handler.cause = "none" /\ cpu.pc.at \in {"user", "thread"} /\ Instruction = "loop"
      /\ cpu' = [cpu EXCEPT !.pc = Goto(1)] /\ want' = want
      /\ UNCHANGED <<frames, handler, sysframe, current, state, trap_frame, crashed, calls>>
  BY DEF IdleLoop, InProgram, InCode, Handling, Retire
<1>2. PICK c \in Context, t \in Thread :
           /\ c = Saved /\ t = current /\ Good(t, c) /\ cpu.pc = c.pc /\ cpu.pc.t = t
           /\ c = Active /\ c.spp = cpu.mode
  BY <1>1, RunningCode
<1>3. PICK n : n = c.pc.n
  OBVIOUS
<1>4. Program[t][n] = "loop" /\ n \in 1 .. Len(Program[t])
  BY <1>1, <1>2, <1>3, RunningProgram DEF Instruction
<1>5. t = Idle
  <2>1. t \notin UThreads
    BY <1>4, UserLine DEF UserCode, Syscall
  <2>2. t \notin KThreads
    BY <1>4, KernelLine DEF KernelCode, Control
  <2> QED  BY <2>1, <2>2, ThreadFacts
<1>6. /\ Typed /\ cpu \in CpuSet
  BY DEF TrapIInv, Typed
<1>7. /\ cpu' \in CpuSet /\ cpu'.mode = cpu.mode /\ cpu'.satp = cpu.satp /\ cpu'.stvec = cpu.stvec
      /\ cpu'.sscratch = cpu.sscratch /\ cpu'.sum = cpu.sum /\ cpu'.sp = cpu.sp
      /\ cpu'.pc.t = t /\ cpu'.pc.at = c.pc.at /\ cpu'.pc.n = 1
  BY <1>1, <1>2, <1>6 DEF CpuSet, PcSet, Goto
<1>8. PICK d : d = Saved'
  OBVIOUS
<1>9. /\ d.pc.t = t /\ d.pc.at = c.pc.at /\ d.pc.n = 1
      /\ d.sp = c.sp /\ d.spp = c.spp /\ d.sum = c.sum
  BY <1>2, <1>7, <1>8 DEF Saved
<1>10. Good(t, d)'
  <2>1. InThread(t, c)
    BY <1>1, <1>2, <1>5, RunningProgram, ThreadFacts
  <2>2. InThread(t, d)'
    BY <1>5, <1>9, <2>1, FirstLine, ThreadFacts DEF InThread, AtLine
  <2> QED  BY <1>5, <1>9, <2>2 DEF Good
<1>11. t \notin KThreads /\ \A u \in Thread : u # t => KeepsData(u)
  BY <1>1, <1>5, ThreadFacts DEF KeepsData
<1> QED  BY <1>1, <1>2, <1>6, <1>7, <1>8, <1>10, <1>11, RetireKeeps DEF Typed

(* A system call that was woken for nothing goes back to wait. *)
LEMMA WaitAgainKeeps ==
  ASSUME TrapIInv, WaitAgain, UNCHANGED <<probe, copy, bytes>>
  PROVE  TrapIInv'
<1>1. /\ handler.cause = "none" /\ cpu.pc.at = "woken"
      /\ cpu' = [cpu EXCEPT !.pc.at = "syscall"] /\ want' = want
      /\ UNCHANGED <<frames, handler, sysframe, current, state, trap_frame, crashed, calls>>
  BY DEF WaitAgain, InCode, Handling, Retire
<1>2. PICK c \in Context, t \in Thread :
           /\ c = Saved /\ t = current /\ Good(t, c) /\ cpu.pc = c.pc /\ cpu.pc.t = t
           /\ c = Active /\ c.spp = cpu.mode
  BY <1>1, RunningCode
<1>3. Typed /\ cpu \in CpuSet
  BY DEF TrapIInv, Typed
<1>4. /\ cpu' \in CpuSet /\ cpu'.mode = cpu.mode /\ cpu'.satp = cpu.satp /\ cpu'.stvec = cpu.stvec
      /\ cpu'.sscratch = cpu.sscratch /\ cpu'.sum = cpu.sum /\ cpu'.sp = cpu.sp /\ cpu'.sie = cpu.sie
      /\ cpu'.pc.t = t /\ cpu'.pc.at = "syscall" /\ cpu'.pc.n = c.pc.n
  BY <1>1, <1>2, <1>3 DEF CpuSet, PcSet, Places
<1>5. PICK d : d = Saved'
  OBVIOUS
<1>6. /\ d.pc.t = t /\ d.pc.at = "syscall" /\ d.pc.n = c.pc.n
      /\ d.sp = c.sp /\ d.spp = c.spp /\ d.sum = c.sum /\ d.spie = c.spie
  BY <1>2, <1>4, <1>5 DEF Saved
<1>7. InCall(t, c)
  BY <1>1, <1>2 DEF Good, InUser, InThread, InCopy
<1>8. InCall(t, d)'
  BY <1>1, <1>6, <1>7 DEF InCall, AtLine
<1>9. Good(t, d)'
  BY <1>6, <1>8 DEF Good
<1>10. t \notin KThreads /\ \A u \in Thread : u # t => KeepsData(u)
  BY <1>1, <1>7, ThreadFacts DEF KeepsData, InCall
<1> QED  BY <1>1, <1>2, <1>3, <1>4, <1>5, <1>9, <1>10, RetireKeeps DEF Typed

-----------------------------------------------------------------------------
(* The end of a range that was checked does not wrap. *)
LEMMA CheckedEnd ==
  ASSUME NEW cp \in CopySet, Checked(cp)
  PROVE  /\ RangeEnd(cp.start, cp.len) = cp.start + cp.len
         /\ cp.start \in Nat /\ cp.len \in Nat \ {0} /\ cp.start + cp.len < ADDR_MOD
<1>1. /\ cp.start \in Nat /\ cp.len \in Nat \ {0} /\ cp.start + cp.len <= USER_SPACE_TOP + 1
  BY DEF Checked, CopySet, CopyRecord
<1>2. ADDR_MOD \in Nat /\ USER_SPACE_TOP \in Int /\ USER_SPACE_TOP <= ADDR_MOD - 2
  BY RangeAssumption
<1>3. PICK e : e = cp.start + cp.len
  OBVIOUS
<1>4. e \in Nat /\ e < ADDR_MOD
  BY <1>1, <1>2, <1>3
<1>5. e % ADDR_MOD = e
  BY <1>2, <1>4
<1> QED  BY <1>1, <1>3, <1>4, <1>5 DEF RangeEnd

(* Every trap keeps the invariant when it is taken. *)
LEMMA TrapsKeep ==
  ASSUME TrapIInv, UNCHANGED <<probe, copy, bytes>>,
         TimerInterrupt \/ Ecall \/ Ebreak \/ PageFault
  PROVE  TrapIInv'
<1>1. CASE TimerInterrupt
  <2>1. (cpu.mode = "U" \/ cpu.sie) /\ TrapEntry("timer")
    BY <1>1 DEF TimerInterrupt
  <2>2. handler.cause = "none"
    BY <2>1 DEF TrapIInv, RegistersFitMode
  <2> QED  BY <2>1, <2>2, EntryKeeps
<1>2. ASSUME handler.cause = "none" PROVE cpu.pc.t = current
  BY <1>2, RunningCode
<1>3. CASE Ecall
  <2>1. handler.cause = "none" /\ cpu.pc.at = "user" /\ Instruction \in Syscall /\ TrapEntry("ecall")
    BY <1>3 DEF Ecall, InCode, Handling
  <2> QED  BY <1>2, <2>1, EntryKeeps DEF Instruction
<1>4. CASE Ebreak
  <2>1. /\ handler.cause = "none" /\ TrapEntry("ebreak")
        /\ (cpu.pc.at = "thread" /\ Instruction \in Control) \/ cpu.pc.at = "syscall"
    BY <1>4 DEF Ebreak, InCode, Handling
  <2> QED  BY <1>2, <2>1, EntryKeeps DEF Instruction
<1>5. CASE PageFault
  <2>1. handler.cause = "none" /\ cpu.pc.at = "copy" /\ cpu.a1 # end /\ TrapEntry("fault")
    BY <1>5 DEF PageFault, InCode, Handling
  <2>2. PICK c \in Context, t \in Thread :
           /\ c = Saved /\ t = current /\ Good(t, c) /\ cpu.pc = c.pc /\ cpu.pc.t = t
           /\ c = Active /\ c.spp = cpu.mode
    BY <2>1, RunningCode
  <2>3. t \in KThreads /\ Checked(copy[t])
    BY <2>1, <2>2 DEF Good, InUser, InCall, InThread, InCopy
  <2>4. copy[t] \in CopySet
    BY <2>3 DEF TrapIInv, Typed
  <2>5. end = copy[t].start + copy[t].len
    BY <2>2, <2>3, <2>4, CheckedEnd DEF end, mycopy, me
  <2> QED  BY <2>1, <2>2, <2>5, EntryKeeps
<1> QED  BY <1>1, <1>3, <1>4, <1>5

-----------------------------------------------------------------------------
(* A wake-up keeps the invariant: the result goes to the frame of the thread *)
(* that waits, and to no other.                                              *)
LEMMA WakeOneKeeps ==
  ASSUME TrapIInv, NEW t \in Real, NEW result \in Values, wake_blocked_thread(t, result),
         UNCHANGED <<probe, copy, bytes>>,
         (state[t] = "SLEEP" /\ result = OK) \/ state[t] = "QUEUE"
  PROVE  TrapIInv'
<1>1. /\ Typed /\ t \in Thread /\ t # current /\ ThreadOK(t) /\ current \in Thread
      /\ state[current] = "RUNNING" /\ ThreadOK(current) /\ t # Idle
  <2>1. t \in Thread /\ t # Idle
    BY ThreadFacts DEF Thread
  <2>2. Typed /\ current \in Thread /\ state[current] = "RUNNING"
    BY DEF TrapIInv, Typed
  <2> QED  BY <2>1, <2>2 DEF TrapIInv
<1>2. PICK c, d : c = FrameAt(trap_frame[t]) /\ d = trap_frame[t][2]
  OBVIOUS
<1>3. Parked(t) /\ Good(t, c) /\ ParkedAs(t, state[t], trap_frame[t], c)
  BY <1>1, <1>2 DEF ThreadOK, Ctx, Parked
<1>4. /\ trap_frame[t][1] = t /\ d \in 0 .. MaxDepth /\ c = frames[t][d]
      /\ trap_frame[t] = Ref(t, d)
  <2>1. trap_frame[t] \in Sp
    BY <1>1 DEF Typed
  <2> QED  BY <1>1, <1>2, <1>3, <2>1, ParkedFrame, RefFacts
<1>5. c \in Context
  <2>1. frames[t] \in [0 .. MaxDepth -> Context]
    BY <1>1 DEF Typed
  <2> QED  BY <1>4, <2>1
<1>6. PICK f : f = [c EXCEPT !.a0 = result]
  OBVIOUS
<1>7. /\ f \in Context /\ f.pc = c.pc /\ f.a0 = result /\ f.a1 = c.a1 /\ f.sp = c.sp
      /\ f.spp = c.spp /\ f.spie = c.spie /\ f.sum = c.sum
  BY <1>5, <1>6 DEF Context
<1>8. /\ frames' \in [Thread -> [0 .. MaxDepth -> Context]] /\ frames'[t][d] = f
      /\ \A u \in Thread : u # t => frames'[u] = frames[u]
      /\ \A e \in 0 .. MaxDepth : e # d => frames'[t][e] = frames[t][e]
  <2>1. frames' = [frames EXCEPT ![t][d] = f]
    BY <1>1, <1>2, <1>4, <1>6 DEF wake_blocked_thread, ResultRef, Typed
  <2> QED  BY <1>1, <1>4, <1>7, <2>1 DEF Typed
<1>9. /\ state' = [state EXCEPT ![t] = "READY"]
      /\ UNCHANGED <<cpu, handler, sysframe, current, trap_frame, crashed, calls>>
      /\ want' = IF c.pc.at = "thread" THEN [want EXCEPT ![t] = result] ELSE want
  BY <1>2 DEF wake_blocked_thread
<1>10. /\ want' \in [Real -> Values] /\ \A u \in Real : u # t => want'[u] = want[u]
       /\ want'[t] = IF c.pc.at = "thread" THEN result ELSE want[t]
  BY <1>1, <1>9 DEF Typed
<1>11. /\ state' \in [Thread -> {"READY", "RUNNING", "SLEEP", "QUEUE", "EXITED"}]
       /\ state'[t] = "READY" /\ \A u \in Thread : u # t => state'[u] = state[u]
  BY <1>1, <1>9 DEF Typed
<1>12. \A u \in Thread : u # t => KeepsThread(u)
  BY <1>8, <1>9, <1>10, <1>11 DEF KeepsThread, KeepsData
<1>13. Active' = Active
  <2>1. CASE handler.cause = "none"
    BY <1>9, <2>1 DEF Active, Saved
  <2>2. CASE handler.cause # "none"
    <3>1. PICK e \in {0, 1} : handler.frame = Ref(current, e)
      BY <2>2, HandlerFrame
    <3>2. FrameAt(handler.frame)' = FrameAt(handler.frame)
      BY <1>1, <1>8, <1>9, <3>1 DEF FrameAt, Ref
    <3> QED  BY <1>9, <2>2, <3>2 DEF Active
  <2> QED  BY <2>1, <2>2
<1>14. ThreadOK(current)'
  <2>1. PICK a : a = Active
    OBVIOUS
  <2>2. Good(current, a) /\ KeepsThread(current)
    BY <1>1, <1>12, <2>1 DEF ThreadOK, Ctx
  <2>3. PICK r \in Thread : r = current
    BY <1>1
  <2>4. Good(r, a)'
    BY <2>2, <2>3, GoodStays DEF KeepsThread
  <2>5. Good(r, Ctx(r))' /\ r = current'
    BY <1>9, <1>13, <2>1, <2>3, <2>4 DEF Ctx
  <2>6. state'[r] = "RUNNING"
    BY <1>1, <1>11, <2>3
  <2>7. ThreadOK(r)'
    BY <1>1, <1>13, <2>3, <2>5, <2>6 DEF ThreadOK
  <2> QED  BY <2>5, <2>7
<1>15. Good(t, f)'
  <2>1. ASSUME InUser(t, c) PROVE InUser(t, f)'
    BY <1>7, <1>9, <2>1 DEF InUser, AtLine
  <2>2. ASSUME InCall(t, c) PROVE InCall(t, f)'
    <3>1. d # 0
      <4>1. trap_frame[t] = Ref(t, 1)
        BY <1>3, <2>2 DEF InCall, ParkedAs, Home
      <4> QED  BY <1>2, <4>1 DEF Ref
    <3>2. frames'[t][0] = frames[t][0]
      BY <1>8, <3>1, RefFacts
    <3> QED  BY <1>7, <1>9, <2>2, <3>2 DEF InCall, AtLine
  <2>3. ASSUME InThread(t, c) PROVE InThread(t, f)'
    <3>1. t \in KThreads => Program[t][c.pc.n - 1] # "copy"
      BY <1>3 DEF ParkedAs
    <3> QED  BY <1>1, <1>7, <1>9, <2>3, <3>1 DEF InThread, AtLine
  <2>4. ~InCopy(t, c)
    BY <1>3 DEF ParkedAs, InCopy
  <2>5. f.pc.at \in {"user", "thread"} => f.a0 = want'[t]
    BY <1>3, <1>7, <1>10 DEF ParkedAs
  <2> QED  BY <1>3, <1>7, <2>1, <2>2, <2>3, <2>4, <2>5 DEF Good
<1>16. ThreadOK(t)'
  <2>1. FrameAt(trap_frame[t])' = f
    BY <1>4, <1>8, <1>9 DEF FrameAt, Ref
  <2>2. Good(t, Ctx(t))'
    BY <1>1, <1>9, <1>15, <2>1 DEF Ctx
  <2>3. Parked(t)'
    BY <1>1, <1>3, <1>7, <1>9, <1>11, <2>1 DEF Parked, ParkedAs, Home
  <2> QED  BY <1>1, <1>9, <1>11, <2>2, <2>3 DEF ThreadOK
<1>17. ASSUME NEW u \in Thread PROVE ThreadOK(u)'
  <2>1. CASE u # t /\ u # current
    <3>1. KeepsThread(u) /\ ThreadOK(u) /\ u # current'
      BY <1>9, <1>12, <2>1 DEF TrapIInv
    <3> QED  BY <2>1, <3>1, OtherStays
  <2>2. CASE u = current
    BY <1>9, <1>14, <2>2
  <2> QED  BY <1>16, <2>1, <2>2
<1>18. Typed'
  BY <1>1, <1>8, <1>9, <1>10, <1>11 DEF Typed
<1>19. RegistersFitMode' /\ HandlerFits'
  BY <1>9, <1>13 DEF TrapIInv, RegistersFitMode, HandlerFits
<1>20. state'[current'] = "RUNNING" /\ crashed' = FALSE
  BY <1>1, <1>9, <1>11 DEF TrapIInv
<1> QED  BY <1>17, <1>18, <1>19, <1>20 DEF TrapIInv

(* Every wake-up. *)
LEMMA WakeKeeps ==
  ASSUME TrapIInv, Wake, UNCHANGED <<probe, copy, bytes>>
  PROVE  TrapIInv'
<1>1. OK \in Values /\ "timeout" \in Values
  BY DEF OK, Values
<1> QED  BY <1>1, WakeOneKeeps DEF Wake

-----------------------------------------------------------------------------
(* A frame of the current thread is written, for the handler to return to. *)
LEMMA StayKeeps ==
  ASSUME TrapIInv, cpu.mode = "S", cpu.sie = FALSE, UNCHANGED <<cpu, current, state, trap_frame, crashed>>,
         NEW t \in Thread, t = current, NEW d \in {0, 1}, NEW f \in Context,
         frames' = [frames EXCEPT ![t][d] = f], Ref(t, d) = Home(t, f),
         handler' = [cause |-> "return", frame |-> Ref(t, d)], cpu.sum = f.sum,
         Good(t, f)', t \in KThreads /\ probe'[t] = TRUE => f.pc.at = "copy",
         \A u \in Thread : u # t => KeepsData(u),
         /\ sysframe' \in [Thread -> Sp]
         /\ calls' \in [Real -> Seq(Nat)] /\ want' \in [Real -> Values]
         /\ probe' \in [KThreads -> BOOLEAN] /\ copy' \in [KThreads -> CopySet]
         /\ bytes' \in [KThreads -> SUBSET Nat]
  PROVE  TrapIInv'
<1>1. Typed /\ d \in 0 .. MaxDepth /\ Ref(t, d) \in Sp
  BY RefFacts DEF TrapIInv
<1>2. /\ frames' \in [Thread -> [0 .. MaxDepth -> Context]] /\ frames'[t][d] = f
      /\ \A u \in Thread : u # t => frames'[u] = frames[u]
  BY <1>1 DEF Typed
<1>3. handler'.cause = "return" /\ handler'.frame = Ref(t, d) /\ handler' \in [cause : Causes, frame : Sp]
  BY <1>1 DEF Causes
<1>4. Active' = f
  BY <1>2, <1>3 DEF Active, FrameAt, Ref
<1>5. Typed'
  BY <1>1, <1>2, <1>3 DEF Typed
<1>6. RegistersFitMode'
  BY DEF TrapIInv, RegistersFitMode
<1>7. HandlerFits'
  BY <1>3, <1>4 DEF HandlerFits
<1>8. \A u \in Thread : u # t => KeepsThread(u)
  BY <1>2 DEF KeepsThread
<1> QED  BY <1>4, <1>5, <1>6, <1>7, <1>8, CurrentKeeps

(* A call records a fault cause that its access to user memory can raise. *)
LEMMA CallFacts ==
  ASSUME NEW start \in Nat, NEW len \in Nat, NEW op \in DOMAIN CopyOps
  PROVE  /\ CallOf(start, len, CopyOps[op]) \in CopySet
         /\ CallOf(start, len, CopyOps[op]).start = start
         /\ CallOf(start, len, CopyOps[op]).len = len
<1>1. op \in {"copy_from_user", "copy_to_user"}
  BY DEF CopyOps
<1>2. /\ CopyOps["copy_from_user"] = [right |-> "r", fault_cause |-> "load"]
      /\ CopyOps["copy_to_user"] = [right |-> "w", fault_cause |-> "store"]
  BY DEF CopyOps
<1>3. FaultOf["r"] = "load" /\ FaultOf["w"] = "store"
  BY DEF FaultOf
<1> QED  BY <1>1, <1>2, <1>3 DEF CallOf, CopySet, CopyRecord, Rights

(* The copy calls when the current thread is switched away, *)
LEMMA SwitchForgets ==
  ASSUME TrapIInv, NEW st \in {"READY", "SLEEP", "QUEUE"}, NEW ref, SwitchFrom(st, ref), Forget
  PROVE  copy' = copy /\ bytes' = bytes
<1>1. ASSUME NEW t \in KThreads, state'[t] = "EXITED" PROVE state[t] = "EXITED"
  <2>1. PICK next : state' = [state EXCEPT ![current] = st, ![next] = "RUNNING"]
    BY DEF SwitchFrom
  <2>2. t \in Thread /\ state \in [Thread -> {"READY", "RUNNING", "SLEEP", "QUEUE", "EXITED"}]
    BY ThreadFacts DEF TrapIInv, Typed
  <2> QED  BY <1>1, <2>1, <2>2
<1> QED  BY <1>1, ForgetsNothing

(* and when it exits. *)
LEMMA ExitForgets ==
  ASSUME TrapIInv, NEW ref, SwitchFrom("EXITED", ref), Forget
  PROVE  /\ copy' \in [KThreads -> CopySet] /\ bytes' \in [KThreads -> SUBSET Nat]
         /\ current \in KThreads => copy'[current] = NoCopy /\ bytes'[current] = {}
         /\ \A u \in KThreads : u # current => copy'[u] = copy[u] /\ bytes'[u] = bytes[u]
<1>1. PICK next \in IF ReadyReal # {} THEN ReadyReal ELSE {Idle} :
         state' = [state EXCEPT ![current] = "EXITED", ![next] = "RUNNING"]
  BY DEF SwitchFrom
<1>2. /\ state \in [Thread -> {"READY", "RUNNING", "SLEEP", "QUEUE", "EXITED"}] /\ current \in Thread
      /\ state[current] = "RUNNING" /\ copy \in [KThreads -> CopySet]
      /\ bytes \in [KThreads -> SUBSET Nat] /\ \A u \in KThreads : u \in Thread /\ ThreadOK(u)
  BY ThreadFacts DEF TrapIInv, Typed
<1>3. NoCopy \in CopySet
  BY CallFacts DEF NoCopy, CopyOps
<1>4. current \in KThreads => current # next
  BY <1>1, <1>2, ThreadFacts DEF ReadyReal
<1>5. ASSUME NEW u \in KThreads, u # current PROVE copy'[u] = copy[u] /\ bytes'[u] = bytes[u]
  <2>1. state'[u] = "EXITED" => state[u] = "EXITED"
    BY <1>1, <1>2, <1>5
  <2> QED  BY <1>2, <2>1 DEF Forget, ThreadOK, Gone
<1>6. current \in KThreads => copy'[current] = NoCopy /\ bytes'[current] = {}
  BY <1>1, <1>2, <1>4 DEF Forget
<1>7. \A u \in KThreads : copy'[u] \in CopySet /\ bytes'[u] \in SUBSET Nat
  BY <1>2, <1>3, <1>5, <1>6
<1> QED  BY <1>5, <1>6, <1>7 DEF Forget

(* The timer handler keeps the invariant: it never preempts a copy. *)
LEMMA TimerKeeps ==
  ASSUME TrapIInv, HandleTimer, Forget, UNCHANGED probe
  PROVE  TrapIInv'
<1>1. /\ handler.cause = "timer" /\ UNCHANGED <<cpu, frames, sysframe, crashed, calls, want>>
      /\ thread_maybe_preempt_from_trap(handler.frame)
  BY DEF HandleTimer, Handling
<1>2. PICK c \in Context, t \in Thread, d \in {0, 1} :
           /\ c = FrameAt(handler.frame) /\ c = Active /\ t = current /\ Good(t, c)
           /\ handler.frame = Ref(t, d) /\ (c.spp = "U" <=> d = 0) /\ d \in 0 .. MaxDepth
           /\ handler.frame = Home(t, c) /\ c = frames[t][d]
  BY <1>1, HandlerFrame
<1>3. /\ Typed /\ cpu.mode = "S" /\ cpu.sie = FALSE /\ cpu.sum = c.sum /\ (c.spp = "U" \/ c.spie)
      /\ ThreadOK(t)
  BY <1>1, <1>2 DEF TrapIInv, HandlerFits
<1>4. c.pc.at \notin {"copy", "fixup"} /\ c.sum = FALSE
  <2>1. c.pc.at \notin {"copy", "fixup"} /\ ~c.sum
    BY <1>2, <1>3 DEF Good, InUser, InCall, InThread, InCopy
  <2> QED  BY <2>1 DEF Context
<1>5. t \in KThreads => probe'[t] # TRUE
  BY <1>2, <1>3, <1>4 DEF ThreadOK
<1>6. ASSUME copy' = copy, bytes' = bytes
      PROVE  Good(t, c)' /\ \A u \in Thread : KeepsData(u)
  <2>1. \A u \in Thread : KeepsData(u)
    BY <1>1, <1>6 DEF KeepsData
  <2> QED  BY <1>1, <1>2, <2>1, GoodStays
<1>7. CASE Return(handler.frame) /\ UNCHANGED <<current, state, trap_frame>>
  <2>1. copy' = copy /\ bytes' = bytes
    BY <1>7, ForgetsNothing
  <2>2. frames' = [frames EXCEPT ![t][d] = c]
    BY <1>1, <1>2, <1>3 DEF Typed
  <2>3. handler' = [cause |-> "return", frame |-> Ref(t, d)]
    BY <1>2, <1>7 DEF Return
  <2> QED  BY <1>1, <1>2, <1>3, <1>5, <1>6, <1>7, <2>1, <2>2, <2>3, StayKeeps DEF Typed
<1>8. CASE current # Idle /\ ReadyReal # {} /\ SwitchFrom("READY", handler.frame)
  <2>1. copy' = copy /\ bytes' = bytes
    BY <1>8, SwitchForgets
  <2>2. PICK ref : ref = handler.frame
    OBVIOUS
  <2>3. ref \in Sp /\ c = FrameAt(ref)' /\ ParkedAs(t, "READY", ref, c)'
    <3>1. ref \in Sp
      BY <1>3, <2>2 DEF Typed
    <3>2. c = FrameAt(ref)'
      BY <1>1, <1>2, <2>2 DEF FrameAt
    <3>3. ParkedAs(t, "READY", ref, c)'
      BY <1>2, <1>4, <2>2 DEF ParkedAs
    <3> QED  BY <3>1, <3>2, <3>3
  <2>4. Outgoing(t, "READY", ref, c)'
    BY <1>6, <2>1, <2>3 DEF Outgoing
  <2> QED  BY <1>1, <1>2, <1>3, <1>4, <1>5, <1>6, <1>8, <2>1, <2>2, <2>4, SwitchKeeps DEF Typed
<1> QED  BY <1>1, <1>7, <1>8 DEF thread_maybe_preempt_from_trap

-----------------------------------------------------------------------------
(* A system call gives up the processor until it is woken. *)
LEMMA CallWaitKeeps ==
  ASSUME TrapIInv, thread_handle_control_trap_from_trap, Forget, UNCHANGED probe,
         FrameAt(handler.frame).pc.at = "syscall"
  PROVE  TrapIInv'
<1>1. /\ handler.cause = "ebreak" /\ UNCHANGED <<cpu, sysframe, crashed, want, calls>>
      /\ frames' = Advanced(handler.frame) /\ SwitchFrom("QUEUE", handler.frame)
  BY DEF thread_handle_control_trap_from_trap, Handling
<1>2. PICK c \in Context, t \in Thread, d \in {0, 1} :
           /\ c = FrameAt(handler.frame) /\ c = Active /\ t = current /\ Good(t, c)
           /\ handler.frame = Ref(t, d) /\ (c.spp = "U" <=> d = 0) /\ d \in 0 .. MaxDepth
           /\ handler.frame = Home(t, c) /\ c = frames[t][d]
  BY <1>1, HandlerFrame
<1>3. InCall(t, c) /\ c.pc.at = "syscall" /\ t \in UThreads /\ d = 1 /\ c.sum = FALSE
  <2>1. InCall(t, c) /\ c.pc.at = "syscall"
    BY <1>2 DEF Good, InUser, InThread, InCopy
  <2> QED  BY <1>2, <2>1 DEF InCall, Context
<1>4. Typed /\ t \notin KThreads /\ t # Idle
  BY <1>3, ThreadFacts DEF TrapIInv
<1>5. PICK f : f = [c EXCEPT !.pc = [c.pc EXCEPT !.at = "woken"]]
  OBVIOUS
<1>6. /\ f \in Context /\ f.pc.t = c.pc.t /\ f.pc.n = c.pc.n /\ f.pc.at = "woken" /\ f.sp = c.sp
      /\ f.spp = c.spp /\ f.spie = c.spie /\ f.sum = c.sum
  BY <1>5 DEF Context, PcSet, Places
<1>7. frames' = [frames EXCEPT ![t][d] = f]
  <2>1. Advance(c.pc) = [c.pc EXCEPT !.at = "woken"]
    BY <1>3 DEF Advance
  <2>2. handler.frame[1] = t /\ handler.frame[2] = d
    BY <1>2 DEF Ref
  <2>3. frames' = [frames EXCEPT ![t][d].pc = Advance(@)]
    BY <1>1, <1>2, <2>2 DEF Advanced
  <2>4. frames \in [Thread -> [0 .. MaxDepth -> Context]]
    BY <1>4 DEF Typed
  <2>5. frames' = [frames EXCEPT ![t][d] = [c EXCEPT !.pc = Advance(c.pc)]]
    BY <1>2, <2>3, <2>4
  <2> QED  BY <1>5, <2>1, <2>5
<1>8. /\ frames' \in [Thread -> [0 .. MaxDepth -> Context]] /\ frames'[t][d] = f
      /\ \A u \in Thread : u # t => frames'[u] = frames[u]
      /\ \A e \in 0 .. MaxDepth : e # d => frames'[t][e] = frames[t][e]
  BY <1>2, <1>4, <1>6, <1>7 DEF Typed
<1>9. copy' = copy /\ bytes' = bytes
  BY <1>1, SwitchForgets
<1>10. \A u \in Thread : KeepsData(u)
  BY <1>1, <1>9 DEF KeepsData
<1>11. Good(t, f)'
  <2>1. frames'[t][0] = frames[t][0]
    BY <1>3, <1>8, RefFacts
  <2>2. InCall(t, f)'
    BY <1>1, <1>3, <1>6, <2>1 DEF InCall, AtLine
  <2> QED  BY <1>2, <1>6, <2>2 DEF Good
<1>12. PICK ref : ref = handler.frame
  OBVIOUS
<1>13. Outgoing(t, "QUEUE", ref, f)'
  <2>1. ref \in Sp
    BY <1>4, <1>12 DEF Typed
  <2>2. f = FrameAt(ref)'
    <3>1. ref = Ref(t, d)
      BY <1>2, <1>12
    <3>2. ref[1] = t /\ ref[2] = d
      BY <3>1 DEF Ref
    <3> QED  BY <1>8, <3>2 DEF FrameAt
  <2>3. ParkedAs(t, "QUEUE", ref, f)'
    BY <1>2, <1>4, <1>6, <1>12 DEF ParkedAs, Home
  <2> QED  BY <1>11, <2>1, <2>2, <2>3 DEF Outgoing
<1>14. /\ sysframe' \in [Thread -> Sp] /\ calls' \in [Real -> Seq(Nat)] /\ want' \in [Real -> Values]
       /\ probe' \in [KThreads -> BOOLEAN] /\ copy' \in [KThreads -> CopySet]
       /\ bytes' \in [KThreads -> SUBSET Nat]
  BY <1>1, <1>4, <1>9 DEF Typed
<1>15. handler.cause # "none" /\ Active.sum = FALSE /\ SwitchFrom("QUEUE", ref) /\ UNCHANGED <<cpu, crashed>>
  BY <1>1, <1>2, <1>3, <1>12
<1>16. /\ \A u \in Thread : u # t => KeepsData(u) /\ frames'[u] = frames[u]
       /\ t \in KThreads => probe'[t] # TRUE
       /\ t = Idle => ReadyReal # {}
  BY <1>4, <1>8, <1>10
<1> QED  BY <1>2, <1>8, <1>13, <1>14, <1>15, <1>16, SwitchKeeps

(* The record of a call of the current thread. *)
LEMMA RecordFacts ==
  ASSUME TrapIInv, NEW ref, Record(ref), NEW n \in Nat, n = FrameAt(ref).pc.n
  PROVE  /\ calls' \in [Real -> Seq(Nat)] /\ \A u \in Real : u # current => calls'[u] = calls[u]
         /\ current # Idle => calls'[current] = Append(calls[current], n)
<1>1. calls \in [Real -> Seq(Nat)] /\ current \in Thread
  BY DEF TrapIInv, Typed
<1>2. CASE current = Idle
  BY <1>1, <1>2 DEF Record
<1>3. CASE current # Idle
  <2>1. current \in Real /\ calls[current] \in Seq(Nat)
    BY <1>1, <1>3, ThreadFacts
  <2>2. Append(calls[current], n) \in Seq(Nat)
    BY <2>1
  <2>3. calls' = [calls EXCEPT ![current] = Append(calls[current], n)]
    BY <1>3, <2>1 DEF Record
  <2> QED  BY <1>1, <2>1, <2>2, <2>3
<1> QED  BY <1>2, <1>3

(* A kernel thread yields, sleeps or waits. *)
LEMMA ControlKeeps ==
  ASSUME TrapIInv, thread_handle_control_trap_from_trap, Forget, UNCHANGED probe,
         FrameAt(handler.frame).pc.at # "syscall",
         Program[current][FrameAt(handler.frame).pc.n] # "exit"
  PROVE  TrapIInv'
<1>1. PICK c \in Context, t \in Thread, d \in {0, 1} :
           /\ c = FrameAt(handler.frame) /\ c = Active /\ t = current /\ Good(t, c)
           /\ handler.frame = Ref(t, d) /\ (c.spp = "U" <=> d = 0) /\ d \in 0 .. MaxDepth
           /\ handler.frame = Home(t, c) /\ c = frames[t][d]
  BY HandlerFrame DEF thread_handle_control_trap_from_trap, Handling
<1>2. PICK n : n = c.pc.n
  OBVIOUS
<1>3. /\ handler.cause = "ebreak" /\ UNCHANGED <<cpu, sysframe, crashed, want>>
      /\ frames' = Advanced(handler.frame) /\ Record(handler.frame)
      /\ \/ Program[t][n] = "yield" /\ thread_yield_current_from_trap(handler.frame)
         \/ Program[t][n] = "sleep" /\ SwitchFrom("SLEEP", handler.frame)
         \/ Program[t][n] = "wait" /\ SwitchFrom("QUEUE", handler.frame)
  <2>1. c.pc.t = t /\ t = current /\ c = FrameAt(handler.frame)
    BY <1>1 DEF Good
  <2> QED  BY <1>2, <2>1 DEF thread_handle_control_trap_from_trap, Handling
<1>4. Typed /\ cpu.mode = "S" /\ cpu.sie = FALSE /\ cpu.sum = c.sum
      /\ c.pc.at = "thread" /\ Program[t][n] \in Control /\ ThreadOK(t)
  BY <1>1, <1>2, <1>3 DEF TrapIInv, HandlerFits
<1>5. InThread(t, c) /\ d = 1 /\ c.sum = FALSE /\ c.spp = "S" /\ (t \in KThreads => probe'[t] # TRUE)
  <2>1. InThread(t, c)
    BY <1>1, <1>4, RunningProgram, ThreadFacts
  <2> QED  BY <1>1, <1>4, <2>1 DEF InThread, Context, ThreadOK
<1>6. /\ n \in Nat \ {0} /\ n + 1 \in 1 .. Len(Program[t]) /\ n + 1 - 1 = n /\ n + 1 > 1
      /\ Program[t][n] # "copy" /\ (t = Idle => Program[t][n] = "yield")
  <2>1. n \in 1 .. Len(Program[t]) /\ Program[t][n] # "exit"
    BY <1>1, <1>2, <1>4, RunningProgram
  <2>2. n \in Nat \ {0} /\ n + 1 \in 1 .. Len(Program[t])
    <3>1. CASE t \in KThreads
      BY <2>1, <3>1, KernelLine
    <3>2. CASE t = Idle
      <4>1. n = 1
        BY <1>4, <2>1, <3>2, IdleLine DEF Control
      <4> QED  BY <3>2, <4>1, IdleLine
    <3> QED  BY <1>5, <3>1, <3>2 DEF InThread
  <2>3. t = Idle => Program[t][n] = "yield"
    BY <1>4, <2>1, IdleLine DEF Control
  <2> QED  BY <1>4, <2>2, <2>3 DEF Control
<1>7. /\ calls' \in [Real -> Seq(Nat)] /\ \A u \in Real : u # t => calls'[u] = calls[u]
      /\ t # Idle => calls'[t] = Append(calls[t], n)
  BY <1>1, <1>2, <1>3, <1>6, RecordFacts
<1>8. PICK f : f = [c EXCEPT !.pc = [c.pc EXCEPT !.n = n + 1]]
  OBVIOUS
<1>9. /\ f \in Context /\ f.pc.t = c.pc.t /\ f.pc.n = n + 1 /\ f.pc.at = c.pc.at /\ f.sp = c.sp
      /\ f.a0 = c.a0 /\ f.spp = c.spp /\ f.sum = c.sum
  <2>1. n + 1 \in Nat
    BY <1>6
  <2> QED  BY <1>8, <2>1 DEF Context, PcSet
<1>10. frames' = [frames EXCEPT ![t][d] = f]
  <2>1. Advance(c.pc) = [c.pc EXCEPT !.n = n + 1]
    BY <1>2, <1>4 DEF Advance
  <2>2. handler.frame[1] = t /\ handler.frame[2] = d
    BY <1>1 DEF Ref
  <2>3. frames' = [frames EXCEPT ![t][d].pc = Advance(@)]
    BY <1>1, <1>3, <2>2 DEF Advanced
  <2>4. frames \in [Thread -> [0 .. MaxDepth -> Context]]
    BY <1>4 DEF Typed
  <2>5. frames' = [frames EXCEPT ![t][d] = [c EXCEPT !.pc = Advance(c.pc)]]
    BY <1>1, <2>3, <2>4
  <2> QED  BY <1>8, <2>1, <2>5
<1>11. /\ frames' \in [Thread -> [0 .. MaxDepth -> Context]] /\ frames'[t][d] = f
       /\ \A u \in Thread : u # t => frames'[u] = frames[u]
  BY <1>1, <1>4, <1>9, <1>10 DEF Typed
<1>12. ASSUME copy' = copy, bytes' = bytes
       PROVE  Good(t, f)' /\ \A u \in Thread : u # t => KeepsData(u)
  <2>1. \A u \in Thread : u # t => KeepsData(u)
    BY <1>3, <1>7, <1>12 DEF KeepsData
  <2>2. t \in KThreads => Did(t, calls'[t], n + 1)
    <3>1. ASSUME t \in KThreads PROVE Did(t, calls'[t], n + 1)
      <4>1. Did(t, calls[t], n) /\ t \in Real /\ t # Idle
        BY <1>2, <1>5, <3>1, ThreadFacts DEF InThread
      <4>2. calls[t] \in Seq(Nat)
        BY <1>4, <4>1 DEF Typed
      <4>3. Did(t, Append(calls[t], n), n + 1)
        BY <1>4, <1>6, <4>1, <4>2, DidCall
      <4> QED  BY <1>7, <4>1, <4>3
    <3> QED  BY <3>1
  <2>3. InThread(t, f)'
    BY <1>3, <1>4, <1>5, <1>6, <1>9, <1>12, <2>2 DEF InThread, AtLine
  <2>4. t # Idle => f.a0 = want'[t]
    BY <1>1, <1>3, <1>4, <1>9 DEF Good
  <2> QED  BY <1>1, <1>9, <2>1, <2>3, <2>4 DEF Good
<1>13. ASSUME NEW st \in {"READY", "SLEEP", "QUEUE"}, SwitchFrom(st, handler.frame),
              t = Idle => st = "READY" /\ ReadyReal # {}
       PROVE  TrapIInv'
  <2>1. copy' = copy /\ bytes' = bytes
    BY <1>13, SwitchForgets
  <2>2. PICK ref : ref = handler.frame
    OBVIOUS
  <2>3. ref \in Sp
    BY <1>4, <2>2 DEF Typed
  <2>4. f = FrameAt(ref)'
    <3>1. ref = Ref(t, d)
      BY <1>1, <2>2
    <3>2. ref[1] = t /\ ref[2] = d
      BY <3>1 DEF Ref
    <3> QED  BY <1>11, <3>2 DEF FrameAt
  <2>5. ParkedAs(t, st, ref, f)'
    <3>1. f.pc.n > 1 /\ f.pc.n - 1 = n
      BY <1>6, <1>9
    <3>2. Program[t][f.pc.n - 1] # "copy" /\ f.pc.at = "thread"
      BY <1>4, <1>6, <1>9, <3>1
    <3>3. ref = Home(t, f)
      BY <1>1, <1>9, <2>2 DEF Home
    <3> QED  BY <1>13, <3>1, <3>2, <3>3 DEF ParkedAs
  <2>6. Outgoing(t, st, ref, f)'
    BY <1>12, <1>13, <2>1, <2>3, <2>4, <2>5 DEF Outgoing
  <2>7. /\ sysframe' \in [Thread -> Sp] /\ calls' \in [Real -> Seq(Nat)] /\ want' \in [Real -> Values]
        /\ probe' \in [KThreads -> BOOLEAN] /\ copy' \in [KThreads -> CopySet]
        /\ bytes' \in [KThreads -> SUBSET Nat]
    BY <1>3, <1>4, <1>7, <2>1 DEF Typed
  <2>8. \A u \in Thread : u # t => KeepsData(u) /\ frames'[u] = frames[u]
    BY <1>11, <1>12, <2>1
  <2>9. handler.cause # "none" /\ Active.sum = FALSE /\ SwitchFrom(st, ref) /\ UNCHANGED <<cpu, crashed>>
    BY <1>1, <1>3, <1>5, <1>13, <2>2
  <2> QED  BY <1>1, <1>5, <1>11, <1>13, <2>6, <2>7, <2>8, <2>9, SwitchKeeps
<1>14. CASE Program[t][n] = "yield" /\ thread_yield_current_from_trap(handler.frame)
  <2>1. CASE ReadyReal # {}
    BY <1>13, <1>14, <2>1 DEF thread_yield_current_from_trap
  <2>2. CASE ReadyReal = {}
    <3>1. Return(handler.frame) /\ UNCHANGED <<current, state, trap_frame>>
      BY <1>14, <2>2 DEF thread_yield_current_from_trap
    <3>2. copy' = copy /\ bytes' = bytes
      BY <3>1, ForgetsNothing
    <3>3. handler' = [cause |-> "return", frame |-> Ref(t, d)] /\ Ref(t, d) = Home(t, f)
      BY <1>1, <1>9, <3>1 DEF Return, Home
    <3>4. /\ sysframe' \in [Thread -> Sp] /\ calls' \in [Real -> Seq(Nat)] /\ want' \in [Real -> Values]
          /\ probe' \in [KThreads -> BOOLEAN] /\ copy' \in [KThreads -> CopySet]
          /\ bytes' \in [KThreads -> SUBSET Nat]
      BY <1>3, <1>4, <1>7, <3>2 DEF Typed
    <3>5. Good(t, f)' /\ \A u \in Thread : u # t => KeepsData(u)
      BY <1>12, <3>2
    <3>6. UNCHANGED <<cpu, current, state, trap_frame, crashed>> /\ cpu.sum = f.sum
      BY <1>3, <1>4, <1>9, <3>1
    <3> QED  BY <1>1, <1>4, <1>5, <1>9, <1>10, <3>3, <3>4, <3>5, <3>6, StayKeeps
  <2> QED  BY <2>1, <2>2
<1>15. CASE Program[t][n] = "sleep" /\ SwitchFrom("SLEEP", handler.frame)
  BY <1>6, <1>13, <1>15
<1>16. CASE Program[t][n] = "wait" /\ SwitchFrom("QUEUE", handler.frame)
  BY <1>6, <1>13, <1>16
<1> QED  BY <1>3, <1>14, <1>15, <1>16

(* A thread exits: its frame is dead, and nothing of it is left behind. *)
LEMMA ExitKeeps ==
  ASSUME TrapIInv, NEW t \in Real, t = current, NEW d \in {0, 1}, handler.cause # "none",
         Active.sum = FALSE, Active.pc.at # "copy", sysframe[t] = NoRef,
         frames' = [frames EXCEPT ![t][d] = Dead], SwitchFrom("EXITED", NoRef),
         calls' \in [Real -> Seq(Nat)], \A u \in Real : u # t => calls'[u] = calls[u],
         UNCHANGED <<cpu, sysframe, crashed, want, probe>>, Forget
  PROVE  TrapIInv'
<1>1. Typed /\ t \in Thread /\ t # Idle /\ d \in 0 .. MaxDepth /\ ThreadOK(t)
  <2>1. t \in Thread /\ t # Idle
    BY ThreadFacts DEF Thread
  <2> QED  BY <2>1, RefFacts DEF TrapIInv
<1>2. /\ copy' \in [KThreads -> CopySet] /\ bytes' \in [KThreads -> SUBSET Nat]
      /\ t \in KThreads => copy'[t] = NoCopy /\ bytes'[t] = {}
      /\ \A u \in KThreads : u # t => copy'[u] = copy[u] /\ bytes'[u] = bytes[u]
  BY ExitForgets
<1>3. /\ frames' \in [Thread -> [0 .. MaxDepth -> Context]]
      /\ \A u \in Thread : u # t => frames'[u] = frames[u]
  BY <1>1, DeadContext DEF Typed
<1>4. \A u \in Thread : u # t => KeepsData(u) /\ frames'[u] = frames[u]
  BY <1>2, <1>3 DEF KeepsData
<1>5. Gone(t)'
  BY <1>2 DEF Gone
<1>6. PICK c, ref, st : c = Dead /\ ref = NoRef /\ st = "EXITED"
  OBVIOUS
<1>7. Outgoing(t, st, ref, c)' /\ SwitchFrom(st, ref)
  BY <1>1, <1>5, <1>6 DEF Outgoing
<1>8. t \in KThreads => probe'[t] # TRUE
  BY <1>1 DEF ThreadOK
<1>9. /\ sysframe' \in [Thread -> Sp] /\ want' \in [Real -> Values]
      /\ probe' \in [KThreads -> BOOLEAN]
  BY <1>1 DEF Typed
<1> QED  BY <1>1, <1>2, <1>3, <1>4, <1>7, <1>8, <1>9, SwitchKeeps

(* The control traps keep the invariant. *)
LEMMA ControlTrapKeeps ==
  ASSUME TrapIInv, thread_handle_control_trap_from_trap, Forget, UNCHANGED probe
  PROVE  TrapIInv'
<1>1. PICK c \in Context, t \in Thread, d \in {0, 1} :
           /\ c = FrameAt(handler.frame) /\ c = Active /\ t = current /\ Good(t, c)
           /\ handler.frame = Ref(t, d) /\ (c.spp = "U" <=> d = 0) /\ d \in 0 .. MaxDepth
           /\ handler.frame = Home(t, c) /\ c = frames[t][d]
  BY HandlerFrame DEF thread_handle_control_trap_from_trap, Handling
<1>2. CASE c.pc.at # "syscall" /\ Program[t][c.pc.n] = "exit"
  <2>1. c.pc.t = t /\ t = current /\ c = FrameAt(handler.frame)
    BY <1>1 DEF Good
  <2>2. /\ handler.cause = "ebreak" /\ UNCHANGED <<cpu, sysframe, crashed, want>>
        /\ frames' = [frames EXCEPT ![handler.frame[1]][handler.frame[2]] = Dead]
        /\ Record(handler.frame) /\ SwitchFrom("EXITED", NoRef)
    BY <1>2, <2>1 DEF thread_handle_control_trap_from_trap, Handling
  <2>3. handler.frame[1] = t /\ handler.frame[2] = d
    BY <1>1 DEF Ref
  <2>4. c.pc.at = "thread"
    BY <1>1, <1>2, <2>2 DEF TrapIInv, HandlerFits
  <2>5. t # Idle /\ t \in Real
    <3>1. c.pc.n \in 1 .. Len(Program[t])
      BY <1>1, <2>4, RunningProgram
    <3>2. t # Idle
      BY <1>2, <3>1, IdleLine
    <3> QED  BY <3>2 DEF Thread
  <2>6. InThread(t, c) /\ t \in KThreads
    BY <1>1, <2>4, <2>5, RunningProgram, ThreadFacts
  <2>7. sysframe[t] = NoRef /\ c.sum = FALSE
    BY <2>6 DEF InThread, Context
  <2>8. c.pc.n \in Nat
    BY DEF Context, PcSet
  <2>9. calls' \in [Real -> Seq(Nat)] /\ \A u \in Real : u # t => calls'[u] = calls[u]
    BY <1>1, <2>2, <2>8, RecordFacts
  <2>10. frames' = [frames EXCEPT ![t][d] = Dead]
    BY <2>2, <2>3
  <2> QED  BY <1>1, <2>2, <2>4, <2>5, <2>7, <2>9, <2>10, ExitKeeps
<1>3. CASE c.pc.at = "syscall"
  BY <1>1, <1>3, CallWaitKeeps
<1>4. CASE c.pc.at # "syscall" /\ Program[t][c.pc.n] # "exit"
  BY <1>1, <1>4, ControlKeeps
<1> QED  BY <1>2, <1>3, <1>4

-----------------------------------------------------------------------------
(* A system call that answers at once or goes on later in user mode. *)
LEMMA AnswerKeeps ==
  ASSUME TrapIInv, NEW t \in UThreads, t = current, NEW c \in Context, c = frames[t][0],
         NEW result \in Values, NEW n \in Nat \ {0}, n = c.pc.n,
         c.pc.t = t, c.pc.at = "user", c.spp = "U", c.sp = UserSp, c.sum = FALSE, cpu.sum = FALSE,
         n + 1 \in 1 .. Len(Program[t]), Did(t, calls'[t], n + 1),
         frames' = Answered(Ref(t, 0), result), want' = [want EXCEPT ![t] = result],
         sysframe'[t] = NoRef, \A u \in Thread : u # t => sysframe'[u] = sysframe[u],
         sysframe' \in [Thread -> Sp], calls' \in [Real -> Seq(Nat)],
         \A u \in Real : u # t => calls'[u] = calls[u],
         UNCHANGED <<cpu, crashed, probe, copy, bytes>>, cpu.mode = "S", cpu.sie = FALSE,
         \/ Return(Ref(t, 0)) /\ UNCHANGED <<current, state, trap_frame>>
         \/ handler.cause # "none" /\ Active.sum = FALSE /\
            \E st \in {"READY", "SLEEP"} : SwitchFrom(st, Ref(t, 0)) /\ (st = "SLEEP" => result = OK)
  PROVE  TrapIInv'
<1>1. Typed /\ t \in Thread /\ t \in Real /\ t # Idle /\ t \notin KThreads
  BY ThreadFacts DEF TrapIInv
<1>2. PICK pc : pc = [c.pc EXCEPT !.n = n + 1]
  OBVIOUS
<1>3. pc \in PcSet /\ pc.t = t /\ pc.at = "user" /\ pc.n = n + 1
  <2>1. n + 1 \in Nat /\ c.pc \in PcSet
    BY DEF Context
  <2> QED  BY <1>2, <2>1 DEF PcSet
<1>4. PICK f : f = [c EXCEPT !.pc = pc, !.a0 = result]
  OBVIOUS
<1>5. /\ f \in Context /\ f.pc = pc /\ f.sp = c.sp /\ f.a0 = result /\ f.spp = "U" /\ f.sum = FALSE
      /\ Ref(t, 0) = Home(t, f)
  BY <1>3, <1>4 DEF Context, Home
<1>6. frames' = [frames EXCEPT ![t][0] = f]
  <2>1. Ref(t, 0)[1] = t /\ Ref(t, 0)[2] = 0
    BY DEF Ref
  <2>2. Advance(c.pc) = pc
    BY <1>2 DEF Advance
  <2>3. frames' = [frames EXCEPT ![t][0].pc = Advance(@), ![t][0].a0 = result]
    BY <2>1 DEF Answered
  <2>4. frames \in [Thread -> [0 .. MaxDepth -> Context]] /\ 0 \in 0 .. MaxDepth
    BY <1>1, RefFacts DEF Typed
  <2>5. PICK g : g = [frames EXCEPT ![t][0].pc = Advance(@)]
    OBVIOUS
  <2>6. PICK e : e = [c EXCEPT !.pc = pc]
    OBVIOUS
  <2>7. e \in Context /\ f = [e EXCEPT !.a0 = result]
    BY <1>3, <1>4, <2>6 DEF Context
  <2>8. g = [frames EXCEPT ![t][0] = e]
    BY <1>1, <2>2, <2>4, <2>5, <2>6
  <2>9. g \in [Thread -> [0 .. MaxDepth -> Context]] /\ g[t][0] = e
    BY <1>1, <2>4, <2>7, <2>8
  <2>10. frames' = [g EXCEPT ![t][0].a0 = result]
    BY <2>3, <2>5
  <2>11. frames' = [g EXCEPT ![t][0] = f]
    BY <1>1, <2>4, <2>7, <2>9, <2>10
  <2> QED  BY <1>1, <2>4, <2>8, <2>11
<1>7. /\ frames' \in [Thread -> [0 .. MaxDepth -> Context]] /\ frames'[t][0] = f
      /\ \A u \in Thread : u # t => frames'[u] = frames[u]
  <2>1. frames \in [Thread -> [0 .. MaxDepth -> Context]] /\ 0 \in 0 .. MaxDepth
    BY <1>1, RefFacts DEF Typed
  <2>2. frames[t] \in [0 .. MaxDepth -> Context] /\ f \in Context
    BY <1>1, <1>5, <2>1
  <2>3. PICK h : h = [frames[t] EXCEPT ![0] = f]
    OBVIOUS
  <2>4. h \in [0 .. MaxDepth -> Context] /\ h[0] = f
    BY <2>1, <2>2, <2>3
  <2>5. frames' = [frames EXCEPT ![t] = h]
    BY <1>6, <2>3
  <2> QED  BY <1>1, <2>1, <2>4, <2>5
<1>8. want' \in [Real -> Values] /\ want'[t] = result /\ \A u \in Real : u # t => want'[u] = want[u]
  BY <1>1 DEF Typed
<1>9. \A u \in Thread : u # t => KeepsData(u)
  BY <1>8 DEF KeepsData
<1>10. Good(t, f)'
  <2>1. InUser(t, f)'
    BY <1>3, <1>5 DEF InUser, AtLine
  <2> QED  BY <1>3, <1>5, <1>8, <2>1 DEF Good
<1>11. /\ probe' \in [KThreads -> BOOLEAN] /\ copy' \in [KThreads -> CopySet]
       /\ bytes' \in [KThreads -> SUBSET Nat]
  BY <1>1 DEF Typed
<1>12. CASE Return(Ref(t, 0)) /\ UNCHANGED <<current, state, trap_frame>>
  <2>1. handler' = [cause |-> "return", frame |-> Ref(t, 0)] /\ cpu.sum = f.sum
    BY <1>5, <1>12 DEF Return
  <2>2. PICK d \in {0, 1} : d = 0
    OBVIOUS
  <2> QED  BY <1>1, <1>5, <1>6, <1>8, <1>9, <1>10, <1>11, <1>12, <2>1, <2>2, StayKeeps
<1>13. ASSUME NEW st \in {"READY", "SLEEP"}, handler.cause # "none", Active.sum = FALSE,
              SwitchFrom(st, Ref(t, 0)), st = "SLEEP" => result = OK
       PROVE  TrapIInv'
  <2>1. PICK ref : ref = Ref(t, 0)
    OBVIOUS
  <2>2. ref[1] = t /\ ref[2] = 0 /\ ref \in Sp
    BY <1>1, <2>1, RefFacts
  <2>3. f = FrameAt(ref)'
    BY <1>7, <2>2 DEF FrameAt
  <2>4. ParkedAs(t, st, ref, f)'
    BY <1>1, <1>3, <1>5, <1>8, <1>13, <2>1 DEF ParkedAs
  <2>5. Outgoing(t, st, ref, f)' /\ SwitchFrom(st, ref)
    BY <1>10, <1>13, <2>1, <2>2, <2>3, <2>4 DEF Outgoing
  <2>6. \A u \in Thread : u # t => KeepsData(u) /\ frames'[u] = frames[u]
    BY <1>7, <1>9
  <2>7. /\ st \in {"READY", "SLEEP", "QUEUE", "EXITED"} /\ handler.cause # "none" /\ Active.sum = FALSE
        /\ UNCHANGED <<cpu, crashed>> /\ t \in Thread /\ t = current /\ t # Idle /\ t \notin KThreads
    BY <1>1, <1>13
  <2>8. /\ frames' \in [Thread -> [0 .. MaxDepth -> Context]] /\ sysframe' \in [Thread -> Sp]
        /\ calls' \in [Real -> Seq(Nat)] /\ want' \in [Real -> Values]
        /\ probe' \in [KThreads -> BOOLEAN] /\ copy' \in [KThreads -> CopySet]
        /\ bytes' \in [KThreads -> SUBSET Nat]
    BY <1>7, <1>8, <1>11
  <2> QED  BY <2>5, <2>6, <2>7, <2>8, SwitchKeeps
<1> QED  BY <1>12, <1>13

(* The memset system call goes on in code of its own. *)
LEMMA CallStartKeeps ==
  ASSUME TrapIInv, NEW t \in UThreads, t = current, NEW c \in Context, c = frames[t][0], Good(t, c),
         handler.cause = "ecall", handler.frame = Ref(t, 0), cpu.sum = FALSE,
         NEW n \in Nat \ {0}, n = c.pc.n, c.pc.at = "user", Program[t][n] = "u_memset",
         Did(t, calls'[t], n + 1), calls'[t] # <<>>, calls'[t][Len(calls'[t])] = n,
         calls' \in [Real -> Seq(Nat)], \A u \in Real : u # t => calls'[u] = calls[u],
         cpu' = [cpu EXCEPT !.pc = Pc(t, "syscall", 0)],
         sysframe' = [sysframe EXCEPT ![t] = Ref(t, 0)], handler' = NoHandler,
         UNCHANGED <<frames, current, state, trap_frame, crashed, want, probe, copy, bytes>>
  PROVE  TrapIInv'
<1>1. Typed /\ t \in Thread /\ t \in Real /\ t # Idle /\ t \notin KThreads /\ cpu \in CpuSet
  BY ThreadFacts DEF TrapIInv, Typed
<1>2. cpu.mode = "S" /\ cpu.sie = FALSE /\ cpu.sp = Ref(t, 0)
  BY DEF TrapIInv, HandlerFits
<1>3. Pc(t, "syscall", 0) \in PcSet
  BY <1>1 DEF Pc, PcSet, Places
<1>4. /\ cpu' \in CpuSet /\ cpu'.mode = "S" /\ cpu'.sie = FALSE /\ cpu'.sum = FALSE
      /\ cpu'.sp = Ref(t, 0) /\ cpu'.satp = cpu.satp /\ cpu'.stvec = cpu.stvec
      /\ cpu'.sscratch = cpu.sscratch /\ cpu'.pc = Pc(t, "syscall", 0)
  BY <1>1, <1>2, <1>3 DEF CpuSet
<1>5. PICK e : e = Saved'
  OBVIOUS
<1>6. /\ e.pc.t = t /\ e.pc.at = "syscall" /\ e.pc.n = 0 /\ e.spp = "S" /\ e.spie = FALSE
      /\ e.sum = FALSE /\ e.sp = Ref(t, 0)
  BY <1>4, <1>5 DEF Saved, Pc
<1>7. InUser(t, c) /\ c.pc.t = t
  BY <1>1 DEF Good, InCall, InThread, InCopy
<1>8. /\ sysframe'[t] = Ref(t, 0) /\ sysframe' \in [Thread -> Sp]
      /\ \A u \in Thread : u # t => sysframe'[u] = sysframe[u]
  BY <1>1, RefFacts DEF Typed
<1>9. InCall(t, e)'
  BY <1>6, <1>7, <1>8 DEF InCall, InUser, AtLine
<1>10. Good(t, e)'
  BY <1>6, <1>9 DEF Good
<1>11. handler'.cause = "none" /\ handler' \in [cause : Causes, frame : Sp]
  BY RefFacts DEF NoHandler, Causes
<1>12. Active' = e
  BY <1>5, <1>11 DEF Active
<1>13. Typed'
  BY <1>1, <1>4, <1>8, <1>11 DEF Typed
<1>14. RegistersFitMode'
  BY <1>2, <1>4 DEF TrapIInv, RegistersFitMode
<1>15. HandlerFits'
  BY <1>11 DEF HandlerFits
<1>16. \A u \in Thread : u # t => KeepsThread(u)
  BY <1>8 DEF KeepsThread, KeepsData
<1> QED  BY <1>1, <1>10, <1>12, <1>13, <1>14, <1>15, <1>16, CurrentKeeps

(* System calls keep the invariant; none is refused its task. *)
LEMMA SyscallKeeps ==
  ASSUME TrapIInv, user_syscall_dispatch, Forget, UNCHANGED probe
  PROVE  TrapIInv'
<1>1. handler.cause = "ecall"
  BY DEF user_syscall_dispatch, Handling
<1>2. PICK c \in Context, t \in Thread, d \in {0, 1} :
           /\ c = FrameAt(handler.frame) /\ c = Active /\ t = current /\ Good(t, c)
           /\ handler.frame = Ref(t, d) /\ (c.spp = "U" <=> d = 0) /\ d \in 0 .. MaxDepth
           /\ handler.frame = Home(t, c) /\ c = frames[t][d]
  BY <1>1, HandlerFrame
<1>3. PICK n : n = c.pc.n
  OBVIOUS
<1>4. /\ c.pc.at = "user" /\ cpu.mode = "S" /\ cpu.sie = FALSE /\ cpu.sum = c.sum
      /\ Program[t][n] \in Syscall
  BY <1>1, <1>2, <1>3 DEF TrapIInv, HandlerFits
<1>5. /\ t \in UThreads /\ InUser(t, c) /\ c.pc.t = t /\ d = 0 /\ c.sum = FALSE /\ c.spp = "U"
      /\ c.sp = UserSp /\ sysframe[t] = NoRef /\ Did(t, calls[t], n)
  <2>1. InUser(t, c) /\ c.pc.t = t
    BY <1>2, <1>4 DEF Good, InCall, InThread, InCopy
  <2> QED  BY <1>2, <1>3, <2>1 DEF InUser, Context
<1>6. /\ n \in Nat \ {0} /\ (Program[t][n] # "u_exit" => n + 1 \in 1 .. Len(Program[t]))
  BY <1>3, <1>5, UserLine DEF InUser, AtLine
<1>7. UserTaskForFrame(handler.frame)
  BY <1>2, <1>5 DEF UserTaskForFrame
<1>8. /\ Typed /\ t \in Real /\ t # Idle /\ t \notin KThreads /\ calls[t] \in Seq(Nat)
      /\ sysframe \in [Thread -> Sp]
  <2>1. Typed /\ t \in Real /\ t # Idle /\ t \notin KThreads
    BY <1>5, ThreadFacts DEF TrapIInv
  <2> QED  BY <2>1 DEF Typed
<1>9. /\ calls' \in [Real -> Seq(Nat)] /\ \A u \in Real : u # t => calls'[u] = calls[u]
      /\ calls'[t] = Append(calls[t], n)
  <2>1. Record(handler.frame)
    BY DEF user_syscall_dispatch
  <2> QED  BY <1>2, <1>3, <1>6, <1>8, <2>1, RecordFacts
<1>10. Did(t, calls'[t], n + 1) /\ calls'[t] # <<>> /\ calls'[t][Len(calls'[t])] = n
  <2>1. /\ Did(t, Append(calls[t], n), n + 1)
        /\ Append(calls[t], n) # <<>> /\ Append(calls[t], n)[Len(Append(calls[t], n))] = n
    BY <1>4, <1>5, <1>6, <1>8, DidCall
  <2> QED  BY <1>9, <2>1
<1>11. PICK ref : ref = handler.frame
  OBVIOUS
<1>12. /\ crashed' = crashed
       /\ \/ /\ Program[t][n] = "u_exit" /\ SwitchFrom("EXITED", NoRef)
             /\ frames' = [frames EXCEPT ![t][0] = Dead] /\ UNCHANGED <<cpu, sysframe, want>>
          \/ /\ UNCHANGED <<cpu, sysframe>> /\ Program[t][n] # "u_exit"
             /\ \E result \in {OK, ERR_UNKNOWN} :
                  /\ frames' = Answered(ref, result) /\ want' = [want EXCEPT ![t] = result]
                  /\ \/ thread_yield_current_from_trap(ref)
                     \/ SwitchFrom("SLEEP", ref) /\ result = OK
                     \/ Return(ref) /\ UNCHANGED <<current, state, trap_frame>>
          \/ /\ Program[t][n] = "u_memset" /\ UNCHANGED <<current, state, trap_frame>>
             /\ cpu' = [cpu EXCEPT !.pc = Pc(t, "syscall", 0)]
             /\ sysframe' = [sysframe EXCEPT ![t] = ref] /\ handler' = NoHandler
             /\ UNCHANGED <<frames, want>>
  <2>1. c = FrameAt(ref) /\ c.pc.t = t /\ c.pc.n = n /\ t = current /\ ref = handler.frame
    BY <1>2, <1>3, <1>5, <1>11
  <2> QED  BY <1>7, <2>1 DEF user_syscall_dispatch
<1>13. CASE /\ Program[t][n] = "u_exit" /\ SwitchFrom("EXITED", NoRef)
            /\ frames' = [frames EXCEPT ![t][0] = Dead] /\ UNCHANGED <<cpu, sysframe, want>>
  <2>1. frames' = [frames EXCEPT ![t][d] = Dead] /\ Active.sum = FALSE /\ Active.pc.at # "copy"
    BY <1>2, <1>4, <1>5, <1>13
  <2> QED  BY <1>1, <1>2, <1>5, <1>8, <1>9, <1>12, <1>13, <2>1, ExitKeeps
<1>14. ASSUME NEW result \in {OK, ERR_UNKNOWN}, UNCHANGED <<cpu, sysframe>>, Program[t][n] # "u_exit",
              frames' = Answered(ref, result), want' = [want EXCEPT ![t] = result],
              \/ thread_yield_current_from_trap(ref)
              \/ SwitchFrom("SLEEP", ref) /\ result = OK
              \/ Return(ref) /\ UNCHANGED <<current, state, trap_frame>>
       PROVE  TrapIInv'
  <2>1. ref = Ref(t, 0) /\ result \in Values /\ cpu.sum = FALSE /\ Active.sum = FALSE
    BY <1>2, <1>4, <1>5, <1>11 DEF Values, OK, ERR_UNKNOWN
  <2>2. \/ Return(ref) /\ UNCHANGED <<current, state, trap_frame>>
        \/ \E st \in {"READY", "SLEEP"} : SwitchFrom(st, ref) /\ (st = "SLEEP" => result = OK)
    BY <1>14 DEF thread_yield_current_from_trap
  <2>3. copy' = copy /\ bytes' = bytes
    BY <2>2, ForgetsNothing, SwitchForgets
  <2>4. sysframe'[t] = NoRef /\ \A u \in Thread : u # t => sysframe'[u] = sysframe[u]
    BY <1>5, <1>14
  <2>5. \/ Return(Ref(t, 0)) /\ UNCHANGED <<current, state, trap_frame>>
        \/ handler.cause # "none" /\ Active.sum = FALSE /\
           \E st \in {"READY", "SLEEP"} : SwitchFrom(st, Ref(t, 0)) /\ (st = "SLEEP" => result = OK)
    BY <1>1, <2>1, <2>2
  <2>6. frames' = Answered(Ref(t, 0), result) /\ c = frames[t][0] /\ n + 1 \in 1 .. Len(Program[t])
    BY <1>2, <1>5, <1>6, <1>14, <2>1
  <2>7. sysframe' \in [Thread -> Sp] /\ UNCHANGED <<cpu, crashed, probe, copy, bytes>>
    BY <1>8, <1>12, <1>14, <2>3
  <2> QED  BY <1>2, <1>3, <1>4, <1>5, <1>6, <1>9, <1>10, <1>14, <2>1, <2>4, <2>5, <2>6, <2>7, AnswerKeeps
<1>15. CASE /\ Program[t][n] = "u_memset" /\ UNCHANGED <<current, state, trap_frame>>
            /\ cpu' = [cpu EXCEPT !.pc = Pc(t, "syscall", 0)]
            /\ sysframe' = [sysframe EXCEPT ![t] = ref] /\ handler' = NoHandler
            /\ UNCHANGED <<frames, want>>
  <2>1. copy' = copy /\ bytes' = bytes
    BY <1>15, ForgetsNothing
  <2>2. /\ UNCHANGED <<frames, current, state, trap_frame, crashed, want, probe, copy, bytes>>
        /\ sysframe' = [sysframe EXCEPT ![t] = Ref(t, 0)] /\ handler.frame = Ref(t, 0)
        /\ c = frames[t][0] /\ cpu.sum = FALSE
    BY <1>2, <1>4, <1>5, <1>11, <1>12, <1>15, <2>1
  <2> QED  BY <1>1, <1>2, <1>3, <1>4, <1>5, <1>6, <1>9, <1>10, <1>15, <2>2, CallStartKeeps
<1> QED  BY <1>12, <1>13, <1>14, <1>15

(* A system call that waited answers in the frame it was called with. *)
LEMMA CallReturnKeeps ==
  ASSUME TrapIInv, user_accel_syscall_memset, Forget, UNCHANGED probe
  PROVE  TrapIInv'
<1>1. handler.cause = "none" /\ cpu.pc.at \in {"syscall", "woken"}
  BY DEF user_accel_syscall_memset, InCode, Handling
<1>2. PICK b \in Context, t \in Thread :
           /\ b = Saved /\ t = current /\ Good(t, b) /\ cpu.pc = b.pc /\ cpu.pc.t = t
           /\ b = Active /\ b.spp = cpu.mode
  BY <1>1, RunningCode
<1>3. InCall(t, b)
  BY <1>1, <1>2 DEF Good, InUser, InThread, InCopy
<1>4. PICK c, n : c = frames[t][0] /\ n = c.pc.n
  OBVIOUS
<1>5. /\ t \in UThreads /\ sysframe[t] = Ref(t, 0) /\ c.pc.t = t /\ c.pc.at = "user" /\ c.spp = "U"
      /\ c.sp = UserSp /\ ~c.sum /\ n \in 1 .. Len(Program[t]) /\ Program[t][n] = "u_memset"
      /\ Did(t, calls[t], n + 1) /\ ~b.sum /\ ~b.spie /\ b.spp = "S"
  BY <1>3, <1>4 DEF InCall, AtLine
<1>6. Typed /\ c \in Context /\ c.sum = FALSE /\ cpu.sum = FALSE /\ cpu.sie = FALSE /\ cpu.mode = "S"
  <2>1. Typed /\ frames[t] \in [0 .. MaxDepth -> Context]
    BY DEF TrapIInv, Typed
  <2>2. c \in Context
    BY <1>4, <2>1, RefFacts
  <2>3. b.sum = cpu.sum /\ b.spie = cpu.sie /\ b.spp = cpu.mode /\ cpu.sum \in BOOLEAN /\ cpu.sie \in BOOLEAN
    BY <1>2 DEF Saved, TrapIInv, Typed, CpuSet
  <2> QED  BY <1>5, <2>1, <2>2, <2>3 DEF Context
<1>7. n \in Nat \ {0} /\ n + 1 \in 1 .. Len(Program[t])
  BY <1>5, UserLine
<1>8. PICK result \in MemsetResult :
        frames' = Answered(Ref(t, 0), result) /\ want' = [want EXCEPT ![t] = result]
  BY <1>2, <1>5 DEF user_accel_syscall_memset
<1>9. /\ Return(Ref(t, 0)) /\ sysframe' = [sysframe EXCEPT ![t] = NoRef]
      /\ UNCHANGED <<cpu, current, state, trap_frame, crashed, calls>>
  BY <1>2, <1>5 DEF user_accel_syscall_memset
<1>10. copy' = copy /\ bytes' = bytes
  BY <1>9, ForgetsNothing
<1>11. result \in Values
  BY <1>8 DEF MemsetResult, OK, Values
<1>12. /\ sysframe'[t] = NoRef /\ sysframe' \in [Thread -> Sp]
       /\ \A u \in Thread : u # t => sysframe'[u] = sysframe[u]
  BY <1>6, <1>9, RefFacts DEF Typed
<1>13. calls' \in [Real -> Seq(Nat)] /\ UNCHANGED <<cpu, crashed, probe, copy, bytes>>
  BY <1>6, <1>9, <1>10 DEF Typed
<1> QED  BY <1>2, <1>4, <1>5, <1>6, <1>7, <1>8, <1>9, <1>11, <1>12, <1>13, AnswerKeeps

(* Every step of the trap machinery keeps the invariant. *)
LEMMA TrapStepKeeps ==
  ASSUME TrapIInv, TrapNext, Forget, UNCHANGED probe
  PROVE  TrapIInv'
<1>1. ASSUME UNCHANGED state PROVE copy' = copy /\ bytes' = bytes
  BY <1>1, ForgetsNothing
<1>2. CASE TimerInterrupt \/ Ecall \/ Ebreak
  <2>1. UNCHANGED state
    BY <1>2 DEF TimerInterrupt, Ecall, Ebreak, TrapEntry
  <2> QED  BY <1>1, <1>2, <2>1, TrapsKeep
<1>3. CASE Step \/ irq_save \/ irq_restore
  <2>1. UNCHANGED state
    BY <1>3 DEF Step, irq_save, irq_restore, Retire
  <2> QED  BY <1>1, <1>3, <2>1, StepKeeps
<1>4. CASE IdleLoop
  <2>1. UNCHANGED state
    BY <1>4 DEF IdleLoop, Retire
  <2> QED  BY <1>1, <1>4, <2>1, IdleLoopKeeps
<1>5. CASE Wake
  <2>1. PICK u \in Real : state' = [state EXCEPT ![u] = "READY"]
    BY <1>5 DEF Wake, wake_blocked_thread
  <2>2. state \in [Thread -> {"READY", "RUNNING", "SLEEP", "QUEUE", "EXITED"}]
    BY DEF TrapIInv, Typed
  <2>3. \A v \in KThreads : state'[v] = "EXITED" => state[v] = "EXITED"
    BY <2>1, <2>2, ThreadFacts
  <2> QED  BY <1>5, <2>3, ForgetsNothing, WakeKeeps
<1>6. CASE WaitAgain
  <2>1. UNCHANGED state
    BY <1>6 DEF WaitAgain, Retire
  <2> QED  BY <1>1, <1>6, <2>1, WaitAgainKeeps
<1>7. CASE trap_return_from_handler
  <2>1. UNCHANGED state
    BY <1>7 DEF trap_return_from_handler
  <2> QED  BY <1>1, <1>7, <2>1, ReturnKeeps
<1> QED  BY <1>2, <1>3, <1>4, <1>5, <1>6, <1>7, TimerKeeps, ControlTrapKeeps, SyscallKeeps,
            CallReturnKeeps DEF TrapNext

-----------------------------------------------------------------------------
(* Address arithmetic: a range wraps, or ends where it seems to. *)
LEMMA RangeEndFacts ==
  ASSUME NEW start \in Addr, NEW len \in Addr
  PROVE  /\ start \in Nat /\ len \in Nat /\ ADDR_MOD \in Nat /\ start < ADDR_MOD
         /\ RangeEnd(start, len) \in Nat
         /\ start + len < ADDR_MOD => RangeEnd(start, len) = start + len
         /\ start + len >= ADDR_MOD => RangeEnd(start, len) < start
<1>1. /\ ADDR_MOD \in Nat /\ start \in Nat /\ len \in Nat /\ start < ADDR_MOD /\ len < ADDR_MOD
  BY RangeAssumption DEF Addr
<1>2. PICK e : e = start + len
  OBVIOUS
<1>3. e \in Nat /\ e < 2 * ADDR_MOD
  BY <1>1, <1>2
<1>4. ASSUME e < ADDR_MOD PROVE e % ADDR_MOD = e
  BY <1>1, <1>3, <1>4
<1>5. ASSUME e >= ADDR_MOD PROVE e % ADDR_MOD = e - ADDR_MOD
  BY <1>1, <1>3, <1>5
<1>6. e % ADDR_MOD \in Nat
  BY <1>1, <1>3, <1>4, <1>5
<1> QED  BY <1>1, <1>2, <1>4, <1>5, <1>6 DEF RangeEnd

(* The layout of user memory. *)
LEMMA Layout ==
  /\ PAGE_SIZE \in Nat \ {0} /\ USER_SPACE_BASE = PAGE_SIZE /\ USER_SPACE_TOP \in Nat
  /\ USER_SPACE_BASE <= USER_SPACE_TOP /\ USER_SPACE_TOP <= ADDR_MOD - 2 /\ ADDR_MOD \in Nat
  /\ MmioBase \in Nat /\ MmioEnd \in Nat /\ MmioBase < MmioEnd /\ MmioEnd <= USER_SPACE_TOP
BY RangeAssumption

(* The checks of a copy call accept only ranges of user memory, *)
LEMMA RangeAccepted ==
  ASSUME NEW start \in Addr, NEW len \in Addr, len # 0,
         usercopy_range_end(start, len), user_space_va_range_is_valid(start, len)
  PROVE  /\ start + len <= USER_SPACE_TOP + 1 /\ start .. start + len - 1 \subseteq UserByte
         /\ start \in Nat /\ len \in Nat \ {0}
<1>1. PICK e : e = RangeEnd(start, len)
  OBVIOUS
<1>2. /\ e >= start /\ start >= USER_SPACE_BASE /\ (e - 1) % ADDR_MOD <= USER_SPACE_TOP
      /\ ~(start < MmioEnd /\ MmioBase < e)
  BY <1>1 DEF user_space_va_range_is_valid, ranges_overlap
<1>3. start \in Nat /\ len \in Nat \ {0} /\ ADDR_MOD \in Nat /\ e = start + len /\ e < ADDR_MOD
  BY <1>1, <1>2, RangeEndFacts
<1>4. (e - 1) % ADDR_MOD = e - 1
  <2>1. e - 1 \in Nat /\ e - 1 < ADDR_MOD
    BY <1>3
  <2> QED  BY <1>3, <2>1
<1> QED  BY <1>2, <1>3, <1>4, Layout DEF UserByte

(* and refuse only ranges that are not. *)
LEMMA RangeRefused ==
  ASSUME NEW start \in Addr, NEW len \in Addr, len # 0,
         \/ start = 0 \/ ~usercopy_range_end(start, len) \/ ~user_space_va_range_is_valid(start, len)
  PROVE  \E b \in start .. start + len - 1 : b \notin UserByte
<1>1. start \in Nat /\ len \in Nat \ {0} /\ ADDR_MOD \in Nat /\ start < ADDR_MOD
  BY RangeEndFacts
<1>2. CASE start = 0
  BY <1>1, <1>2, Layout DEF UserByte
<1>3. CASE start + len >= ADDR_MOD
  <2>1. ADDR_MOD - 1 \in start .. start + len - 1 /\ ADDR_MOD - 1 \notin UserByte
    BY <1>1, <1>3, Layout DEF UserByte
  <2> QED  BY <2>1
<1>4. CASE start # 0 /\ start + len < ADDR_MOD
  <2>1. PICK e : e = RangeEnd(start, len)
    OBVIOUS
  <2>2. e = start + len /\ e >= start
    BY <1>1, <1>4, <2>1, RangeEndFacts
  <2>3. ~user_space_va_range_is_valid(start, len)
    BY <1>4, <2>1, <2>2 DEF usercopy_range_end
  <2>4. (e - 1) % ADDR_MOD = e - 1
    <3>1. e - 1 \in Nat /\ e - 1 < ADDR_MOD
      BY <1>1, <1>4, <2>2
    <3> QED  BY <1>1, <3>1
  <2>5. \/ start < USER_SPACE_BASE \/ e - 1 > USER_SPACE_TOP \/ (start < MmioEnd /\ MmioBase < e)
    <3>1. \/ ~(start >= USER_SPACE_BASE) \/ ~((e - 1) % ADDR_MOD <= USER_SPACE_TOP)
          \/ (start < MmioEnd /\ MmioBase < e)
      BY <1>1, <2>1, <2>2, <2>3 DEF user_space_va_range_is_valid, ranges_overlap
    <3> QED  BY <1>1, <2>2, <2>4, <3>1, Layout
  <2>6. CASE start < USER_SPACE_BASE
    BY <1>1, <2>6, Layout DEF UserByte
  <2>7. CASE e - 1 > USER_SPACE_TOP
    <3>1. e - 1 \in start .. start + len - 1 /\ e - 1 \notin UserByte
      BY <1>1, <2>2, <2>7, Layout DEF UserByte
    <3> QED  BY <3>1
  <2>8. CASE start < MmioEnd /\ MmioBase < e
    <3>1. CASE start >= MmioBase
      BY <1>1, <2>8, <3>1, Layout DEF UserByte
    <3>2. CASE start < MmioBase
      <4>1. MmioBase \in start .. start + len - 1 /\ MmioBase \notin UserByte
        BY <1>1, <2>2, <2>8, <3>2, Layout DEF UserByte
      <4> QED  BY <4>1
    <3> QED  BY <1>1, <3>1, <3>2, Layout
  <2> QED  BY <2>5, <2>6, <2>7, <2>8
<1> QED  BY <1>1, <1>2, <1>3, <1>4

(* Pages of a range. *)
LEMMA PageFacts ==
  ASSUME NEW s \in Nat, NEW e \in Nat, s <= e
  PROVE  /\ PageOf(s) \in Nat /\ PageOf(e) \in Nat /\ PageOf(s) <= PageOf(e)
         /\ \A p \in PageOf(s) .. PageOf(e) : \E b \in s .. e : PageOf(b) = p
<1>1. PAGE_SIZE \in Nat \ {0}
  BY Layout
<1>2. ASSUME NEW x \in Nat
      PROVE  /\ PageOf(x) \in Nat /\ PageOf(x) * PAGE_SIZE <= x /\ x < (PageOf(x) + 1) * PAGE_SIZE
  BY <1>1 DEF PageOf
<1>3. ASSUME NEW p \in Nat PROVE PageOf(p * PAGE_SIZE) = p /\ p * PAGE_SIZE \in Nat
  BY <1>1 DEF PageOf
<1>4. ASSUME NEW p \in Nat, NEW q \in Nat, p < q PROVE (p + 1) * PAGE_SIZE <= q * PAGE_SIZE
  BY <1>1, <1>4
<1>5. PageOf(s) <= PageOf(e)
  <2>1. SUFFICES ASSUME PageOf(e) < PageOf(s) PROVE FALSE
    BY <1>2
  <2>2. PICK x, y : x = (PageOf(e) + 1) * PAGE_SIZE /\ y = PageOf(s) * PAGE_SIZE
    OBVIOUS
  <2>3. x \in Nat /\ y \in Nat
    BY <1>1, <1>2, <2>2
  <2>4. e < x /\ y <= s
    BY <1>2, <2>2
  <2>5. x <= y
    BY <1>2, <1>4, <2>1, <2>2
  <2> QED  BY <2>3, <2>4, <2>5
<1>6. ASSUME NEW p \in PageOf(s) .. PageOf(e) PROVE \E b \in s .. e : PageOf(b) = p
  <2>1. PageOf(s) \in Nat /\ PageOf(e) \in Nat
    BY <1>2
  <2>2. p \in Nat /\ PageOf(s) <= p /\ p <= PageOf(e)
    BY <2>1
  <2>3. CASE p = PageOf(s)
    BY <2>3
  <2>4. CASE PageOf(s) < p
    <3>1. PICK b, x, y : /\ b = p * PAGE_SIZE /\ x = (PageOf(s) + 1) * PAGE_SIZE
                         /\ y = PageOf(e) * PAGE_SIZE
      OBVIOUS
    <3>2. b \in Nat /\ x \in Nat /\ y \in Nat /\ PageOf(b) = p
      BY <1>1, <1>3, <2>1, <2>2, <3>1
    <3>3. s < x /\ y <= e
      BY <1>2, <3>1
    <3>4. x <= b
      BY <1>4, <2>1, <2>2, <2>4, <3>1
    <3>5. b <= y
      BY <1>1, <2>1, <2>2, <3>1
    <3>6. b \in s .. e
      BY <3>2, <3>3, <3>4, <3>5
    <3> QED  BY <3>2, <3>6
  <2> QED  BY <2>1, <2>2, <2>3, <2>4
<1> QED  BY <1>2, <1>5, <1>6

-----------------------------------------------------------------------------
(* A thread in a copy call, its data, and the end of its range. *)
LEMMA RunningCopy ==
  ASSUME TrapIInv, handler.cause = "none", cpu.pc.at \in {"validate", "begin", "copy", "fixup"}
  PROVE  \E c \in Context, t \in KThreads :
           /\ c = Saved /\ t = current /\ Good(t, c) /\ InCopy(t, c) /\ cpu.pc = c.pc /\ me = t
           /\ c = Active /\ end = copy[t].start + copy[t].len /\ copy[t].start \in Nat
           /\ copy[t].len \in Nat \ {0} /\ copy[t].start + copy[t].len < ADDR_MOD
           /\ copy[t] \in CopySet /\ (probe[t] = TRUE => c.pc.at = "copy")
<1>1. PICK c \in Context, t \in Thread :
           /\ c = Saved /\ t = current /\ Good(t, c) /\ cpu.pc = c.pc /\ cpu.pc.t = t
           /\ c = Active /\ c.spp = cpu.mode
  BY RunningCode
<1>2. InCopy(t, c) /\ t \in KThreads /\ Checked(copy[t]) /\ me = t
  BY <1>1 DEF Good, InUser, InCall, InThread, InCopy, me
<1>3. copy[t] \in CopySet /\ ThreadOK(t)
  BY <1>2 DEF TrapIInv, Typed
<1>4. /\ RangeEnd(copy[t].start, copy[t].len) = copy[t].start + copy[t].len
      /\ copy[t].start \in Nat /\ copy[t].len \in Nat \ {0} /\ copy[t].start + copy[t].len < ADDR_MOD
  BY <1>2, <1>3, CheckedEnd
<1>5. end = copy[t].start + copy[t].len
  BY <1>2, <1>4 DEF end, mycopy
<1>6. probe[t] = TRUE => c.pc.at = "copy"
  BY <1>1, <1>2, <1>3 DEF ThreadOK
<1> QED  BY <1>1, <1>2, <1>3, <1>4, <1>5, <1>6

(* Code of a thread leaves the trap registers and its stack alone. *)
KeepsHart ==
  /\ cpu' \in CpuSet /\ cpu'.mode = cpu.mode /\ cpu'.satp = cpu.satp /\ cpu'.stvec = cpu.stvec
  /\ cpu'.sscratch = cpu.sscratch /\ cpu'.sp = cpu.sp

(* A copy call returns to its thread's program. *)
LEMMA CopyReturnKeeps ==
  ASSUME TrapIInv, handler.cause = "none", NEW t \in KThreads, t = current, t = me,
         NEW n \in Nat, n = cpu.pc.n, n \in 1 .. Len(Program[t]), Program[t][n] = "copy",
         Did(t, calls[t], n), sysframe[t] = NoRef, cpu.mode = "S", cpu.sp = Ref(t, 0),
         NEW r \in Values, KeepsHart, cpu'.sum = FALSE, cpu'.a0 = r, cpu'.pc = Pc(t, "thread", n + 1),
         UNCHANGED <<frames, handler, sysframe, current, state, trap_frame, crashed, calls>>,
         want' = [want EXCEPT ![t] = r], CopyTruth(t, r)', bytes'[t] \subseteq UserByte,
         probe' \in [KThreads -> BOOLEAN], probe'[t] # TRUE,
         copy' \in [KThreads -> CopySet], bytes' \in [KThreads -> SUBSET Nat],
         \A u \in KThreads : u # t => copy'[u] = copy[u] /\ bytes'[u] = bytes[u] /\ probe'[u] = probe[u]
  PROVE  TrapIInv'
<1>1. Typed /\ t \in Thread /\ t \in Real /\ cpu \in CpuSet /\ calls[t] \in Seq(Nat)
  <2>1. Typed /\ t \in Thread /\ t \in Real
    BY ThreadFacts DEF TrapIInv
  <2> QED  BY <2>1 DEF Typed
<1>2. n \in Nat \ {0} /\ n + 1 \in 1 .. Len(Program[t]) /\ n + 1 \in Nat /\ n + 1 - 1 = n
  BY KernelLine
<1>4. /\ cpu' \in CpuSet /\ cpu'.mode = cpu.mode /\ cpu'.satp = cpu.satp /\ cpu'.stvec = cpu.stvec
      /\ cpu'.sscratch = cpu.sscratch /\ cpu'.sp = cpu.sp
  BY DEF KeepsHart
<1>5. PICK d : d = Saved'
  OBVIOUS
<1>6. /\ d.pc.t = t /\ d.pc.at = "thread" /\ d.pc.n = n + 1 /\ d.spp = "S" /\ d.sp = Ref(t, 0)
      /\ d.sum = FALSE /\ d.a0 = r
  BY <1>4, <1>5 DEF Saved, Pc
<1>7. Did(t, calls[t], n + 1)
  <2>1. Program[t][n] \notin Syscall \cup Control
    BY DEF Syscall, Control
  <2> QED  BY <1>1, <1>2, <2>1, DidStep
<1>8. want' \in [Real -> Values] /\ want'[t] = r /\ \A u \in Real : u # t => want'[u] = want[u]
  BY <1>1 DEF Typed
<1>9. InThread(t, d)'
  BY <1>2, <1>6, <1>7 DEF InThread, AtLine
<1>10. Good(t, d)'
  BY <1>6, <1>8, <1>9 DEF Good
<1>11. \A u \in Thread : u # t => KeepsData(u)
  BY <1>8 DEF KeepsData
<1> QED  BY <1>1, <1>4, <1>5, <1>8, <1>10, <1>11, RetireKeeps

(* A copy call goes on with its checks, *)
LEMMA CopyGoesKeeps ==
  ASSUME TrapIInv, handler.cause = "none", NEW t \in KThreads, t = current, t = me,
         NEW n \in Nat, n = cpu.pc.n, n \in 1 .. Len(Program[t]), Program[t][n] = "copy",
         Did(t, calls[t], n), sysframe[t] = NoRef, cpu.mode = "S", cpu.sp = Ref(t, 0),
         NEW at \in {"validate", "begin"}, NEW a1 \in Nat, KeepsHart, cpu'.pc.t = t,
         cpu'.pc.n = n, cpu'.pc.at = at, cpu'.a1 = a1,
         UNCHANGED <<frames, handler, sysframe, current, state, trap_frame, crashed, calls, want>>,
         NEW cp, copy'[t] = cp, Checked(cp),
         bytes'[t] = {}, ~cpu'.sum, probe'[t] # TRUE,
         at = "validate" => a1 \in PageOf(cp.start) .. PageOf(cp.start + cp.len - 1),
         probe' \in [KThreads -> BOOLEAN],
         copy' \in [KThreads -> CopySet], bytes' \in [KThreads -> SUBSET Nat],
         \A u \in KThreads : u # t => copy'[u] = copy[u] /\ bytes'[u] = bytes[u] /\ probe'[u] = probe[u]
  PROVE  TrapIInv'
<1>1. Typed /\ t \in Thread /\ cpu \in CpuSet /\ cpu.pc.t = t /\ want' \in [Real -> Values]
  <2>1. Typed /\ t \in Thread
    BY ThreadFacts DEF TrapIInv
  <2> QED  BY <2>1 DEF Typed, me
<1>2. /\ cpu' \in CpuSet /\ cpu'.mode = cpu.mode /\ cpu'.satp = cpu.satp /\ cpu'.stvec = cpu.stvec
      /\ cpu'.sscratch = cpu.sscratch /\ cpu'.sp = cpu.sp
  BY DEF KeepsHart
<1>3. PICK d : d = Saved'
  OBVIOUS
<1>4. /\ d.pc.t = t /\ d.pc.at = at /\ d.pc.n = n /\ d.spp = "S" /\ d.sp = Ref(t, 0)
      /\ d.sum = cpu'.sum /\ d.spie = cpu'.sie /\ d.a1 = a1
  BY <1>2, <1>3 DEF Saved
<1>5. InCopy(t, d)'
  BY <1>4 DEF InCopy, AtLine
<1>6. Good(t, d)'
  BY <1>4, <1>5 DEF Good
<1>7. \A u \in Thread : u # t => KeepsData(u)
  BY DEF KeepsData
<1> QED  BY <1>1, <1>2, <1>3, <1>6, <1>7, RetireKeeps

(* and with its loop. *)
LEMMA LoopKeeps ==
  ASSUME TrapIInv, handler.cause = "none", NEW t \in KThreads, t = current, t = me,
         NEW n \in Nat, n = cpu.pc.n, n \in 1 .. Len(Program[t]), Program[t][n] = "copy",
         Did(t, calls[t], n), sysframe[t] = NoRef, cpu.mode = "S", cpu.sp = Ref(t, 0),
         NEW a1 \in Nat, KeepsHart, cpu'.pc.t = t,
         cpu'.pc.n = n, cpu'.pc.at = "copy", cpu'.a1 = a1,
         UNCHANGED <<frames, handler, sysframe, current, state, trap_frame, crashed, calls, want>>,
         NEW cp, copy'[t] = cp, Checked(cp),
         ~cpu'.sie, cpu'.sum, NEW moved, bytes'[t] = moved, moved = cp.start .. a1 - 1,
         probe'[t] = TRUE, a1 \in cp.start .. cp.start + cp.len,
         probe' \in [KThreads -> BOOLEAN],
         copy' \in [KThreads -> CopySet], bytes' \in [KThreads -> SUBSET Nat],
         \A u \in KThreads : u # t => copy'[u] = copy[u] /\ bytes'[u] = bytes[u] /\ probe'[u] = probe[u]
  PROVE  TrapIInv'
<1>1. Typed /\ t \in Thread /\ cpu \in CpuSet /\ cpu.pc.t = t /\ want' \in [Real -> Values]
  <2>1. Typed /\ t \in Thread
    BY ThreadFacts DEF TrapIInv
  <2> QED  BY <2>1 DEF Typed, me
<1>2. /\ cpu' \in CpuSet /\ cpu'.mode = cpu.mode /\ cpu'.satp = cpu.satp /\ cpu'.stvec = cpu.stvec
      /\ cpu'.sscratch = cpu.sscratch /\ cpu'.sp = cpu.sp
  BY DEF KeepsHart
<1>3. PICK d : d = Saved'
  OBVIOUS
<1>4. /\ d.pc.t = t /\ d.pc.at = "copy" /\ d.pc.n = n /\ d.spp = "S" /\ d.sp = Ref(t, 0)
      /\ d.sum = cpu'.sum /\ d.spie = cpu'.sie /\ d.a1 = a1
  BY <1>2, <1>3 DEF Saved
<1>5. InCopy(t, d)'
  BY <1>4 DEF InCopy, AtLine
<1>6. Good(t, d)'
  BY <1>4, <1>5 DEF Good
<1>7. \A u \in Thread : u # t => KeepsData(u)
  BY DEF KeepsData
<1>8. probe'[t] = TRUE => d.pc.at = "copy"
  BY <1>4
<1> QED  BY <1>1, <1>2, <1>3, <1>6, <1>7, <1>8, RetireKeeps

(* The call itself: what it refuses and what it goes on to check. *)
LEMMA CopyCallKeeps ==
  ASSUME TrapIInv, copy_user
  PROVE  TrapIInv'
<1>1. InProgram /\ Instruction = "copy" /\ handler.cause = "none" /\ cpu.pc.at \in {"user", "thread"}
  BY DEF copy_user, InProgram, InCode, Handling
<1>2. PICK c \in Context, t \in Thread :
           /\ c = Saved /\ t = current /\ Good(t, c) /\ cpu.pc = c.pc /\ cpu.pc.t = t
           /\ c = Active /\ c.spp = cpu.mode
  BY <1>1, RunningCode
<1>3. PICK n : n = c.pc.n
  OBVIOUS
<1>4. n \in 1 .. Len(Program[t]) /\ n \in Nat /\ Program[t][n] = "copy" /\ n = cpu.pc.n /\ me = t
  <2>1. n \in Nat
    BY <1>3 DEF Context, PcSet
  <2> QED  BY <1>1, <1>2, <1>3, <2>1, RunningProgram DEF Instruction, me
<1>5. t \in KThreads
  <2>1. t \notin UThreads
    BY <1>4, UserLine DEF UserCode, Syscall
  <2>2. t # Idle
    BY <1>4, IdleLine
  <2> QED  BY <2>1, <2>2, ThreadFacts
<1>6. InThread(t, c) /\ Did(t, calls[t], n) /\ sysframe[t] = NoRef
  <2>1. InThread(t, c) /\ Did(t, calls[t], n)
    BY <1>1, <1>2, <1>3, <1>5, RunningProgram, ThreadFacts
  <2> QED  BY <1>5, <2>1 DEF InThread
<1>7. cpu.mode = "S" /\ cpu.sp = Ref(t, 0) /\ c.sum = FALSE /\ cpu.sum = FALSE
  <2>1. c.sp = cpu.sp /\ c.sum = cpu.sum
    BY <1>2 DEF Saved
  <2> QED  BY <1>2, <1>6, <2>1 DEF InThread, Context
<1>8. /\ Typed /\ cpu \in CpuSet /\ copy \in [KThreads -> CopySet]
      /\ bytes \in [KThreads -> SUBSET Nat] /\ probe \in [KThreads -> BOOLEAN]
      /\ probe[t] # TRUE
  <2>1. ThreadOK(t) /\ Typed
    BY DEF TrapIInv
  <2>2. probe[t] # TRUE
    BY <1>1, <1>2, <1>5, <1>6, <2>1 DEF ThreadOK, InThread
  <2> QED  BY <2>1, <2>2 DEF Typed
<1>9. PICK start \in Addr, len \in Addr, op \in DOMAIN CopyOps :
        /\ bytes' = [bytes EXCEPT ![t] = {}]
        /\ IF len = 0 \/ start = 0 \/ ~usercopy_range_end(start, len)
              \/ ~user_space_va_range_is_valid(start, len)
           THEN Finish(Done(IF len = 0 THEN OK ELSE "invalid"))
           ELSE Goes("validate", PageOf(start))
        /\ copy' = [copy EXCEPT ![t] = CallOf(start, len, CopyOps[op])]
        /\ UNCHANGED <<mapping, probe>>
  <2>1. \A args \in CopyArgs : args[1] \in Addr /\ args[2] \in Addr
    BY CopyAssumption
  <2>3. PICK args \in CopyArgs, op \in DOMAIN CopyOps :
          /\ bytes' = [bytes EXCEPT ![me] = {}]
          /\ IF args[2] = 0 \/ args[1] = 0 \/ ~usercopy_range_end(args[1], args[2])
                \/ ~user_space_va_range_is_valid(args[1], args[2])
             THEN Finish(Done(IF args[2] = 0 THEN OK ELSE "invalid"))
             ELSE Goes("validate", PageOf(args[1]))
          /\ copy' = [copy EXCEPT ![me] = CallOf(args[1], args[2], CopyOps[op])]
    BY DEF copy_user
  <2>4. UNCHANGED <<mapping, probe>>
    BY DEF copy_user
  <2> QED  BY <1>4, <2>1, <2>3, <2>4
<1>10. start \in Nat /\ len \in Nat
  BY RangeEndFacts
<1>11. /\ copy'[t] \in CopySet /\ copy'[t].start = start /\ copy'[t].len = len /\ bytes'[t] = {}
       /\ copy' \in [KThreads -> CopySet] /\ bytes' \in [KThreads -> SUBSET Nat]
       /\ \A u \in KThreads : u # t => copy'[u] = copy[u] /\ bytes'[u] = bytes[u] /\ probe'[u] = probe[u]
       /\ probe' \in [KThreads -> BOOLEAN] /\ probe'[t] # TRUE
  <2>1. PICK cp : cp = CallOf(start, len, CopyOps[op])
    OBVIOUS
  <2>2. cp \in CopySet /\ cp.start = start /\ cp.len = len
    BY <1>10, <2>1, CallFacts
  <2> QED  BY <1>5, <1>8, <1>9, <2>1, <2>2
<1>12. CASE len = 0 \/ start = 0 \/ ~usercopy_range_end(start, len)
             \/ ~user_space_va_range_is_valid(start, len)
  <2>1. PICK r : r = IF len = 0 THEN OK ELSE "invalid"
    OBVIOUS
  <2>2. Finish(Done(r)) /\ r \in Values
    BY <1>9, <1>12, <2>1 DEF OK, Values
  <2>3. PICK e : e = [cpu EXCEPT !.pc = Pc(t, "thread", n + 1), !.a0 = r, !.a1 = 0, !.sum = FALSE,
                                 !.sie = cpu.sie]
    OBVIOUS
  <2>4. Done(r) = e /\ e.a0 = r /\ cpu.sie \in BOOLEAN
    BY <1>4, <1>8, <2>3 DEF Done, CpuSet
  <2>5. /\ cpu' = e /\ want' = [want EXCEPT ![t] = r]
        /\ UNCHANGED <<frames, handler, sysframe, current, state, trap_frame, crashed, calls>>
    BY <1>4, <2>2, <2>4 DEF Finish, Retire
  <2>6. CopyTruth(t, r)' /\ bytes'[t] \subseteq UserByte
    <3>1. CASE len = 0
      <4>1. start .. start + 0 - 1 = {}
        BY <1>10
      <4> QED  BY <1>11, <2>1, <3>1, <4>1 DEF CopyTruth, Bytes, OK
    <3>2. CASE len # 0
      BY <1>11, <2>1, <3>2 DEF CopyTruth
    <3> QED  BY <3>1, <3>2
  <2>7. KeepsHart /\ cpu'.sum = FALSE /\ cpu'.a0 = r /\ cpu'.pc = Pc(t, "thread", n + 1)
    <3>1. Pc(t, "thread", n + 1) \in PcSet
      BY <1>4 DEF Pc, PcSet, Places
    <3>2. r \in Values /\ cpu' = e /\ cpu \in CpuSet
      BY <1>8, <2>2, <2>5
    <3> QED  BY <2>3, <3>1, <3>2 DEF KeepsHart, CpuSet
  <2> QED  BY <1>1, <1>2, <1>4, <1>5, <1>6, <1>7, <1>11, <2>2, <2>5, <2>6, <2>7, CopyReturnKeeps
<1>13. CASE ~(len = 0 \/ start = 0 \/ ~usercopy_range_end(start, len)
              \/ ~user_space_va_range_is_valid(start, len))
  <2>1. Goes("validate", PageOf(start))
    BY <1>9, <1>13
  <2>2. /\ cpu' = [cpu EXCEPT !.pc.at = "validate", !.a1 = PageOf(start)] /\ want' = want
        /\ UNCHANGED <<frames, handler, sysframe, current, state, trap_frame, crashed, calls>>
    BY <2>1 DEF Goes, Retire
  <2>3. PICK a1 : a1 = PageOf(start)
    OBVIOUS
  <2>5. /\ start + len <= USER_SPACE_TOP + 1 /\ start .. start + len - 1 \subseteq UserByte
        /\ len \in Nat \ {0}
    BY <1>13, RangeAccepted
  <2>6. PICK cp : cp = copy'[t]
    OBVIOUS
  <2>10. Checked(cp)
    <3>1. len > 0
      BY <2>5
    <3> QED  BY <1>11, <2>5, <2>6, <3>1 DEF Checked
  <2>7. a1 \in Nat /\ a1 \in PageOf(start) .. PageOf(start + len - 1)
    <3>1. start + len - 1 \in Nat /\ start <= start + len - 1
      BY <1>10, <2>5
    <3> QED  BY <1>10, <2>3, <3>1, PageFacts
  <2>8. /\ KeepsHart /\ cpu'.pc.t = t /\ cpu'.pc.n = n /\ cpu'.pc.at = "validate" /\ cpu'.a1 = a1
        /\ ~cpu'.sum
    BY <1>2, <1>4, <1>7, <1>8, <2>2, <2>3, <2>7 DEF KeepsHart, CpuSet, PcSet, Places
  <2>9. a1 \in PageOf(cp.start) .. PageOf(cp.start + cp.len - 1)
    BY <1>11, <2>6, <2>7
  <2> QED  BY <1>1, <1>2, <1>4, <1>5, <1>6, <1>7, <1>11, <2>2, <2>6, <2>7, <2>8, <2>9, <2>10, CopyGoesKeeps
<1> QED  BY <1>12, <1>13

(* The check of the pages. *)
LEMMA ValidateKeeps ==
  ASSUME TrapIInv, usercopy_validate_range
  PROVE  TrapIInv'
<1>1. handler.cause = "none" /\ cpu.pc.at = "validate" /\ UNCHANGED <<mapping, probe, copy, bytes>>
  BY DEF usercopy_validate_range, InCode, Handling, cvars
<1>2. PICK c \in Context, t \in KThreads :
           /\ c = Saved /\ t = current /\ Good(t, c) /\ InCopy(t, c) /\ cpu.pc = c.pc /\ me = t
           /\ c = Active /\ end = copy[t].start + copy[t].len /\ copy[t].start \in Nat
           /\ copy[t].len \in Nat \ {0} /\ copy[t].start + copy[t].len < ADDR_MOD
           /\ copy[t] \in CopySet /\ (probe[t] = TRUE => c.pc.at = "copy")
  BY <1>1, RunningCopy
<1>3. PICK n, a1 : n = cpu.pc.n /\ a1 = cpu.a1
  OBVIOUS
<1>4. /\ n \in 1 .. Len(Program[t]) /\ Program[t][n] = "copy" /\ Did(t, calls[t], n)
      /\ sysframe[t] = NoRef /\ cpu.mode = "S" /\ cpu.sp = Ref(t, 0) /\ bytes[t] = {}
      /\ ~cpu.sum /\ Checked(copy[t])
      /\ a1 \in PageOf(copy[t].start) .. PageOf(copy[t].start + copy[t].len - 1)
  <2>1. c.sp = cpu.sp /\ c.sum = cpu.sum /\ c.spp = cpu.mode /\ c.a1 = a1 /\ c.pc.n = n
    BY <1>2, <1>3 DEF Saved
  <2> QED  BY <1>1, <1>2, <2>1 DEF InCopy, AtLine
<1>5. /\ Typed /\ cpu \in CpuSet /\ cpu.sum = FALSE /\ cpu.sie \in BOOLEAN /\ n \in Nat /\ probe[t] # TRUE
      /\ probe \in [KThreads -> BOOLEAN] /\ copy \in [KThreads -> CopySet]
      /\ bytes \in [KThreads -> SUBSET Nat]
  <2>1. Typed /\ cpu \in CpuSet
    BY DEF TrapIInv, Typed
  <2>2. n \in Nat
    BY <1>3, <2>1 DEF CpuSet, PcSet
  <2>3. probe[t] # TRUE
    BY <1>1, <1>2
  <2> QED  BY <1>4, <2>1, <2>2, <2>3 DEF CpuSet, Typed
<1>6. CASE Finish(Done("invalid"))
  <2>1. PICK r : r = "invalid"
    OBVIOUS
  <2>2. PICK e : e = [cpu EXCEPT !.pc = Pc(t, "thread", n + 1), !.a0 = r, !.a1 = 0, !.sum = FALSE,
                                 !.sie = cpu.sie]
    OBVIOUS
  <2>3. Done(r) = e /\ e.a0 = r
    BY <1>2, <1>3, <1>5, <2>2 DEF Done, CpuSet
  <2>4. /\ cpu' = e /\ want' = [want EXCEPT ![t] = r]
        /\ UNCHANGED <<frames, handler, sysframe, current, state, trap_frame, crashed, calls>>
    BY <1>2, <1>6, <2>1, <2>3 DEF Finish, Retire
  <2>5. CopyTruth(t, r)' /\ bytes'[t] \subseteq UserByte /\ r \in Values
    BY <1>1, <1>4, <2>1 DEF CopyTruth, Values
  <2>6. KeepsHart /\ cpu'.sum = FALSE /\ cpu'.a0 = r /\ cpu'.pc = Pc(t, "thread", n + 1)
    <3>1. Pc(t, "thread", n + 1) \in PcSet
      BY <1>5, ThreadFacts DEF Pc, PcSet, Places
    <3> QED  BY <1>5, <2>2, <2>4, <2>5, <3>1 DEF KeepsHart, CpuSet
  <2> QED  BY <1>1, <1>2, <1>3, <1>4, <1>5, <2>4, <2>5, <2>6, CopyReturnKeeps
<1>7. /\ PageOf(copy[t].start) \in Nat /\ PageOf(copy[t].start + copy[t].len - 1) \in Nat
  <2>1. copy[t].start + copy[t].len - 1 \in Nat /\ copy[t].start <= copy[t].start + copy[t].len - 1
    BY <1>2
  <2> QED  BY <1>2, <2>1, PageFacts
<1>8. ASSUME NEW at \in {"validate", "begin"}, NEW b \in Nat, Goes(at, b),
             at = "validate" => b \in PageOf(copy[t].start) .. PageOf(copy[t].start + copy[t].len - 1)
      PROVE  TrapIInv'
  <2>1. /\ cpu' = [cpu EXCEPT !.pc.at = at, !.a1 = b] /\ want' = want
        /\ UNCHANGED <<frames, handler, sysframe, current, state, trap_frame, crashed, calls>>
    BY <1>8 DEF Goes, Retire
  <2>2. KeepsHart /\ cpu'.pc.t = t /\ cpu'.pc.n = n /\ cpu'.pc.at = at /\ cpu'.a1 = b /\ ~cpu'.sum
    BY <1>2, <1>3, <1>5, <2>1 DEF KeepsHart, CpuSet, PcSet, Places, me
  <2>3. PICK cp : cp = copy[t]
    OBVIOUS
  <2>4. copy'[t] = cp /\ Checked(cp)
    BY <1>1, <1>4, <2>3
  <2>5. at = "validate" => b \in PageOf(cp.start) .. PageOf(cp.start + cp.len - 1)
    BY <1>8, <2>3
  <2>6. /\ bytes'[t] = {} /\ probe'[t] # TRUE /\ at \in {"validate", "begin"}
        /\ probe' \in [KThreads -> BOOLEAN] /\ copy' \in [KThreads -> CopySet]
        /\ bytes' \in [KThreads -> SUBSET Nat] /\ n = cpu.pc.n /\ cpu.sie \in BOOLEAN
        /\ \A u \in KThreads : copy'[u] = copy[u] /\ bytes'[u] = bytes[u] /\ probe'[u] = probe[u]
    BY <1>1, <1>3, <1>4, <1>5, <1>8
  <2> QED  BY <1>1, <1>2, <1>4, <1>5, <2>1, <2>2, <2>4, <2>5, <2>6, CopyGoesKeeps
<1>9. CASE cpu.a1 = PageOf(end - 1) /\ Goes("begin", 0)
  BY <1>8, <1>9
<1>10. CASE cpu.a1 # PageOf(end - 1) /\ Goes("validate", cpu.a1 + 1)
  <2>1. a1 + 1 \in Nat /\ a1 + 1 \in PageOf(copy[t].start) .. PageOf(copy[t].start + copy[t].len - 1)
    <3>1. a1 # PageOf(copy[t].start + copy[t].len - 1)
      BY <1>2, <1>3, <1>10
    <3> QED  BY <1>4, <1>7, <3>1
  <2> QED  BY <1>3, <1>8, <1>10, <2>1
<1> QED  BY <1>6, <1>9, <1>10 DEF usercopy_validate_range

(* The context of a copy call as the hart has it. *)
LEMMA CopyRegisters ==
  ASSUME TrapIInv, NEW t \in KThreads, NEW c \in Context, c = Saved, InCopy(t, c), NEW n, n = cpu.pc.n
  PROVE  /\ n \in Nat /\ n \in 1 .. Len(Program[t]) /\ Program[t][n] = "copy" /\ Did(t, calls[t], n)
         /\ sysframe[t] = NoRef /\ cpu.mode = "S" /\ cpu.sp = Ref(t, 0) /\ Checked(copy[t])
         /\ c.a1 = cpu.a1 /\ c.sum = cpu.sum /\ c.spie = cpu.sie /\ c.pc = cpu.pc
         /\ Typed /\ cpu \in CpuSet /\ probe \in [KThreads -> BOOLEAN]
         /\ copy \in [KThreads -> CopySet] /\ bytes \in [KThreads -> SUBSET Nat]
<1>1. /\ c.sp = cpu.sp /\ c.sum = cpu.sum /\ c.spp = cpu.mode /\ c.a1 = cpu.a1 /\ c.pc = cpu.pc
      /\ c.spie = cpu.sie /\ c.pc.n = n
  BY DEF Saved
<1>2. n \in Nat
  BY <1>1 DEF Context, PcSet
<1>3. /\ Typed /\ cpu \in CpuSet /\ probe \in [KThreads -> BOOLEAN]
      /\ copy \in [KThreads -> CopySet] /\ bytes \in [KThreads -> SUBSET Nat]
  BY DEF TrapIInv, Typed
<1> QED  BY <1>1, <1>2, <1>3 DEF InCopy, AtLine

(* The copy loop starts masked and with the probe armed, *)
LEMMA CopyBeginKeeps ==
  ASSUME TrapIInv, probed_copy_bytes
  PROVE  TrapIInv'
<1>1. handler.cause = "none" /\ cpu.pc.at = "begin" /\ UNCHANGED <<mapping, bytes>>
  BY DEF probed_copy_bytes, InCode, Handling
<1>2. PICK c \in Context, t \in KThreads :
           /\ c = Saved /\ t = current /\ Good(t, c) /\ InCopy(t, c) /\ cpu.pc = c.pc /\ me = t
           /\ c = Active /\ end = copy[t].start + copy[t].len /\ copy[t].start \in Nat
           /\ copy[t].len \in Nat \ {0} /\ copy[t].start + copy[t].len < ADDR_MOD
           /\ copy[t] \in CopySet /\ (probe[t] = TRUE => c.pc.at = "copy")
  BY <1>1, RunningCopy
<1>3. PICK n : n = cpu.pc.n
  OBVIOUS
<1>4. /\ n \in Nat /\ n \in 1 .. Len(Program[t]) /\ Program[t][n] = "copy" /\ Did(t, calls[t], n)
      /\ sysframe[t] = NoRef /\ cpu.mode = "S" /\ cpu.sp = Ref(t, 0) /\ Checked(copy[t])
      /\ c.a1 = cpu.a1 /\ c.sum = cpu.sum /\ c.spie = cpu.sie /\ c.pc = cpu.pc
      /\ Typed /\ cpu \in CpuSet /\ probe \in [KThreads -> BOOLEAN]
      /\ copy \in [KThreads -> CopySet] /\ bytes \in [KThreads -> SUBSET Nat]
  BY <1>2, <1>3, CopyRegisters
<1>5. /\ ~probe[me] /\ bytes[t] = {}
  BY <1>1, <1>2, <1>4 DEF InCopy
<1>6. PICK a1 : a1 = copy[t].start
  OBVIOUS
<1>7. /\ probe' = [probe EXCEPT ![t] = TRUE] /\ copy' = [copy EXCEPT ![t].sie = cpu.sie]
      /\ cpu' = [cpu EXCEPT !.pc.at = "copy", !.a1 = a1, !.sie = FALSE, !.sum = TRUE]
      /\ UNCHANGED <<frames, handler, sysframe, current, state, trap_frame, crashed, calls, want>>
  BY <1>2, <1>5, <1>6 DEF probed_copy_bytes, thread_usercopy_probe_begin, Retire, mycopy
<1>8. /\ KeepsHart /\ cpu'.pc.t = t /\ cpu'.pc.n = n /\ cpu'.pc.at = "copy" /\ cpu'.a1 = a1
      /\ ~cpu'.sie /\ cpu'.sum
  BY <1>2, <1>3, <1>4, <1>6, <1>7 DEF KeepsHart, CpuSet, PcSet, Places, me
<1>9. PICK cp : cp = [copy[t] EXCEPT !.sie = cpu.sie]
  OBVIOUS
<1>10. cp \in CopySet /\ cp.start = copy[t].start /\ cp.len = copy[t].len
  BY <1>2, <1>4, <1>9 DEF CopySet, CopyRecord, CpuSet
<1>11. /\ copy'[t] = cp /\ copy' \in [KThreads -> CopySet] /\ probe' \in [KThreads -> BOOLEAN]
       /\ probe'[t] = TRUE
       /\ \A u \in KThreads : u # t => copy'[u] = copy[u] /\ probe'[u] = probe[u]
  BY <1>4, <1>7, <1>9, <1>10
<1>12. Checked(cp)
  BY <1>4, <1>10 DEF Checked
<1>13. /\ a1 \in Nat /\ cp.start .. a1 - 1 = {} /\ a1 \in cp.start .. cp.start + cp.len
  BY <1>2, <1>6, <1>10
<1>moved. PICK moved : moved = cp.start .. a1 - 1
  OBVIOUS
<1>14. /\ bytes'[t] = moved /\ bytes' \in [KThreads -> SUBSET Nat]
       /\ \A u \in KThreads : bytes'[u] = bytes[u]
  BY <1>1, <1>4, <1>5, <1>13, <1>moved
<1>15. /\ handler.cause = "none" /\ t = current /\ t = me
       /\ n \in Nat /\ n = cpu.pc.n /\ n \in 1 .. Len(Program[t]) /\ Program[t][n] = "copy"
       /\ Did(t, calls[t], n) /\ sysframe[t] = NoRef /\ cpu.mode = "S" /\ cpu.sp = Ref(t, 0)
  BY <1>1, <1>2, <1>3, <1>4
<1>16. /\ a1 \in Nat /\ KeepsHart /\ cpu'.pc.t = t
       /\ cpu'.pc.n = n /\ cpu'.pc.at = "copy" /\ cpu'.a1 = a1
       /\ UNCHANGED <<frames, handler, sysframe, current, state, trap_frame, crashed, calls, want>>
  BY <1>7, <1>8, <1>13
<1>17. /\ copy'[t] = cp /\ Checked(cp)
       /\ ~cpu'.sie /\ cpu'.sum /\ bytes'[t] = moved /\ moved = cp.start .. a1 - 1
       /\ probe'[t] = TRUE
  BY  <1>8, <1>11, <1>12, <1>13, <1>14, <1>moved
<1>18. /\ a1 \in cp.start .. cp.start + cp.len
       /\ probe' \in [KThreads -> BOOLEAN]
       /\ copy' \in [KThreads -> CopySet] /\ bytes' \in [KThreads -> SUBSET Nat]
       /\ \A u \in KThreads : u # t => copy'[u] = copy[u] /\ bytes'[u] = bytes[u] /\ probe'[u] = probe[u]
  BY  <1>8, <1>11, <1>12, <1>13, <1>14
<1> QED  BY <1>15, <1>16, <1>17, <1>18, LoopKeeps

(* moves one byte after the other *)
LEMMA CopyByteKeeps ==
  ASSUME TrapIInv, CopyByte
  PROVE  TrapIInv'
<1>1. handler.cause = "none" /\ cpu.pc.at = "copy" /\ UNCHANGED <<mapping, probe, copy>> /\ cpu.a1 # end
  BY DEF CopyByte, InCode, Handling
<1>2. PICK c \in Context, t \in KThreads :
           /\ c = Saved /\ t = current /\ Good(t, c) /\ InCopy(t, c) /\ cpu.pc = c.pc /\ me = t
           /\ c = Active /\ end = copy[t].start + copy[t].len /\ copy[t].start \in Nat
           /\ copy[t].len \in Nat \ {0} /\ copy[t].start + copy[t].len < ADDR_MOD
           /\ copy[t] \in CopySet /\ (probe[t] = TRUE => c.pc.at = "copy")
  BY <1>1, RunningCopy
<1>3. PICK n, a, cp : n = cpu.pc.n /\ a = cpu.a1 /\ cp = copy[t]
  OBVIOUS
<1>4. /\ n \in Nat /\ n \in 1 .. Len(Program[t]) /\ Program[t][n] = "copy" /\ Did(t, calls[t], n)
      /\ sysframe[t] = NoRef /\ cpu.mode = "S" /\ cpu.sp = Ref(t, 0) /\ Checked(cp)
      /\ c.a1 = cpu.a1 /\ c.sum = cpu.sum /\ c.spie = cpu.sie /\ c.pc = cpu.pc
      /\ Typed /\ cpu \in CpuSet /\ probe \in [KThreads -> BOOLEAN]
      /\ copy \in [KThreads -> CopySet] /\ bytes \in [KThreads -> SUBSET Nat]
  BY <1>2, <1>3, CopyRegisters
<1>5. /\ bytes[t] = cp.start .. a - 1 /\ a \in cp.start .. cp.start + cp.len /\ probe[t] = TRUE
      /\ ~cpu.sie /\ cpu.sum
  BY <1>1, <1>2, <1>3, <1>4 DEF InCopy
<1>6. /\ a \in Nat /\ (a + 1) % ADDR_MOD = a + 1 /\ a + 1 \in Nat
      /\ a + 1 \in cp.start .. cp.start + cp.len /\ cp.start .. a = (cp.start .. a - 1) \cup {a}
      /\ a + 1 - 1 = a
  <2>1. a \in Nat /\ cp.start \in Nat /\ cp.len \in Nat /\ cp.start <= a /\ a < cp.start + cp.len
    BY <1>1, <1>2, <1>3, <1>5
  <2>2. ADDR_MOD \in Nat /\ a + 1 < ADDR_MOD /\ a + 1 \in Nat
    BY <1>2, <1>3, <2>1, Layout
  <2>3. (a + 1) % ADDR_MOD = a + 1
    BY <2>2
  <2> QED  BY <2>1, <2>2, <2>3
<1>7. /\ cpu' = [cpu EXCEPT !.pc.at = "copy", !.a1 = a + 1] /\ want' = want
      /\ bytes' = [bytes EXCEPT ![t] = @ \cup {a}]
      /\ UNCHANGED <<frames, handler, sysframe, current, state, trap_frame, crashed, calls>>
  BY <1>2, <1>3, <1>6 DEF CopyByte, Goes, Retire
<1>8. PICK b, moved : b = a + 1 /\ moved = cp.start .. b - 1
  OBVIOUS
<1>9. /\ KeepsHart /\ cpu'.pc.t = t /\ cpu'.pc.n = n /\ cpu'.pc.at = "copy" /\ cpu'.a1 = b
      /\ cpu'.sie = cpu.sie /\ cpu'.sum = cpu.sum /\ b \in Nat
  <2>1. b \in Nat /\ cpu' = [cpu EXCEPT !.pc.at = "copy", !.a1 = b]
    BY <1>6, <1>7, <1>8
  <2> QED  BY <1>2, <1>3, <1>4, <2>1 DEF KeepsHart, CpuSet, PcSet, Places, me
<1>10. /\ bytes'[t] = moved /\ bytes' \in [KThreads -> SUBSET Nat]
       /\ \A u \in KThreads : u # t => bytes'[u] = bytes[u]
  <2>1. bytes'[t] = cp.start .. a
    BY <1>4, <1>5, <1>6, <1>7
  <2>2. b - 1 = a
    BY <1>6, <1>8
  <2>3. bytes'[t] = moved
    BY <1>8, <2>1, <2>2
  <2> QED  BY <1>4, <1>6, <1>7, <2>3
<1>11. b \in cp.start .. cp.start + cp.len /\ ~cpu'.sie /\ cpu'.sum
  <2>1. cpu.sie \in BOOLEAN /\ cpu.sum \in BOOLEAN
    BY <1>4 DEF CpuSet
  <2> QED  BY <1>5, <1>6, <1>8, <1>9, <2>1
<1>12. /\ copy'[t] = cp /\ probe'[t] = TRUE /\ copy' \in [KThreads -> CopySet]
       /\ probe' \in [KThreads -> BOOLEAN]
       /\ \A u \in KThreads : copy'[u] = copy[u] /\ probe'[u] = probe[u]
  BY <1>1, <1>3, <1>4, <1>5
<1>13. /\ handler.cause = "none" /\ t = current /\ t = me
       /\ n \in Nat /\ n = cpu.pc.n /\ n \in 1 .. Len(Program[t]) /\ Program[t][n] = "copy"
       /\ Did(t, calls[t], n) /\ sysframe[t] = NoRef /\ cpu.mode = "S" /\ cpu.sp = Ref(t, 0)
  BY <1>1, <1>2, <1>3, <1>4
<1>14. /\ b \in Nat /\ KeepsHart /\ cpu'.pc.t = t
       /\ cpu'.pc.n = n /\ cpu'.pc.at = "copy" /\ cpu'.a1 = b
       /\ UNCHANGED <<frames, handler, sysframe, current, state, trap_frame, crashed, calls, want>>
  BY <1>7, <1>9
<1>15. /\ copy'[t] = cp /\ Checked(cp)
       /\ ~cpu'.sie /\ cpu'.sum /\ bytes'[t] = moved /\ moved = cp.start .. b - 1
       /\ probe'[t] = TRUE
  BY <1>4, <1>8, <1>10, <1>11, <1>12
<1>16. /\ b \in cp.start .. cp.start + cp.len
       /\ probe' \in [KThreads -> BOOLEAN]
       /\ copy' \in [KThreads -> CopySet] /\ bytes' \in [KThreads -> SUBSET Nat]
       /\ \A u \in KThreads : u # t => copy'[u] = copy[u] /\ bytes'[u] = bytes[u] /\ probe'[u] = probe[u]
  BY <1>10, <1>11, <1>12
<1> QED  BY <1>13, <1>14, <1>15, <1>16, LoopKeeps

(* and ends at the end of the range, or in its fixup code after a fault. *)
LEMMA CopyEndKeeps ==
  ASSUME TrapIInv, CopyDone \/ CopyFixup
  PROVE  TrapIInv'
<1>1. handler.cause = "none" /\ cpu.pc.at \in {"copy", "fixup"} /\ UNCHANGED <<mapping, copy, bytes>>
  BY DEF CopyDone, CopyFixup, InCode, Handling
<1>2. PICK c \in Context, t \in KThreads :
           /\ c = Saved /\ t = current /\ Good(t, c) /\ InCopy(t, c) /\ cpu.pc = c.pc /\ me = t
           /\ c = Active /\ end = copy[t].start + copy[t].len /\ copy[t].start \in Nat
           /\ copy[t].len \in Nat \ {0} /\ copy[t].start + copy[t].len < ADDR_MOD
           /\ copy[t] \in CopySet /\ (probe[t] = TRUE => c.pc.at = "copy")
  BY <1>1, RunningCopy
<1>3. PICK n, a, cp : n = cpu.pc.n /\ a = cpu.a1 /\ cp = copy[t]
  OBVIOUS
<1>4. /\ n \in Nat /\ n \in 1 .. Len(Program[t]) /\ Program[t][n] = "copy" /\ Did(t, calls[t], n)
      /\ sysframe[t] = NoRef /\ cpu.mode = "S" /\ cpu.sp = Ref(t, 0) /\ Checked(cp)
      /\ c.a1 = cpu.a1 /\ c.sum = cpu.sum /\ c.spie = cpu.sie /\ c.pc = cpu.pc
      /\ Typed /\ cpu \in CpuSet /\ probe \in [KThreads -> BOOLEAN]
      /\ copy \in [KThreads -> CopySet] /\ bytes \in [KThreads -> SUBSET Nat]
  BY <1>2, <1>3, CopyRegisters
<1>5. /\ bytes[t] = cp.start .. a - 1
      /\ cpu.pc.at = "fixup" => a \in cp.start .. cp.start + cp.len - 1
  BY <1>1, <1>2, <1>3, <1>4 DEF InCopy, Bytes
<1>rigid. PICK r : r = IF CopyDone THEN "ok" ELSE "fault"
  OBVIOUS
<1>6. /\ Finish([Done(r) EXCEPT !.sie = cp.sie]) /\ thread_usercopy_probe_end /\ r \in Values
      /\ (r = "ok" /\ a = cp.start + cp.len) \/ (r = "fault" /\ cpu.pc.at = "fixup")
  <2>1. mycopy = cp
    BY <1>2, <1>3 DEF mycopy
  <2>2. CASE CopyDone
    <3>1. r = "ok" /\ a = cp.start + cp.len
      BY <1>2, <1>3, <1>rigid, <2>2 DEF CopyDone
    <3>2. Finish([Done(r) EXCEPT !.sie = cp.sie]) /\ thread_usercopy_probe_end
      BY <2>1, <2>2, <3>1 DEF CopyDone, OK
    <3>3. r \in Values
      BY <3>1 DEF Values
    <3> QED  BY <3>1, <3>2, <3>3
  <2>3. CASE ~CopyDone
    <3>1. r = "fault" /\ cpu.pc.at = "fixup"
      BY <1>rigid, <2>3 DEF CopyFixup, InCode
    <3>2. Finish([Done(r) EXCEPT !.sie = cp.sie]) /\ thread_usercopy_probe_end
      BY <2>1, <2>3, <3>1 DEF CopyFixup, FixupResult
    <3> QED  BY <3>1, <3>2 DEF Values
  <2> QED  BY <2>2, <2>3
<1>7. bytes[t] \subseteq UserByte /\ CopyTruth(t, r)
  <2>1. cp.start .. cp.start + cp.len - 1 \subseteq UserByte /\ cp.start \in Nat /\ cp.len \in Nat
    BY <1>2, <1>3, <1>4 DEF Checked
  <2>2. CASE r = "ok" /\ a = cp.start + cp.len
    BY <1>3, <1>5, <2>1, <2>2 DEF CopyTruth, Bytes
  <2>3. CASE r = "fault" /\ a \in cp.start .. cp.start + cp.len - 1
    <3>1. CopyTruth(t, r)
      BY <1>3, <1>5, <2>1, <2>3 DEF CopyTruth, Bytes
    <3>2. cp.start .. a - 1 \subseteq cp.start .. cp.start + cp.len - 1
      BY <2>1, <2>3
    <3> QED  BY <1>5, <2>1, <3>1, <3>2
  <2> QED  BY <1>5, <1>6, <2>2, <2>3
<1>8. PICK e : e = [cpu EXCEPT !.pc = Pc(t, "thread", n + 1), !.a0 = r, !.a1 = 0, !.sum = FALSE,
                               !.sie = cp.sie]
  OBVIOUS
<1>9. [Done(r) EXCEPT !.sie = cp.sie] = e /\ e.a0 = r
  BY <1>2, <1>3, <1>4, <1>8 DEF Done, CpuSet
<1>10. /\ cpu' = e /\ want' = [want EXCEPT ![t] = r] /\ probe' = [probe EXCEPT ![t] = FALSE]
       /\ UNCHANGED <<frames, handler, sysframe, current, state, trap_frame, crashed, calls>>
  BY <1>2, <1>6, <1>9 DEF Finish, Retire, thread_usercopy_probe_end
<1>11. KeepsHart /\ cpu'.sum = FALSE /\ cpu'.a0 = r /\ cpu'.pc = Pc(t, "thread", n + 1)
  <2>1. Pc(t, "thread", n + 1) \in PcSet
    BY <1>4, ThreadFacts DEF Pc, PcSet, Places
  <2>2. cp.sie \in BOOLEAN
    BY <1>2, <1>3 DEF CopySet, CopyRecord
  <2>3. r \in Values /\ cpu' = e /\ cpu \in CpuSet
    BY <1>4, <1>6, <1>10
  <2> QED  BY <1>8, <2>1, <2>2, <2>3 DEF KeepsHart, CpuSet
<1>12. CopyTruth(t, r)' /\ bytes'[t] \subseteq UserByte
  BY <1>1, <1>7 DEF CopyTruth, Bytes
<1>13. /\ probe' \in [KThreads -> BOOLEAN] /\ probe'[t] # TRUE
       /\ copy' \in [KThreads -> CopySet] /\ bytes' \in [KThreads -> SUBSET Nat]
       /\ \A u \in KThreads : u # t => copy'[u] = copy[u] /\ bytes'[u] = bytes[u] /\ probe'[u] = probe[u]
  BY <1>1, <1>4, <1>10
<1>14. r \in Values
  BY <1>6
<1>15. /\ handler.cause = "none" /\ t \in KThreads /\ t = current /\ t = me
       /\ n \in Nat /\ n = cpu.pc.n /\ n \in 1 .. Len(Program[t]) /\ Program[t][n] = "copy"
       /\ Did(t, calls[t], n) /\ sysframe[t] = NoRef /\ cpu.mode = "S" /\ cpu.sp = Ref(t, 0)
  BY <1>1, <1>2, <1>3, <1>4
<1>16. /\ UNCHANGED <<frames, handler, sysframe, current, state, trap_frame, crashed, calls>>
       /\ want' = [want EXCEPT ![t] = r]
  BY <1>10
<1> QED  BY <1>11, <1>12, <1>13, <1>14, <1>15, <1>16, CopyReturnKeeps

(* A fault of the copy loop is always recovered. *)
LEMMA FaultKeeps ==
  ASSUME TrapIInv, HandleFault
  PROVE  TrapIInv'
<1>1. handler.cause = "fault"
  BY DEF HandleFault, Handling
<1>2. PICK c \in Context, t \in Thread, d \in {0, 1} :
           /\ c = FrameAt(handler.frame) /\ c = Active /\ t = current /\ Good(t, c)
           /\ handler.frame = Ref(t, d) /\ (c.spp = "U" <=> d = 0) /\ d \in 0 .. MaxDepth
           /\ handler.frame = Home(t, c) /\ c = frames[t][d]
  BY <1>1, HandlerFrame
<1>3. PICK cp : cp = copy[t]
  OBVIOUS
<1>4. /\ c.pc.at = "copy" /\ c.a1 # cp.start + cp.len /\ cpu.mode = "S" /\ cpu.sie = FALSE
      /\ cpu.sum = c.sum
  BY <1>1, <1>2, <1>3 DEF TrapIInv, HandlerFits
<1>5. InCopy(t, c) /\ t \in KThreads /\ t # Idle
  <2>1. InCopy(t, c)
    BY <1>2, <1>4 DEF Good, InUser, InCall, InThread
  <2> QED  BY <2>1, ThreadFacts DEF InCopy
<1>6. /\ Checked(cp) /\ probe[t] = TRUE /\ c.a1 \in cp.start .. cp.start + cp.len
      /\ Typed /\ cp \in CopySet
  <2>1. Typed
    BY DEF TrapIInv
  <2>2. cp \in CopySet
    BY <1>3, <1>5, <2>1 DEF Typed
  <2> QED  BY <1>3, <1>4, <1>5, <2>1, <2>2 DEF InCopy
<1>7. c.a1 \in cp.start .. RangeEnd(cp.start, cp.len) - 1 /\ c.a1 \in cp.start .. cp.start + cp.len - 1
  <2>1. RangeEnd(cp.start, cp.len) = cp.start + cp.len /\ cp.start \in Nat /\ cp.len \in Nat \ {0}
    BY <1>6, CheckedEnd
  <2> QED  BY <1>4, <1>6, <2>1
<1>8. Recoverable(FrameAt(handler.frame))
  <2>1. FaultOf[cp.right] = cp.fault_cause
    BY <1>6 DEF CopySet
  <2> QED  BY <1>2, <1>3, <1>4, <1>5, <1>6, <1>7, <2>1 DEF Recoverable
<1>9. /\ frames' = [frames EXCEPT ![handler.frame[1]][handler.frame[2]].pc.at = "fixup"]
      /\ probe' = [probe EXCEPT ![t] = FALSE] /\ Return(handler.frame)
      /\ UNCHANGED <<crashed, cpu, sysframe, current, state, trap_frame, calls, want, mapping, copy, bytes>>
  BY <1>2, <1>8 DEF HandleFault
<1>10. PICK pc, f : pc = [c.pc EXCEPT !.at = "fixup"] /\ f = [c EXCEPT !.pc = pc]
  OBVIOUS
<1>11. /\ f \in Context /\ f.pc.t = c.pc.t /\ f.pc.n = c.pc.n /\ f.pc.at = "fixup" /\ f.sp = c.sp
       /\ f.a1 = c.a1 /\ f.spp = c.spp /\ f.spie = c.spie /\ f.sum = c.sum
  BY <1>10 DEF Context, PcSet, Places
<1>12. frames' = [frames EXCEPT ![t][d] = f]
  <2>1. handler.frame[1] = t /\ handler.frame[2] = d
    BY <1>2 DEF Ref
  <2>2. frames' = [frames EXCEPT ![t][d].pc.at = "fixup"]
    BY <1>9, <2>1
  <2>3. frames \in [Thread -> [0 .. MaxDepth -> Context]]
    BY <1>6 DEF Typed
  <2> QED  BY <1>2, <1>10, <2>2, <2>3
<1>13. InCopy(t, f)'
  BY <1>3, <1>4, <1>5, <1>7, <1>9, <1>11 DEF InCopy, AtLine, Bytes
<1>14. Good(t, f)'
  BY <1>2, <1>11, <1>13 DEF Good
<1>15. /\ probe' \in [KThreads -> BOOLEAN] /\ probe'[t] = FALSE
       /\ \A u \in KThreads : u # t => probe'[u] = probe[u]
  BY <1>5, <1>6, <1>9 DEF Typed
<1>16. \A u \in Thread : u # t => KeepsData(u)
  BY <1>9, <1>15 DEF KeepsData
<1>17. /\ sysframe' \in [Thread -> Sp] /\ calls' \in [Real -> Seq(Nat)] /\ want' \in [Real -> Values]
       /\ copy' \in [KThreads -> CopySet] /\ bytes' \in [KThreads -> SUBSET Nat]
  BY <1>6, <1>9 DEF Typed
<1>18. /\ handler' = [cause |-> "return", frame |-> Ref(t, d)] /\ Ref(t, d) = Home(t, f)
       /\ cpu.sum = f.sum
  BY <1>2, <1>4, <1>9, <1>11 DEF Return, Home
<1> QED  BY <1>2, <1>4, <1>9, <1>11, <1>12, <1>14, <1>15, <1>16, <1>17, <1>18, StayKeeps

(* Changing the mappings disturbs nobody's context. *)
LEMMA MappingKeeps ==
  ASSUME TrapIInv, ChangeMapping
  PROVE  TrapIInv'
<1>1. /\ InProgram /\ Instruction = "remap" /\ UNCHANGED <<probe, copy, bytes>>
      /\ Finish([cpu EXCEPT !.pc = Goto(cpu.pc.n + 1), !.a0 = OK])
  BY DEF ChangeMapping
<1>2. cpu \in CpuSet /\ OK \in Values
  BY DEF TrapIInv, Typed, OK, Values
<1>3. PICK e : e = [cpu EXCEPT !.pc = Goto(cpu.pc.n + 1), !.sie = cpu.sie, !.a0 = OK]
  OBVIOUS
<1>4. [cpu EXCEPT !.pc = Goto(cpu.pc.n + 1), !.a0 = OK] = e /\ e.a0 = OK /\ cpu.sie \in BOOLEAN
  BY <1>2, <1>3 DEF CpuSet
<1>5. Retire(e) /\ want' = [want EXCEPT ![cpu.pc.t] = OK]
  BY <1>1, <1>4 DEF Finish, me
<1> QED  BY <1>1, <1>2, <1>3, <1>4, <1>5, AdvanceKeeps

(* Every step of the kernel keeps the invariant. *)
LEMMA NextKeeps ==
  ASSUME TrapIInv, UsercopyNext
  PROVE  TrapIInv'
<1>1. CASE TrapNext /\ Forget /\ UNCHANGED <<mapping, probe>>
  BY <1>1, TrapStepKeeps
<1>2. CASE PageFault
  <2>1. UNCHANGED <<probe, copy, bytes>>
    BY <1>2 DEF PageFault, cvars
  <2> QED  BY <1>2, <2>1, TrapsKeep
<1> QED  BY <1>1, <1>2, CopyCallKeeps, ValidateKeeps, CopyBeginKeeps, CopyByteKeeps, CopyEndKeeps,
            FaultKeeps, MappingKeeps DEF UsercopyNext, CopyStep

(* So does a step of something else. *)
LEMMA StutterKeeps ==
  ASSUME TrapIInv, UNCHANGED copyvars
  PROVE  TrapIInv'
<1>1. UNCHANGED <<cpu, frames, handler, sysframe, current, state, trap_frame, crashed, calls, want,
                  mapping, probe, copy, bytes>>
  BY DEF copyvars, pvars, cvars
<1>2. Typed' /\ crashed' = FALSE /\ state'[current'] = "RUNNING"
  BY <1>1 DEF TrapIInv, Typed
<1>3. RegistersFitMode'
  BY <1>1 DEF TrapIInv, RegistersFitMode
<1>4. PICK a : a = Active
  OBVIOUS
<1>5. Active' = a
  BY <1>1, <1>4 DEF Active, Saved, FrameAt
<1>6. HandlerFits'
  BY <1>1, <1>4, <1>5 DEF TrapIInv, HandlerFits
<1>7. ASSUME NEW t \in Thread PROVE ThreadOK(t)'
  <2>1. PICK c : c = Ctx(t)
    OBVIOUS
  <2>2. Ctx(t)' = c
    BY <1>1, <1>4, <1>5, <2>1 DEF Ctx, FrameAt
  <2>3. ThreadOK(t)
    BY DEF TrapIInv
  <2>4. KeepsData(t)
    BY <1>1 DEF KeepsData
  <2>5. ASSUME Good(t, c) PROVE Good(t, c)'
    BY <1>1, <2>4, <2>5, GoodStays
  <2>6. state'[t] # "EXITED" => Good(t, Ctx(t))'
    BY <1>1, <2>1, <2>2, <2>3, <2>5 DEF ThreadOK
  <2>7. state'[t] = "EXITED" => t # Idle /\ Gone(t)'
    BY <1>1, <2>3 DEF ThreadOK, Gone
  <2>8. t # current' /\ state'[t] # "EXITED" => Parked(t)'
    BY <1>1, <2>3 DEF ThreadOK, Parked, ParkedAs, FrameAt
  <2>9. t \in KThreads /\ probe'[t] = TRUE => t = current' /\ Active'.pc.at = "copy"
    BY <1>1, <1>4, <1>5, <2>3 DEF ThreadOK
  <2> QED  BY <2>6, <2>7, <2>8, <2>9 DEF ThreadOK
<1> QED  BY <1>2, <1>3, <1>6, <1>7 DEF TrapIInv

(* No call is recorded before the first line. *)
LEMMA DidNothing ==
  ASSUME NEW t
  PROVE  Did(t, <<>>, 1)
BY DEF Did

(* The threads start in their programs. *)
LEMMA StartOK ==
  ASSUME UsercopyInit
  PROVE  TrapIInv
<1>1. /\ frames = [t \in Thread |-> [d \in 0 .. MaxDepth |->
           IF Ref(t, d) # InitialRef(t) THEN Dead
           ELSE IF t \in UThreads THEN Frame(Pc(t, "user", 1), "U", UserSp)
                                  ELSE Frame(Pc(t, "thread", 1), "S", Ref(t, 0))]]
      /\ trap_frame = [t \in Thread |-> InitialRef(t)]
      /\ state = [t \in Thread |-> IF t = current THEN "RUNNING" ELSE "READY"]
      /\ handler = [cause |-> "return", frame |-> InitialRef(current)]
      /\ current \in Real
  BY DEF UsercopyInit, TrapInit
<1>2. /\ cpu = [mode |-> "S", sie |-> FALSE, sum |-> FALSE, satp |-> KERNEL,
                stvec |-> "trap_entry", sscratch |-> "zero",
                pc |-> Pc(Idle, "boot", 0), a0 |-> OK, a1 |-> 0, sp |-> Ref(Idle, 0)]
      /\ sysframe = [t \in Thread |-> NoRef] /\ crashed = FALSE
      /\ calls = [t \in Real |-> <<>>] /\ want = [t \in Real |-> OK]
      /\ probe = [t \in KThreads |-> FALSE] /\ copy = [t \in KThreads |-> NoCopy]
      /\ bytes = [t \in KThreads |-> {}]
  BY DEF UsercopyInit, TrapInit
<1>3. ASSUME NEW t \in Thread
      PROVE  \E d \in {0, 1}, c \in Context :
               /\ InitialRef(t) = Ref(t, d) /\ d \in 0 .. MaxDepth /\ Ref(t, d) \in Sp
               /\ c = (IF t \in UThreads THEN Frame(Pc(t, "user", 1), "U", UserSp)
                                         ELSE Frame(Pc(t, "thread", 1), "S", Ref(t, 0)))
               /\ c = FrameAt(InitialRef(t)) /\ (c.spp = "U" <=> d = 0)
  <2>1. PICK d \in {0, 1} : /\ InitialRef(t) = Ref(t, d) /\ d \in 0 .. MaxDepth
                            /\ Ref(t, d) \in Sp /\ (t \in UThreads <=> d = 0)
    BY RefFacts DEF InitialRef
  <2>2. PICK c : c = IF t \in UThreads THEN Frame(Pc(t, "user", 1), "U", UserSp)
                                       ELSE Frame(Pc(t, "thread", 1), "S", Ref(t, 0))
    OBVIOUS
  <2>3. c \in Context /\ (c.spp = "U" <=> d = 0)
    <3>1. Pc(t, "user", 1) \in PcSet /\ Pc(t, "thread", 1) \in PcSet
      BY DEF Pc, PcSet, Places
    <3>2. UserSp \in Sp /\ Ref(t, 0) \in Sp /\ OK \in Values
      BY RefFacts DEF OK, Values
    <3> QED  BY <2>1, <2>2, <3>1, <3>2 DEF Frame, Context
  <2>4. Ref(t, d)[1] = t /\ Ref(t, d)[2] = d
    BY DEF Ref
  <2>5. FrameAt(InitialRef(t)) = c
    BY <1>1, <2>1, <2>2, <2>4 DEF FrameAt
  <2> QED  BY <2>1, <2>2, <2>3, <2>5
<1>4. ASSUME NEW t \in Thread, NEW d \in 0 .. MaxDepth PROVE frames[t][d] \in Context
  <2>1. Dead \in Context
    BY DeadContext
  <2>2. CASE Ref(t, d) # InitialRef(t)
    BY <1>1, <2>1, <2>2
  <2>3. CASE Ref(t, d) = InitialRef(t)
    <3>1. FrameAt(Ref(t, d)) \in Context
      BY <1>3, <2>3
    <3>2. Ref(t, d)[1] = t /\ Ref(t, d)[2] = d
      BY DEF Ref
    <3> QED  BY <3>1, <3>2 DEF FrameAt
  <2> QED  BY <2>2, <2>3
<1>5. Typed
  <2>1. current \in Thread /\ \A t \in Thread : InitialRef(t) \in Sp
    BY <1>1, <1>3, ThreadFacts DEF Thread
  <2>2. frames \in [Thread -> [0 .. MaxDepth -> Context]]
    BY <1>1, <1>4
  <2>3. cpu \in CpuSet
    <3>1. Pc(Idle, "boot", 0) \in PcSet /\ Ref(Idle, 0) \in Sp /\ OK \in Values
      BY RefFacts, ThreadFacts DEF Pc, PcSet, Places, OK, Values
    <3> QED  BY <1>2, <3>1 DEF CpuSet
  <2>4. NoCopy \in CopySet /\ OK \in Values /\ NoRef \in Sp
    BY RefFacts, CallFacts DEF NoCopy, CopyOps, OK, Values
  <2>5. handler \in [cause : Causes, frame : Sp]
    BY <1>1, <2>1 DEF Causes
  <2>6. /\ probe \in [KThreads -> BOOLEAN] /\ copy \in [KThreads -> CopySet]
        /\ bytes \in [KThreads -> SUBSET Nat] /\ calls \in [Real -> Seq(Nat)] /\ want \in [Real -> Values]
        /\ sysframe \in [Thread -> Sp]
    BY <1>2, <2>4
  <2>7. /\ trap_frame \in [Thread -> Sp]
        /\ state \in [Thread -> {"READY", "RUNNING", "SLEEP", "QUEUE", "EXITED"}]
    BY <1>1, <2>1
  <2> QED  BY <2>1, <2>2, <2>3, <2>5, <2>6, <2>7 DEF Typed
<1>6. ASSUME NEW t \in Thread
      PROVE  /\ Ctx(t) = FrameAt(InitialRef(t)) /\ Good(t, FrameAt(InitialRef(t)))
             /\ InitialRef(t) = Home(t, FrameAt(InitialRef(t)))
             /\ FrameAt(InitialRef(t)).sum = FALSE /\ FrameAt(InitialRef(t)).pc.at \in {"user", "thread"}
  <2>1. PICK d \in {0, 1}, c \in Context :
               /\ InitialRef(t) = Ref(t, d) /\ d \in 0 .. MaxDepth /\ Ref(t, d) \in Sp
               /\ c = (IF t \in UThreads THEN Frame(Pc(t, "user", 1), "U", UserSp)
                                         ELSE Frame(Pc(t, "thread", 1), "S", Ref(t, 0)))
               /\ c = FrameAt(InitialRef(t)) /\ (c.spp = "U" <=> d = 0)
    BY <1>3
  <2>2. /\ c.pc.t = t /\ c.pc.n = 1 /\ c.a0 = OK /\ c.sum = FALSE
        /\ c.pc.at = (IF t \in UThreads THEN "user" ELSE "thread")
        /\ c.spp = (IF t \in UThreads THEN "U" ELSE "S")
        /\ c.sp = (IF t \in UThreads THEN UserSp ELSE Ref(t, 0))
    BY <2>1 DEF Frame, Pc
  <2>3. AtLine(t, c)
    BY <2>2, FirstLine DEF AtLine
  <2>4. t \in Real => calls[t] = <<>> /\ want[t] = OK
    BY <1>2
  <2>5. t \in Real => Did(t, calls[t], 1)
    BY <2>4, DidNothing
  <2>6. InUser(t, c) \/ InThread(t, c)
    BY <1>2, <2>2, <2>3, <2>5, ThreadFacts DEF InUser, InThread
  <2>7. Good(t, c)
    BY <2>2, <2>4, <2>6, ThreadFacts DEF Good
  <2>8. Ctx(t) = FrameAt(InitialRef(t))
    BY <1>1 DEF Ctx, Active
  <2> QED  BY <2>1, <2>2, <2>7, <2>8 DEF Home
<1>7. current \in Thread /\ Active = Ctx(current) /\ state[current] = "RUNNING"
  BY <1>1, ThreadFacts DEF Ctx, Thread
<1>8. RegistersFitMode
  BY <1>2 DEF RegistersFitMode
<1>9. HandlerFits
  BY <1>1, <1>2, <1>6, <1>7 DEF HandlerFits
<1>10. ASSUME NEW t \in Thread PROVE ThreadOK(t)
  <2>1. state[t] # "EXITED" /\ (t # current => state[t] = "READY") /\ trap_frame[t] = InitialRef(t)
    BY <1>1
  <2>2. t # current => Parked(t)
    BY <1>6, <2>1 DEF Parked, ParkedAs
  <2>3. t \in KThreads => probe[t] # TRUE
    BY <1>2
  <2> QED  BY <1>6, <2>1, <2>2, <2>3 DEF ThreadOK
<1> QED  BY <1>2, <1>5, <1>7, <1>8, <1>9, <1>10 DEF TrapIInv

-----------------------------------------------------------------------------
(* What the invariant says of the code that runs. *)
LEMMA InvariantGivesTrapInv ==
  ASSUME TrapIInv
  PROVE  TrapInv
<1>1. Typed /\ crashed = FALSE /\ RegistersFitMode
  BY DEF TrapIInv
<1>2. TrapTypeOK
  BY <1>1 DEF Typed, TrapTypeOK, CpuSet, Causes
<1>3. NoTrapPanic
  BY <1>1 DEF NoTrapPanic
<1>4. ASSUME NEW t \in Real, state[t] \in {"READY", "SLEEP", "QUEUE"}
      PROVE  /\ FrameAt(trap_frame[t]).pc.t = t
             /\ FrameAt(trap_frame[t]).spp = "U" <=> trap_frame[t] = Ref(t, 0)
  <2>1. t \in Thread /\ ThreadOK(t) /\ t # current /\ state[t] # "EXITED"
    BY <1>4 DEF TrapIInv, Thread
  <2>2. PICK c : c = FrameAt(trap_frame[t])
    OBVIOUS
  <2>3. Good(t, c) /\ trap_frame[t] = Home(t, c)
    BY <2>1, <2>2 DEF ThreadOK, Ctx, Parked, ParkedAs
  <2>4. c.pc.t = t
    BY <2>3 DEF Good
  <2>5. Ref(t, 0) # Ref(t, 1)
    BY DEF Ref
  <2> QED  BY <2>2, <2>3, <2>4, <2>5 DEF Home
<1>5. ASSUME NEW t \in Real, sysframe[t] # NoRef
      PROVE  /\ sysframe[t] = Ref(t, 0)
             /\ FrameAt(sysframe[t]).pc = Pc(t, "user", calls[t][Len(calls[t])])
  <2>1. t \in Thread /\ ThreadOK(t)
    BY DEF TrapIInv, Thread
  <2>2. PICK c : c = Ctx(t)
    OBVIOUS
  <2>3. Good(t, c) /\ t # Idle
    BY <1>5, <2>1, <2>2, ThreadFacts DEF ThreadOK, Gone
  <2>4. InCall(t, c)
    BY <1>5, <2>3, ThreadFacts DEF Good, InUser, InThread, InCopy
  <2>5. PICK f : f = frames[t][0]
    OBVIOUS
  <2>6. /\ sysframe[t] = Ref(t, 0) /\ f.pc.t = t /\ f.pc.at = "user"
        /\ calls[t][Len(calls[t])] = f.pc.n
    BY <2>4, <2>5 DEF InCall
  <2>7. f \in Context
    <3>1. frames \in [Thread -> [0 .. MaxDepth -> Context]] /\ 0 \in 0 .. MaxDepth
      BY <1>1, RefFacts DEF Typed
    <3> QED  BY <2>1, <2>5, <3>1
  <2>8. f.pc = Pc(t, "user", f.pc.n)
    BY <2>6, <2>7 DEF Context, PcSet, Pc
  <2>9. FrameAt(sysframe[t]) = f
    BY <2>5, <2>6 DEF FrameAt, Ref
  <2> QED  BY <2>6, <2>8, <2>9
<1>6. SavedFrames
  BY <1>4, <1>5 DEF SavedFrames
<1> QED  BY <1>1, <1>2, <1>3, <1>6 DEF TrapInv

(* A thread that is in its program. *)
LEMMA ProgramContext ==
  ASSUME TrapIInv, InProgram, current # Idle
  PROVE  \E c \in Context, t \in Thread :
           /\ c = Saved /\ t = current /\ (InUser(t, c) \/ InThread(t, c))
           /\ cpu.pc = c.pc /\ cpu.pc.t = t /\ c.spp = cpu.mode /\ c.a0 = want[t]
           /\ c.sp = cpu.sp /\ c.a0 = cpu.a0
<1>1. handler.cause = "none" /\ cpu.pc.at \in {"user", "thread"}
  BY DEF InProgram, InCode, Handling
<1>2. PICK c \in Context, t \in Thread :
           /\ c = Saved /\ t = current /\ Good(t, c) /\ cpu.pc = c.pc /\ cpu.pc.t = t
           /\ c = Active /\ c.spp = cpu.mode
  BY <1>1, RunningCode
<1>3. (InUser(t, c) \/ InThread(t, c)) /\ c.a0 = want[t]
  BY <1>1, <1>2 DEF Good, InCall, InCopy
<1>4. c.sp = cpu.sp /\ c.a0 = cpu.a0
  BY <1>2 DEF Saved
<1> QED  BY <1>2, <1>3, <1>4

(* Its calls were carried out, and its context is its own. *)
LEMMA InvariantGivesContext ==
  ASSUME TrapIInv
  PROVE  TrapsOnce /\ ContextIntact
<1>1. SUFFICES ASSUME InProgram, current # Idle
               PROVE  /\ Did(current, calls[current], cpu.pc.n)
                      /\ cpu.pc.t = current /\ cpu.a0 = want[current]
                      /\ cpu.sp = IF cpu.mode = "U" THEN UserSp ELSE Ref(current, 0)
  BY DEF TrapsOnce, ContextIntact
<1>2. PICK c \in Context, t \in Thread :
           /\ c = Saved /\ t = current /\ (InUser(t, c) \/ InThread(t, c))
           /\ cpu.pc = c.pc /\ cpu.pc.t = t /\ c.spp = cpu.mode /\ c.a0 = want[t]
           /\ c.sp = cpu.sp /\ c.a0 = cpu.a0
  BY <1>1, ProgramContext
<1>3. t # Idle
  BY <1>1, <1>2
<1>4. CASE InUser(t, c)
  BY <1>2, <1>4 DEF InUser
<1>5. CASE InThread(t, c)
  BY <1>2, <1>3, <1>5 DEF InThread
<1> QED  BY <1>2, <1>4, <1>5

(* The hart works for the current thread, in the code of its context. *)
LEMMA PositionOfActive ==
  ASSUME TrapIInv
  PROVE  /\ Position = Active.pc /\ Position.t = current /\ Good(current, Active)
         /\ cpu.sum = Active.sum /\ current \in Thread
<1>1. current \in Thread /\ Good(current, Active)
  BY DEF TrapIInv, Typed, ThreadOK, Ctx
<1>2. Position = Active.pc /\ (handler.cause = "none" => Active.sum = cpu.sum)
  BY DEF Position, Active, Saved
<1>3. cpu.sum = Active.sum
  BY <1>2 DEF TrapIInv, HandlerFits
<1> QED  BY <1>1, <1>2, <1>3 DEF Good

(* The probe and SUM are set in the copy loop only. *)
LEMMA InvariantGivesProbe ==
  ASSUME TrapIInv
  PROVE  ProbeScoped
<1>1. /\ Position = Active.pc /\ Position.t = current /\ Good(current, Active)
      /\ cpu.sum = Active.sum /\ current \in Thread
  BY PositionOfActive
<1>2. PICK c, t : c = Active /\ t = current
  OBVIOUS
<1>3. ASSUME NEW u \in KThreads, probe[u]
      PROVE  current = u /\ ~cpu.sie /\ Position.t = u /\ Position.at = "copy"
  <2>1. probe[u] = TRUE /\ ThreadOK(u)
    BY <1>3, ThreadFacts DEF TrapIInv, Typed
  <2>2. u = t /\ c.pc.at = "copy"
    BY <1>2, <2>1 DEF ThreadOK
  <2>3. ~cpu.sie
    <3>1. ~c.spie
      BY <1>1, <1>2, <2>2 DEF Good, InUser, InCall, InThread, InCopy
    <3>2. CASE handler.cause = "none"
      BY <1>2, <3>1, <3>2 DEF Active, Saved
    <3>3. CASE handler.cause # "none"
      BY <3>3 DEF TrapIInv, HandlerFits
    <3> QED  BY <3>2, <3>3
  <2> QED  BY <1>1, <1>2, <2>2, <2>3
<1>4. ASSUME cpu.sum PROVE Position.at \in {"copy", "fixup"} /\ Position.t = current
  <2>1. c.sum
    BY <1>1, <1>2, <1>4
  <2>2. c.pc.at \in {"copy", "fixup"}
    BY <1>1, <1>2, <2>1 DEF Good, InUser, InCall, InThread, InCopy
  <2> QED  BY <1>1, <1>2, <2>2
<1> QED  BY <1>3, <1>4 DEF ProbeScoped

(* In a copy call past its bounds check the range is user memory. *)
LEMMA InvariantGivesRange ==
  ASSUME TrapIInv
  PROVE  RangeChecked
<1>1. SUFFICES ASSUME NEW t \in KThreads, Position.t = t,
                      Position.at \in {"validate", "begin", "copy", "fixup"}
               PROVE  Bytes(t) # {} /\ Bytes(t) \subseteq UserByte
  BY DEF RangeChecked
<1>2. /\ Position = Active.pc /\ Position.t = current /\ Good(current, Active)
  BY PositionOfActive
<1>3. Checked(copy[t])
  BY <1>1, <1>2 DEF Good, InUser, InCall, InThread, InCopy
<1>4. copy[t] \in CopySet
  BY DEF TrapIInv, Typed
<1>5. copy[t].start \in Nat /\ copy[t].len \in Nat \ {0}
  BY <1>3, <1>4, CheckedEnd
<1>6. copy[t].start \in Bytes(t)
  BY <1>5 DEF Bytes
<1> QED  BY <1>3, <1>6 DEF Checked, Bytes

(* Copy calls tell the truth, and move user memory only. *)
LEMMA InvariantGivesCopy ==
  ASSUME TrapIInv
  PROVE  CopyExact
<1>1. ASSUME NEW t \in KThreads PROVE bytes[t] \subseteq UserByte
  <2>1. t \in Thread /\ t # Idle /\ ThreadOK(t) /\ t \notin UThreads
    BY ThreadFacts DEF TrapIInv
  <2>2. CASE state[t] = "EXITED"
    BY <2>1, <2>2 DEF ThreadOK, Gone
  <2>3. CASE state[t] # "EXITED"
    <3>1. PICK c : c = Ctx(t)
      OBVIOUS
    <3>2. InThread(t, c) \/ InCopy(t, c)
      BY <2>1, <2>3, <3>1 DEF ThreadOK, Good, InUser, InCall
    <3>3. CASE InThread(t, c)
      BY <3>3 DEF InThread
    <3>4. CASE InCopy(t, c)
      <4>1. PICK cp, a : cp = copy[t] /\ a = c.a1
        OBVIOUS
      <4>2. cp \in CopySet /\ Checked(cp)
        BY <3>4, <4>1 DEF TrapIInv, Typed, InCopy
      <4>3. cp.start \in Nat /\ cp.len \in Nat /\ cp.start .. cp.start + cp.len - 1 \subseteq UserByte
        BY <4>2, CheckedEnd DEF Checked
      <4>4. \/ bytes[t] = {}
            \/ bytes[t] = cp.start .. a - 1 /\ a \in cp.start .. cp.start + cp.len
        BY <3>4, <4>1, <4>3 DEF InCopy, Bytes
      <4>5. a \in cp.start .. cp.start + cp.len => cp.start .. a - 1 \subseteq cp.start .. cp.start + cp.len - 1
        BY <4>3
      <4> QED  BY <4>3, <4>4, <4>5
    <3> QED  BY <3>2, <3>3, <3>4
  <2> QED  BY <2>2, <2>3
<1>2. ASSUME NEW t \in KThreads, Returned(t) PROVE CopyTruth(t, cpu.a0)
  <2>1. InProgram /\ current = t /\ cpu.pc.n > 1 /\ Program[t][cpu.pc.n - 1] = "copy" /\ t # Idle
    BY <1>2, ThreadFacts DEF Returned
  <2>2. PICK c \in Context, u \in Thread :
           /\ c = Saved /\ u = current /\ (InUser(u, c) \/ InThread(u, c))
           /\ cpu.pc = c.pc /\ cpu.pc.t = u /\ c.spp = cpu.mode /\ c.a0 = want[u]
           /\ c.sp = cpu.sp /\ c.a0 = cpu.a0
    BY <2>1, ProgramContext
  <2>3. u = t /\ InThread(t, c)
    BY <2>1, <2>2, ThreadFacts DEF InUser
  <2>4. c.pc.n > 1 /\ Program[t][c.pc.n - 1] = "copy"
    BY <2>1, <2>2
  <2> QED  BY <2>2, <2>3, <2>4 DEF InThread
<1>3. ASSUME NEW t \in KThreads, Returned(t)
      PROVE  CASE cpu.a0 = OK        -> bytes[t] = Bytes(t)
               [] cpu.a0 = "fault"   -> \E k \in Bytes(t) : bytes[t] = copy[t].start .. k - 1
               [] cpu.a0 = "invalid" -> bytes[t] = {}
  BY <1>2, <1>3 DEF CopyTruth, OK
<1> QED  BY <1>1, <1>3 DEF CopyExact

(* No trap and no code but the copy calls' ends one of them. *)
LEMMA TrapsAnswerNothing ==
  ASSUME TrapIInv, TrapNext, NEW t \in KThreads
  PROVE  ~Answers(t)
<1>1. SUFFICES ASSUME Answers(t) PROVE FALSE
  OBVIOUS
<1>2. /\ handler.cause = "none" /\ cpu.pc.t = t /\ cpu'.pc # cpu.pc
      /\ handler'.cause = "none" /\ cpu'.pc.at \in {"user", "thread"} /\ cpu'.pc.n > 1
      /\ Program[t][cpu'.pc.n - 1] = "copy"
  BY <1>1 DEF Answers, Returned, InProgram, InCode, Handling
<1>3. crashed = FALSE /\ cpu \in CpuSet
  BY DEF TrapIInv, Typed
<1>4. ASSUME NEW cause \in {"timer", "ecall", "ebreak"}, TrapEntry(cause) PROVE FALSE
  <2>1. EntersRight
    BY <1>2, EntryPlace
  <2>2. handler' = [cause |-> cause, frame |-> EntryRef]
    BY <1>4, <2>1 DEF TrapEntry
  <2> QED  BY <1>2, <2>2
<1>5. CASE TimerInterrupt \/ Ecall \/ Ebreak
  BY <1>4, <1>5 DEF TimerInterrupt, Ecall, Ebreak
<1>6. CASE Step \/ irq_save \/ irq_restore
  <2>1. PICK n : n = cpu.pc.n
    OBVIOUS
  <2>2. n \in Nat /\ Program[t][n] \in {"step", "mask", "unmask"} /\ cpu'.pc.n = n + 1
    BY <1>2, <1>3, <1>6, <2>1 DEF Step, irq_save, irq_restore, Retire, Goto, CpuSet, PcSet, Instruction
  <2>3. n + 1 - 1 = n
    BY <2>2
  <2> QED  BY <1>2, <2>2, <2>3
<1>7. CASE IdleLoop
  <2>1. cpu'.pc.n = 1
    BY <1>3, <1>7 DEF IdleLoop, Retire, Goto, CpuSet, PcSet
  <2> QED  BY <1>2, <2>1
<1>8. CASE Wake
  <2>1. cpu' = cpu
    BY <1>8 DEF Wake, wake_blocked_thread
  <2> QED  BY <1>2, <2>1
<1>9. CASE \/ HandleTimer \/ thread_handle_control_trap_from_trap \/ user_syscall_dispatch
           \/ trap_return_from_handler
  BY <1>2, <1>9 DEF HandleTimer, thread_handle_control_trap_from_trap, user_syscall_dispatch,
                    trap_return_from_handler, Handling
<1>10. CASE user_accel_syscall_memset
  <2>1. handler'.cause = "return"
    BY <1>10 DEF user_accel_syscall_memset, Return
  <2> QED  BY <1>2, <2>1
<1>11. CASE WaitAgain
  <2>1. cpu'.pc.at = "syscall"
    BY <1>3, <1>11 DEF WaitAgain, Retire, CpuSet, PcSet
  <2> QED  BY <1>2, <2>1
<1> QED  BY <1>5, <1>6, <1>7, <1>8, <1>9, <1>10, <1>11 DEF TrapNext

(* A copy call is refused for a reason. *)
LEMMA StepsRefuseJustly ==
  ASSUME TrapIInv, UsercopyNext
  PROVE  RefusalsJust
<1>1. SUFFICES ASSUME NEW t \in KThreads, Answers(t), cpu'.a0 = "invalid"
               PROVE  \E b \in Bytes(t)' : \/ b \notin UserByte
                                           \/ copy'[t].right \notin mapping[PageOf(b)]
  BY DEF RefusalsJust
<1>2. /\ handler.cause = "none" /\ cpu.pc.t = t /\ me = t /\ handler'.cause = "none"
      /\ cpu'.pc.at \in {"user", "thread"}
  BY <1>1 DEF Answers, Returned, InProgram, InCode, Handling, me
<1>3. /\ cpu \in CpuSet /\ copy \in [KThreads -> CopySet]
  BY DEF TrapIInv, Typed
<1>4. ASSUME NEW at \in {"validate", "begin", "copy"}, NEW b, Goes(at, b) PROVE FALSE
  <2>1. cpu'.pc.at = at
    BY <1>3, <1>4 DEF Goes, Retire, CpuSet, PcSet
  <2> QED  BY <1>2, <2>1
<1>5. ~TrapNext
  BY <1>1, TrapsAnswerNothing
<1>6. CASE copy_user
  <2>1. PICK args \in CopyArgs, op \in DOMAIN CopyOps :
          /\ IF args[2] = 0 \/ args[1] = 0 \/ ~usercopy_range_end(args[1], args[2])
                \/ ~user_space_va_range_is_valid(args[1], args[2])
             THEN Finish(Done(IF args[2] = 0 THEN OK ELSE "invalid"))
             ELSE Goes("validate", PageOf(args[1]))
          /\ copy' = [copy EXCEPT ![me] = CallOf(args[1], args[2], CopyOps[op])]
    BY <1>6 DEF copy_user
  <2>2. PICK start, len : start = args[1] /\ len = args[2]
    OBVIOUS
  <2>3. start \in Addr /\ len \in Addr
    BY <2>2, CopyAssumption
  <2>4. copy'[t].start = start /\ copy'[t].len = len
    BY <1>2, <1>3, <2>1, <2>2 DEF CallOf
  <2>5. /\ Finish(Done(IF len = 0 THEN OK ELSE "invalid"))
        /\ len = 0 \/ start = 0 \/ ~usercopy_range_end(start, len) \/ ~user_space_va_range_is_valid(start, len)
    BY <1>4, <2>1, <2>2
  <2>6. len # 0
    <3>1. SUFFICES ASSUME len = 0 PROVE FALSE
      OBVIOUS
    <3>2. cpu'.a0 = OK
      BY <1>3, <2>5, <3>1 DEF Finish, Done, Retire, CpuSet
    <3> QED  BY <1>1, <3>2 DEF OK
  <2>7. PICK b \in start .. start + len - 1 : b \notin UserByte
    BY <2>3, <2>5, <2>6, RangeRefused
  <2>8. b \in Bytes(t)'
    BY <2>4, <2>7 DEF Bytes
  <2> QED  BY <2>7, <2>8
<1>7. CASE usercopy_validate_range
  <2>1. cpu.pc.at = "validate" /\ copy' = copy
    BY <1>7 DEF usercopy_validate_range, InCode, cvars
  <2>2. mycopy.right \notin mapping[cpu.a1]
    BY <1>4, <1>7 DEF usercopy_validate_range
  <2>3. PICK c \in Context, u \in KThreads :
           /\ c = Saved /\ u = current /\ Good(u, c) /\ InCopy(u, c) /\ cpu.pc = c.pc /\ me = u
           /\ c = Active /\ end = copy[u].start + copy[u].len /\ copy[u].start \in Nat
           /\ copy[u].len \in Nat \ {0} /\ copy[u].start + copy[u].len < ADDR_MOD
           /\ copy[u] \in CopySet /\ (probe[u] = TRUE => c.pc.at = "copy")
    BY <1>2, <2>1, RunningCopy
  <2>4. u = t /\ c.a1 = cpu.a1 /\ mycopy = copy[t]
    BY <1>2, <2>3 DEF Saved, mycopy
  <2>5. PICK s, e, p : s = copy[t].start /\ e = copy[t].start + copy[t].len - 1 /\ p = cpu.a1
    OBVIOUS
  <2>6. s \in Nat /\ e \in Nat /\ s <= e
    BY <2>3, <2>4, <2>5
  <2>7. p \in PageOf(s) .. PageOf(e)
    BY <2>1, <2>3, <2>4, <2>5 DEF InCopy
  <2>8. PICK b \in s .. e : PageOf(b) = p
    BY <2>6, <2>7, PageFacts
  <2>9. b \in Bytes(t)'
    BY <2>1, <2>5, <2>8 DEF Bytes
  <2>10. copy'[t].right \notin mapping[PageOf(b)]
    BY <2>1, <2>2, <2>4, <2>5, <2>8
  <2> QED  BY <2>9, <2>10
<1>8. CASE probed_copy_bytes
  <2>1. cpu.pc.at = "begin"
    BY <1>8 DEF probed_copy_bytes, InCode
  <2>2. ~probe[me]
    <3>1. PICK c \in Context, u \in KThreads : /\ me = u /\ cpu.pc = c.pc
                                               /\ (probe[u] = TRUE => c.pc.at = "copy")
      BY <1>2, <2>1, RunningCopy
    <3>2. probe[u] \in BOOLEAN
      BY DEF TrapIInv, Typed
    <3> QED  BY <2>1, <3>1, <3>2
  <2>3. cpu'.pc.at = "copy"
    <3>1. cpu' = [cpu EXCEPT !.pc.at = "copy", !.a1 = mycopy.start, !.sie = FALSE, !.sum = TRUE]
      BY <1>8, <2>2 DEF probed_copy_bytes, Retire
    <3> QED  BY <1>3, <3>1 DEF CpuSet, PcSet
  <2> QED  BY <1>2, <2>3
<1>9. CASE CopyByte
  BY <1>4, <1>9 DEF CopyByte
<1>10. CASE PageFault
  <2>1. EntersRight /\ TrapEntry("fault")
    BY <1>2, <1>10, EntryPlace DEF PageFault
  <2>2. handler' = [cause |-> "fault", frame |-> EntryRef]
    BY <2>1 DEF TrapEntry
  <2> QED  BY <1>2, <2>2
<1>11. CASE HandleFault
  BY <1>2, <1>11 DEF HandleFault, Handling
<1>12. ASSUME NEW r, NEW sie, Finish([Done(r) EXCEPT !.sie = sie]) PROVE r = "invalid"
  <2>1. cpu'.a0 = r
    BY <1>3, <1>12 DEF Finish, Retire, Done, CpuSet
  <2> QED  BY <1>1, <2>1
<1>13. CASE CopyDone
  <2>1. PICK r, sie : r = OK /\ sie = mycopy.sie
    OBVIOUS
  <2>2. Finish([Done(r) EXCEPT !.sie = sie])
    BY <1>13, <2>1 DEF CopyDone
  <2>3. r = "invalid"
    BY <1>12, <2>2
  <2> QED  BY <2>1, <2>3 DEF OK
<1>14. CASE CopyFixup
  <2>1. PICK r, sie : r = "fault" /\ sie = mycopy.sie
    OBVIOUS
  <2>2. Finish([Done(r) EXCEPT !.sie = sie])
    BY <1>14, <2>1 DEF CopyFixup, FixupResult
  <2>3. r = "invalid"
    BY <1>12, <2>2
  <2> QED  BY <2>1, <2>3
<1>15. CASE ChangeMapping
  <2>1. cpu'.a0 = OK
    BY <1>3, <1>15 DEF ChangeMapping, Finish, Retire, CpuSet
  <2> QED  BY <1>1, <2>1 DEF OK
<1> QED  BY <1>5, <1>6, <1>7, <1>8, <1>9, <1>10, <1>11, <1>13, <1>14, <1>15 DEF UsercopyNext, CopyStep

-----------------------------------------------------------------------------
(* Every thread's context is where the trap code will look for it, and holds *)
(* what its code needs, in every state of traps, calls and copies.           *)
THEOREM TrapInvariant == UsercopySpec => []TrapIInv
<1>1. UsercopyInit => TrapIInv
  BY StartOK
<1>2. TrapIInv /\ [UsercopyNext]_copyvars => TrapIInv'
  BY NextKeeps, StutterKeeps
<1> QED  BY <1>1, <1>2, PTL DEF UsercopySpec

(* The kernel never panics in a trap, the trap registers fit the mode, and   *)
(* every thread off the processor has a frame of its own of the right kind.  *)
THEOREM TrapsNeverPanic == UsercopySpec => []TrapInv
<1>1. TrapIInv => TrapInv
  BY InvariantGivesTrapInv
<1> QED  BY <1>1, TrapInvariant, PTL

(* Every system call and control trap is carried out exactly once.           *)
THEOREM CallsCarriedOutOnce == UsercopySpec => []TrapsOnce
<1>1. TrapIInv => TrapsOnce
  BY InvariantGivesContext
<1> QED  BY <1>1, TrapInvariant, PTL

(* A thread gets back the context it lost and the result it was given.       *)
THEOREM ContextsSurvive == UsercopySpec => []ContextIntact
<1>1. TrapIInv => ContextIntact
  BY InvariantGivesContext
<1> QED  BY <1>1, TrapInvariant, PTL

(* The probe is armed and SUM set only in the copy loop of the very thread.  *)
THEOREM ProbesAreScoped == UsercopySpec => []ProbeScoped
<1>1. TrapIInv => ProbeScoped
  BY InvariantGivesProbe
<1> QED  BY <1>1, TrapInvariant, PTL

(* A copy call tells the truth about what it moved, and moves user memory    *)
(* only, although mappings change between its checks and its copy.           *)
THEOREM CopiesAreExact == UsercopySpec => []CopyExact
<1>1. TrapIInv => CopyExact
  BY InvariantGivesCopy
<1> QED  BY <1>1, TrapInvariant, PTL

(* The bounds check accepts only ranges of user memory, wrapped ranges       *)
(* included, and a call is refused only for a byte it may not touch.         *)
THEOREM BoundsAreExact == UsercopySpec => RangesExact
<1>1. TrapIInv' => RangeChecked'
  <2>1. TrapIInv => RangeChecked
    BY InvariantGivesRange
  <2> QED  BY <2>1, PTL
<1>2. TrapIInv /\ TrapIInv' /\ [UsercopyNext]_copyvars => [RangeChecked' /\ RefusalsJust]_copyvars
  BY <1>1, StepsRefuseJustly
<1> QED  BY <1>2, TrapInvariant, PTL DEF UsercopySpec, RangesExact
=============================================================================
