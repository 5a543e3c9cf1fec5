------------------------------ MODULE Usercopy ------------------------------
(***************************************************************************)
(* copy_from_user() and copy_to_user() of kernel/memory/usercopy.c, called *)
(* by kernel threads on user pages mapped in the kernel's page table, with *)
(* the fault probe of kernel/core/thread.c and the copy loop of            *)
(* kernel/arch/riscv64/usercopy.S.  The range is validated page by page    *)
(* with interrupts enabled, so another thread may change the mappings      *)
(* before the copy; the copy itself runs masked, under the probe, and a    *)
(* page fault in it is a trap like any other.                              *)
(***************************************************************************)
EXTENDS Trap, UserRange

CONSTANTS
  CopyArgs,    \* the pointers and lengths passed to copy calls
  Unmappable   \* bound: the user pages whose mapping changes

ASSUME CopyAssumption == CopyArgs \subseteq Addr \X Addr /\ Unmappable \subseteq Page

VARIABLES
  mapping,   \* the kernel page table: per page the rights of user data in it
  probe,     \* usercopy_probes: per thread, active or not
  copy,      \* per thread: the arguments and saved state of its copy call
  bytes      \* history: per thread, the user bytes its copy call has moved

cvars    == <<mapping, probe, copy, bytes>>
copyvars == <<pvars, cvars>>

Rights  == {"r", "w"}
FaultOf == [r |-> "load", w |-> "store"]   \* the page fault raised for want of a right

(* The right each call needs, and the only page fault its probe recovers. *)
CopyOps == [copy_from_user |-> [right |-> "r", fault_cause |-> "load"],
            copy_to_user   |-> [right |-> "w", fault_cause |-> "store"]]

CallOf(start, len, op) ==
  [start |-> start, len |-> len, right |-> op.right, fault_cause |-> op.fault_cause, sie |-> FALSE]
NoCopy  == CallOf(0, 0, CopyOps.copy_from_user)

UsercopyInit ==
  /\ TrapInit
  /\ mapping = [p \in Page |-> IF p \in {PageOf(b) : b \in UserByte} THEN Rights ELSE {}]
  /\ probe = [t \in KThreads |-> FALSE]
  /\ copy  = [t \in KThreads |-> NoCopy]
  /\ bytes = [t \in KThreads |-> {}]

me    == cpu.pc.t
mycopy == copy[me]
end   == RangeEnd(mycopy.start, mycopy.len)

(* The call returns to its thread's program. *)
Done(result) == [cpu EXCEPT !.pc = Pc(me, "thread", cpu.pc.n + 1), !.a0 = result, !.a1 = 0,
                            !.sum = FALSE]
Finish(c) == Retire(c) /\ want' = [want EXCEPT ![me] = c.a0]
Goes(at, a1) == Retire([cpu EXCEPT !.pc.at = at, !.a1 = a1]) /\ UNCHANGED want

(* The call checks its arguments and bounds before it looks at pages. *)
copy_user ==
  /\ InProgram /\ Instruction = "copy"
  /\ \E args \in CopyArgs, op \in DOMAIN CopyOps :
       LET start == args[1]
           len   == args[2]
       IN  /\ bytes' = [bytes EXCEPT ![me] = {}]
           /\ IF len = 0 \/ start = 0 \/ ~usercopy_range_end(start, len)
                 \/ ~user_space_va_range_is_valid(start, len)
              THEN Finish(Done(IF len = 0 THEN OK ELSE "invalid"))
              ELSE Goes("validate", PageOf(start))
           /\ copy' = [copy EXCEPT ![me] = CallOf(start, len, CopyOps[op])]
  /\ UNCHANGED <<mapping, probe>>

(* One turn of the loop of usercopy_validate_range_in_space(). *)
usercopy_validate_range ==
  /\ InCode("validate")
  /\ IF mycopy.right \notin mapping[cpu.a1] THEN Finish(Done("invalid"))
     ELSE IF cpu.a1 = PageOf(end - 1) THEN Goes("begin", 0)
     ELSE Goes("validate", cpu.a1 + 1)
  /\ UNCHANGED cvars

thread_usercopy_probe_begin == probe' = [probe EXCEPT ![me] = TRUE]
thread_usercopy_probe_end   == probe' = [probe EXCEPT ![me] = FALSE]

(* probed_copy_bytes() up to the copy loop: mask, arm the probe, set SUM. *)
probed_copy_bytes_Unmasked ==
  /\ InCode("begin") /\ ~probe[me]
  /\ thread_usercopy_probe_begin
  /\ copy' = [copy EXCEPT ![me].sie = cpu.sie]
  /\ Retire([cpu EXCEPT !.pc.at = "copy", !.a1 = mycopy.start, !.sum = TRUE])
  /\ UNCHANGED <<want, mapping, bytes>>

probed_copy_bytes ==
  /\ InCode("begin")
  /\ IF probe[me] THEN Finish(Done("invalid")) /\ UNCHANGED <<probe, copy>>
     ELSE /\ thread_usercopy_probe_begin
          /\ copy' = [copy EXCEPT ![me].sie = cpu.sie]
          /\ Retire([cpu EXCEPT !.pc.at = "copy", !.a1 = mycopy.start, !.sie = FALSE, !.sum = TRUE])
          /\ UNCHANGED want
  /\ UNCHANGED <<mapping, bytes>>

(* One byte of riscv_usercopy_copy_bytes, or the page fault it raises. *)
Permitted == mycopy.right \in mapping[PageOf(cpu.a1)]

CopyByte ==
  /\ InCode("copy") /\ cpu.a1 # end /\ Permitted
  /\ bytes' = [bytes EXCEPT ![me] = @ \cup {cpu.a1}]
  /\ Goes("copy", (cpu.a1 + 1) % ADDR_MOD)
  /\ UNCHANGED <<mapping, probe, copy>>

PageFault ==
  /\ InCode("copy") /\ cpu.a1 # end /\ ~Permitted
  /\ TrapEntry("fault")
  /\ UNCHANGED cvars

(* thread_usercopy_probe_recover(), or trap_report_page_fault().  The cause *)
(* is that of the copy loop's access to user memory.                        *)
Recoverable(f) ==
  /\ current # Idle /\ probe[current] /\ f.pc.at = "copy"
  /\ FaultOf[copy[current].right] = copy[current].fault_cause
  /\ f.a1 \in copy[current].start .. RangeEnd(copy[current].start, copy[current].len) - 1

HandleFault ==
  LET ref == handler.frame IN
  /\ Handling("fault")
  /\ IF Recoverable(FrameAt(ref))
     THEN /\ frames' = [frames EXCEPT ![ref[1]][ref[2]].pc.at = "fixup"]
          /\ probe' = [probe EXCEPT ![current] = FALSE]
          /\ Return(ref) /\ UNCHANGED crashed
     ELSE Panic /\ UNCHANGED <<frames, probe, handler>>
  /\ UNCHANGED <<cpu, sysframe, current, state, trap_frame, calls, want, mapping, copy, bytes>>

(* The rest of probed_copy_bytes(): disarm, clear SUM, unmask, return. *)
CopyDone ==
  /\ InCode("copy") /\ cpu.a1 = end
  /\ Finish([Done(OK) EXCEPT !.sie = mycopy.sie])
  /\ thread_usercopy_probe_end
  /\ UNCHANGED <<mapping, copy, bytes>>

(* What the loop returns from its fixup address. *)
FixupResult_Success == OK
FixupResult == "fault"

CopyFixup ==
  /\ InCode("fixup")
  /\ Finish([Done(FixupResult) EXCEPT !.sie = mycopy.sie])
  /\ thread_usercopy_probe_end
  /\ UNCHANGED <<mapping, copy, bytes>>

(* A thread unmaps a user page in the kernel's page table, for good or to   *)
(* map it again without the right to write.                                 *)
ChangeMapping ==
  /\ InProgram /\ Instruction = "remap"
  /\ \E p \in Unmappable, rights \in {{}, {"r"}} :
       mapping' = [mapping EXCEPT ![p] = rights]
  /\ Finish([cpu EXCEPT !.pc = Goto(cpu.pc.n + 1), !.a0 = OK])
  /\ UNCHANGED <<probe, copy, bytes>>

CopyStep ==
  \/ copy_user \/ usercopy_validate_range \/ probed_copy_bytes
  \/ CopyByte \/ PageFault \/ HandleFault \/ CopyDone \/ CopyFixup
  \/ ChangeMapping

(* A call's locals, and the record of it, die with the thread. *)
Forget ==
  /\ copy'  = [t \in KThreads |-> IF state'[t] = "EXITED" THEN NoCopy ELSE copy[t]]
  /\ bytes' = [t \in KThreads |-> IF state'[t] = "EXITED" THEN {} ELSE bytes[t]]

UsercopyNext ==
  \/ TrapNext /\ Forget /\ UNCHANGED <<mapping, probe>>
  \/ CopyStep

UsercopySpec == UsercopyInit /\ [][UsercopyNext]_copyvars

-----------------------------------------------------------------------------
(* Properties. *)

(* The code position of the thread the hart works for: its own, or that of   *)
(* the frame the handler has.                                                *)
Position == IF handler.cause = "none" THEN cpu.pc ELSE FrameAt(handler.frame).pc

(* The probe and the right to touch user memory exist only while the copy    *)
(* loop of the very thread runs, or its fault is being handled: no other     *)
(* fault is ever recovered, and no other code runs with SUM set.             *)
ProbeScoped ==
  /\ \A t \in KThreads : probe[t] =>
       current = t /\ ~cpu.sie /\ Position.t = t /\ Position.at = "copy"
  /\ cpu.sum => Position.at \in {"copy", "fixup"} /\ Position.t = current

Bytes(t)    == copy[t].start .. copy[t].start + copy[t].len - 1     \* not wrapped
Returned(t) == InProgram /\ current = t /\ cpu.pc.n > 1 /\ Program[t][cpu.pc.n - 1] = "copy"

(* A copy call tells the truth about what it moved, although mappings change *)
(* between its checks and its copy: everything when it returns OK, a proper  *)
(* prefix when it faulted, nothing when it refused; and only user memory.    *)
CopyExact ==
  \A t \in KThreads :
    /\ bytes[t] \subseteq UserByte
    /\ Returned(t) =>
         CASE cpu.a0 = OK        -> bytes[t] = Bytes(t)
           [] cpu.a0 = "fault"   -> \E k \in Bytes(t) : bytes[t] = copy[t].start .. k - 1
           [] cpu.a0 = "invalid" -> bytes[t] = {}

(* A step that ends a call of t: it is back in its program. *)
Answers(t) == handler.cause = "none" /\ cpu.pc.t = t /\ cpu.pc' # cpu.pc /\ Returned(t)'

(* The bounds are exact, for ranges that end at or past the end of the       *)
(* address space too: the pages of a range are looked at only when all its   *)
(* bytes, counted without wrapping, are user memory; and a call is refused   *)
(* only if some byte is not, or lies in a page without the right it needs.   *)
RangeChecked ==
  \A t \in KThreads :
    Position.t = t /\ Position.at \in {"validate", "begin", "copy", "fixup"} =>
      Bytes(t) # {} /\ Bytes(t) \subseteq UserByte
RefusalsJust ==
  \A t \in KThreads : Answers(t) /\ cpu'.a0 = "invalid" =>
    \E b \in Bytes(t)' : b \notin UserByte \/ copy'[t].right \notin mapping[PageOf(b)]
RangesExact == [][RangeChecked' /\ RefusalsJust]_copyvars
=============================================================================
