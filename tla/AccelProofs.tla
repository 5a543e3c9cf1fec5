---------------------------- MODULE AccelProofs -----------------------------
(***************************************************************************)
(* The accelerator driver is correct for every set of submitting threads:  *)
(* the request slot has one owner and its completion wakes it, even with   *)
(* the worker preempted between any two register accesses; and with a      *)
(* worker that is not preempted inside its loop body, submit calls return  *)
(* the truth about their buffer and a timed-out device stays quarantined.  *)
(***************************************************************************)
EXTENDS Accel, TLAPS

-----------------------------------------------------------------------------
(* The type of each register. *)
LEMMA DeviceFields ==
  ASSUME NEW d \in Device
  PROVE  /\ d.status \in {"IDLE", "BUSY", "DONE", "ERROR"} /\ d.control \in SUBSET {"START", "RESET"}
         /\ d.irq_status \in SUBSET Irq /\ d.irq_ack \in SUBSET Irq
         /\ d.cmd_base \in Threads \cup {None}
BY DEF Device

(* What the operations on the registers leave in each of them. *)
LEMMA EnterError ==
  ASSUME NEW d \in Device
  PROVE  /\ accel_enter_error(d) \in Device
         /\ accel_enter_error(d).status = "ERROR" /\ accel_enter_error(d).irq_status = {"ERROR"}
         /\ accel_enter_error(d).control = d.control /\ accel_enter_error(d).irq_ack = d.irq_ack
         /\ accel_enter_error(d).cmd_base = d.cmd_base
BY DEF accel_enter_error, Device, Irq

(* Complete(): DONE and its interrupt. *)
LEMMA Completed ==
  ASSUME NEW d \in Device
  PROVE  /\ Complete(d) \in Device
         /\ Complete(d).status = "DONE" /\ Complete(d).irq_status = {"DONE"}
         /\ Complete(d).control = d.control /\ Complete(d).irq_ack = d.irq_ack
         /\ Complete(d).cmd_base = d.cmd_base
BY DEF Complete, Device, Irq

(* accel_reset_state() forgets the command base; control is its caller's. *)
LEMMA ResetState ==
  ASSUME NEW d \in Device
  PROVE  /\ accel_reset_state(d) \in Device
         /\ accel_reset_state(d).status = "IDLE" /\ accel_reset_state(d).irq_status = {}
         /\ accel_reset_state(d).control = d.control /\ accel_reset_state(d).cmd_base = None
BY DEF accel_reset_state, Device, Irq

(* A whole device step: the control register is consumed, and a register set *)
(* whose control has no START executes nothing.                             *)
LEMMA DeviceStep ==
  ASSUME TypeOK, NEW d \in Device, platform_accel_step(d)
  PROVE  /\ dev' \in Device /\ dev'.control = {}
         /\ cmd_status' \in [Threads -> CmdStatus] /\ executed' \in [Threads -> BOOLEAN]
         /\ "START" \notin d.control =>
              /\ cmd_status' = cmd_status /\ executed' = executed
              /\ "RESET" \notin d.control =>
                   /\ dev'.status = d.status /\ dev'.cmd_base = d.cmd_base
                   /\ dev'.irq_status = d.irq_status \ d.irq_ack
<1> DEFINE idle == [d EXCEPT !.control = {}, !.irq_ack = {}]
           next == IF "START" \in d.control THEN accel_start(idle) ELSE idle
<1>1. /\ idle \in Device /\ idle.control = {} /\ idle.irq_ack = {} /\ idle.status = d.status
      /\ idle.irq_status = d.irq_status /\ idle.cmd_base = d.cmd_base
  BY DEF Device
<1> HIDE DEF idle
<1>2. next \in Device /\ next.control = {}
  BY <1>1, EnterError, Completed DEF accel_start
<1>3. "START" \notin d.control => next = idle
  OBVIOUS
<1>4. dev' = IF "RESET" \in d.control THEN accel_reset_state(idle)
             ELSE [next EXCEPT !.irq_status = @ \ d.irq_ack]
  BY DEF platform_accel_step, idle
<1> HIDE DEF next
<1>5. /\ [next EXCEPT !.irq_status = @ \ d.irq_ack] \in Device
      /\ [next EXCEPT !.irq_status = @ \ d.irq_ack].control = {}
      /\ [next EXCEPT !.irq_status = @ \ d.irq_ack].status = next.status
      /\ [next EXCEPT !.irq_status = @ \ d.irq_ack].cmd_base = next.cmd_base
      /\ [next EXCEPT !.irq_status = @ \ d.irq_ack].irq_status = next.irq_status \ d.irq_ack
  BY <1>2 DEF Device
<1>6. dev' \in Device /\ dev'.control = {}
  BY <1>1, <1>4, <1>5, ResetState
<1>7. cmd_status' \in [Threads -> CmdStatus]
  <2>1. StartStatus(d) \in [Threads -> CmdStatus]
    BY DEF StartStatus, Refused, CmdStatus, TypeOK
  <2>2. cmd_status' = StartStatus(d) \/ cmd_status' = cmd_status
    BY DEF platform_accel_step
  <2> QED  BY <2>1, <2>2 DEF TypeOK
<1>8. executed' \in [Threads -> BOOLEAN]
  BY DEF platform_accel_step
<1>9. ASSUME "START" \notin d.control PROVE cmd_status' = cmd_status /\ executed' = executed
  <2>1. cmd_status' = cmd_status
    BY <1>9 DEF platform_accel_step
  <2>2. executed' = [t \in Threads |-> executed[t]]
    BY <1>9 DEF platform_accel_step, TypeOK
  <2> QED  BY <2>1, <2>2 DEF TypeOK
<1>10. ASSUME "START" \notin d.control, "RESET" \notin d.control
       PROVE  /\ dev'.status = d.status /\ dev'.cmd_base = d.cmd_base
              /\ dev'.irq_status = d.irq_status \ d.irq_ack
  BY <1>10, <1>1, <1>3, <1>4, <1>5
<1> QED  BY <1>6, <1>7, <1>8, <1>9, <1>10

-----------------------------------------------------------------------------
(***************************************************************************)
(* The inductive invariant for any preemption.  SlotOwned needs that only  *)
(* a thread inside a call waits.  That a quarantined slot is free keeps    *)
(* the returning submit calls away from a quarantined device.              *)
(***************************************************************************)
CallsWait == \A t \in Threads : call[t] = "none" <=> wake[t] = "none"

QuarantinedFree == req.reset_required => ~req.in_use

DriverInv == SlotOwned /\ CallsWait /\ NoLostWakeup /\ QuarantinedFree

SlotInv == TypeOK /\ DriverInv

(* The free slot. *)
LEMMA FreeSlotType ==
  ASSUME NEW b \in BOOLEAN
  PROVE  /\ FreeSlot(b) \in Request
         /\ FreeSlot(b).cmd = None /\ FreeSlot(b).in_use = FALSE /\ FreeSlot(b).completed = FALSE
         /\ FreeSlot(b).reset_required = b /\ FreeSlot(b).result = "IO"
BY DEF FreeSlot, Request

(* accel_probe() establishes the invariant. *)
LEMMA SlotInitInv == Init => SlotInv
<1> SUFFICES ASSUME Init PROVE SlotInv
  OBVIOUS
<1>1. req \in Request /\ req = FreeSlot(FALSE)
  BY FreeSlotType DEF Init
<1>2. TypeOK
  BY <1>1 DEF Init, TypeOK, Device, Irq, CmdStatus, Result, Worker, WorkerPc
<1>3. DriverInv
  BY <1>1, FreeSlotType, ThreadsAssumption
  DEF Init, DriverInv, SlotOwned, CallsWait, NoLostWakeup, QuarantinedFree
<1> QED  BY <1>2, <1>3 DEF SlotInv

(* Steps that leave the slot, the calls and the waits alone. *)
LEMMA DriverKept ==
  ASSUME DriverInv, UNCHANGED <<req, call, wake>>
  PROVE  DriverInv'
BY DEF DriverInv, SlotOwned, CallsWait, NoLostWakeup, QuarantinedFree

(* The slot is free exactly when nobody is in a call. *)
LEMMA FreeMeansNobody ==
  ASSUME TypeOK, DriverInv
  PROVE  /\ ~req.in_use => \A t \in Threads : call[t] = "none" /\ wake[t] = "none"
         /\ \A t \in Threads : wake[t] # "none" => req.in_use /\ req.cmd = t
BY ThreadsAssumption DEF TypeOK, DriverInv, SlotOwned, CallsWait

(* The steps of the worker up to the masked part of the handler. *)
LEMMA WorkerStepInv ==
  ASSUME SlotInv, WorkerStep, ~accel_irq_handler
  PROVE  SlotInv' /\ UNCHANGED <<req, call, wake, ret>> /\ worker' # worker
<1> USE DEF SlotInv
<1>1. UNCHANGED <<req, call, wake, ret>>
  BY DEF WorkerStep, DriverUnchanged, StepRead, StepClear, StepStart, StepBusy, StepBase, StepLoad,
         StepTimeoutCheck, StepPayloadCheck, StepInvalid, StepError, StepRaiseError, StepFill,
         StepStatus, StepDone, StepRaise, StepAckRead, StepAckWrite, DispatchPending, IrqRead
<1>2. DriverInv'
  BY <1>1, DriverKept
<1>3. /\ dev \in Device /\ worker \in Worker /\ cmd_status \in [Threads -> CmdStatus]
      /\ executed \in [Threads -> BOOLEAN]
  BY DEF TypeOK
<1>4. ASSUME NEW pc \in WorkerPc, Goto(pc) PROVE worker' \in Worker /\ worker'.pc = pc
  BY <1>3, <1>4 DEF Goto, Worker
<1>5. /\ dev' \in Device /\ worker' \in Worker /\ worker'.pc # worker.pc
      /\ cmd_status' \in [Threads -> CmdStatus] /\ executed' \in [Threads -> BOOLEAN]
  <2> USE DEF At
  <2>1. CASE StepRead
    BY <2>1, <1>3, DeviceFields DEF StepRead, Worker, WorkerPc
  <2>2. CASE StepClear
    <3>1. worker' \in Worker /\ worker'.pc \in {"start", "ack_read"}
      BY <2>2, <1>4 DEF StepClear, WorkerPc
    <3> QED  BY <2>2, <3>1, <1>3 DEF StepClear, Device
  <2>3. CASE StepStart
    BY <2>3, <1>3, <1>4 DEF StepStart, WorkerPc
  <2>4. CASE StepBusy
    BY <2>4, <1>3, <1>4 DEF StepBusy, WorkerPc, Device
  <2>5. CASE StepBase
    BY <2>5, <1>3, <1>4 DEF StepBase, WorkerPc
  <2>6. CASE StepLoad
    BY <2>6, <1>3, DeviceFields DEF StepLoad, Worker, WorkerPc
  <2>7. CASE StepTimeoutCheck
    BY <2>7, <1>3, <1>4 DEF StepTimeoutCheck, WorkerPc
  <2>8. CASE StepPayloadCheck
    BY <2>8, <1>3, <1>4 DEF StepPayloadCheck, WorkerPc
  <2>9. CASE StepInvalid
    BY <2>9, <1>3, <1>4 DEF StepInvalid, WorkerPc, CmdStatus
  <2>10. CASE StepError
    BY <2>10, <1>3, <1>4 DEF StepError, WorkerPc, Device
  <2>11. CASE StepRaiseError
    BY <2>11, <1>3, <1>4 DEF StepRaiseError, WorkerPc, Device, Irq
  <2>12. CASE StepFill
    BY <2>12, <1>3, <1>4 DEF StepFill, WorkerPc
  <2>13. CASE StepStatus
    BY <2>13, <1>3, <1>4 DEF StepStatus, WorkerPc, CmdStatus
  <2>14. CASE StepDone
    BY <2>14, <1>3, <1>4 DEF StepDone, WorkerPc, Device
  <2>15. CASE StepRaise
    BY <2>15, <1>3, <1>4 DEF StepRaise, WorkerPc, Device, Irq
  <2>16. CASE StepAckRead
    BY <2>16, <1>3, DeviceFields DEF StepAckRead, Worker, WorkerPc
  <2>17. CASE StepAckWrite
    <3>1. worker.irq \in SUBSET Irq
      BY <1>3 DEF Worker
    <3> QED  BY <2>17, <3>1, <1>3, <1>4 DEF StepAckWrite, WorkerPc, Device
  <2>18. CASE DispatchPending
    BY <2>18, <1>3, <1>4 DEF DispatchPending, WorkerPc
  <2>19. CASE IrqRead
    BY <2>19, <1>3, DeviceFields DEF IrqRead, Worker, WorkerPc
  <2> QED
    BY <2>1, <2>2, <2>3, <2>4, <2>5, <2>6, <2>7, <2>8, <2>9, <2>10, <2>11, <2>12, <2>13, <2>14, <2>15,
       <2>16, <2>17, <2>18, <2>19 DEF WorkerStep
<1> QED  BY <1>1, <1>2, <1>5 DEF TypeOK

(* accel_irq_handler(): the completion and the wake-up are one step. *)
LEMMA HandlerInv ==
  ASSUME SlotInv, accel_irq_handler
  PROVE  SlotInv' /\ dev'.control = {} /\ worker' # worker
<1> USE DEF SlotInv
<1>1. /\ [dev EXCEPT !.irq_ack = worker.irq] \in Device /\ worker' \in Worker
      /\ worker'.pc # worker.pc /\ call' = call /\ ret' = ret
  BY DEF TypeOK, Device, Worker, WorkerPc, accel_irq_handler, At, Goto
<1>2. /\ dev' \in Device /\ dev'.control = {} /\ cmd_status' \in [Threads -> CmdStatus]
      /\ executed' \in [Threads -> BOOLEAN]
  BY <1>1, DeviceStep DEF accel_irq_handler
<1>3. CASE ~req.in_use
  <2>1. UNCHANGED <<req, wake>>
    BY <1>3 DEF accel_irq_handler
  <2> QED  BY <1>1, <1>2, <2>1, DriverKept DEF TypeOK
<1>4. CASE req.in_use
  <2>1. req' = [req EXCEPT !.result = IrqResult, !.completed = TRUE] /\ wake' = WakeAll
    BY <1>4 DEF accel_irq_handler
  <2>2. /\ req' \in Request /\ req'.cmd = req.cmd /\ req'.in_use = req.in_use
        /\ req'.completed = TRUE /\ req'.reset_required = req.reset_required
    BY <2>1 DEF TypeOK, Request, IrqResult
  <2>3. /\ wake' \in [Threads -> {"none", "waiting", "woken", "expired"}]
        /\ \A t \in Threads : wake'[t] # "waiting" /\ (wake'[t] = "none" <=> wake[t] = "none")
    BY <2>1 DEF WakeAll, TypeOK
  <2>4. DriverInv'
    BY <1>1, <1>4, <2>2, <2>3
    DEF TypeOK, DriverInv, SlotOwned, CallsWait, NoLostWakeup, QuarantinedFree
  <2> QED  BY <1>1, <1>2, <2>2, <2>3, <2>4 DEF TypeOK
<1> QED  BY <1>3, <1>4

(* A refused submission touches no slot. *)
LEMMA SubmitFailsInv ==
  ASSUME SlotInv, NEW t \in Threads, NEW status \in CmdStatus, NEW result \in Result,
         SubmitFails(t, status, result)
  PROVE  SlotInv' /\ UNCHANGED <<dev, req>>
<1>1. DriverInv'
  BY DriverKept DEF SubmitFails, SlotInv
<1> QED  BY <1>1 DEF SubmitFails, SlotInv, TypeOK

(* An accepted one takes a free slot. *)
LEMMA SubmitInv ==
  ASSUME SlotInv, NEW t \in Threads, NEW op \in {"untimed", "timed"}, accel_submit_sync_timeout(t, op)
  PROVE  SlotInv' /\ ~req.reset_required
<1> USE DEF SlotInv
<1>1. /\ ~req.in_use /\ ~req.reset_required /\ req.reset_required \in BOOLEAN
      /\ req' = [FreeSlot(req.reset_required) EXCEPT !.cmd = t, !.in_use = TRUE]
  BY DEF accel_submit_sync_timeout, MaySubmit, TypeOK, Request
<1>2. /\ req' \in Request /\ req'.cmd = t /\ req'.in_use = TRUE /\ req'.completed = FALSE
      /\ req'.reset_required = req.reset_required
  BY <1>1 DEF FreeSlot, Request
<1>3. \A u \in Threads : call[u] = "none" /\ wake[u] = "none"
  BY <1>1, FreeMeansNobody
<1>4. dev' \in Device
  BY DEF accel_submit_sync_timeout, TypeOK, Device
<1>5. TypeOK'
  BY <1>2, <1>4 DEF accel_submit_sync_timeout, TypeOK, CmdStatus
<1>6. call' = [call EXCEPT ![t] = op] /\ wake' = [wake EXCEPT ![t] = "waiting"]
  BY DEF accel_submit_sync_timeout
<1>7. SlotOwned' /\ CallsWait'
  BY <1>2, <1>3, <1>6, ThreadsAssumption DEF SlotOwned, CallsWait, TypeOK
<1>8. NoLostWakeup' /\ QuarantinedFree'
  BY <1>1, <1>2 DEF NoLostWakeup, QuarantinedFree
<1> QED  BY <1>1, <1>5, <1>7, <1>8 DEF DriverInv

(* A deadline. *)
LEMMA ExpiryInv ==
  ASSUME SlotInv, NEW t \in Threads, TimeoutExpires(t)
  PROVE  SlotInv' /\ UNCHANGED <<dev, req>>
BY DEF SlotInv, TimeoutExpires, TypeOK, DriverInv, SlotOwned, CallsWait, NoLostWakeup, QuarantinedFree

(* The rest of a submit call: another turn of its loop, or its return, which *)
(* frees the slot.                                                           *)
LEMMA ResumeInv ==
  ASSUME SlotInv, NEW t \in Threads, accel_submit_resume(t)
  PROVE  SlotInv' /\ req.in_use
<1> USE DEF SlotInv
<1> DEFINE expired == wake[t] = "expired"
           resets  == t \in UserThreads /\ CallResult(t) = "TIMEOUT"
<1>1. wake[t] \in {"woken", "expired"} /\ req.in_use /\ req.cmd = t
  BY FreeMeansNobody DEF accel_submit_resume
<1>2. CASE ~req.completed /\ ~expired
  <2>1. wake' = [wake EXCEPT ![t] = "waiting"]
        /\ UNCHANGED <<dev, cmd_status, req, call, ret, worker, executed>>
    BY <1>2 DEF accel_submit_resume
  <2> QED  BY <1>1, <1>2, <2>1
           DEF TypeOK, DriverInv, SlotOwned, CallsWait, NoLostWakeup, QuarantinedFree
<1>3. CASE ~(~req.completed /\ ~expired)
  <2>1. /\ cmd_status' = IF expired THEN [cmd_status EXCEPT ![t] = "TIMEOUT"] ELSE cmd_status
        /\ ret' = [ret EXCEPT ![t] = CallResult(t)]
        /\ req' = FreeSlot(~resets /\ (req.reset_required \/ expired))
        /\ dev' = IF resets THEN accel_reset_state([dev EXCEPT !.control = {}]) ELSE dev
        /\ call' = [call EXCEPT ![t] = "none"]
        /\ wake' = [wake EXCEPT ![t] = "none"]
        /\ UNCHANGED <<worker, executed>>
    BY <1>3 DEF accel_submit_resume, TimedOut
  <2>2. /\ req' \in Request /\ req'.cmd = None /\ req'.in_use = FALSE /\ req'.completed = FALSE
    <3>1. (~resets /\ (req.reset_required \/ expired)) \in BOOLEAN
      BY DEF TypeOK, Request
    <3> HIDE DEF resets, expired
    <3> QED  BY <2>1, <3>1, FreeSlotType
  <2>3. dev' \in Device
    <3>1. [dev EXCEPT !.control = {}] \in Device
      BY DEF TypeOK, Device
    <3> QED  BY <2>1, <3>1, ResetState DEF TypeOK
  <2>4. CallResult(t) \in Result
    BY DEF CallResult, Result, TypeOK, Request
  <2>5. TypeOK'
    BY <2>1, <2>2, <2>3, <2>4 DEF TypeOK, CmdStatus
  <2>6. \A u \in Threads : call'[u] = "none" /\ wake'[u] = "none"
    <3>1. \A u \in Threads : u # t => call[u] = "none" /\ wake[u] = "none"
      BY <1>1 DEF DriverInv, SlotOwned, CallsWait
    <3> QED  BY <2>1, <3>1 DEF TypeOK
  <2>7. DriverInv'
    BY <2>2, <2>6, ThreadsAssumption
    DEF DriverInv, SlotOwned, CallsWait, NoLostWakeup, QuarantinedFree
  <2> QED  BY <1>1, <2>5, <2>7
<1> QED  BY <1>1, <1>2, <1>3

(* The register-level calls, which keep away from a taken slot. *)
LEMMA RegisterCallInv ==
  ASSUME SlotInv,
         accel_reset \/ accel_start_selftest \/ \E mask \in SUBSET Irq : accel_ack_irq(mask)
  PROVE  SlotInv' /\ ~req.in_use /\ UNCHANGED <<call, wake, ret, worker>>
         /\ (req.reset_required => ~req'.reset_required)
<1> USE DEF SlotInv
<1>1. ~req.in_use /\ UNCHANGED <<call, wake, ret, worker>>
  BY DEF accel_reset, accel_start_selftest, accel_ack_irq
<1>2. PICK d \in Device : platform_accel_step(d)
  <2>1. /\ [dev EXCEPT !.control = {"RESET"}] \in Device
        /\ [dev EXCEPT !.control = {"START"}] \in Device
        /\ \A mask \in SUBSET Irq : [dev EXCEPT !.irq_ack = mask] \in Device
    BY DEF TypeOK, Device
  <2> QED  BY <2>1 DEF accel_reset, accel_start_selftest, accel_ack_irq
<1>3. dev' \in Device /\ cmd_status' \in [Threads -> CmdStatus] /\ executed' \in [Threads -> BOOLEAN]
  BY <1>2, DeviceStep
<1>4. /\ req' \in Request /\ req'.cmd = req.cmd /\ req'.in_use = req.in_use
      /\ req'.completed = req.completed
      /\ (req'.reset_required = FALSE \/ req'.reset_required = req.reset_required)
      /\ (req.reset_required => ~req'.reset_required)
  <2>1. CASE accel_reset
    BY <2>1 DEF accel_reset, TypeOK, Request
  <2>2. CASE ~accel_reset
    BY <2>2 DEF accel_start_selftest, accel_ack_irq, TypeOK
  <2> QED  BY <2>1, <2>2
<1>5. DriverInv'
  BY <1>1, <1>4 DEF DriverInv, SlotOwned, CallsWait, NoLostWakeup, QuarantinedFree
<1> QED  BY <1>1, <1>3, <1>4, <1>5 DEF TypeOK

(* Every step keeps the invariant. *)
LEMMA SlotStepInv == SlotInv /\ [Next]_vars => SlotInv'
<1> SUFFICES ASSUME SlotInv, [Next]_vars PROVE SlotInv'
  OBVIOUS
<1>1. CASE WorkerStep
  BY <1>1, WorkerStepInv, HandlerInv
<1>2. ASSUME NEW t \in Threads, Submit(t) PROVE SlotInv'
  <2>1. CASE accel_submit_zero_ticks(t) \/ accel_submit_invalid(t) \/ accel_submit_rejected(t)
    BY <2>1, SubmitFailsInv
    DEF accel_submit_zero_ticks, accel_submit_invalid, accel_submit_rejected, CmdStatus, Result
  <2>2. CASE \E op \in {"untimed", "timed"} : accel_submit_sync_timeout(t, op)
    BY <2>2, SubmitInv
  <2> QED  BY <1>2, <2>1, <2>2 DEF Submit
<1>3. ASSUME NEW t \in Threads, TimeoutExpires(t) PROVE SlotInv'
  BY <1>3, ExpiryInv
<1>4. ASSUME NEW t \in Threads, accel_submit_resume(t) PROVE SlotInv'
  BY <1>4, ResumeInv
<1>5. CASE accel_reset \/ accel_start_selftest \/ \E mask \in SUBSET Irq : accel_ack_irq(mask)
  BY <1>5, RegisterCallInv
<1>6. CASE UNCHANGED vars
  BY <1>6, DriverKept DEF vars, SlotInv, TypeOK
<1> QED  BY <1>1, <1>2, <1>3, <1>4, <1>5, <1>6 DEF Next

(* The inductive invariant holds in every behaviour. *)
THEOREM SlotInvariant == Spec => []SlotInv
BY SlotInitInv, SlotStepInv, PTL DEF Spec

(***************************************************************************)
(* The request slot belongs to the one thread inside a submit call, and    *)
(* every field of driver, device and worker keeps its type.                *)
(***************************************************************************)
THEOREM SlotAlwaysOwned == Spec => []AccelInv
<1>1. SlotInv => AccelInv
  BY DEF SlotInv, DriverInv, AccelInv
<1> QED  BY <1>1, SlotInvariant, PTL

(* A completed request's submitter is not asleep on it: no lost wake-up. *)
THEOREM WakeupNeverLost == Spec => []NoLostWakeup
<1>1. SlotInv => NoLostWakeup
  BY DEF SlotInv, DriverInv
<1> QED  BY <1>1, SlotInvariant, PTL

(* While the device awaits its reset, only the worker touches it. *)
LEMMA QuarantinedUntouched ==
  ASSUME SlotInv, Next, req.reset_required, req'.reset_required
  PROVE  OnlyWorkerTouchesDevice
<1> SUFFICES ASSUME UNCHANGED worker PROVE UNCHANGED dev
  BY DEF OnlyWorkerTouchesDevice
<1>1. ~req.in_use
  BY DEF SlotInv, DriverInv, QuarantinedFree
<1>2. ~WorkerStep
  BY WorkerStepInv, HandlerInv
<1>3. ASSUME NEW t \in Threads, Submit(t) PROVE UNCHANGED dev
  BY <1>3, SubmitInv
  DEF Submit, accel_submit_zero_ticks, accel_submit_invalid, accel_submit_rejected, SubmitFails
<1>4. ASSUME NEW t \in Threads, TimeoutExpires(t) PROVE UNCHANGED dev
  BY <1>4, ExpiryInv
<1>5. ASSUME NEW t \in Threads, accel_submit_resume(t) PROVE FALSE
  BY <1>1, <1>5, ResumeInv
<1>6. CASE accel_reset \/ accel_start_selftest \/ \E mask \in SUBSET Irq : accel_ack_irq(mask)
  BY <1>6, RegisterCallInv
<1> QED  BY <1>2, <1>3, <1>4, <1>5, <1>6 DEF Next

-----------------------------------------------------------------------------
(***************************************************************************)
(* The worker is not preempted.  Where the request in the slot is: not yet *)
(* seen by the device, inside the device step, on its way back as an       *)
(* interrupt, or completed.  `executed' changes with the step that writes  *)
(* the buffer, `completed' only three registers and a handler later.       *)
(***************************************************************************)
Submitted(t) ==
  /\ worker.pc \in {"loop", "clear", "start", "busy", "base", "load"}
  /\ ~req.completed /\ ~executed[t] /\ cmd_status[t] = "PENDING" /\ dev.cmd_base = t
  /\ worker.pc \in {"loop", "clear", "start"} => dev.status = "IDLE"
  /\ worker.pc = "loop" => dev.control = {"START"}
  /\ worker.pc = "clear" => worker.control = {"START"}

InDevice(t) ==
  /\ worker.pc \in {"timeout", "payload", "fill", "status", "done", "raise"}
  /\ worker.cmd = t /\ ~req.completed
  /\ executed[t] <=> worker.pc \in {"status", "done", "raise"}
  /\ cmd_status[t] = IF worker.pc \in {"done", "raise"} THEN "OK" ELSE "PENDING"
  /\ worker.pc = "raise" => dev.status = "DONE"

Interrupting(t) ==
  /\ worker.pc \in {"ack_read", "ack_write", "pending", "irq_read", "isr"}
  /\ ~req.completed /\ executed[t] /\ cmd_status[t] = "OK" /\ dev.status = "DONE"
  /\ dev.irq_status = {"DONE"}
  /\ worker.pc \in {"ack_write", "isr"} => worker.irq = {"DONE"}

Finished(t) ==
  /\ worker.pc \in {"loop", "clear", "ack_read", "ack_write", "pending"}
  /\ req.completed /\ req.result = "OK" /\ executed[t] /\ cmd_status[t] = "OK"
  /\ dev.irq_status = {} /\ dev.control = {}
  /\ worker.pc = "clear" => worker.control = {}
  /\ worker.pc = "ack_write" => worker.irq = {}

InFlight(t) == Submitted(t) \/ InDevice(t) \/ Interrupting(t) \/ Finished(t)

(* The inductive invariant for the worker that yields only in its loop. *)
YieldInv ==
  /\ \A t \in Threads : cmd_status[t] = "PENDING" => req.cmd = t
  /\ \A t \in Threads : req.cmd = t => InFlight(t)
  /\ ~req.in_use => worker.pc \notin {"fill", "status"}
  /\ worker.pc \in {"timeout", "payload", "fill", "status", "invalid"} => worker.cmd \in Threads
  /\ worker.pc \notin {"loop", "clear"} => dev.control = {}
  /\ StartAccountedFor

(* A step after which CONTROL is empty accounts for its STARTs. *)
LEMMA NoStart == ASSUME dev'.control = {} PROVE StartAccountedFor'
BY DEF StartAccountedFor

(* One access of the worker leaves no START but one it found. *)
LEMMA WorkerStepStart ==
  ASSUME SlotInv, YieldInv, WorkerStep, ~accel_irq_handler
  PROVE  StartAccountedFor'
<1>1. UNCHANGED req /\ dev \in Device
  BY WorkerStepInv DEF SlotInv, TypeOK
<1>2. CASE StepRead
  BY <1>1, <1>2 DEF StepRead, StartAccountedFor, Executable, YieldInv
<1>3. CASE StepClear
  <2>1. dev'.control = {}
    BY <1>1, <1>3 DEF StepClear, Device
  <2> QED  BY <2>1, NoStart
<1>4. CASE ~StepRead /\ ~StepClear
  <2>1. worker.pc \notin {"loop", "clear"} /\ dev'.control = dev.control
    BY <1>1, <1>4
    DEF WorkerStep, At, Device, StepStart, StepBusy, StepBase, StepLoad, StepTimeoutCheck,
        StepPayloadCheck, StepInvalid, StepError, StepRaiseError, StepFill, StepStatus, StepDone,
        StepRaise, StepAckRead, StepAckWrite, DispatchPending, IrqRead
  <2> QED  BY <2>1, NoStart DEF YieldInv
<1> QED  BY <1>2, <1>3, <1>4

(* One access of the worker takes the request in the slot one stage on. *)
LEMMA YieldWorkerStep ==
  ASSUME SlotInv, YieldInv, WorkerStep, ~accel_irq_handler
  PROVE  /\ YieldInv'
         /\ \A t \in Threads : ~executed[t] /\ executed'[t] => req.cmd = t
<1>0. StartAccountedFor'
  BY WorkerStepStart
<1> USE <1>0, ThreadsAssumption
    DEF SlotInv, TypeOK, Device, Worker, WorkerPc, YieldInv, InFlight, Submitted, InDevice, Interrupting,
        Finished, At, DriverUnchanged, DriverInv, SlotOwned
<1>1. CASE StepRead
  BY <1>1 DEF StepRead
<1>2. CASE StepClear
  BY <1>2 DEF StepClear, Goto
<1>3. CASE StepStart
  BY <1>3 DEF StepStart, Goto
<1>4. CASE StepBusy
  BY <1>4 DEF StepBusy, Goto
<1>5. CASE StepBase
  BY <1>5 DEF StepBase, Goto
<1>6. CASE StepLoad
  BY <1>6 DEF StepLoad
<1>7. CASE StepTimeoutCheck
  BY <1>7 DEF StepTimeoutCheck, Goto
<1>8. CASE StepPayloadCheck
  <2>1. worker.cmd \in Threads /\ UNCHANGED <<dev, cmd_status, executed, req, call, wake, ret>>
    BY <1>8 DEF StepPayloadCheck
  <2>2. CASE cmd_status[worker.cmd] = "PENDING"
    <3>1. worker' = [worker EXCEPT !.pc = "fill"]
      BY <1>8, <2>2 DEF StepPayloadCheck, Goto, Executable
    <3> QED  BY <1>8, <2>1, <2>2, <3>1 DEF StepPayloadCheck
  <2>3. CASE cmd_status[worker.cmd] # "PENDING"
    <3>1. worker' = [worker EXCEPT !.pc = "invalid"]
      BY <1>8, <2>3 DEF StepPayloadCheck, Goto, Executable
    <3>2. \A t \in Threads : req.cmd # t
      BY <1>8, <2>3 DEF StepPayloadCheck
    <3> QED  BY <1>8, <2>1, <3>1, <3>2 DEF StepPayloadCheck
  <2> QED  BY <2>2, <2>3
<1>9. CASE StepInvalid
  <2>1. \A t \in Threads : req.cmd # t
    BY <1>9 DEF StepInvalid
  <2> QED  BY <1>9, <2>1 DEF StepInvalid, Goto
<1>10. CASE StepError
  BY <1>10 DEF StepError, Goto
<1>11. CASE StepRaiseError
  BY <1>11 DEF StepRaiseError, Goto
<1>12. CASE StepFill
  <2>1. PICK c \in Threads : req.cmd = c
    BY <1>12 DEF StepFill, Request
  <2>2. worker.pc = "fill" /\ worker.cmd = c /\ ~executed[c] /\ cmd_status[c] = "PENDING"
    BY <1>12, <2>1 DEF StepFill
  <2>3. /\ worker' = [worker EXCEPT !.pc = "status"] /\ UNCHANGED <<dev, cmd_status, req>>
        /\ executed' = [executed EXCEPT ![c] = TRUE]
    BY <1>12, <2>2 DEF StepFill, Goto
  <2>4. worker'.pc = "status" /\ worker'.cmd = c
    BY <2>2, <2>3
  <2>5. executed'[c] = TRUE /\ \A t \in Threads : t # c => executed'[t] = executed[t]
    BY <2>3
  <2> QED  BY <2>1, <2>2, <2>3, <2>4, <2>5
<1>13. CASE StepStatus
  BY <1>13 DEF StepStatus, Goto
<1>14. CASE StepDone
  BY <1>14 DEF StepDone, Goto
<1>15. CASE StepRaise
  BY <1>15 DEF StepRaise, Goto
<1>16. CASE StepAckRead
  BY <1>16 DEF StepAckRead
<1>17. CASE StepAckWrite
  BY <1>17 DEF StepAckWrite, Goto
<1>18. CASE DispatchPending
  BY <1>18 DEF DispatchPending, Goto
<1>19. CASE IrqRead
  BY <1>19 DEF IrqRead
<1> QED
  BY <1>1, <1>2, <1>3, <1>4, <1>5, <1>6, <1>7, <1>8, <1>9, <1>10, <1>11, <1>12, <1>13, <1>14, <1>15,
     <1>16, <1>17, <1>18, <1>19 DEF WorkerStep

(* The interrupt handler finds the completion of the request in the slot. *)
LEMMA YieldHandler ==
  ASSUME SlotInv, YieldInv, accel_irq_handler
  PROVE  YieldInv' /\ executed' = executed
<1> DEFINE d == [dev EXCEPT !.irq_ack = worker.irq]
<1>1. /\ worker.pc = "isr" /\ worker'.pc = "loop" /\ dev.control = {}
      /\ d \in Device /\ d.control = {} /\ d.status = dev.status /\ d.irq_status = dev.irq_status
      /\ d.irq_ack = worker.irq
  BY DEF accel_irq_handler, At, Goto, SlotInv, TypeOK, Device, Worker, YieldInv
<1>2. platform_accel_step(d)
  BY DEF accel_irq_handler
<1> HIDE DEF d
<1>3. /\ dev'.control = {} /\ cmd_status' = cmd_status /\ executed' = executed
      /\ dev'.status = dev.status /\ dev'.irq_status = dev.irq_status \ worker.irq
  BY <1>1, <1>2, DeviceStep DEF SlotInv
<1>31. StartAccountedFor'
  BY <1>3, NoStart
<1>4. CASE ~req.in_use
  <2>1. req' = req
    BY <1>4 DEF accel_irq_handler
  <2>2. \A t \in Threads : req.cmd # t
    BY <1>4, ThreadsAssumption DEF SlotInv, DriverInv, SlotOwned
  <2> QED  BY <1>1, <1>3, <1>31, <2>1, <2>2 DEF YieldInv
<1>5. CASE req.in_use
  <2>1. req' = [req EXCEPT !.result = IrqResult, !.completed = TRUE]
    BY <1>5 DEF accel_irq_handler
  <2>2. PICK c \in Threads : req.cmd = c
    BY <1>5 DEF SlotInv, TypeOK, Request, DriverInv, SlotOwned
  <2>3. Interrupting(c)
    BY <1>1, <2>2 DEF YieldInv, InFlight, Submitted, InDevice, Finished
  <2>4. /\ dev.irq_status = {"DONE"} /\ worker.irq = {"DONE"} /\ dev.status = "DONE"
        /\ executed[c] /\ cmd_status[c] = "OK"
    BY <1>1, <2>3 DEF Interrupting
  <2>5. IrqResult = "OK"
    BY <2>2, <2>4 DEF IrqResult
  <2>6. /\ req'.cmd = c /\ req'.completed /\ req'.result = "OK" /\ req'.in_use
    BY <1>5, <2>1, <2>2, <2>5 DEF SlotInv, TypeOK, Request
  <2>7. Finished(c)'
    BY <1>1, <1>3, <2>4, <2>6 DEF Finished
  <2> QED  BY <1>1, <1>3, <1>31, <2>2, <2>6, <2>7 DEF YieldInv, InFlight
<1> QED  BY <1>3, <1>4, <1>5

(* A submission, accepted or refused.  The worker is at its yield point. *)
LEMMA YieldSubmit ==
  ASSUME ~Preemptible, SlotInv, YieldInv, NEW t \in Threads, Submit(t)
  PROVE  /\ YieldInv' /\ \A u \in Threads : executed'[u] => executed[u]
         /\ \A u \in Threads : call'[u] = "none" => call[u] = "none"
<1>1. CASE accel_submit_zero_ticks(t) \/ accel_submit_invalid(t) \/ accel_submit_rejected(t)
  <2>1. call[t] = "none" /\ UNCHANGED <<dev, req, call, worker, executed>>
    BY <1>1 DEF accel_submit_zero_ticks, accel_submit_invalid, accel_submit_rejected, Idle, SubmitFails
  <2>2. req.cmd # t
    BY <2>1 DEF SlotInv, DriverInv, SlotOwned
  <2>3. /\ \A u \in Threads : u # t => cmd_status'[u] = cmd_status[u]
        /\ cmd_status'[t] # "PENDING"
    BY <1>1 DEF accel_submit_zero_ticks, accel_submit_invalid, accel_submit_rejected, SubmitFails,
                SlotInv, TypeOK
  <2>4. StartAccountedFor'
    BY <2>1, <2>2, <2>3, ThreadsAssumption
    DEF YieldInv, StartAccountedFor, Executable, SlotInv, TypeOK, Request, DriverInv, SlotOwned
  <2> QED  BY <2>1, <2>2, <2>3, <2>4
           DEF YieldInv, InFlight, Submitted, InDevice, Interrupting, Finished
<1>2. ASSUME NEW op \in {"untimed", "timed"}, accel_submit_sync_timeout(t, op)
      PROVE  /\ YieldInv' /\ \A u \in Threads : executed'[u] => executed[u]
             /\ \A u \in Threads : call'[u] = "none" => call[u] = "none"
  <2>1. /\ worker.pc = "loop" /\ worker' = worker /\ ~req.in_use /\ ~req.reset_required
        /\ dev.status = "IDLE"
        /\ req' = [FreeSlot(req.reset_required) EXCEPT !.cmd = t, !.in_use = TRUE]
        /\ cmd_status' = [cmd_status EXCEPT ![t] = "PENDING"]
        /\ dev' = [dev EXCEPT !.cmd_base = t, !.control = {"START"}]
        /\ call' = [call EXCEPT ![t] = op]
        /\ executed' = [executed EXCEPT ![t] = FALSE]
    BY <1>2 DEF accel_submit_sync_timeout, Idle, OthersRun, MaySubmit, accel_device_is_ready
  <2>2. /\ req'.cmd = t /\ req'.in_use = TRUE /\ req'.completed = FALSE
        /\ req'.reset_required = req.reset_required
    BY <2>1 DEF FreeSlot
  <2>3. /\ dev'.status = "IDLE" /\ dev'.cmd_base = t /\ dev'.control = {"START"}
    BY <2>1 DEF SlotInv, TypeOK, Device
  <2>4. \A u \in Threads : cmd_status[u] # "PENDING"
    BY <2>1, ThreadsAssumption DEF YieldInv, SlotInv, DriverInv, SlotOwned
  <2>5. ~executed'[t] /\ \A u \in Threads : u # t => executed'[u] = executed[u]
    BY <2>1 DEF SlotInv, TypeOK
  <2>6. /\ cmd_status'[t] = "PENDING"
        /\ \A u \in Threads : u # t => cmd_status'[u] # "PENDING"
    BY <2>1, <2>4 DEF SlotInv, TypeOK
  <2>7. Submitted(t)'
    BY <2>1, <2>2, <2>3, <2>5, <2>6 DEF Submitted
  <2>71. StartAccountedFor'
    BY <2>1, <2>2, <2>3, <2>6 DEF StartAccountedFor, Executable
  <2>8. YieldInv'
    BY <2>1, <2>2, <2>6, <2>7, <2>71 DEF YieldInv, InFlight
  <2>9. \A u \in Threads : call'[u] = "none" => call[u] = "none"
    BY <2>1 DEF SlotInv, TypeOK
  <2> QED  BY <2>5, <2>8, <2>9
<1> QED  BY <1>1, <1>2 DEF Submit

(* The end of a submit call.  Only a request the device has not seen yet   *)
(* times out, and only one it has executed is complete.                    *)
LEMMA YieldResume ==
  ASSUME ~Preemptible, SlotInv, YieldInv, NEW t \in Threads, accel_submit_resume(t)
  PROVE  /\ YieldInv' /\ executed' = executed
         /\ \A u \in Threads : Returns(u) => (ret'[u] = "OK" <=> executed[u])
<1>1. /\ worker.pc = "loop" /\ worker' = worker /\ executed' = executed
      /\ wake[t] \in {"woken", "expired"}
  BY DEF accel_submit_resume, OthersRun
<1>2. req.in_use /\ req.cmd = t
  BY <1>1, FreeMeansNobody DEF SlotInv
<1>3. CASE ~req.completed /\ wake[t] # "expired"
  <2>1. UNCHANGED <<dev, cmd_status, req, call, ret>>
    BY <1>3 DEF accel_submit_resume
  <2> QED  BY <1>1, <2>1 DEF YieldInv, InFlight, Submitted, InDevice, Interrupting, Finished, Returns,
                             StartAccountedFor, Executable
<1>4. CASE ~(~req.completed /\ wake[t] # "expired")
  <2>1. /\ \/ cmd_status' = [cmd_status EXCEPT ![t] = "TIMEOUT"] /\ wake[t] = "expired"
           \/ cmd_status' = cmd_status /\ wake[t] # "expired"
        /\ ret' = [ret EXCEPT ![t] = CallResult(t)]
        /\ call' = [call EXCEPT ![t] = "none"]
        /\ \E b : req' = FreeSlot(b)
    BY <1>4 DEF accel_submit_resume, TimedOut
  <2>2. req'.cmd = None /\ req'.in_use = FALSE
    BY <2>1 DEF FreeSlot
  <2>3. Submitted(t) \/ Finished(t)
    BY <1>1, <1>2 DEF YieldInv, InFlight, InDevice, Interrupting
  <2>4. CallResult(t) = "OK" <=> executed[t]
    BY <1>1, <2>3 DEF Submitted, Finished, CallResult
  <2>5. \A u \in Threads : cmd_status'[u] # "PENDING"
    <3>1. \A u \in Threads : u # t => cmd_status[u] # "PENDING"
      BY <1>2 DEF YieldInv
    <3>2. wake[t] # "expired" => cmd_status[t] # "PENDING"
      BY <1>4, <2>3 DEF Submitted, Finished
    <3> QED  BY <2>1, <3>1, <3>2 DEF SlotInv, TypeOK
  <2>51. StartAccountedFor'
    <3>1. CASE dev.control = {} \/ (t \in UserThreads /\ CallResult(t) = "TIMEOUT")
      <4>1. dev'.control = {}
        BY <1>4, <3>1, ResetState DEF accel_submit_resume, SlotInv, TypeOK, Device
      <4> QED  BY <4>1, NoStart
    <3>2. CASE dev.control # {} /\ ~(t \in UserThreads /\ CallResult(t) = "TIMEOUT")
      <4>1. Submitted(t)
        BY <2>3, <3>2 DEF Finished
      <4>2. wake[t] = "expired"
        BY <1>4, <4>1 DEF Submitted
      <4>3. req' = FreeSlot(TRUE) /\ dev' = dev
        BY <1>4, <3>2, <4>2 DEF accel_submit_resume
      <4> QED  BY <2>5, <4>3 DEF StartAccountedFor, Executable, FreeSlot
    <3> QED  BY <3>1, <3>2
  <2>6. YieldInv'
    BY <1>1, <2>2, <2>5, <2>51, ThreadsAssumption DEF YieldInv
  <2>7. ASSUME NEW u \in Threads, Returns(u) PROVE ret'[u] = "OK" <=> executed[u]
    <3>1. u = t
      BY <2>1, <2>7 DEF Returns, SlotInv, TypeOK
    <3> QED  BY <2>1, <2>4, <3>1 DEF SlotInv, TypeOK
  <2> QED  BY <1>1, <2>6, <2>7
<1> QED  BY <1>3, <1>4

(* The register-level calls find no pending command to execute. *)
LEMMA YieldRegisterCall ==
  ASSUME ~Preemptible, SlotInv, YieldInv,
         accel_reset \/ accel_start_selftest \/ \E mask \in SUBSET Irq : accel_ack_irq(mask)
  PROVE  YieldInv' /\ executed' = executed
<1>1. /\ worker.pc = "loop" /\ worker' = worker /\ ~req.in_use /\ req'.cmd = req.cmd
  BY RegisterCallInv
  DEF accel_reset, accel_start_selftest, accel_ack_irq, KernelCaller, OthersRun, SlotInv, TypeOK, Request
<1>2. \A t \in Threads : req.cmd # t /\ cmd_status[t] # "PENDING"
  BY <1>1, ThreadsAssumption DEF YieldInv, SlotInv, DriverInv, SlotOwned
<1>3. PICK d : platform_accel_step(d)
  BY DEF accel_reset, accel_start_selftest, accel_ack_irq
<1>4. \A t \in Threads : ~StartExecutes(d, t)
  BY <1>2 DEF StartExecutes, Executable
<1>5. \A t \in Threads : cmd_status'[t] # "PENDING"
  BY <1>2, <1>3 DEF platform_accel_step, StartStatus, Refused
<1>6. executed' = executed
  <2>1. executed' = [t \in Threads |-> executed[t]]
    BY <1>3, <1>4 DEF platform_accel_step, SlotInv, TypeOK
  <2> QED  BY <2>1 DEF SlotInv, TypeOK
<1>7. StartAccountedFor'
  <2>1. dev'.control = {}
    BY DeviceStep DEF accel_reset, accel_start_selftest, accel_ack_irq, SlotInv, TypeOK, Device
  <2> QED  BY <2>1, NoStart
<1> QED  BY <1>1, <1>2, <1>5, <1>6, <1>7 DEF YieldInv

(* Every step keeps YieldInv, executes only the command in the slot and      *)
(* returns the truth.                                                        *)
LEMMA YieldStep ==
  ASSUME ~Preemptible, SlotInv, YieldInv, [Next]_vars
  PROVE  /\ YieldInv'
         /\ \A t \in Threads : ~executed[t] /\ executed'[t] => call[t] # "none"
         /\ \A t \in Threads : Returns(t) => (ret'[t] = "OK" <=> executed[t])
<1>1. CASE WorkerStep
  <2>1. call' = call
    BY <1>1, WorkerStepInv DEF accel_irq_handler
  <2> QED  BY <1>1, <2>1, YieldWorkerStep, YieldHandler DEF Returns, SlotInv, DriverInv, SlotOwned
<1>2. ASSUME NEW t \in Threads, Submit(t)
      PROVE  YieldInv' /\ \A u \in Threads : (executed'[u] => executed[u]) /\ ~Returns(u)
  BY <1>2, YieldSubmit DEF Returns
<1>3. ASSUME NEW t \in Threads, TimeoutExpires(t) PROVE YieldInv' /\ UNCHANGED <<call, executed>>
  BY <1>3
  DEF TimeoutExpires, YieldInv, InFlight, Submitted, InDevice, Interrupting, Finished,
      StartAccountedFor, Executable
<1>4. CASE accel_reset \/ accel_start_selftest \/ \E mask \in SUBSET Irq : accel_ack_irq(mask)
  BY <1>4, YieldRegisterCall, RegisterCallInv DEF Returns
<1>5. CASE UNCHANGED vars
  BY <1>5 DEF vars, YieldInv, InFlight, Submitted, InDevice, Interrupting, Finished, Returns,
              StartAccountedFor, Executable
<1> QED  BY <1>1, <1>2, <1>3, <1>4, <1>5, YieldResume DEF Next, Returns

(* The probed driver has no request. *)
LEMMA YieldInit == Init => YieldInv
<1> SUFFICES ASSUME Init PROVE YieldInv
  OBVIOUS
<1>1. /\ worker.pc = "loop" /\ req.cmd = None /\ dev.control = {}
      /\ \A t \in Threads : cmd_status[t] = "NEW"
  BY DEF Init, FreeSlot
<1> QED  BY <1>1, ThreadsAssumption DEF YieldInv, StartAccountedFor

(***************************************************************************)
(* With a worker that is not preempted inside its loop body, a submit call *)
(* returns OK exactly when the device has executed its command.  (With a   *)
(* preemptible worker it does not: run accel_stale_irq.)                   *)
(***************************************************************************)
THEOREM ResultIsTruth == ASSUME ~Preemptible PROVE Spec => ResultTruthful
<1> DEFINE Step == \A t \in Threads : Returns(t) => (ret'[t] = "OK" <=> executed[t])
<1>1. SlotInv /\ YieldInv /\ [Next]_vars => YieldInv' /\ [Step]_vars
  BY YieldStep
<1> QED  BY <1>1, YieldInit, SlotInvariant, PTL DEF Spec, ResultTruthful

(***************************************************************************)
(* With the same worker the device never writes the buffer of a call that  *)
(* has returned.                                                           *)
(***************************************************************************)
THEOREM DmaOnlyDuringCall == ASSUME ~Preemptible PROVE Spec => NoLateDma
<1> DEFINE Step == \A t \in Threads : ~executed[t] /\ executed'[t] => call[t] # "none"
<1>1. SlotInv /\ YieldInv /\ [Next]_vars => YieldInv' /\ [Step]_vars
  BY YieldStep
<1> QED  BY <1>1, YieldInit, SlotInvariant, PTL DEF Spec, NoLateDma

(***************************************************************************)
(* With the same worker a START in the device is that of the request       *)
(* somebody waits for, or a timed-out call has left it behind, the device  *)
(* will refuse it, and until the reset that clears it only the worker      *)
(* touches the device.                                                     *)
(***************************************************************************)
THEOREM QuarantineHolds == ASSUME ~Preemptible PROVE Spec => Quarantine
<1> DEFINE Step == /\ StartAccountedFor
                   /\ req.reset_required /\ req'.reset_required => OnlyWorkerTouchesDevice
<1>1. SlotInv /\ YieldInv /\ [Next]_vars => YieldInv' /\ [Step]_vars
  BY YieldStep, QuarantinedUntouched DEF YieldInv
<1> QED  BY <1>1, YieldInit, SlotInvariant, PTL DEF Spec, Quarantine
=============================================================================
