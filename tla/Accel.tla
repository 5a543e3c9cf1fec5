------------------------------- MODULE Accel -------------------------------
(***************************************************************************)
(* The simulated accelerator: its driver (kernel/drivers/accel.c), the     *)
(* device simulator (kernel/arch/riscv64/accel_platform.c), the worker     *)
(* thread that steps the device and dispatches its interrupt, and the      *)
(* timeout path of the user system call (kernel/user/accel_syscall.c).     *)
(*                                                                         *)
(* The driver's entry points and the body of its interrupt handler run     *)
(* with interrupts masked and are single steps.  The worker is a kernel    *)
(* thread with interrupts enabled: it reads and writes the registers one   *)
(* access at a time, in the order of the source, and, when Preemptible,    *)
(* loses the processor to other threads between any two of them; otherwise *)
(* only where it yields, at the end of its loop.  A timer tick may expire  *)
(* a timed wait at any moment.                                             *)
(*                                                                         *)
(* The wait queue is taken by its contract, which module Thread checks: a  *)
(* waiter leaves it once, through wait_queue_wake_all() or its deadline.   *)
(***************************************************************************)
EXTENDS Integers, FiniteSets

CONSTANTS
  Threads,        \* submitting threads; thread t submits descriptor t
  UserThreads,    \* those that submit through the user system call
  None,           \* a NULL pointer, and an empty CMD_BASE register
  Preemptible     \* may the worker be preempted inside the device step?

ASSUME ThreadsAssumption     == UserThreads \subseteq Threads /\ None \notin Threads
ASSUME PreemptibleAssumption == Preemptible \in BOOLEAN

VARIABLES
  dev,         \* the registers of the device
  cmd_status,  \* the status word of each descriptor
  req,         \* accel_request
  call,        \* per thread: the submit call it is blocked in
  wake,        \* per thread: where that call's wait stands
  ret,         \* per thread: what its last submit call returned
  worker,      \* the worker thread: its position and its local variables
  executed     \* history: the device has executed the thread's last command

vars == <<dev, cmd_status, req, call, wake, ret, worker, executed>>

Irq       == {"DONE", "ERROR"}
Device    == [status : {"IDLE", "BUSY", "DONE", "ERROR"}, control : SUBSET {"START", "RESET"},
              irq_status : SUBSET Irq, irq_ack : SUBSET Irq, cmd_base : Threads \cup {None}]
CmdStatus == {"NEW", "PENDING", "OK", "INVALID", "REJECTED", "TIMEOUT"}
Result    == {"OK", "IO", "BUSY", "INVALID", "TIMEOUT"}
Request   == [cmd : Threads \cup {None}, in_use : BOOLEAN, completed : BOOLEAN,
              result : {"OK", "IO"}, reset_required : BOOLEAN]
WorkerPc  == {"loop", "clear", "start", "busy", "base", "load", "timeout", "payload",
              "fill", "status", "done", "raise", "invalid", "error", "raise_error",
              "ack_read", "ack_write", "pending", "irq_read", "isr"}
Worker    == [pc : WorkerPc, control : SUBSET {"START", "RESET"}, irq : SUBSET Irq,
              cmd : Threads \cup {None}]

(* The request slot, free; accel_probe() and the end of a call leave it so. *)
FreeSlot(reset_required) ==
  [cmd |-> None, in_use |-> FALSE, completed |-> FALSE, result |-> "IO",
   reset_required |-> reset_required]

Init ==
  /\ dev = [status |-> "IDLE", control |-> {}, irq_status |-> {}, irq_ack |-> {},
            cmd_base |-> None]
  /\ cmd_status = [t \in Threads |-> "NEW"]
  /\ req = FreeSlot(FALSE)
  /\ call = [t \in Threads |-> "none"]
  /\ wake = [t \in Threads |-> "none"]
  /\ ret = [t \in Threads |-> "OK"]
  /\ worker = [pc |-> "loop", control |-> {}, irq |-> {}, cmd |-> None]
  /\ executed = [t \in Threads |-> FALSE]

-----------------------------------------------------------------------------
(* The device. *)

accel_enter_error(d) == [d EXCEPT !.status = "ERROR", !.irq_status = {"ERROR"}]
Complete(d)          == [d EXCEPT !.status = "DONE", !.irq_status = {"DONE"}]

accel_reset_state(d) ==
  [d EXCEPT !.status = "IDLE", !.irq_status = {}, !.irq_ack = {}, !.cmd_base = None]

(* accel_start_descriptor(): the descriptor as the driver encoded it is     *)
(* executed while it is pending.                                            *)
Executable(status) == status = "PENDING"

(* What the device does to a descriptor it does not execute. *)
Refused(status) == IF status = "TIMEOUT" THEN status ELSE "INVALID"

(* The command a START executes, if it executes one. *)
StartExecutes(d, t) ==
  d.status = "IDLE" /\ d.cmd_base = t /\ Executable(cmd_status[t])

accel_start(d) ==
  IF d.status # "IDLE" THEN accel_enter_error(d)
  ELSE IF d.cmd_base = None \/ StartExecutes(d, d.cmd_base) THEN Complete(d)
  ELSE accel_enter_error(d)

StartStatus(d) ==
  [t \in Threads |->
     IF StartExecutes(d, t) THEN "OK"
     ELSE IF d.status = "IDLE" /\ d.cmd_base = t THEN Refused(cmd_status[t])
     ELSE cmd_status[t]]

(* platform_accel_step() called with interrupts masked, on registers d. *)
platform_accel_step(d) ==
  LET idle == [d EXCEPT !.control = {}, !.irq_ack = {}]
      next == IF "START" \in d.control THEN accel_start(idle) ELSE idle
      starts == "START" \in d.control /\ "RESET" \notin d.control
  IN  /\ dev' = IF "RESET" \in d.control THEN accel_reset_state(idle)
                ELSE [next EXCEPT !.irq_status = @ \ d.irq_ack]
      /\ cmd_status' = IF starts THEN StartStatus(d) ELSE cmd_status
      /\ executed' = [t \in Threads |-> executed[t] \/ (starts /\ StartExecutes(d, t))]

-----------------------------------------------------------------------------
(* The driver. *)

(* A thread other than the worker has the processor. *)
OthersRun == Preemptible \/ worker.pc = "loop"
Idle(t)   == OthersRun /\ call[t] = "none"

accel_device_is_ready == dev.status = "IDLE" /\ dev.irq_status = {}

(* A submission that ends before it reaches the device. *)
SubmitFails(t, status, result) ==
  /\ cmd_status' = [cmd_status EXCEPT ![t] = status]
  /\ ret' = [ret EXCEPT ![t] = result]
  /\ UNCHANGED <<dev, req, call, wake, worker, executed>>

accel_submit_zero_ticks(t) == Idle(t) /\ SubmitFails(t, "TIMEOUT", "TIMEOUT")
accel_submit_invalid(t)    == Idle(t) /\ SubmitFails(t, "INVALID", "INVALID")

MaySubmit_NoOwnerCheck == ~req.reset_required /\ accel_device_is_ready
MaySubmit == ~req.in_use /\ ~req.reset_required /\ accel_device_is_ready

accel_submit_rejected(t) == Idle(t) /\ ~MaySubmit /\ SubmitFails(t, "REJECTED", "BUSY")

(* accel_submit_sync_timeout() up to its wait; op is "untimed" for          *)
(* accel_submit_sync(), that is for UINT64_MAX ticks.                       *)
accel_submit_sync_timeout(t, op) ==
  /\ Idle(t) /\ MaySubmit
  /\ req' = [FreeSlot(req.reset_required) EXCEPT !.cmd = t, !.in_use = TRUE]
  /\ cmd_status' = [cmd_status EXCEPT ![t] = "PENDING"]
  /\ dev' = [dev EXCEPT !.cmd_base = t, !.control = {"START"}]
  /\ call' = [call EXCEPT ![t] = op]
  /\ wake' = [wake EXCEPT ![t] = "waiting"]
  /\ executed' = [executed EXCEPT ![t] = FALSE]
  /\ UNCHANGED <<ret, worker>>

(* A timer tick ends a timed wait; the thread runs later. *)
TimeoutExpires(t) ==
  /\ call[t] = "timed" /\ wake[t] = "waiting"
  /\ wake' = [wake EXCEPT ![t] = "expired"]
  /\ UNCHANGED <<dev, cmd_status, req, call, ret, worker, executed>>

(* What the call returns, once its wait is over. *)
CallResult_TimeoutFirst(t) ==
  IF wake[t] = "expired" THEN "TIMEOUT" ELSE req.result
CallResult(t) ==
  IF req.completed THEN req.result ELSE "TIMEOUT"

(* What a WAIT_TIMEOUT writes to the descriptor. *)
TimedOut_Unmarked(t) == cmd_status
TimedOut(t) == [cmd_status EXCEPT ![t] = "TIMEOUT"]

(***************************************************************************)
(* The rest of accel_submit_sync_timeout(), still masked.  A wait that     *)
(* ended in WAIT_TIMEOUT marks the descriptor and quarantines the device,  *)
(* but the result of a request completed meanwhile is the one returned.    *)
(* The system call goes on masked: on a timeout it resets the device, and  *)
(* it frees the descriptor and the buffer before it returns.               *)
(***************************************************************************)
accel_submit_resume(t) ==
  LET expired == wake[t] = "expired"
      resets  == t \in UserThreads /\ CallResult(t) = "TIMEOUT"
  IN  /\ OthersRun /\ wake[t] \in {"woken", "expired"}
      /\ IF ~req.completed /\ ~expired
         THEN /\ wake' = [wake EXCEPT ![t] = "waiting"]
              /\ UNCHANGED <<dev, cmd_status, req, call, ret>>
         ELSE /\ cmd_status' = IF expired THEN TimedOut(t) ELSE cmd_status
              /\ ret' = [ret EXCEPT ![t] = CallResult(t)]
              /\ req' = FreeSlot(~resets /\ (req.reset_required \/ expired))
              /\ dev' = IF resets THEN accel_reset_state([dev EXCEPT !.control = {}]) ELSE dev
              /\ call' = [call EXCEPT ![t] = "none"]
              /\ wake' = [wake EXCEPT ![t] = "none"]
      /\ UNCHANGED <<worker, executed>>

(* Kernel threads outside a call use the register-level API.  It refuses    *)
(* and changes nothing while a request is in the slot and, but for a reset, *)
(* while the device awaits one.                                             *)
KernelCaller == OthersRun /\ \E t \in Threads \ UserThreads : call[t] = "none"

accel_reset ==
  /\ KernelCaller /\ ~req.in_use
  /\ platform_accel_step([dev EXCEPT !.control = {"RESET"}])
  /\ req' = [req EXCEPT !.reset_required = FALSE]
  /\ UNCHANGED <<call, wake, ret, worker>>

accel_start_selftest_Quarantined ==
  /\ KernelCaller /\ ~req.in_use
  /\ platform_accel_step([dev EXCEPT !.control = {"START"}])
  /\ UNCHANGED <<req, call, wake, ret, worker>>

accel_start_selftest ==
  /\ KernelCaller /\ ~req.in_use /\ ~req.reset_required
  /\ platform_accel_step([dev EXCEPT !.control = {"START"}])
  /\ UNCHANGED <<req, call, wake, ret, worker>>

accel_ack_irq(mask) ==
  /\ KernelCaller /\ ~req.in_use /\ ~req.reset_required
  /\ platform_accel_step([dev EXCEPT !.irq_ack = mask])
  /\ UNCHANGED <<req, call, wake, ret, worker>>

-----------------------------------------------------------------------------
(* The worker's loop: platform_accel_step(), one access at a time, then     *)
(* platform_dispatch_pending_irqs().                                        *)

At(pc)   == worker.pc = pc
Goto(pc) == worker' = [worker EXCEPT !.pc = pc]
DriverUnchanged == UNCHANGED <<req, call, wake, ret>>

(* A RESET is never read here: it is set only where a masked step consumes *)
(* it at once, and so is IRQ_ACK.                                          *)
StepRead ==
  /\ At("loop")
  /\ worker' = [worker EXCEPT !.pc = "clear", !.control = dev.control]
  /\ UNCHANGED <<dev, cmd_status, executed>> /\ DriverUnchanged

StepClear ==
  /\ At("clear")
  /\ dev' = [dev EXCEPT !.control = {}, !.irq_ack = {}]
  /\ Goto(IF "START" \in worker.control THEN "start" ELSE "ack_read")
  /\ UNCHANGED <<cmd_status, executed>> /\ DriverUnchanged

(* accel_start(): the status is tested, then written. *)
StepStart ==
  /\ At("start") /\ Goto(IF dev.status = "IDLE" THEN "busy" ELSE "error")
  /\ UNCHANGED <<dev, cmd_status, executed>> /\ DriverUnchanged

StepBusy ==
  /\ At("busy") /\ Goto("base")
  /\ dev' = [dev EXCEPT !.status = "BUSY"]
  /\ UNCHANGED <<cmd_status, executed>> /\ DriverUnchanged

(* CMD_BASE is read twice, for the test and for the descriptor: a reset in *)
(* between leaves an address that accel_descriptor_location_is_valid()     *)
(* refuses.  A build that reads it once has the runs where both agree.     *)
StepBase ==
  /\ At("base") /\ Goto(IF dev.cmd_base = None THEN "done" ELSE "load")
  /\ UNCHANGED <<dev, cmd_status, executed>> /\ DriverUnchanged

StepLoad ==
  /\ At("load")
  /\ worker' = [worker EXCEPT !.pc = IF dev.cmd_base = None THEN "error" ELSE "timeout",
                              !.cmd = dev.cmd_base]
  /\ UNCHANGED <<dev, cmd_status, executed>> /\ DriverUnchanged

(* accel_start_descriptor(): the status word is read for each test. *)
StepTimeoutCheck ==
  /\ At("timeout")
  /\ Goto(IF cmd_status[worker.cmd] = "TIMEOUT" THEN "error" ELSE "payload")
  /\ UNCHANGED <<dev, cmd_status, executed>> /\ DriverUnchanged

StepPayloadCheck ==
  /\ At("payload")
  /\ Goto(IF Executable(cmd_status[worker.cmd]) THEN "fill" ELSE "invalid")
  /\ UNCHANGED <<dev, cmd_status, executed>> /\ DriverUnchanged

StepInvalid ==
  /\ At("invalid") /\ Goto("error")
  /\ cmd_status' = [cmd_status EXCEPT ![worker.cmd] = "INVALID"]
  /\ UNCHANGED <<dev, executed>> /\ DriverUnchanged

(* accel_enter_error(): the two registers. *)
StepError ==
  /\ At("error") /\ Goto("raise_error")
  /\ dev' = [dev EXCEPT !.status = "ERROR"]
  /\ UNCHANGED <<cmd_status, executed>> /\ DriverUnchanged

StepRaiseError ==
  /\ At("raise_error") /\ Goto("ack_read")
  /\ dev' = [dev EXCEPT !.irq_status = {"ERROR"}]
  /\ UNCHANGED <<cmd_status, executed>> /\ DriverUnchanged

(* accel_execute_memset(): the buffer, the descriptor, the two registers,  *)
(* which a START without a command goes straight to.                       *)
StepFill ==
  /\ At("fill") /\ Goto("status")
  /\ executed' = [executed EXCEPT ![worker.cmd] = TRUE]
  /\ UNCHANGED <<dev, cmd_status>> /\ DriverUnchanged

StepStatus ==
  /\ At("status") /\ Goto("done")
  /\ cmd_status' = [cmd_status EXCEPT ![worker.cmd] = "OK"]
  /\ UNCHANGED <<dev, executed>> /\ DriverUnchanged

StepDone ==
  /\ At("done") /\ Goto("raise")
  /\ dev' = [dev EXCEPT !.status = "DONE"]
  /\ UNCHANGED <<cmd_status, executed>> /\ DriverUnchanged

StepRaise ==
  /\ At("raise") /\ Goto("ack_read")
  /\ dev' = [dev EXCEPT !.irq_status = {"DONE"}]
  /\ UNCHANGED <<cmd_status, executed>> /\ DriverUnchanged

(* irq_status &= ~irq_ack: a load and a store (irq_ack was read as 0,      *)
(* since it is set only where a masked step consumes it at once).          *)
StepAckRead ==
  /\ At("ack_read")
  /\ worker' = [worker EXCEPT !.pc = "ack_write", !.irq = dev.irq_status]
  /\ UNCHANGED <<dev, cmd_status, executed>> /\ DriverUnchanged

StepAckWrite ==
  /\ At("ack_write") /\ Goto("pending")
  /\ dev' = [dev EXCEPT !.irq_status = worker.irq]
  /\ UNCHANGED <<cmd_status, executed>> /\ DriverUnchanged

(* platform_accel_irq_pending(). *)
DispatchPending ==
  /\ At("pending")
  /\ Goto(IF dev.irq_status = {} THEN "loop" ELSE "irq_read")
  /\ UNCHANGED <<dev, cmd_status, executed>> /\ DriverUnchanged

(* accel_irq_handler() reads IRQ_STATUS before it masks interrupts. *)
IrqRead ==
  /\ At("irq_read")
  /\ worker' = [worker EXCEPT !.pc = IF dev.irq_status = {} THEN "loop" ELSE "isr",
                              !.irq = dev.irq_status]
  /\ UNCHANGED <<dev, cmd_status, executed>> /\ DriverUnchanged

IrqResult ==
  IF "DONE" \in worker.irq /\ dev.status = "DONE" /\ cmd_status[req.cmd] = "OK"
  THEN "OK" ELSE "IO"

WakeAll_None == wake
WakeAll == [t \in Threads |-> IF wake[t] = "waiting" THEN "woken" ELSE wake[t]]

(* The masked part: an interrupt nobody waits for is only acknowledged. *)
accel_irq_handler ==
  /\ At("isr") /\ Goto("loop")
  /\ IF ~req.in_use THEN UNCHANGED <<req, wake>>
     ELSE /\ req' = [req EXCEPT !.result = IrqResult, !.completed = TRUE]
          /\ wake' = WakeAll
  /\ platform_accel_step([dev EXCEPT !.irq_ack = worker.irq])
  /\ UNCHANGED <<call, ret>>

-----------------------------------------------------------------------------
WorkerStep ==
  \/ StepRead \/ StepClear \/ StepStart \/ StepBusy \/ StepBase \/ StepLoad
  \/ StepTimeoutCheck \/ StepPayloadCheck \/ StepInvalid \/ StepError \/ StepRaiseError
  \/ StepFill \/ StepStatus \/ StepDone \/ StepRaise \/ StepAckRead \/ StepAckWrite
  \/ DispatchPending \/ IrqRead \/ accel_irq_handler

Submit(t) ==
  \/ accel_submit_zero_ticks(t) \/ accel_submit_invalid(t) \/ accel_submit_rejected(t)
  \/ \E op \in {"untimed", "timed"} : accel_submit_sync_timeout(t, op)

Next ==
  \/ WorkerStep
  \/ \E t \in Threads : Submit(t) \/ TimeoutExpires(t) \/ accel_submit_resume(t)
  \/ accel_reset \/ accel_start_selftest
  \/ \E mask \in SUBSET Irq : accel_ack_irq(mask)

Spec == Init /\ [][Next]_vars

(* The worker keeps stepping the device, the timer ticks, and a thread whose *)
(* wait is over is scheduled (Thread!ReadyRuns); nobody has to submit or     *)
(* reset.  Scheduling is strong: the worker yields again and again.          *)
Fairness ==
  /\ WF_vars(WorkerStep)
  /\ \A t \in Threads : WF_vars(TimeoutExpires(t)) /\ SF_vars(accel_submit_resume(t))

FairSpec == Spec /\ Fairness

-----------------------------------------------------------------------------
(* Properties. *)

(* Type invariant of the driver, the device and the worker. *)
TypeOK ==
  /\ dev \in Device /\ cmd_status \in [Threads -> CmdStatus] /\ req \in Request
  /\ call \in [Threads -> {"none", "untimed", "timed"}]
  /\ wake \in [Threads -> {"none", "waiting", "woken", "expired"}]
  /\ ret \in [Threads -> Result] /\ worker \in Worker
  /\ executed \in [Threads -> BOOLEAN]

(* The one request slot belongs to the one thread inside a submit call, from *)
(* its acceptance to its return, whatever interrupts and timeouts do.        *)
SlotOwned ==
  /\ req.in_use <=> req.cmd # None
  /\ req.completed => req.in_use
  /\ \A t \in Threads : call[t] # "none" <=> req.cmd = t

(* What driver and device keep in agreement: their types and the slot. *)
AccelInv == TypeOK /\ SlotOwned

(* No lost wake-up: once the interrupt handler has completed the request,    *)
(* its submitter is no longer asleep on it.                                  *)
NoLostWakeup ==
  \A t \in Threads : req.completed /\ req.cmd = t => wake[t] # "waiting"

(* A START in the CONTROL register, which the worker will find there, is     *)
(* that of the request somebody waits for; or else it is the one a timed-out *)
(* call has left behind, its descriptor is refused by the device and the     *)
(* device awaits its reset.                                                  *)
StartAccountedFor ==
  "START" \in dev.control =>
    IF req.reset_required
    THEN ~req.in_use /\ \A t \in Threads : dev.cmd_base = t => ~Executable(cmd_status[t])
    ELSE req.in_use /\ dev.cmd_base = req.cmd /\ Executable(cmd_status[req.cmd])

(* Until that reset nobody but the worker touches the device. *)
OnlyWorkerTouchesDevice == UNCHANGED worker => UNCHANGED dev

(* Quarantine after a timeout, from the START left in the device to the      *)
(* reset that clears it: submission, self-test and acknowledgement keep off. *)
Quarantine ==
  [][/\ StartAccountedFor
     /\ req.reset_required /\ req'.reset_required => OnlyWorkerTouchesDevice]_vars

Returns(t) == call[t] # "none" /\ call'[t] = "none"

(* The result a submit call returns is the truth about the buffer: OK        *)
(* exactly when the device has executed this command.                        *)
ResultTruthful == [][\A t \in Threads : Returns(t) => (ret'[t] = "OK" <=> executed[t])]_vars

(* The device touches a buffer only while its submitter waits: a command     *)
(* whose call has returned is never executed later.                          *)
NoLateDma == [][\A t \in Threads : ~executed[t] /\ executed'[t] => call[t] # "none"]_vars

(* A submit call returns: through its completion or its deadline.            *)
SubmitReturns == \A t \in Threads : call[t] # "none" ~> call[t] = "none"

(* "timeout wins if wait_queue_sleep_timeout() returns WAIT_TIMEOUT"         *)
(* (docs/ddr/0030): a call whose wait ended in a timeout returns it.         *)
TimeoutWins ==
  [][\A t \in Threads : Returns(t) /\ wake[t] = "expired" => ret'[t] = "TIMEOUT"]_vars

(* "Acknowledgement happens in the ISR so stale IRQ bits do not poison the   *)
(* next submit" (docs/design/accelerator.md): no call fails although the     *)
(* device executed its command.                                              *)
StaleIrqHarmless ==
  [][\A t \in Threads : Returns(t) /\ ret'[t] = "IO" => ~executed[t]]_vars

(* "The reset proves that the simulated device has forgotten the command     *)
(* base" (docs/ddr/0036): the device writes no descriptor or buffer of a     *)
(* system call that has reset it, freed them and returned.                   *)
ForgottenAfterReset ==
  [][\A t \in UserThreads :
       (~executed[t] /\ executed'[t]) \/ (cmd_status[t] # "OK" /\ cmd_status'[t] = "OK")
         => call[t] # "none"]_vars
=============================================================================
