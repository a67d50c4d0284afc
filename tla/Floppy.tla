------------------------------- MODULE Floppy -------------------------------
(***************************************************************************)
(* Reads from the floppy disk (drivers/floppy/mod.rs, hardware/floppy.rs)  *)
(* after its initialisation: processes share one controller, one DMA       *)
(* buffer, one interrupt flag and one process reference.                   *)
(*                                                                         *)
(* A read is one kernel path cut where it yields: between the polls of     *)
(* wait_for_rqm and in wait_for_interrupt.  The controller takes the bytes *)
(* of a command, and resets, without delay; only the execution of a read   *)
(* takes time.  A read asks for one sector, and the buffer's contents are  *)
(* the sector last transferred to it.                                      *)
(***************************************************************************)
EXTENDS Integers

CONSTANTS
  Readers,   \* processes that read the disk
  Sectors,   \* sectors they read
  Retries,   \* polls of wait_for_rqm before it gives up: 10 in the code
  Strays,    \* readers to which some process may send CONTINUE
  None       \* no process, no sector

VARIABLES
  phase,     \* controller: "idle", "exec" (RQM clear) or "result" (RQM, DIO)
  cmd,       \* controller: the sector of the command it executes
  motor,     \* controller: the motor bit of the DOR
  failed,    \* controller: the status of the last command is an error
  irq,       \* interrupt 6 is pending
  buf,       \* contents of the DMA buffer
  received,  \* FloppyController::interrupt_received
  wakeRef,   \* FloppyController::wake_on_int
  paused,    \* the run state of a reader is Paused
  pc,        \* where a reader is: "user", "rqm", "int", "resp", "reset"
  tries,     \* retry_count of wait_for_rqm
  want,      \* the sector of the reader's latest call
  got,       \* what that call returned: "busy", "error" or a sector
  overlapped \* history: two reads have been in progress at the same time

controller == <<phase, cmd, motor, failed, irq, buf>>
vars == <<controller, received, wakeRef, paused, pc, tries, want, got, overlapped>>

Init ==
  /\ phase = "idle" /\ cmd = None /\ irq = FALSE /\ buf = None
  /\ motor = TRUE /\ failed = FALSE
  /\ received = FALSE
  /\ wakeRef = None
  /\ paused = [p \in Readers |-> FALSE]
  /\ pc = [p \in Readers |-> "user"]
  /\ tries = [p \in Readers |-> 0]
  /\ want = [p \in Readers |-> None]
  /\ got = [p \in Readers |-> "error"]
  /\ overlapped = FALSE

Goto(p, at) == pc' = [pc EXCEPT ![p] = at]

----------------------------------------------------------------------------
(* send_command to a controller that is ready, up to the yield of its      *)
(* first poll: the flag is reset and the read starts.                      *)
Issue(p, s) ==
  /\ received' = FALSE
  /\ phase' = "exec" /\ cmd' = s
  /\ Goto(p, "rqm")
  /\ tries' = [tries EXCEPT ![p] = Retries - 1]

(* wait_for_interrupt when the flag is clear.                              *)
StopForInterrupt(p, at) ==
  /\ wakeRef' = p
  /\ paused' = [paused EXCEPT ![p] = TRUE]
  /\ Goto(p, at)

(* reset, for a reader that wants sector s; ref is what wake_on_int is to  *)
(* hold if it does not wait.  The controller stops whatever it does, the   *)
(* motor bit is cleared, and an interrupt is asked for.  If the flag is    *)
(* set wait_for_interrupt does not wait.                                   *)
reset(p, s, ref) ==
  /\ motor' = FALSE
  /\ buf' \in IF phase = "exec" THEN {buf, None} ELSE {buf}
  /\ IF received
       THEN Issue(p, s) /\ irq' \in BOOLEAN /\ wakeRef' = ref /\ UNCHANGED paused
       ELSE /\ phase' = "idle" /\ irq' = TRUE
            /\ StopForInterrupt(p, "reset")
            /\ UNCHANGED <<cmd, received, tries>>

(* Mutant: a busy controller is not reset and ignores the command.         *)
MutSendCommand(p, s, ref) ==
  IF phase = "idle"
    THEN Issue(p, s) /\ wakeRef' = ref /\ UNCHANGED <<irq, buf, motor, paused>>
    ELSE /\ received' = FALSE /\ wakeRef' = ref
         /\ Goto(p, "rqm")
         /\ tries' = [tries EXCEPT ![p] = Retries - 1]
         /\ UNCHANGED <<phase, cmd, irq, buf, motor, paused>>

(* send_command: a controller that is not ready is reset first.  The SENSE *)
(* INTERRUPT commands of a reset may or may not withdraw an interrupt that *)
(* is still pending.                                                       *)
send_command(p, s, ref) ==
  IF phase = "idle"
    THEN /\ Issue(p, s) /\ wakeRef' = ref
         /\ irq' \in {FALSE, irq}
         /\ UNCHANGED <<buf, motor, paused>>
    ELSE reset(p, s, ref)

(* A process in user mode reads a sector; pending interrupts come first.   *)
Read(p, s) ==
  /\ pc[p] = "user" /\ ~irq
  /\ want' = [want EXCEPT ![p] = s]
  /\ got' = [got EXCEPT ![p] = "busy"]
  /\ send_command(p, s, wakeRef)
  /\ overlapped' = (overlapped \/ \E q \in Readers : pc[q] # "user")
  /\ UNCHANGED failed

(* The rest of reset, and the command that was to be sent.  reset starts   *)
(* again when the controller is busy with somebody else's command.         *)
ResetWoken(p) ==
  /\ pc[p] = "reset" /\ ~paused[p]
  /\ send_command(p, want[p], None)
  /\ UNCHANGED <<failed, want, got, overlapped>>

Fail(p) ==
  /\ Goto(p, "user")
  /\ got' = [got EXCEPT ![p] = "error"]
  /\ UNCHANGED <<phase, tries>>

(* get_response, with so many polls left, and the copy from the buffer.    *)
(* An idle controller has no response to give and passes for a good one.   *)
get_response(p, left) ==
  \/ phase # "exec" /\ left > 0
     /\ Goto(p, "user")
     /\ got' = [got EXCEPT ![p] = buf]
     /\ phase' = "idle"
     /\ UNCHANGED tries
  \/ phase = "exec" /\ left > 0
     /\ Goto(p, "resp")
     /\ tries' = [tries EXCEPT ![p] = left - 1]
     /\ UNCHANGED <<phase, got>>
  \/ left = 0 /\ Fail(p)

(* Mutant: wait_for_rqm does not count its polls.                          *)
MutRqmNoCount(p) ==
  /\ pc[p] = "rqm" /\ ~paused[p]
  /\ \/ phase = "exec" /\ UNCHANGED <<phase, wakeRef, paused, pc, got, tries>>
     \/ phase # "exec" /\ get_response(p, Retries) /\ UNCHANGED <<wakeRef, paused>>
  /\ UNCHANGED <<cmd, motor, failed, irq, buf, received, want, overlapped>>

(* A poll of wait_for_rqm in send_command, and wait_for_interrupt.         *)
RqmPoll(p) ==
  /\ pc[p] = "rqm" /\ ~paused[p]
  /\ \/ /\ tries[p] > 0 /\ phase = "exec"
        /\ tries' = [tries EXCEPT ![p] = @ - 1]
        /\ UNCHANGED <<phase, wakeRef, paused, pc, got>>
     \/ tries[p] = 0 /\ Fail(p) /\ UNCHANGED <<wakeRef, paused>>
     \/ /\ tries[p] > 0 /\ phase # "exec" /\ received
        /\ get_response(p, Retries)
        /\ UNCHANGED <<wakeRef, paused>>
     \/ /\ tries[p] > 0 /\ phase # "exec" /\ ~received
        /\ StopForInterrupt(p, "int")
        /\ UNCHANGED <<phase, tries, got>>
  /\ UNCHANGED <<cmd, motor, failed, irq, buf, received, want, overlapped>>

(* The rest of wait_for_interrupt, and get_response.                       *)
IntWoken(p) ==
  /\ pc[p] = "int" /\ ~paused[p]
  /\ wakeRef' = None
  /\ get_response(p, Retries)
  /\ UNCHANGED <<cmd, motor, failed, irq, buf, received, paused, want, overlapped>>

RespPoll(p) ==
  /\ pc[p] = "resp" /\ ~paused[p]
  /\ get_response(p, tries[p])
  /\ UNCHANGED <<cmd, motor, failed, irq, buf, received, wakeRef, paused, want, overlapped>>

(* The controller ends the command: the sector is in the buffer, or the    *)
(* command failed, which it may when the motor is off.                     *)
ControllerDone ==
  /\ phase = "exec"
  /\ phase' = "result" /\ irq' = TRUE
  /\ failed' \in {FALSE, ~motor}
  /\ buf' = IF failed' THEN buf ELSE cmd
  /\ UNCHANGED <<cmd, motor, received, wakeRef, paused, pc, tries, want, got, overlapped>>

(* Mutant: the flag is set and nobody is woken.                            *)
MutHandleInt6 ==
  /\ irq
  /\ irq' = FALSE
  /\ received' = TRUE
  /\ UNCHANGED <<phase, cmd, motor, failed, buf, wakeRef, paused, pc, tries, want, got, overlapped>>

handle_int6 ==
  /\ irq
  /\ irq' = FALSE
  /\ received' = TRUE
  /\ paused' = IF wakeRef \in Readers THEN [paused EXCEPT ![wakeRef] = FALSE] ELSE paused
  /\ UNCHANGED <<phase, cmd, motor, failed, buf, wakeRef, pc, tries, want, got, overlapped>>

(* A process may send CONTINUE to a reader at any time.                    *)
StrayContinue(p) ==
  /\ p \in Strays /\ paused[p]
  /\ paused' = [paused EXCEPT ![p] = FALSE]
  /\ UNCHANGED <<controller, received, wakeRef, pc, tries, want, got, overlapped>>

(* A reader goes on in the kernel.                                         *)
Runs(p) == ResetWoken(p) \/ RqmPoll(p) \/ IntWoken(p) \/ RespPoll(p)

Next ==
  \/ \E p \in Readers, s \in Sectors : Read(p, s)
  \/ \E p \in Readers : Runs(p) \/ StrayContinue(p)
  \/ ControllerDone \/ handle_int6

(* The controller answers, interrupts are taken, runnable readers run.     *)
Fairness ==
  /\ WF_vars(ControllerDone) /\ WF_vars(handle_int6)
  /\ \A p \in Readers : WF_vars(Runs(p))

Spec == Init /\ [][Next]_vars /\ Fairness

----------------------------------------------------------------------------
(* "Exposes the floppy disk as a byte stream": as long as processes read   *)
(* one at a time, a read returns the sector it asked for unless the        *)
(* controller reported its command as failed.  No answer is taken for the  *)
(* answer to another read, whatever timed out, was answered late, was      *)
(* woken early or had to be reset before (send_command,                    *)
(* wait_for_interrupt, get_response).                                      *)
ReturnsOwnSector ==
  \A p \in Readers :
    (pc[p] # "user" /\ pc'[p] = "user" /\ ~overlapped)
    => got'[p] \in {"error", want[p]} \/ failed

AnswersMatchReads == [][ReturnsOwnSector]_vars

(* "Alert any blocked process that work has completed": a read comes to an *)
(* end, with data or with an error, unless two of them overlap.            *)
ReadEnds == \A p \in Readers : pc[p] # "user" ~> (pc[p] = "user" \/ overlapped)

(* wait_for_rqm "will timeout after a number of attempts": a reader does   *)
(* not poll for ever, even when another one keeps the controller busy.     *)
PollsEnd == \A p \in Readers : pc[p] \in {"rqm", "resp"} ~> pc[p] \notin {"rqm", "resp"}
=============================================================================
