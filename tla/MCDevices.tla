------------------------------ MODULE MCDevices ------------------------------
(***************************************************************************)
(* The drivers for model checking: a process uses the drive as a file      *)
(* (FloppyFile), processes talk to its controller (Floppy), or keys arrive *)
(* and are read (KeyboardInput).  A behaviour has one part, chosen at the  *)
(* start; the variables of the others stay as they are.                    *)
(***************************************************************************)
EXTENDS FloppyFile

CONSTANTS
  Readers, Sectors, Retries, Strays, None,                                \* of Floppy
  RingSize, PlainCodes, ExtCodes, MaxTyped, Handles, ReadLengths, MaxQueued  \* of KeyboardInput

ASSUME DiskAssumption == Fits /\ WordLimit % 2 = 0
ASSUME SeeksAssumption ==
  Lengths \cup Positions \cup Offsets \subseteq 0 .. WordLimit - 1
ASSUME ReadersAssumption == Retries \in Nat \ {0} /\ None \notin Readers \cup Sectors
ASSUME RingSizeAssumption == RingSize \in Nat \ {0}
ASSUME CodesAssumption == PlainCodes \cup ExtCodes \subseteq 0 .. 95

VARIABLES
  part,
  phase, cmd, motor, failed, irq, transferred, received, wakeRef, paused, pc, tries,
  want, got, overlapped,
  events, announced, runnable, to_read, extended, readers, prefixed, typed, dropped,
  woken, since, heard, taken, partial

Disk == INSTANCE Floppy WITH buf <- transferred
Keys == INSTANCE KeyboardInput WITH Lengths <- ReadLengths

diskVars == <<phase, cmd, motor, failed, irq, transferred, received, wakeRef, paused, pc,
              tries, want, got, overlapped>>
keyVars == <<events, announced, runnable, to_read, extended, readers, prefixed, typed,
             dropped, woken, since, heard, taken, partial>>
deviceVars == <<part, vars, diskVars, keyVars>>

DevicesInit == part \in {"file", "drive", "keys"} /\ Init /\ Disk!Init /\ Keys!Init

Driving(A) == part = "drive" /\ A /\ UNCHANGED <<part, vars, keyVars>>
Typing(A) == part = "keys" /\ A /\ UNCHANGED <<part, vars, diskVars>>

DevicesNext ==
  \/ part = "file" /\ Next /\ UNCHANGED <<part, diskVars, keyVars>>
  \/ Driving(Disk!Next)
  \/ Typing(Keys!Next)

(* The fairness of Floppy, and that of the input thread, which is run when *)
(* it is runnable; nobody has to type or to read.                          *)
DevicesSpec ==
  /\ DevicesInit /\ [][DevicesNext]_deviceVars
  /\ WF_deviceVars(Driving(Disk!ControllerDone)) /\ WF_deviceVars(Driving(Disk!handle_int6))
  /\ \A p \in Readers : WF_deviceVars(Driving(Disk!Runs(p)))
  /\ WF_deviceVars(Typing(Keys!RunInput /\ UNCHANGED typed))
  /\ WF_deviceVars(Typing(Keys!HandleByte /\ UNCHANGED typed))

(* The properties of Floppy and KeyboardInput, under their own names.      *)
AnswersMatchReads == Disk!AnswersMatchReads
ReadEnds == Disk!ReadEnds
PollsEnd == Disk!PollsEnd
ReadersHearAll == Keys!ReadersHearAll
KeysHandled == Keys!KeysHandled
=============================================================================
