----------------------------- MODULE Processes -----------------------------
(***************************************************************************)
(* The process table, the cooperative scheduler, the run state of every    *)
(* process and the signals that change it (kernel/src/process).            *)
(*                                                                         *)
(* Every interrupt and syscall enters through an interrupt gate and the    *)
(* idle loop clears the interrupt flag before it yields, so kernel code is *)
(* never interrupted: one action is a whole kernel path up to the point    *)
(* where it gives up the processor in yield_coop.  What a process still    *)
(* has to do when it is switched back to is its kernel continuation, pc.   *)
(* Interrupts arrive only while the current process is in user mode, or in *)
(* the idle loop.                                                          *)
(***************************************************************************)
EXTENDS Integers

CONSTANTS
  MaxPids,        \* bound on the process table: pids are 0 .. MaxPids-1
  BootPids,       \* processes that exist when init first enters user mode
  KernelThreads,  \* pids that run kernel functions and never leave ring 0
  Durations,      \* arguments of sleep, in ms
  Codes,          \* arguments of exit
  Signals,        \* signal numbers sent
  Targets         \* pids that signals are sent to

Pids == 0 .. (MaxPids - 1)

ASSUME MaxPidsAssumption == MaxPids \in Nat
ASSUME BootPidsAssumption == BootPids \in 2 .. MaxPids
ASSUME KernelThreadsAssumption == KernelThreads \subseteq 2 .. (BootPids - 1)
ASSUME DurationsAssumption == Durations \subseteq Nat
ASSUME CodesAssumption == Codes \subseteq Nat
ASSUME SignalsAssumption == Signals \subseteq Nat
ASSUME TargetsAssumption == Targets \subseteq Pids

VARIABLES
  current,   \* ProcessMap::current
  nextPid,   \* ProcessMap::next_pid; processes are never removed
  runState,  \* ProcessState::run_state
  parent,    \* ProcessState::parent
  exitCode,  \* ProcessState::exit_code
  pc,        \* the kernel continuation of a process that was switched out
  waitId,    \* the id argument of the latest wait_pid
  spinning,  \* the kernel spins on a run_state lock it holds itself
  ended,     \* history: the raw codes a process has been terminated with
  asked,     \* history: the argument of the latest sleep
  slept      \* history: the ticks counted during the latest sleep

history == <<ended, asked, slept>>
vars == <<current, nextPid, runState, parent, exitCode, pc, waitId, spinning,
          ended, asked, slept>>

----------------------------------------------------------------------------
(* Run states: arg is the remaining time of a sleep, the child a process   *)
(* waits for, or the code it was resumed with.                             *)

Running == [kind |-> "Running", arg |-> 0]
Paused == [kind |-> "Paused", arg |-> 0]
Terminated == [kind |-> "Terminated", arg |-> 0]
Sleeping(ms) == [kind |-> "Sleeping", arg |-> ms]
BlockedOnChild(id) == [kind |-> "Blocked", arg |-> id]
Resumed(code) == [kind |-> "Resumed", arg |-> code]

RunStates ==
  [kind : {"Running", "Paused", "Terminated", "Sleeping", "Blocked", "Resumed"},
   arg : Nat]

(* Mutant: a resumed process is not taken for a runnable one.              *)
MutIsRunning(r) == r.kind = "Running"

is_running(r) == r.kind \in {"Running", "Resumed"}

INT == 2
KILL == 9
TERM == 15
CONTINUE == 18
STOP == 19
TSTOP == 20

MS_PER_TICK == 10

(* The status word: the low byte of the code above the signal number.      *)
exit_code(signal, code) == (code % 256) * 256 + (signal % 128)

Procs == {p \in Pids : p < nextPid}

----------------------------------------------------------------------------
(* Mutant: the scan always starts at the first process.                    *)
MutNextRunning(n, rs) ==
  LET runnable == {q \in Procs : is_running(rs[q])}
  IN  \/ n \in runnable /\ \A q \in runnable : n <= q
      \/ runnable = {} /\ n = current

(* The scheduler: the first runnable process after the current one in pid  *)
(* order, wrapping around; the current one when nothing is runnable.       *)
NextRunning(n, rs) ==
  LET runnable == {q \in Procs : is_running(rs[q])}
      later == {q \in runnable : q > current}
  IN  \/ n \in later /\ \A q \in later : n <= q
      \/ later = {} /\ n \in runnable /\ \A q \in runnable : n <= q
      \/ runnable = {} /\ n = current

(* yield_coop once the caller's own run state is rs[current].              *)
YieldWith(rs) == \E n \in Procs : NextRunning(n, rs) /\ current' = n

(* Mutant: any child that exits resumes a blocked parent.                  *)
MutChildExitedAny(rs, p, code) ==
  IF rs[parent[p]].kind = "Blocked"
    THEN [rs EXCEPT ![parent[p]] = Resumed(code)]
    ELSE rs

(* Mutant: the code of the exit is not passed on to the parent.            *)
MutChildExitedQuiet(rs, p, code) ==
  IF rs[parent[p]] = BlockedOnChild(p)
    THEN [rs EXCEPT ![parent[p]] = Running]
    ELSE rs

(* The run states after p is terminated with this code: a parent that is   *)
(* blocked on p is resumed with it.                                        *)
child_exited(rs, p, code) ==
  IF rs[parent[p]] = BlockedOnChild(p)
    THEN [rs EXCEPT ![parent[p]] = Resumed(code)]
    ELSE rs

(* terminate holds p's run_state lock while it takes the parent's.  The    *)
(* first process is its own parent, so it would wait for itself.           *)
terminate(p, signal, code) ==
  /\ exitCode' = [exitCode EXCEPT ![p] = exit_code(signal, code)]
  /\ ended' = [ended EXCEPT ![p] = @ \cup {code}]
  /\ spinning' = (parent[p] = p)
  /\ runState' = LET rs == [runState EXCEPT ![p] = Terminated]
                 IN  IF parent[p] = p THEN rs ELSE child_exited(rs, p, code)

(* Mutant: the last tick of a sleep is counted down like the others.       *)
MutUpdateTickUnderflow(r) ==
  IF r.kind # "Sleeping" THEN r
  ELSE IF r.arg > 0 THEN Sleeping(r.arg - MS_PER_TICK)
  ELSE Running

(* Mutant: >= for > where the remaining time is compared with a tick.      *)
MutUpdateTickLate(r) ==
  IF r.kind # "Sleeping" THEN r
  ELSE IF r.arg >= MS_PER_TICK THEN Sleeping(r.arg - MS_PER_TICK)
  ELSE Running

(* One tick of the timer for one process.                                  *)
update_tick(r) ==
  IF r.kind # "Sleeping" THEN r
  ELSE IF r.arg > MS_PER_TICK THEN Sleeping(r.arg - MS_PER_TICK)
  ELSE Running

----------------------------------------------------------------------------
(* The current process runs user code, or the loop of a kernel thread.     *)
Executing(p) == ~spinning /\ current = p /\ pc[p] = "user"

InterruptsOn == ~spinning /\ pc[current] = "user" /\ current \notin KernelThreads

(* Only processes other than the idle one make these calls.                *)
Caller(p) == p # 0 /\ Executing(p)
UserCaller(p) == Caller(p) /\ p \notin KernelThreads

Init ==
  /\ current = 1
  /\ nextPid = BootPids
  /\ runState = [p \in Pids |-> Running]
  /\ parent = [p \in Pids |-> 0]
  /\ exitCode = [p \in Pids |-> 0]
  /\ pc = [p \in Pids |-> "user"]
  /\ waitId = [p \in Pids |-> 0]
  /\ spinning = FALSE
  /\ ended = [p \in Pids |-> {}]
  /\ asked = [p \in Pids |-> 0]
  /\ slept = [p \in Pids |-> 0]

Yield(p) ==
  /\ Executing(p)
  /\ YieldWith(runState)
  /\ UNCHANGED <<nextPid, runState, parent, exitCode, pc, waitId, spinning, history>>

(* Mutant: a forked process is its own parent, as the first process is.    *)
MutFork(p) ==
  /\ UserCaller(p)
  /\ nextPid < MaxPids
  /\ nextPid' = nextPid + 1
  /\ runState' = [runState EXCEPT ![nextPid] = Running]
  /\ parent' = [parent EXCEPT ![nextPid] = nextPid]
  /\ exitCode' = [exitCode EXCEPT ![nextPid] = 0]
  /\ pc' = [pc EXCEPT ![nextPid] = "user"]
  /\ UNCHANGED <<current, waitId, spinning, history>>

Fork(p) ==
  /\ UserCaller(p)
  /\ nextPid < MaxPids
  /\ nextPid' = nextPid + 1
  /\ runState' = [runState EXCEPT ![nextPid] = Running]
  /\ parent' = [parent EXCEPT ![nextPid] = p]
  /\ exitCode' = [exitCode EXCEPT ![nextPid] = 0]
  /\ pc' = [pc EXCEPT ![nextPid] = "user"]
  /\ UNCHANGED <<current, waitId, spinning, history>>

Sleep(p, ms) ==
  /\ Caller(p)
  /\ runState' = [runState EXCEPT ![p] = Sleeping(ms)]
  /\ asked' = [asked EXCEPT ![p] = ms]
  /\ slept' = [slept EXCEPT ![p] = 0]
  /\ YieldWith(runState')
  /\ UNCHANGED <<nextPid, parent, exitCode, pc, waitId, spinning, ended>>

(* wait_pid(0) returns at once and changes nothing.                        *)
Wait(p, id) ==
  /\ UserCaller(p)
  /\ id # 0
  /\ runState' = [runState EXCEPT ![p] = BlockedOnChild(id)]
  /\ waitId' = [waitId EXCEPT ![p] = id]
  /\ pc' = [pc EXCEPT ![p] = "wait"]
  /\ YieldWith(runState')
  /\ UNCHANGED <<nextPid, parent, exitCode, spinning, history>>

(* The rest of wait, when the process is switched back to: the code of a   *)
(* resumed process, 0 otherwise, is returned to user mode.                 *)
WaitReturn(p) ==
  /\ ~spinning /\ current = p /\ pc[p] = "wait"
  /\ runState' = IF runState[p].kind = "Resumed"
                   THEN [runState EXCEPT ![p] = Running] ELSE runState
  /\ pc' = [pc EXCEPT ![p] = "user"]
  /\ UNCHANGED <<current, nextPid, parent, exitCode, waitId, spinning, history>>

(* exit is left only through the scheduler: a process that is ever         *)
(* switched back to is in `loop {}` with interrupts off, for good.         *)
Exit(p, code) ==
  /\ UserCaller(p)
  /\ terminate(p, 0, code)
  /\ pc' = [pc EXCEPT ![p] = "exit"]
  /\ YieldWith(runState')
  /\ UNCHANGED <<nextPid, parent, waitId, asked, slept>>

(* ProcessState::send_signal, for a process that exists.                   *)
Deliver(t, sig) ==
  \/ /\ sig \in {STOP, TSTOP}
     /\ runState' = [runState EXCEPT ![t] = Paused]
     /\ UNCHANGED <<exitCode, spinning, ended>>
  \/ /\ sig = CONTINUE
     /\ runState' = IF runState[t] = Paused
                      THEN [runState EXCEPT ![t] = Running] ELSE runState
     /\ UNCHANGED <<exitCode, spinning, ended>>
  \/ sig \in {INT, TERM, KILL} /\ terminate(t, sig, 0)

(* The send_signal and raise syscalls.  Neither yields: a process that     *)
(* stops or kills itself runs on until its next call that does.  A pid     *)
(* that does not exist, or a signal with no case, changes nothing.         *)
SendSignal(p, t, sig) ==
  /\ UserCaller(p)
  /\ t \in Procs
  /\ Deliver(t, sig)
  /\ UNCHANGED <<current, nextPid, parent, pc, waitId, asked, slept>>

(* The signals kernel threads send: each stops itself to wait for work,    *)
(* and the floppy driver continues init once the disk is ready.            *)
ThreadSignal(p) ==
  /\ Executing(p)
  /\ p \in KernelThreads
  /\ Deliver(p, STOP) \/ Deliver(1, CONTINUE)
  /\ UNCHANGED <<current, nextPid, parent, pc, waitId, asked, slept>>

(* A device interrupt handler wakes the thread that waits for the device.  *)
DeviceWake(t) ==
  /\ InterruptsOn
  /\ t \in Procs
  /\ Deliver(t, CONTINUE)
  /\ UNCHANGED <<current, nextPid, parent, pc, waitId, asked, slept>>

(* The timer interrupt.  A pid not in use yet is never Sleeping.           *)
Tick ==
  /\ InterruptsOn
  /\ runState' = [p \in Pids |-> update_tick(runState[p])]
  /\ slept' = [p \in Pids |-> IF runState[p].kind = "Sleeping"
                                THEN slept[p] + 1 ELSE slept[p]]
  /\ UNCHANGED <<current, nextPid, parent, exitCode, pc, waitId, spinning, ended, asked>>

Next ==
  \/ Tick
  \/ \E p \in Procs : Yield(p) \/ Fork(p) \/ WaitReturn(p) \/ ThreadSignal(p)
  \/ \E p \in Procs, ms \in Durations : Sleep(p, ms)
  \/ \E p \in Procs, id \in Pids : Wait(p, id)
  \/ \E p \in Procs, code \in Codes : Exit(p, code)
  \/ \E p \in Procs, t \in Targets, sig \in Signals : SendSignal(p, t, sig)
  \/ \E t \in KernelThreads : DeviceWake(t)

(* Multitasking is cooperative: the kernel promises nothing to the others  *)
(* unless the process that runs gives up the processor at some point.      *)
Fairness == WF_vars(\E p \in Procs : Yield(p) \/ WaitReturn(p))

SafetySpec == Init /\ [][Next]_vars
Spec == SafetySpec /\ Fairness

----------------------------------------------------------------------------
(* Every variable has its type, the current process exists (the unwraps in *)
(* switch_to and current_process cannot fail), and waitId, a local of      *)
(* wait_pid, is a pid.                                                     *)
TypeOK ==
  /\ nextPid \in BootPids .. MaxPids
  /\ current \in Procs
  /\ runState \in [Pids -> RunStates]
  /\ parent \in [Pids -> Pids]
  /\ exitCode \in [Pids -> Nat]
  /\ pc \in [Pids -> {"user", "wait", "exit"}]
  /\ waitId \in [Pids -> Pids]
  /\ spinning \in BOOLEAN
  /\ ended \in [Pids -> SUBSET Nat]
  /\ asked \in [Pids -> Nat]
  /\ slept \in [Pids -> Nat]

(* A process that is resumed from wait (RunState::Resumed) carries a code  *)
(* that a child of its own was terminated with, and that child is the one  *)
(* its wait_pid call named, whatever signals, exits and further waits      *)
(* happened in between.                                                    *)
ResumedByOwnChild ==
  \A p \in Procs : runState[p].kind = "Resumed" =>
    /\ waitId[p] \in Procs
    /\ parent[waitId[p]] = p
    /\ runState[p].arg \in ended[waitId[p]]

(* terminate takes the parent's run_state lock with the child's in hand.   *)
(* Following parents always leads to smaller pids, so these locks are      *)
(* taken in one order, and the kernel can only wait for itself when it is  *)
(* told to terminate process 0, its own parent.                            *)
LocksInPidOrder ==
  /\ \A p \in Pids : p # 0 => parent[p] < p
  /\ spinning => runState[0] = Terminated

(* A process blocked on a child is blocked on the one its wait_pid named.  *)
BlockedOnWaitId ==
  \A p \in Pids : runState[p].kind = "Blocked" => runState[p].arg = waitId[p]

(* The time left of a sleep and the time slept add up to the time asked.   *)
SleepAccounted ==
  \A p \in Pids : runState[p].kind = "Sleeping" =>
                     runState[p].arg + MS_PER_TICK * slept[p] = asked[p]

(* The inductive invariant behind the safety properties: the types, the    *)
(* locks' order, and what the argument of a run state stands for.          *)
IInv ==
  /\ TypeOK
  /\ LocksInPidOrder
  /\ BlockedOnWaitId
  /\ ResumedByOwnChild
  /\ SleepAccounted

(* A wait is never missed: the step that terminates a child of p while p   *)
(* is blocked on it makes p runnable again with the code of that child     *)
(* (terminate, child_exited).                                              *)
WakesParent ==
  \A c \in Pids \ {0} :
    LET p == parent[c] IN
    (/\ runState[p] = BlockedOnChild(c)
     /\ runState[c] # Terminated
     /\ runState'[c] = Terminated)
    => runState'[p].kind = "Resumed" /\ runState'[p].arg \in ended'[c]

ParentWokenByExit == [][WakesParent]_vars

(* A process that asked for ms milliseconds of sleep is made runnable by   *)
(* the first tick at which the ticks since the call add up to ms, neither  *)
(* sooner nor later (sleep, send_tick, update_tick).                       *)
TickWakesOnTime ==
  \A p \in Pids :
    (runState[p].kind = "Sleeping" /\ slept'[p] = slept[p] + 1)
    => (is_running(runState'[p]) <=> asked[p] <= MS_PER_TICK * slept'[p])

SleepLastsItsTicks == [][TickWakesOnTime]_vars

(* A switch goes to a process that is runnable at that moment, and passes  *)
(* over no other runnable process that is due before it in pid order, also *)
(* when the caller has just put itself to sleep, blocked or exited         *)
(* (yield_coop, get_next_running_process).                                 *)
SwitchInOrder ==
  current' # current =>
    /\ is_running(runState'[current'])
    /\ \A q \in Procs :
         (IF current < current' THEN current < q /\ q < current'
                                ELSE current < q \/ q < current')
         => ~is_running(runState'[q])

SwitchIsRoundRobin == [][SwitchInOrder]_vars

(* No runnable process starves: it is given the processor or stops being   *)
(* runnable, provided the processes that run give it up at some point.     *)
RunnableGetsProcessor ==
  \A p \in Pids :
    (p \in Procs /\ is_running(runState[p]))
    ~> (current = p \/ ~is_running(runState[p]))

(* A parent that a child has resumed does return from wait, unless a       *)
(* signal stops or ends it before it is switched back to.                  *)
ResumedReturns ==
  \A p \in Pids :
    (pc[p] = "wait" /\ runState[p].kind = "Resumed")
    ~> (pc[p] = "user" \/ runState[p] \in {Paused, Terminated})

(* exit() says of the loop after its yield that the process "should never  *)
(* reach" it.                                                              *)
ExitLoopNotReached == ~(pc[current] = "exit")
=============================================================================
