-------------------------- MODULE ProcessesProofs --------------------------
(***************************************************************************)
(* Proofs about the process table, for any number of processes, durations, *)
(* exit codes, signals and signal targets.                                 *)
(***************************************************************************)
EXTENDS Processes, TLAPS

USE MaxPidsAssumption, BootPidsAssumption, KernelThreadsAssumption,
    DurationsAssumption, CodesAssumption, SignalsAssumption, TargetsAssumption

(* The conjuncts of the type invariant that hold in the state after a      *)
(* termination of p (terminate): the run states keep their type.           *)
LEMMA TerminateType ==
  ASSUME TypeOK, NEW p \in Procs, NEW signal \in Nat, NEW code \in Nat,
         terminate(p, signal, code)
  PROVE  /\ runState' \in [Pids -> RunStates]
         /\ exitCode' \in [Pids -> Nat]
         /\ ended' \in [Pids -> SUBSET Nat]
         /\ spinning' \in BOOLEAN
  <1>1. p \in Pids BY DEF Procs
  <1>2. exit_code(signal, code) \in Nat BY DEF exit_code
  <1>3. parent[p] \in Pids BY <1>1 DEF TypeOK
  <1>4. Terminated \in RunStates /\ Resumed(code) \in RunStates
    BY DEF RunStates, Terminated, Resumed
  <1>5. [runState EXCEPT ![p] = Terminated] \in [Pids -> RunStates]
    BY <1>1, <1>4 DEF TypeOK
  <1>6. runState' \in [Pids -> RunStates]
    BY <1>3, <1>4, <1>5 DEF terminate, child_exited
  <1> QED BY <1>1, <1>2, <1>6 DEF terminate, TypeOK

(* A delivered signal (ProcessState::send_signal) keeps the types.         *)
LEMMA DeliverType ==
  ASSUME TypeOK, NEW t \in Procs, NEW sig \in Nat, Deliver(t, sig)
  PROVE  /\ runState' \in [Pids -> RunStates]
         /\ exitCode' \in [Pids -> Nat]
         /\ ended' \in [Pids -> SUBSET Nat]
         /\ spinning' \in BOOLEAN
  <1>1. CASE terminate(t, sig, 0)
    BY <1>1, TerminateType
  <1>2. CASE ~terminate(t, sig, 0)
    <2>1. Paused \in RunStates /\ Running \in RunStates
      BY DEF RunStates, Paused, Running
    <2>2. t \in Pids BY DEF Procs
    <2> QED BY <1>2, <2>1, <2>2 DEF Deliver, TypeOK
  <1> QED BY <1>1, <1>2

(* TypeOK holds initially.                                                 *)
LEMMA TypeInit == Init => TypeOK
  <1> SUFFICES ASSUME Init PROVE TypeOK
    OBVIOUS
  <1>1. Running \in RunStates BY DEF RunStates, Running
  <1>2. 0 \in Pids BY DEF Pids
  <1>3. current \in Procs BY DEF Init, Procs, Pids
  <1>4. nextPid \in BootPids .. MaxPids BY DEF Init
  <1>5. /\ runState \in [Pids -> RunStates]
        /\ parent \in [Pids -> Pids]
        /\ waitId \in [Pids -> Pids]
    BY <1>1, <1>2 DEF Init
  <1>6. /\ exitCode \in [Pids -> Nat]
        /\ asked \in [Pids -> Nat]
        /\ slept \in [Pids -> Nat]
        /\ ended \in [Pids -> SUBSET Nat]
    BY DEF Init
  <1>7. pc \in [Pids -> {"user", "wait", "exit"}] /\ spinning \in BOOLEAN
    BY DEF Init
  <1> QED BY <1>3, <1>4, <1>5, <1>6, <1>7 DEF TypeOK

(* Every step keeps TypeOK: in particular yield_coop always finds an       *)
(* existing process to switch to.                                          *)
LEMMA TypeStep == TypeOK /\ [Next]_vars => TypeOK'
  <1> SUFFICES ASSUME TypeOK, [Next]_vars PROVE TypeOK'
    OBVIOUS
  <1>0. \A p \in Procs : p \in Pids BY DEF Procs
  <1>1. CASE UNCHANGED vars
    BY <1>1 DEF TypeOK, vars, Procs
  <1>2. CASE Tick
    <2>1. \A r \in RunStates : update_tick(r) \in RunStates
      BY DEF RunStates, update_tick, Sleeping, Running, MS_PER_TICK
    <2>2. runState' \in [Pids -> RunStates] BY <1>2, <2>1 DEF Tick, TypeOK
    <2> QED BY <1>2, <2>2 DEF Tick, TypeOK, Procs
  <1>3. ASSUME NEW p \in Procs, Yield(p) PROVE TypeOK'
    BY <1>3 DEF Yield, YieldWith, TypeOK, Procs, history
  <1>4. ASSUME NEW p \in Procs, Fork(p) PROVE TypeOK'
    <2>1. nextPid \in Pids BY <1>4 DEF Fork, TypeOK, Pids
    <2>2. Running \in RunStates BY DEF RunStates, Running
    <2> QED BY <1>0, <1>4, <2>1, <2>2 DEF Fork, TypeOK, Procs, history
  <1>5. ASSUME NEW p \in Procs, WaitReturn(p) PROVE TypeOK'
    <2>1. Running \in RunStates BY DEF RunStates, Running
    <2> QED BY <1>0, <1>5, <2>1 DEF WaitReturn, TypeOK, Procs, history
  <1>6. ASSUME NEW p \in Procs, ThreadSignal(p) PROVE TypeOK'
    <2>1. 1 \in Procs BY DEF TypeOK, Procs, Pids
    <2>2. STOP \in Nat /\ CONTINUE \in Nat BY DEF STOP, CONTINUE
    <2> QED BY <1>6, <2>1, <2>2, DeliverType DEF ThreadSignal, TypeOK, Procs
  <1>7. ASSUME NEW p \in Procs, NEW ms \in Durations, Sleep(p, ms) PROVE TypeOK'
    <2>1. Sleeping(ms) \in RunStates BY DEF RunStates, Sleeping
    <2> QED BY <1>0, <1>7, <2>1 DEF Sleep, YieldWith, TypeOK, Procs
  <1>8. ASSUME NEW p \in Procs, NEW id \in Pids, Wait(p, id) PROVE TypeOK'
    <2>1. BlockedOnChild(id) \in RunStates BY DEF RunStates, BlockedOnChild, Pids
    <2> QED BY <1>0, <1>8, <2>1 DEF Wait, YieldWith, TypeOK, Procs, history
  <1>9. ASSUME NEW p \in Procs, NEW code \in Codes, Exit(p, code) PROVE TypeOK'
    BY <1>0, <1>9, TerminateType DEF Exit, YieldWith, TypeOK, Procs
  <1>10. ASSUME NEW p \in Procs, NEW t \in Targets, NEW sig \in Signals,
                SendSignal(p, t, sig)
         PROVE TypeOK'
    BY <1>10, DeliverType DEF SendSignal, TypeOK, Procs
  <1>11. ASSUME NEW t \in KernelThreads, DeviceWake(t) PROVE TypeOK'
    <2>1. CONTINUE \in Nat BY DEF CONTINUE
    <2> QED BY <1>11, <2>1, DeliverType DEF DeviceWake, TypeOK, Procs
  <1> QED
    BY <1>1, <1>2, <1>3, <1>4, <1>5, <1>6, <1>7, <1>8, <1>9, <1>10, <1>11 DEF Next

(* Type correctness of the process table and the scheduler.                *)
THEOREM TypeCorrect == SafetySpec => []TypeOK
  BY TypeInit, TypeStep, PTL DEF SafetySpec

----------------------------------------------------------------------------
(* A termination of p leaves the run state of the others alone, except     *)
(* that of a parent blocked on p (terminate, child_exited).                *)
LEMMA TerminateEffect ==
  ASSUME IInv, NEW p \in Procs, NEW signal \in Nat, NEW code \in Nat,
         terminate(p, signal, code), NEW q \in Pids
  PROVE  \/ runState'[q] = runState[q] /\ q # p
         \/ runState'[q] = Terminated /\ q = p
         \/ /\ runState'[q] = Resumed(code) /\ q = parent[p] /\ q # p
            /\ runState[q] = BlockedOnChild(p)
  <1>1. p \in Pids BY DEF Procs
  <1>2. parent[p] \in Pids BY <1>1 DEF IInv, TypeOK
  <1> DEFINE rs == [runState EXCEPT ![p] = Terminated]
  <1>3. rs \in [Pids -> RunStates]
    BY <1>1 DEF IInv, TypeOK, RunStates, Terminated
  <1>4. rs[q] = IF q = p THEN Terminated ELSE runState[q]
    BY <1>1 DEF IInv, TypeOK
  <1>5. CASE parent[p] = p
    BY <1>4, <1>5 DEF terminate
  <1>6. CASE parent[p] # p
    <2>1. runState' = child_exited(rs, p, code) BY <1>6 DEF terminate
    <2>2. rs[parent[p]] = runState[parent[p]] BY <1>2, <1>6 DEF IInv, TypeOK
    <2> HIDE DEF rs
    <2> QED BY <1>2, <1>3, <1>4, <1>6, <2>1, <2>2 DEF child_exited
  <1> QED BY <1>5, <1>6

(* A delivered signal changes the run state of its target only, except     *)
(* that one that terminates it may resume its parent.                      *)
LEMMA DeliverEffect ==
  ASSUME IInv, NEW t \in Procs, NEW sig \in Nat, Deliver(t, sig), NEW q \in Pids
  PROVE  \/ runState'[q] = runState[q]
         \/ runState'[q] \in {Paused, Running, Terminated}
         \/ /\ runState'[q] = Resumed(0) /\ q = parent[t]
            /\ runState[q] = BlockedOnChild(t) /\ 0 \in ended'[t]
  <1>1. t \in Pids BY DEF Procs
  <1>2. CASE terminate(t, sig, 0)
    <2>1. 0 \in ended'[t] BY <1>1, <1>2 DEF terminate, IInv, TypeOK
    <2> QED BY <1>2, <2>1, TerminateEffect
  <1>3. CASE ~terminate(t, sig, 0)
    BY <1>1, <1>3 DEF Deliver, IInv, TypeOK
  <1> QED BY <1>2, <1>3

(* The set of codes a process ended with only grows.                       *)
LEMMA DeliverEnded ==
  ASSUME IInv, NEW t \in Procs, NEW sig \in Nat, Deliver(t, sig)
  PROVE  /\ \A q \in Pids : ended[q] \subseteq ended'[q]
         /\ spinning' => spinning \/ runState'[0] = Terminated
  <1>1. t \in Pids BY DEF Procs
  <1>2. CASE terminate(t, sig, 0)
    <2>1. \A q \in Pids : ended[q] \subseteq ended'[q]
      BY <1>1, <1>2 DEF terminate, IInv, TypeOK
    <2>2. ASSUME spinning' PROVE runState'[0] = Terminated
      <3>1. parent[t] = t BY <1>2, <2>2 DEF terminate
      <3>2. t = 0
        BY <1>1, <3>1 DEF IInv, LocksInPidOrder, Pids
      <3> QED BY <1>1, <1>2, <3>1, <3>2 DEF terminate, IInv, TypeOK
    <2> QED BY <2>1, <2>2
  <1>3. CASE ~terminate(t, sig, 0)
    BY <1>3 DEF Deliver
  <1> QED BY <1>2, <1>3

(* A signal delivered by a process, a kernel thread or an interrupt keeps  *)
(* the inductive invariant.                                                *)
LEMMA DeliverInv ==
  ASSUME IInv, TypeOK', ~spinning, NEW t \in Procs, NEW sig \in Nat, Deliver(t, sig),
         UNCHANGED <<current, nextPid, parent, pc, waitId, asked, slept>>
  PROVE  IInv'
  <1> USE DEF Paused, Running, Terminated, Resumed, BlockedOnChild
  <1>1. LocksInPidOrder'
    BY DeliverEnded DEF IInv, LocksInPidOrder
  <1>E. \A q \in Pids :
          \/ runState'[q] = runState[q]
          \/ runState'[q] \in {Paused, Running, Terminated}
          \/ runState'[q] = Resumed(0)
    BY DeliverEffect
  <1>2. BlockedOnWaitId'
    BY <1>E DEF IInv, BlockedOnWaitId
  <1>3. SleepAccounted'
    BY <1>E DEF IInv, SleepAccounted
  <1>4. ResumedByOwnChild'
    <2> SUFFICES ASSUME NEW p \in Procs, runState'[p].kind = "Resumed"
                 PROVE  /\ waitId[p] \in Procs
                        /\ parent[waitId[p]] = p
                        /\ runState'[p].arg \in ended'[waitId[p]]
      BY DEF ResumedByOwnChild, Procs
    <2>1. p \in Pids BY DEF Procs
    <2>2. CASE runState'[p] = runState[p]
      BY <2>1, <2>2, DeliverEnded DEF IInv, ResumedByOwnChild, Procs
    <2>3. CASE /\ runState'[p] = Resumed(0) /\ p = parent[t]
               /\ runState[p] = BlockedOnChild(t) /\ 0 \in ended'[t]
      BY <2>1, <2>3 DEF IInv, BlockedOnWaitId
    <2> QED BY <2>1, <2>2, <2>3, DeliverEffect
  <1> QED BY <1>1, <1>2, <1>3, <1>4 DEF IInv

(* The inductive invariant holds initially.                                *)
LEMMA InvInit == Init => IInv
  <1> SUFFICES ASSUME Init PROVE IInv
    OBVIOUS
  <1>1. TypeOK BY TypeInit
  <1>2. LocksInPidOrder BY DEF Init, LocksInPidOrder, Pids
  <1>3. \A p \in Pids : runState[p].kind = "Running" BY DEF Init, Running
  <1> QED
    BY <1>1, <1>2, <1>3 DEF IInv, BlockedOnWaitId, ResumedByOwnChild, SleepAccounted, Procs

(* Every step keeps the inductive invariant.                               *)
LEMMA InvStep == IInv /\ [Next]_vars => IInv'
  <1> SUFFICES ASSUME IInv, [Next]_vars PROVE IInv'
    OBVIOUS
  <1>0. TypeOK /\ TypeOK' BY TypeStep DEF IInv
  <1>P. \A p \in Procs : p \in Pids BY DEF Procs
  <1>L. LocksInPidOrder BY DEF IInv
  <1>B. BlockedOnWaitId BY DEF IInv
  <1>R. ResumedByOwnChild BY DEF IInv
  <1>S. SleepAccounted BY DEF IInv
  <1> USE DEF LocksInPidOrder, BlockedOnWaitId, ResumedByOwnChild, SleepAccounted
  <1>1. CASE UNCHANGED vars
    BY <1>0, <1>1, <1>L, <1>B, <1>R, <1>S DEF IInv, vars, Procs
  <1>2. CASE Tick
    <2>1. \A p \in Pids : runState'[p] = update_tick(runState[p])
      BY <1>2 DEF Tick
    <2>2. LocksInPidOrder'
      BY <1>2, <1>L DEF Tick, InterruptsOn
    <2>3. UNCHANGED <<nextPid, parent, waitId, ended, asked>>
      BY <1>2 DEF Tick
    <2>4. \A p \in Pids :
            runState'[p].kind \in {"Blocked", "Resumed"} => runState'[p] = runState[p]
      <3>1. Running.kind = "Running" /\ \A ms : Sleeping(ms).kind = "Sleeping"
        BY DEF Running, Sleeping
      <3> QED BY <2>1, <3>1 DEF update_tick
    <2>5. BlockedOnWaitId' BY <1>B, <2>3, <2>4
    <2>6. ResumedByOwnChild' BY <1>P, <1>R, <2>3, <2>4 DEF Procs
    <2>7. SleepAccounted'
      BY <1>0, <1>2, <1>S, <2>1
      DEF Tick, update_tick, Sleeping, Running, TypeOK, RunStates, MS_PER_TICK
    <2> QED BY <1>0, <2>2, <2>5, <2>6, <2>7 DEF IInv
  <1>3. ASSUME NEW p \in Procs, Yield(p) PROVE IInv'
    BY <1>0, <1>3, <1>L, <1>B, <1>R, <1>S DEF IInv, Yield, history, Procs
  <1>4. ASSUME NEW p \in Procs, Fork(p) PROVE IInv'
    <2>1. nextPid \in Pids /\ nextPid \notin Procs /\ p < nextPid
      BY <1>0, <1>4 DEF Fork, TypeOK, Pids, Procs
    <2>2. /\ nextPid' = nextPid + 1
          /\ UNCHANGED <<waitId, spinning, ended, asked, slept>>
      BY <1>4 DEF Fork, history
    <2>3. /\ \A q \in Procs' : q \in Procs \/ q = nextPid
          /\ \A q \in Procs : q \in Procs'
      <3>1. nextPid \in Nat /\ \A q \in Pids : q \in Nat
        BY <1>0, BootPidsAssumption, MaxPidsAssumption DEF TypeOK, Pids
      <3>2. \A q \in Pids : q < nextPid + 1 <=> q < nextPid \/ q = nextPid
        BY <3>1
      <3> QED BY <2>2, <3>2 DEF Procs
    <2>4. \A q \in Pids :
            /\ runState'[q] = IF q = nextPid THEN Running ELSE runState[q]
            /\ parent'[q] = IF q = nextPid THEN p ELSE parent[q]
      BY <1>0, <1>4, <2>1 DEF Fork, TypeOK
    <2>5. LocksInPidOrder'
      <3>1. ~spinning' BY <1>4, <2>2 DEF Fork, UserCaller, Caller, Executing
      <3> QED BY <1>L, <2>1, <2>4, <3>1
    <2>6. BlockedOnWaitId' BY <1>B, <2>2, <2>4 DEF Running
    <2>7. SleepAccounted' BY <1>S, <2>2, <2>4 DEF Running
    <2>8. ResumedByOwnChild'
      <3> SUFFICES ASSUME NEW q \in Procs', runState'[q].kind = "Resumed"
                   PROVE  /\ waitId[q] \in Procs'
                          /\ parent'[waitId[q]] = q
                          /\ runState'[q].arg \in ended[waitId[q]]
        BY <2>2
      <3>1. q \in Procs /\ runState'[q] = runState[q]
        BY <1>P, <2>1, <2>3, <2>4 DEF Running
      <3>2. waitId[q] \in Procs /\ waitId[q] # nextPid
        BY <1>R, <2>1, <3>1
      <3> QED BY <1>P, <1>R, <2>3, <2>4, <3>1, <3>2
    <2> QED BY <1>0, <2>5, <2>6, <2>7, <2>8 DEF IInv
  <1>5. ASSUME NEW p \in Procs, WaitReturn(p) PROVE IInv'
    <2>1. /\ UNCHANGED <<nextPid, parent, waitId, spinning, ended, asked, slept>>
          /\ ~spinning
      BY <1>5 DEF WaitReturn, history
    <2>2. \A q \in Pids : runState'[q] = runState[q] \/ runState'[q] = Running
      BY <1>0, <1>P, <1>5 DEF WaitReturn, TypeOK
    <2>3. LocksInPidOrder' BY <1>L, <2>1
    <2>4. BlockedOnWaitId' BY <1>B, <2>1, <2>2 DEF Running
    <2>5. ResumedByOwnChild' BY <1>P, <1>R, <2>1, <2>2 DEF Running, Procs
    <2>6. SleepAccounted' BY <1>S, <2>1, <2>2 DEF Running
    <2> QED BY <1>0, <2>3, <2>4, <2>5, <2>6 DEF IInv
  <1>6. ASSUME NEW p \in Procs, ThreadSignal(p) PROVE IInv'
    <2>1. 1 \in Procs BY <1>0 DEF TypeOK, Procs, Pids
    <2>2. STOP \in Nat /\ CONTINUE \in Nat BY DEF STOP, CONTINUE
    <2>3. ~spinning BY <1>6 DEF ThreadSignal, Executing
    <2>4. UNCHANGED <<current, nextPid, parent, pc, waitId, asked, slept>>
      BY <1>6 DEF ThreadSignal
    <2>5. Deliver(p, STOP) \/ Deliver(1, CONTINUE)
      BY <1>6 DEF ThreadSignal
    <2> QED BY <1>0, <2>1, <2>2, <2>3, <2>4, <2>5, DeliverInv
  <1>7. ASSUME NEW p \in Procs, NEW ms \in Durations, Sleep(p, ms) PROVE IInv'
    <2>1. UNCHANGED <<nextPid, parent, waitId, spinning, ended>> /\ ~spinning
      BY <1>7 DEF Sleep, Caller, Executing
    <2>2. \A q \in Pids :
            \/ /\ runState'[q] = runState[q]
               /\ asked'[q] = asked[q] /\ slept'[q] = slept[q]
            \/ /\ runState'[q] = Sleeping(ms)
               /\ asked'[q] = ms /\ slept'[q] = 0
      BY <1>0, <1>P, <1>7 DEF Sleep, TypeOK
    <2>3. Sleeping(ms).kind = "Sleeping" /\ Sleeping(ms).arg = ms
      BY DEF Sleeping
    <2>4. LocksInPidOrder' BY <1>L, <2>1
    <2>5. BlockedOnWaitId' BY <1>B, <2>1, <2>2, <2>3
    <2>6. ResumedByOwnChild' BY <1>P, <1>R, <2>1, <2>2, <2>3 DEF Procs
    <2>7. SleepAccounted'
      <3>1. ms + MS_PER_TICK * 0 = ms BY DurationsAssumption DEF MS_PER_TICK
      <3> QED BY <1>S, <2>2, <2>3, <3>1
    <2> QED BY <1>0, <2>4, <2>5, <2>6, <2>7 DEF IInv
  <1>8. ASSUME NEW p \in Procs, NEW id \in Pids, Wait(p, id) PROVE IInv'
    <2>1. UNCHANGED <<nextPid, parent, spinning, ended, asked, slept>> /\ ~spinning
      BY <1>8 DEF Wait, history, UserCaller, Caller, Executing
    <2>2. \A q \in Pids :
            \/ runState'[q] = runState[q] /\ waitId'[q] = waitId[q]
            \/ runState'[q] = BlockedOnChild(id) /\ waitId'[q] = id
      BY <1>0, <1>P, <1>8 DEF Wait, TypeOK
    <2>3. BlockedOnChild(id).kind = "Blocked" /\ BlockedOnChild(id).arg = id
      BY DEF BlockedOnChild
    <2>4. LocksInPidOrder' BY <1>L, <2>1
    <2>5. BlockedOnWaitId' BY <1>B, <2>2, <2>3
    <2>6. ResumedByOwnChild' BY <1>P, <1>R, <2>1, <2>2, <2>3 DEF Procs
    <2>7. SleepAccounted' BY <1>S, <2>1, <2>2, <2>3
    <2> QED BY <1>0, <2>4, <2>5, <2>6, <2>7 DEF IInv
  <1>9. ASSUME NEW p \in Procs, NEW code \in Codes, Exit(p, code) PROVE IInv'
    <2>1. terminate(p, 0, code) /\ ~spinning /\ p # 0
      BY <1>9 DEF Exit, UserCaller, Caller, Executing
    <2>2. \A q \in Pids : ended[q] \subseteq ended'[q]
      BY <1>0, <1>P, <2>1 DEF terminate, TypeOK
    <2>3. code \in ended'[p] BY <1>0, <1>P, <2>1 DEF terminate, TypeOK
    <2>4. ~spinning'
      <3>1. parent[p] < p BY <1>L, <1>P, <2>1
      <3>2. parent[p] # p BY <1>0, <1>P, <3>1 DEF TypeOK, Pids
      <3> QED BY <2>1, <3>2 DEF terminate
    <2>5. UNCHANGED <<nextPid, parent, waitId, asked, slept>>
      BY <1>9 DEF Exit
    <2>6. \A q \in Pids :
            \/ runState'[q] = runState[q]
            \/ runState'[q] = Terminated
            \/ /\ runState'[q] = Resumed(code) /\ q = parent[p]
               /\ runState[q] = BlockedOnChild(p)
      <3>1. 0 \in Nat /\ code \in Nat BY CodesAssumption
      <3> QED BY <2>1, <3>1, TerminateEffect
    <2>7. LocksInPidOrder' BY <1>L, <2>4, <2>5
    <2>K. Terminated.kind = "Terminated" /\ Resumed(code).kind = "Resumed"
      BY DEF Terminated, Resumed
    <2>8. BlockedOnWaitId' BY <1>B, <2>5, <2>6, <2>K
    <2>9. SleepAccounted' BY <1>S, <2>5, <2>6, <2>K
    <2>10. ResumedByOwnChild'
      <3> SUFFICES ASSUME NEW q \in Procs, runState'[q].kind = "Resumed"
                   PROVE  /\ waitId[q] \in Procs
                          /\ parent[waitId[q]] = q
                          /\ runState'[q].arg \in ended'[waitId[q]]
        BY <2>5 DEF Procs
      <3>1. CASE runState'[q] = runState[q]
        BY <1>P, <1>R, <2>2, <3>1
      <3>2. CASE /\ runState'[q] = Resumed(code) /\ q = parent[p]
                 /\ runState[q] = BlockedOnChild(p)
        <4>1. waitId[q] = p BY <1>B, <1>P, <3>2 DEF BlockedOnChild
        <4> QED BY <2>3, <3>2, <4>1 DEF Resumed
      <3>3. runState'[q] # Terminated BY <2>K
      <3> QED BY <1>P, <2>6, <3>1, <3>2, <3>3
    <2> QED BY <1>0, <2>7, <2>8, <2>9, <2>10 DEF IInv
  <1>10. ASSUME NEW p \in Procs, NEW t \in Targets, NEW sig \in Signals,
                SendSignal(p, t, sig)
         PROVE  IInv'
    BY <1>0, <1>10, DeliverInv, SignalsAssumption DEF SendSignal, UserCaller, Caller, Executing
  <1>11. ASSUME NEW t \in KernelThreads, DeviceWake(t) PROVE IInv'
    <2>1. CONTINUE \in Nat BY DEF CONTINUE
    <2> QED BY <1>0, <1>11, <2>1, DeliverInv DEF DeviceWake, InterruptsOn
  <1> QED
    BY <1>1, <1>2, <1>3, <1>4, <1>5, <1>6, <1>7, <1>8, <1>9, <1>10, <1>11 DEF Next

(* The inductive invariant holds in every state the kernel reaches.        *)
THEOREM InductiveInvariant == SafetySpec => []IInv
  BY InvInit, InvStep, PTL DEF SafetySpec

(* The code a resumed process returns from wait is one its own child, the  *)
(* one it named, ended with.                                               *)
THEOREM WaitCodeIsGenuine == SafetySpec => []ResumedByOwnChild
  <1>1. IInv => ResumedByOwnChild BY DEF IInv
  <1> QED BY <1>1, InductiveInvariant, PTL

(* The run_state locks of terminate are ordered by pid, and the kernel     *)
(* waits for its own lock only when process 0 is terminated.               *)
THEOREM LockOrder == SafetySpec => []LocksInPidOrder
  <1>1. IInv => LocksInPidOrder BY DEF IInv
  <1> QED BY <1>1, InductiveInvariant, PTL

----------------------------------------------------------------------------
(* No step of the kernel skips a runnable process when it switches.        *)
LEMMA SwitchStep == TypeOK /\ [Next]_vars => [SwitchInOrder]_vars
  <1> SUFFICES ASSUME TypeOK, Next PROVE SwitchInOrder
    OBVIOUS
  <1>1. ASSUME YieldWith(runState') PROVE SwitchInOrder
    <2>1. PICK n \in Procs : NextRunning(n, runState') /\ current' = n
      BY <1>1 DEF YieldWith
    <2>2. current \in Int /\ \A q \in Procs : q \in Int
      BY DEF TypeOK, Procs, Pids
    <2>3. ASSUME current' # current PROVE is_running(runState'[current'])
      BY <2>1, <2>3 DEF NextRunning
    <2>4. ASSUME current' # current, NEW q \in Procs, is_running(runState'[q]),
                 IF current < current' THEN current < q /\ q < current'
                                       ELSE current < q \/ q < current'
          PROVE  FALSE
      <3>1. CASE current < n
        BY <2>1, <2>2, <2>4, <3>1 DEF NextRunning
      <3>2. CASE ~(current < n)
        BY <2>1, <2>2, <2>4, <3>2 DEF NextRunning
      <3> QED BY <3>1, <3>2
    <2> QED BY <2>3, <2>4 DEF SwitchInOrder
  <1>2. ASSUME current' = current PROVE SwitchInOrder
    BY <1>2 DEF SwitchInOrder
  <1>3. ASSUME NEW p \in Procs, Yield(p) PROVE YieldWith(runState')
    BY <1>3 DEF Yield
  <1>4. ASSUME NEW p \in Procs, NEW ms \in Durations, Sleep(p, ms)
        PROVE YieldWith(runState')
    BY <1>4 DEF Sleep
  <1>5. ASSUME NEW p \in Procs, NEW id \in Pids, Wait(p, id)
        PROVE YieldWith(runState')
    BY <1>5 DEF Wait
  <1>6. ASSUME NEW p \in Procs, NEW code \in Codes, Exit(p, code)
        PROVE YieldWith(runState')
    BY <1>6 DEF Exit
  <1> QED
    BY <1>1, <1>2, <1>3, <1>4, <1>5, <1>6
    DEF Next, Tick, Fork, WaitReturn, ThreadSignal, SendSignal, DeviceWake

(* The scheduler is a round robin over the runnable processes.             *)
THEOREM RoundRobin == SafetySpec => SwitchIsRoundRobin
  BY TypeInit, TypeStep, SwitchStep, PTL DEF SafetySpec, SwitchIsRoundRobin

(* A tick wakes a sleeper exactly when its time is up.                     *)
LEMMA TickStep == IInv /\ [Next]_vars => [TickWakesOnTime]_vars
  <1> SUFFICES ASSUME IInv, Next PROVE TickWakesOnTime
    OBVIOUS
  <1>1. CASE Tick
    <2> SUFFICES ASSUME NEW p \in Pids, runState[p].kind = "Sleeping",
                        slept'[p] = slept[p] + 1
                 PROVE  is_running(runState'[p]) <=> asked[p] <= MS_PER_TICK * slept'[p]
      BY DEF TickWakesOnTime
    <2>1. runState'[p] = update_tick(runState[p]) BY <1>1 DEF Tick
    <2>2. runState[p].arg \in Nat /\ slept[p] \in Nat /\ asked[p] \in Nat
      BY DEF IInv, TypeOK, RunStates
    <2>3. runState[p].arg + MS_PER_TICK * slept[p] = asked[p]
      BY DEF IInv, SleepAccounted
    <2>4. is_running(runState'[p]) <=> runState[p].arg <= MS_PER_TICK
      BY <2>1, <2>2 DEF update_tick, is_running, Sleeping, Running, MS_PER_TICK
    <2> QED BY <2>2, <2>3, <2>4 DEF MS_PER_TICK
  <1>2. ASSUME \A p \in Pids : slept'[p] = slept[p] \/ slept'[p] = 0
        PROVE  TickWakesOnTime
    <2>1. \A p \in Pids : slept[p] \in Nat BY DEF IInv, TypeOK
    <2>2. \A p \in Pids : slept'[p] # slept[p] + 1 BY <1>2, <2>1
    <2> QED BY <2>2 DEF TickWakesOnTime
  <1>3. ASSUME NEW p \in Procs, NEW ms \in Durations, Sleep(p, ms)
        PROVE  \A q \in Pids : slept'[q] = slept[q] \/ slept'[q] = 0
    BY <1>3 DEF Sleep, IInv, TypeOK
  <1>4. ASSUME slept' = slept PROVE TickWakesOnTime
    BY <1>2, <1>4
  <1> QED
    BY <1>1, <1>2, <1>3, <1>4
    DEF Next, Yield, Fork, WaitReturn, ThreadSignal, Wait, Exit, SendSignal,
        DeviceWake, history

(* A sleep lasts the time that was asked for, in whole ticks.              *)
THEOREM SleepIsExact == SafetySpec => SleepLastsItsTicks
  BY InvInit, InvStep, TickStep, PTL DEF SafetySpec, SleepLastsItsTicks

(* A termination resumes a parent that is blocked on the process.          *)
LEMMA TerminateWakes ==
  ASSUME IInv, NEW t \in Procs, NEW signal \in Nat, NEW code \in Nat,
         terminate(t, signal, code)
  PROVE  WakesParent
  <1> SUFFICES ASSUME NEW c \in Pids \ {0},
                      runState[parent[c]] = BlockedOnChild(c),
                      runState[c] # Terminated,
                      runState'[c] = Terminated
               PROVE  /\ runState'[parent[c]].kind = "Resumed"
                      /\ runState'[parent[c]].arg \in ended'[c]
    BY DEF WakesParent
  <1>1. t \in Pids BY DEF Procs
  <1>2. c = t
    <2>1. Terminated # Resumed(code) BY DEF Terminated, Resumed
    <2> QED BY <2>1, TerminateEffect
  <1>3. parent[c] \in Pids /\ parent[c] # c
    BY DEF IInv, TypeOK, LocksInPidOrder, Pids
  <1> DEFINE rs == [runState EXCEPT ![t] = Terminated]
  <1>4. runState' = child_exited(rs, t, code)
    BY <1>2, <1>3 DEF terminate
  <1>5. runState'[parent[c]] = Resumed(code)
    <2>1. rs \in [Pids -> RunStates]
      BY <1>1 DEF IInv, TypeOK, RunStates, Terminated
    <2>2. rs[parent[c]] = BlockedOnChild(c)
      BY <1>2, <1>3 DEF IInv, TypeOK
    <2> HIDE DEF rs
    <2> QED BY <1>2, <1>3, <1>4, <2>1, <2>2 DEF child_exited
  <1>6. code \in ended'[c] BY <1>1, <1>2 DEF terminate, IInv, TypeOK
  <1>7. Resumed(code).kind = "Resumed" /\ Resumed(code).arg = code BY DEF Resumed
  <1> QED BY <1>5, <1>6, <1>7

(* No other step terminates a process.                                     *)
LEMMA WakeStep == IInv /\ [Next]_vars => [WakesParent]_vars
  <1> SUFFICES ASSUME IInv, Next PROVE WakesParent
    OBVIOUS
  <1>0. TypeOK BY DEF IInv
  <1>P. \A p \in Procs : p \in Pids BY DEF Procs
  <1>1. ASSUME \A q \in Pids : runState'[q] = runState[q] \/ runState'[q] # Terminated
        PROVE  WakesParent
    BY <1>1 DEF WakesParent
  <1>2. ASSUME NEW t \in Procs, NEW sig \in Nat, Deliver(t, sig) PROVE WakesParent
    <2>1. CASE terminate(t, sig, 0)
      BY <2>1, TerminateWakes
    <2>2. CASE ~terminate(t, sig, 0)
      BY <1>0, <1>1, <1>2, <1>P, <2>2 DEF Deliver, TypeOK, Paused, Running, Terminated
    <2> QED BY <2>1, <2>2
  <1>3. CASE Tick
    <2>1. \A q \in Pids : runState'[q] = update_tick(runState[q]) BY <1>3 DEF Tick
    <2>2. \A r \in RunStates : update_tick(r) = r \/ update_tick(r) # Terminated
      BY DEF update_tick, Sleeping, Running, Terminated
    <2>3. \A q \in Pids : runState[q] \in RunStates BY <1>0 DEF TypeOK
    <2> QED BY <1>1, <2>1, <2>2, <2>3
  <1>4. ASSUME NEW p \in Procs, Fork(p) \/ WaitReturn(p) PROVE WakesParent
    <2>1. Running # Terminated BY DEF Running, Terminated
    <2>2. CASE Fork(p)
      <3>1. nextPid \in Pids BY <1>0, <2>2 DEF Fork, TypeOK, Pids
      <3> QED BY <1>0, <1>1, <2>1, <2>2, <3>1 DEF Fork, TypeOK
    <2>3. CASE WaitReturn(p)
      BY <1>0, <1>1, <1>P, <2>1, <2>3 DEF WaitReturn, TypeOK
    <2> QED BY <1>4, <2>2, <2>3
  <1>5. ASSUME NEW p \in Procs, ThreadSignal(p) PROVE WakesParent
    <2>1. 1 \in Procs BY <1>0 DEF TypeOK, Procs, Pids
    <2> QED BY <1>2, <1>5, <2>1 DEF ThreadSignal, STOP, CONTINUE
  <1>6. ASSUME NEW p \in Procs, NEW ms \in Durations, Sleep(p, ms) PROVE WakesParent
    BY <1>0, <1>1, <1>6, <1>P DEF Sleep, TypeOK, Sleeping, Terminated
  <1>7. ASSUME NEW p \in Procs, NEW id \in Pids, Wait(p, id) PROVE WakesParent
    BY <1>0, <1>1, <1>7, <1>P DEF Wait, TypeOK, BlockedOnChild, Terminated
  <1>8. ASSUME NEW p \in Procs, NEW code \in Codes, Exit(p, code) PROVE WakesParent
    BY <1>8, TerminateWakes DEF Exit
  <1>9. ASSUME NEW p \in Procs, Yield(p) PROVE WakesParent
    BY <1>1, <1>9 DEF Yield
  <1>10. ASSUME NEW t \in KernelThreads, DeviceWake(t) PROVE WakesParent
    BY <1>2, <1>10 DEF DeviceWake, CONTINUE
  <1> QED
    BY <1>2, <1>3, <1>4, <1>5, <1>6, <1>7, <1>8, <1>9, <1>10
    DEF Next, SendSignal

(* A wait that began before the child ended is never missed.               *)
THEOREM WaitIsNotMissed == SafetySpec => ParentWokenByExit
  BY InvInit, InvStep, WakeStep, PTL DEF SafetySpec, ParentWokenByExit
=============================================================================
