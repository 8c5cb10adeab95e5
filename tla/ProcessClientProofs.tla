------------------------- MODULE ProcessClientProofs -------------------------
(***************************************************************************)
(* What any single-threaded caller may rely on, for every set of processes *)
(* and every limit: each action of ProcessClient preserves PMInv, by the   *)
(* lemma about the primitive it calls, and the bound on the dictionary.    *)
(***************************************************************************)
EXTENDS ProcessClient, ProcessManagerProofs, FiniteSetTheorems

\* Nobody is run in the caller itself, and wait() has a process to wait for.
Called ==
  /\ \A p \in Procs : child[p] # "inline"
  /\ call = "wait" => child[target] # "none"

Bounded == IsFiniteSet(processes) /\ WithinLimit

ClientInv == ClientTypeOK /\ PMInv /\ Called /\ Bounded

LEMMA EmptyIsFinite == IsFiniteSet({}) /\ Cardinality({}) = 0
  BY FS_EmptySet

\* A set with one element more has a cardinality of at most one more.
LEMMA OneMore ==
  ASSUME NEW S, IsFiniteSet(S), NEW x
  PROVE  /\ IsFiniteSet(S \cup {x})
         /\ Cardinality(S) \in Nat
         /\ Cardinality(S \cup {x}) \in Nat
         /\ Cardinality(S \cup {x}) <= Cardinality(S) + 1
  BY FS_AddElement, FS_CardinalityType

\* A set without one of its elements is not larger.
LEMMA OneLess ==
  ASSUME NEW S, IsFiniteSet(S), NEW x
  PROVE  /\ IsFiniteSet(S \ {x})
         /\ Cardinality(S) \in Nat
         /\ Cardinality(S \ {x}) \in Nat
         /\ Cardinality(S \ {x}) <= Cardinality(S)
<1>1. IsFiniteSet(S \ {x}) /\ Cardinality(S \ {x}) <= Cardinality(S)
  <2>1. S \ {x} \in SUBSET S
    OBVIOUS
  <2>2. QED
    BY <2>1, FS_Subset
<1>2. Cardinality(S) \in Nat /\ Cardinality(S \ {x}) \in Nat
  BY <1>1, FS_CardinalityType
<1>3. QED
  BY <1>1, <1>2

\* The initial states: no process, no call.
LEMMA ClientInitInv == Init => ClientInv
<1> SUFFICES ASSUME Init PROVE ClientInv
  OBVIOUS
<1>1. PMInv
  BY PMInitInv DEF Init
<1>2. ClientTypeOK /\ Called
  BY <1>1 DEF Init, PMInit, ClientTypeOK, PMInv, Called
<1>3. Bounded
  BY EmptyIsFinite, ManagerAssumption DEF Init, PMInit, Bounded, WithinLimit
<1>4. QED
  BY <1>1, <1>2, <1>3 DEF ClientInv

\* What an action that starts no process does to the strengthened invariant.
LEMMA SettledInv ==
  ASSUME ClientInv, PMInv', Settled, processes' \subseteq processes,
         \/ processes' = processes \/ \E p \in Procs : processes' = processes \ {p},
         call' \in {"none", "start", "wait"}, target' \in Procs, refused' \subseteq Procs,
         call' = "wait" => child[target'] # "none"
  PROVE  ClientInv'
<1>1. ClientTypeOK' /\ Called'
  BY DEF ClientInv, ClientTypeOK, PMInv, Called, Settled
<1>2. Bounded'
  <2>1. CASE processes' = processes
    BY <2>1 DEF ClientInv, Bounded, WithinLimit
  <2>2. CASE \E p \in Procs : processes' = processes \ {p}
    <3>1. PICK p \in Procs : processes' = processes \ {p}
      BY <2>2
    <3>2. /\ IsFiniteSet(processes \ {p})
          /\ Cardinality(processes) \in Nat
          /\ Cardinality(processes \ {p}) \in Nat
          /\ Cardinality(processes \ {p}) <= Cardinality(processes)
      BY OneLess DEF ClientInv, Bounded
    <3>3. QED
      BY <3>1, <3>2, ManagerAssumption DEF ClientInv, Bounded, WithinLimit
  <2>3. QED
    BY <2>1, <2>2
<1>3. QED
  BY <1>1, <1>2 DEF ClientInv

\* Every action of the caller and every step of a child preserves ClientInv;
\* what is settled stays settled unless the action starts a process.
LEMMA ClientNextInv ==
  ASSUME ClientInv, [Next]_vars
  PROVE  ClientInv' /\ (\A q \in Procs : IsDone(q) => pstate'[q] = pstate[q])
<1> DEFINE Final == \A q \in Procs : IsDone(q) => pstate'[q] = pstate[q]
<1> USE DEF ClientInv
<1>1. ASSUME NEW p \in Procs, StartProcess(p)
      PROVE  ClientInv' /\ Final
  <2>1. PMInv'
    BY <1>1, PMFork DEF StartProcess
  <2>2. ClientTypeOK' /\ Called' /\ Final
    BY <1>1, <2>1 DEF StartProcess, Fork, ClientTypeOK, Called, PMInv, PMTypeOK
  <2>3. Bounded'
    <3>1. /\ IsFiniteSet(processes \cup {p})
          /\ Cardinality(processes) \in Nat
          /\ Cardinality(processes \cup {p}) \in Nat
          /\ Cardinality(processes \cup {p}) <= Cardinality(processes) + 1
      BY OneMore DEF Bounded
    <3>2. processes' = processes \cup {p} /\ Cardinality(processes) <= MaxProcesses
      BY <1>1 DEF StartProcess, Fork
    <3>3. QED
      BY <3>1, <3>2, ManagerAssumption DEF Bounded, WithinLimit
  <2>4. QED
    BY <2>1, <2>2, <2>3
<1>2. ASSUME NEW p \in Procs, StartClears(p)
      PROVE  ClientInv' /\ Final
  <2>1. PMInv' /\ Settled
    BY <1>2, PMClearBegins DEF StartClears
  <2>2. ClientInv'
    BY <1>2, <2>1, SettledInv DEF StartClears, ClientTypeOK
  <2>3. QED
    BY <2>1, <2>2 DEF Settled
<1>3. CASE StartCleared
  <2>1. target \in Procs
    BY DEF ClientTypeOK
  <2>2. PMInv'
    BY <1>3, <2>1, PMFork DEF StartCleared
  <2>3. ClientTypeOK' /\ Called' /\ Final
    BY <1>3, <2>1, <2>2 DEF StartCleared, Fork, ForkFails, ClientTypeOK, Called, PMInv, PMTypeOK
  <2>4. Bounded'
    <3>1. processes' = {} \cup {target}
      BY <1>3 DEF StartCleared, Fork, ForkFails
    <3>2. /\ IsFiniteSet({} \cup {target})
          /\ Cardinality({} \cup {target}) \in Nat
          /\ Cardinality({} \cup {target}) <= 0 + 1
      BY OneMore, EmptyIsFinite
    <3>3. QED
      BY <3>1, <3>2, ManagerAssumption DEF Bounded, WithinLimit
  <2>5. QED
    BY <2>2, <2>3, <2>4
<1>4. CASE StartRaises
  <2>1. PMInv' /\ Settled
    BY <1>4, PMClearRaises DEF StartRaises
  <2>2. UNCHANGED processes
    BY <1>4 DEF StartRaises, RemainingRaises, ClearRaises
  <2>3. ClientInv'
    BY <1>4, <2>1, <2>2, SettledInv DEF StartRaises, ClientTypeOK
  <2>4. QED
    BY <2>1, <2>3 DEF Settled
<1>5. ASSUME NEW p \in Procs, Clear(p)
      PROVE  ClientInv' /\ Final
  <2>1. PMInv' /\ Settled
    BY <1>5, PMClearStep DEF Clear
  <2>2. processes' = processes \/ processes' = processes \ {p}
    BY <1>5 DEF Clear, ClearStep, ClearPop, ClearKeep, ClearTimeout, Pop
  <2>3. ClientInv'
    BY <1>5, <2>1, <2>2, SettledInv DEF Clear, ClientTypeOK
  <2>4. QED
    BY <2>1, <2>3 DEF Settled
<1>6. ASSUME NEW p \in Procs, Poll(p)
      PROVE  ClientInv' /\ Final
  <2>1. PMInv' /\ Settled
    BY <1>6, PMSync DEF Poll, Managed, Called
  <2>2. ClientInv'
    BY <1>6, <2>1, SettledInv DEF Poll, ClientTypeOK
  <2>3. QED
    BY <2>1, <2>2 DEF Settled
<1>7. ASSUME NEW p \in Procs, Wait(p)
      PROVE  ClientInv' /\ Final
  <2>1. PMInv' /\ Settled
    BY <1>7, PMStutter DEF Wait, pmVars
  <2>2. ClientInv'
    BY <1>7, <2>1, SettledInv DEF Wait, ClientTypeOK
  <2>3. QED
    BY <2>1, <2>2 DEF Settled
<1>8. CASE WaitReturns
  <2>1. PMInv' /\ Settled
    BY <1>8, PMReap DEF WaitReturns, Managed, Called, ClientTypeOK
  <2>2. ClientInv'
    BY <1>8, <2>1, SettledInv DEF WaitReturns, ClientTypeOK
  <2>3. QED
    BY <2>1, <2>2 DEF Settled
<1>9. ASSUME NEW p \in Procs, CloseEnded(p)
      PROVE  ClientInv' /\ Final
  <2>1. PMInv' /\ Settled
    BY <1>9, PMSync DEF CloseEnded, Managed, Called
  <2>2. ClientInv'
    BY <1>9, <2>1, SettledInv DEF CloseEnded, ClientTypeOK
  <2>3. QED
    BY <2>1, <2>2 DEF Settled
<1>10. ASSUME NEW p \in Procs, CloseRunning(p)
       PROVE  ClientInv' /\ Final
  <2>1. ~ IsDone(p) /\ pipe[p] # "result"
    <3>1. pipe[p] = "result" => outcome[p] \in Results
      BY DEF PMInv, WholeResult
    <3>2. Synced(p) = "running"
      BY <1>10 DEF CloseRunning
    <3>3. QED
      BY <3>1, <3>2 DEF Synced, IsDone, Results
  <2>2. PMInv' /\ Settled
    BY <1>10, <2>1, PMKill DEF CloseRunning, Managed, Called
  <2>3. ClientInv'
    BY <1>10, <2>2, SettledInv DEF CloseRunning, ClientTypeOK
  <2>4. QED
    BY <2>2, <2>3 DEF Settled
<1>11. ASSUME NEW p \in Procs, ChildStep(p), UNCHANGED <<call, target, refused>>
       PROVE  ClientInv' /\ Final
  <2>1. PMInv' /\ Settled
    BY <1>11, PMChildStep
  <2>2. UNCHANGED processes
    BY <1>11 DEF ChildStep, Return, ReturnLong, ReturnRest, Exit, Flood, Die
  <2>3. ClientInv'
    BY <1>11, <2>1, <2>2, SettledInv DEF ClientTypeOK, Called
  <2>4. QED
    BY <2>1, <2>3 DEF Settled
<1>12. ASSUME NEW p \in Procs, StartFails(p)
       PROVE  ClientInv' /\ Final
  <2>1. PMInv'
    BY <1>12, PMFork DEF StartFails
  <2>2. ClientTypeOK' /\ Called' /\ Final
    BY <1>12, <2>1 DEF StartFails, ForkFails, ClientTypeOK, Called, PMInv, PMTypeOK
  <2>3. Bounded'
    <3>1. /\ IsFiniteSet(processes \cup {p})
          /\ Cardinality(processes) \in Nat
          /\ Cardinality(processes \cup {p}) \in Nat
          /\ Cardinality(processes \cup {p}) <= Cardinality(processes) + 1
      BY OneMore DEF Bounded
    <3>2. processes' = processes \cup {p} /\ Cardinality(processes) <= MaxProcesses
      BY <1>12 DEF StartFails, ForkFails
    <3>3. QED
      BY <3>1, <3>2, ManagerAssumption DEF Bounded, WithinLimit
  <2>4. QED
    BY <2>1, <2>2, <2>3
<1>13. CASE UNCHANGED vars
  BY <1>13 DEF vars, ClientTypeOK, PMInv, PMTypeOK, ReportedStateIsTrue,
     NoForgottenChild, WholeResult, Unmanaged, Undecided, IsDone, Called,
     Bounded, WithinLimit
<1>14. QED
  BY <1>1, <1>2, <1>3, <1>4, <1>5, <1>6, <1>7, <1>8, <1>9, <1>10, <1>11, <1>12, <1>13
     DEF Next

\* The strengthened invariant holds in every reachable state.
LEMMA ClientInvariant == Spec => []ClientInv
<1>1. Init => ClientInv
  BY ClientInitInv
<1>2. ClientInv /\ [Next]_vars => ClientInv'
  BY ClientNextInv
<1>3. QED
  BY <1>1, <1>2, PTL DEF Spec

\* The types of the parent's book-keeping and of the children, for every caller.
THEOREM ClientTypeCorrect == Spec => []ClientTypeOK
<1>1. ClientInv => ClientTypeOK
  BY DEF ClientInv
<1>2. QED
  BY <1>1, ClientInvariant, PTL

\* For every caller, every number of processes and every limit: the state the
\* parent reads is the one the child reached (Process.sync, close).
THEOREM ReportsAreTrue == Spec => []ReportedStateIsTrue
<1>1. ClientInv => ReportedStateIsTrue
  BY DEF ClientInv, PMInv
<1>2. QED
  BY <1>1, ClientInvariant, PTL

\* ... no child that runs is missing from the dictionary (clear).
THEOREM NoChildForgotten == Spec => []NoForgottenChild
<1>1. ClientInv => NoForgottenChild
  BY DEF ClientInv, PMInv
<1>2. QED
  BY <1>1, ClientInvariant, PTL

\* ... and the dictionary exceeds the limit by one at most (getProcess).
THEOREM LimitHolds == Spec => []WithinLimit
<1>1. ClientInv => WithinLimit
  BY DEF ClientInv, Bounded
<1>2. QED
  BY <1>1, ClientInvariant, PTL

\* What sync() has reported is never reported differently (Process.isDone).
THEOREM ReportsAreFinal == Spec => ReportIsFinal
<1>1. ClientInv /\ [Next]_vars =>
        [\A p \in Procs : IsDone(p) => pstate'[p] = pstate[p]]_vars
  BY ClientNextInv
<1>2. QED
  BY <1>1, ClientInvariant, PTL DEF Spec, ReportIsFinal
=============================================================================
