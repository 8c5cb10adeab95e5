------------------------ MODULE ProcessManagerProofs ------------------------
(***************************************************************************)
(* Every primitive of the process manager preserves PMInv, and none takes  *)
(* back what the parent or the child has settled.  ProcessClientProofs and *)
(* RunExecutionProofs cite these lemmas for their actions.                 *)
(***************************************************************************)
EXTENDS ProcessManager, TLAPS

\* What a step leaves alone unless it starts a process: nobody is started,
\* nobody comes back to life, a decided outcome and a final state stay, and the
\* outcome of a method that is over.
Settled ==
  \A q \in Procs :
    /\ child'[q] = "none" <=> child[q] = "none"
    /\ child'[q] = "inline" <=> child[q] = "inline"
    /\ child'[q] = "failed" <=> child[q] = "failed"
    /\ Alive(q)' => Alive(q)
    /\ ~ Alive(q) => outcome'[q] = outcome[q]
    /\ outcome[q] # "none" => outcome'[q] = outcome[q]
    /\ IsDone(q) => pstate'[q] = pstate[q]

Managed(p) == child[p] \notin {"none", "inline"}

\* The initial state of the process manager satisfies the invariant: no child
\* exists and nothing was read (Process.__init__).
LEMMA PMInitInv == PMInit => PMInv
  BY DEF PMInit, PMInv, PMTypeOK, ReportedStateIsTrue, NoForgottenChild,
         WholeResult, Unmanaged, Undecided, ChildStates, Results, PipeStates,
         ProcStates, IsDone

\* The child's own steps, from the fork to its exit (Process.start).
LEMMA PMChildStep ==
  ASSUME PMInv, NEW p \in Procs, ChildStep(p)
  PROVE  PMInv' /\ Settled
<1> USE DEF PMInv, PMTypeOK, ReportedStateIsTrue, NoForgottenChild, WholeResult,
            Unmanaged, Undecided, ChildStates, Results, PipeStates, ProcStates,
            IsDone, Alive, Settled
<1>1. CASE Return(p)
  BY <1>1 DEF Return
<1>2. CASE ReturnLong(p)
  BY <1>2 DEF ReturnLong
<1>3. CASE ReturnRest(p)
  BY <1>3 DEF ReturnRest
<1>4. CASE Flood(p)
  BY <1>4 DEF Flood
<1>5. CASE Die(p)
  BY <1>5 DEF Die
<1>6. CASE Exit(p)
  BY <1>6 DEF Exit
<1>7. QED
  BY <1>1, <1>2, <1>3, <1>4, <1>5, <1>6 DEF ChildStep

\* The parent forks a process it has not forked yet, or fails to (startProcess).
LEMMA PMFork ==
  ASSUME PMInv, NEW p \in Procs, Fork(p) \/ ForkFails(p),
         UNCHANGED <<outcome, pipe, pstate, clearing>>
  PROVE  PMInv'
  BY DEF Fork, ForkFails, PMInv, PMTypeOK, ReportedStateIsTrue, NoForgottenChild, WholeResult,
         Unmanaged, Undecided, ChildStates, Results, PipeStates, ProcStates, IsDone

\* The parent reads the pipes of a process (Process.sync).
LEMMA PMSync ==
  ASSUME PMInv, NEW p \in Procs, Managed(p), Sync(p) \/ SyncRaises(p),
         UNCHANGED <<processes, clearing>>
  PROVE  PMInv' /\ Settled
<1> USE DEF PMInv, PMTypeOK, ReportedStateIsTrue, NoForgottenChild, WholeResult,
            Unmanaged, Undecided, ChildStates, Results, PipeStates, ProcStates,
            IsDone, Alive, Settled, Managed
<1>1. CASE Sync(p)
  <2>1. CASE IsDone(p)
    BY <1>1, <2>1 DEF Sync, Synced
  <2>2. CASE ~ IsDone(p)
    BY <1>1, <2>2 DEF Sync, Synced, Unblocked, Readable
  <2>3. QED
    BY <2>1, <2>2
<1>2. CASE SyncRaises(p)
  BY <1>2 DEF SyncRaises, Readable
<1>3. QED
  BY <1>1, <1>2

\* wait() finds the result of a process that has exited, or reaps it without
\* (Process.wait).
LEMMA PMReap ==
  ASSUME PMInv, NEW p \in Procs, Managed(p), Reap(p),
         UNCHANGED <<processes, clearing>>
  PROVE  PMInv' /\ Settled
<1>1. CASE Sync(p)
  BY <1>1, PMSync
<1>2. CASE ~ Sync(p)
  BY <1>2 DEF Reap, Synced, Readable, PMInv, PMTypeOK, ReportedStateIsTrue, NoForgottenChild,
     WholeResult, Unmanaged, Undecided, ChildStates, Results, PipeStates, ProcStates,
     IsDone, Alive, Settled, Managed
<1>3. QED
  BY <1>1, <1>2

\* A process without a result is killed, or the kill raises (Process.close).
LEMMA PMKill ==
  ASSUME PMInv, NEW p \in Procs, Managed(p), ~ IsDone(p), Readable(p), pipe[p] # "result",
         Kill(p) \/ KillFails(p), UNCHANGED <<processes, clearing>>
  PROVE  PMInv' /\ Settled
<1> USE DEF PMInv, PMTypeOK, ReportedStateIsTrue, NoForgottenChild, WholeResult,
            Unmanaged, Undecided, ChildStates, Results, PipeStates, ProcStates,
            IsDone, Alive, Settled, Managed, Readable
<1>1. CASE Kill(p) /\ UNCHANGED outcome
  BY <1>1 DEF Kill
<1>2. CASE Kill(p) /\ \E r \in Results : outcome' = [outcome EXCEPT ![p] = r] /\ Unblocked(p) = "running"
  BY <1>2 DEF Kill, Unblocked
<1>3. CASE KillFails(p)
  BY <1>3 DEF KillFails
<1>4. QED
  BY <1>1, <1>2, <1>3 DEF Kill

\* One key of clear(): its process has ended and is forgotten, or it is kept,
\* or it is past its timeout, killed and forgotten.
LEMMA PMClearStep ==
  ASSUME PMInv, NEW p \in Procs, ClearStep(p)
  PROVE  PMInv' /\ Settled
<1> USE DEF PMInv, PMTypeOK, ReportedStateIsTrue, NoForgottenChild, WholeResult,
            Unmanaged, Undecided, ChildStates, Results, PipeStates, ProcStates,
            IsDone, Alive, Settled, Managed
<1>1. CASE ClearPop(p)
  <2>1. /\ Managed(p)
        /\ Synced(p) = IF IsDone(p) THEN pstate[p] ELSE outcome[p]
    BY <1>1 DEF ClearPop, Synced
  <2>2. QED
    BY <1>1, <2>1 DEF ClearPop, Sync, Pop, Unblocked
<1>2. CASE ClearKeep(p)
  <2>1. Managed(p)
    BY <1>2 DEF ClearKeep
  <2>2. CASE IsDone(p)
    BY <1>2, <2>1, <2>2 DEF ClearKeep, Sync, Synced
  <2>3. CASE ~ IsDone(p)
    BY <1>2, <2>1, <2>3 DEF ClearKeep, Sync, Synced, Unblocked, Readable
  <2>4. QED
    BY <2>2, <2>3
<1>3. CASE ClearTimeout(p)
  <2>1. Managed(p)
    BY <1>3 DEF ClearTimeout
  <2>2. CASE IsDone(p)
    <3>1. pstate[p] = "killed"
      BY <1>3, <2>2 DEF ClearTimeout, Synced
    <3>2. QED
      BY <1>3, <2>1, <2>2, <3>1 DEF ClearTimeout, Pop
  <2>3. CASE ~ IsDone(p)
    <3>1. /\ child' = [child EXCEPT ![p] = "exited"]
          /\ pstate' = [pstate EXCEPT ![p] = "killed"]
          /\ pipe[p] # "result" /\ child[p] # "failed"
          /\ UNCHANGED pipe
      BY <1>3, <2>3 DEF ClearTimeout, Kill, Synced, Readable
    <3>2. \/ UNCHANGED outcome
          \/ /\ child[p] \in {"running", "blocked"}
             /\ \E r \in Results : outcome' = [outcome EXCEPT ![p] = r]
      BY <1>3, <2>3 DEF ClearTimeout, Kill, Unblocked
    <3>3. QED
      BY <1>3, <2>1, <2>3, <3>1, <3>2 DEF ClearTimeout, Pop
  <2>4. QED
    BY <2>2, <2>3
<1>4. QED
  BY <1>1, <1>2, <1>3 DEF ClearStep

\* The two ways clear() raises: on a partial result and on its own log line.
LEMMA PMClearRaises ==
  ASSUME PMInv, RemainingRaises \/ \E p \in Procs : ClearRaises(p)
  PROVE  PMInv' /\ Settled
<1>1. CASE \E p \in Procs : ClearRaises(p)
  BY <1>1 DEF ClearRaises, SyncRaises, KillFails, Readable, PMInv, PMTypeOK,
     ReportedStateIsTrue, NoForgottenChild, WholeResult, Unmanaged, Undecided,
     ChildStates, Results, PipeStates, ProcStates, IsDone, Alive, Settled
<1>2. CASE RemainingRaises
  <2>1. PICK p \in processes : Sync(p) \/ SyncRaises(p)
    BY <1>2 DEF RemainingRaises
  <2>2. p \in Procs /\ Managed(p)
    BY DEF PMInv, PMTypeOK, Unmanaged, Managed
  <2>3. UNCHANGED <<processes, clearing>>
    BY <1>2 DEF RemainingRaises
  <2>4. QED
    BY <2>1, <2>2, <2>3, PMSync
<1>3. QED
  BY <1>1, <1>2

\* getProcess meets the limit and begins to clear().
LEMMA PMClearBegins ==
  ASSUME PMInv, clearing' = processes,
         UNCHANGED <<child, outcome, pipe, pstate, processes>>
  PROVE  PMInv' /\ Settled
  BY DEF PMInv, PMTypeOK, ReportedStateIsTrue, NoForgottenChild, WholeResult,
         Unmanaged, Undecided, IsDone, Alive, Settled

\* A step of the caller that touches neither children nor manager.
LEMMA PMStutter ==
  ASSUME PMInv, UNCHANGED pmVars
  PROVE  PMInv' /\ Settled
  BY DEF PMInv, PMTypeOK, ReportedStateIsTrue, NoForgottenChild, WholeResult,
         Unmanaged, Undecided, IsDone, Alive, Settled, pmVars
=============================================================================
