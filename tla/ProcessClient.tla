---------------------------- MODULE ProcessClient ----------------------------
(***************************************************************************)
(* Any single-threaded caller of the process manager: it starts processes, *)
(* polls them with sync(), waits for them, closes them, in any order, and  *)
(* survives the exceptions these calls raise.  The bound on the number of  *)
(* processes and the life of a child are ProcessManager's.                 *)
(***************************************************************************)
EXTENDS ProcessManager

VARIABLES
  call,     \* the call the caller is blocked in: "none", "start" or "wait"
  target,   \* the process of that call
  refused   \* the processes startProcess raised for

vars == <<child, outcome, pipe, pstate, processes, clearing, call, target, refused>>

ClientTypeOK ==
  /\ PMTypeOK
  /\ call \in {"none", "start", "wait"}
  /\ target \in Procs
  /\ refused \subseteq Procs

Init ==
  /\ PMInit
  /\ call = "none"
  /\ target \in Procs
  /\ refused = {}

\* startProcess below the limit, or at it: getProcess first clears.
StartProcess(p) ==
  /\ call = "none"
  /\ child[p] = "none" /\ p \notin refused
  /\ Cardinality(processes) <= MaxProcesses
  /\ Fork(p)
  /\ UNCHANGED <<outcome, pipe, pstate, clearing, call, target, refused>>

\* startProcess is past getProcess and start() raises.
StartFails(p) ==
  /\ call = "none"
  /\ child[p] = "none" /\ p \notin refused
  /\ Cardinality(processes) <= MaxProcesses
  /\ ForkFails(p)
  /\ UNCHANGED <<outcome, pipe, pstate, clearing, call, target, refused>>

StartClears(p) ==
  /\ call = "none"
  /\ child[p] = "none" /\ p \notin refused
  /\ Cardinality(processes) > MaxProcesses
  /\ clearing' = processes
  /\ call' = "start" /\ target' = p
  /\ UNCHANGED <<child, outcome, pipe, pstate, processes, refused>>

\* Mutant: what clear() leaves is not looked at.
StartClearedAnyway ==
  /\ call = "start"
  /\ clearing = {}
  /\ Fork(target)
  /\ call' = "none"
  /\ UNCHANGED <<outcome, pipe, pstate, clearing, target, refused>>

\* The limit is checked again after clear(), but clear() either emptied the
\* dictionary or raises: the waiting loop of getProcess is never entered.
StartCleared ==
  /\ call = "start"
  /\ clearing = {} /\ processes = {}
  /\ Fork(target) \/ ForkFails(target)
  /\ call' = "none"
  /\ UNCHANGED <<outcome, pipe, pstate, clearing, target, refused>>

StartRaises ==
  /\ call = "start"
  /\ RemainingRaises \/ \E p \in Procs : ClearRaises(p)
  /\ refused' = refused \cup {target}
  /\ call' = "none"
  /\ UNCHANGED target

Clear(p) ==
  /\ call = "start"
  /\ ClearStep(p)
  /\ UNCHANGED <<call, target, refused>>

\* The caller polls a process it started.
Poll(p) ==
  /\ call = "none"
  /\ child[p] # "none"
  /\ Sync(p) \/ SyncRaises(p)
  /\ UNCHANGED <<processes, clearing, call, target, refused>>

\* Process.wait: waitpid blocks, then sync; its exceptions are swallowed.  On a
\* killed process it returns at once, on a reaped one waitpid fails, and one
\* that was never forked has no pid: nothing changes.
Wait(p) ==
  /\ call = "none"
  /\ child[p] \notin {"none", "failed", "reaped"} /\ pstate[p] # "killed"
  /\ call' = "wait" /\ target' = p
  /\ UNCHANGED <<child, outcome, pipe, pstate, processes, clearing, refused>>

WaitReturns ==
  /\ call = "wait"
  /\ Reap(target)
  /\ call' = "none"
  /\ UNCHANGED <<processes, clearing, target, refused>>

\* Process.close by the caller: the entry stays in the manager.
CloseEnded(p) ==
  /\ call = "none"
  /\ child[p] # "none"
  /\ Synced(p) \in Results \cup {"killed"}
  /\ child[p] = "exited"
  /\ Sync(p)
  /\ UNCHANGED <<processes, clearing, call, target, refused>>

CloseRunning(p) ==
  /\ call = "none"
  /\ child[p] # "none"
  /\ Readable(p) /\ Synced(p) = "running"
  /\ Kill(p) \/ KillFails(p)
  /\ UNCHANGED <<processes, clearing, call, target, refused>>

Next ==
  \/ StartCleared \/ StartRaises \/ WaitReturns
  \/ \E p \in Procs :
       \/ StartProcess(p) \/ StartFails(p) \/ StartClears(p) \/ Clear(p)
       \/ Poll(p) \/ Wait(p) \/ CloseEnded(p) \/ CloseRunning(p)
       \/ ChildStep(p) /\ UNCHANGED <<call, target, refused>>

Spec == Init /\ [][Next]_vars

-----------------------------------------------------------------------------
\* getProcess compares with >: one process more than the limit, never two.
WithinLimit == Cardinality(processes) <= MaxProcesses + 1

\* What sync() once reported is final, whatever is called afterwards: a
\* finished process is never turned into a killed one or a failed one.
ReportIsFinal ==
  [][\A p \in Procs : IsDone(p) => pstate'[p] = pstate[p]]_vars
=============================================================================
