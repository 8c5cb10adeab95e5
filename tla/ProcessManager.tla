--------------------------- MODULE ProcessManager ---------------------------
(***************************************************************************)
(* j.core.processmanager (core/processmanager/ProcessManagerFactory.py):   *)
(* one parent forks children, each child runs one method and writes one    *)
(* JSON line with its result to a pipe, the parent reads that pipe without *)
(* blocking.  The parent's whole knowledge of a child is the `state`       *)
(* attribute of its Process object, here pstate[p].                        *)
(*                                                                         *)
(* This module holds the state of the children, of the pipes and of the    *)
(* manager, and one operator per primitive.  The modules ProcessClient and *)
(* RunExecution compose them into a caller.                                *)
(***************************************************************************)
EXTENDS Naturals, FiniteSets

CONSTANTS
  Procs,          \* the Process objects that may be created
  MaxProcesses,   \* the limit of getProcess, 100 in the source
  Behaviours      \* what a child may do besides returning its result at once

\* "long":  the result needs several writes, the parent may see only a part
\* "flood": the method prints more than the stdout pipe holds and blocks
\* "die":   the child disappears without a result (signal, os._exit)
ASSUME ManagerAssumption ==
  /\ MaxProcesses \in Nat
  /\ Behaviours \subseteq {"long", "flood", "die"}

VARIABLES
  child,      \* what each child is doing
  outcome,    \* how its method ended
  pipe,       \* what the parent has not read of its result pipe
  pstate,     \* Process.state in the parent
  processes,  \* ProcessManagerFactory.processes
  clearing    \* the keys clear() has still to visit

pmVars == <<child, outcome, pipe, pstate, processes, clearing>>

\* "inline" is a method the caller runs in its own process, without a child;
\* "failed" a Process whose start() raised before it had a child; "leaving" a
\* child whose method is over; "reaped" one that wait() took the exit status of
\* without finding its result.
ChildStates == {"none", "inline", "failed", "running", "blocked", "writing",
                "leaving", "exited", "reaped"}
Results     == {"success", "exception"}
PipeStates  == {"empty", "head", "tail", "result", "closed"}
ProcStates  == {"init", "running", "killed"} \cup Results

PMTypeOK ==
  /\ child \in [Procs -> ChildStates]
  /\ outcome \in [Procs -> Results \cup {"none"}]
  /\ pipe \in [Procs -> PipeStates]
  /\ pstate \in [Procs -> ProcStates]
  /\ processes \subseteq Procs
  /\ clearing \subseteq processes

PMInit ==
  /\ child = [p \in Procs |-> "none"]
  /\ outcome = [p \in Procs |-> "none"]
  /\ pipe = [p \in Procs |-> "empty"]
  /\ pstate = [p \in Procs |-> "init"]
  /\ processes = {}
  /\ clearing = {}

\* The method of p runs, or writes its result.
Alive(p) == child[p] \in {"inline", "running", "blocked", "writing"}

\* Process.isDone
IsDone(p) == pstate[p] \notin {"init", "running"}

\* sync() finds a whole line or nothing.  Otherwise it raises: json.loads on a
\* part of a line, read() on a pipe that a failed close() has closed, and
\* self.pid on a process that was never forked.
Readable(p) == child[p] # "failed" /\ pipe[p] \in {"empty", "result"}

-----------------------------------------------------------------------------
(***************************************************************************)
(* The child: Process.start from the fork to os._exit.                     *)
(***************************************************************************)

\* The method returns or raises, and its line is written in one piece.
Return(p) ==
  /\ child[p] = "running"
  /\ \E r \in Results : outcome' = [outcome EXCEPT ![p] = r]
  /\ pipe' = [pipe EXCEPT ![p] = "result"]
  /\ child' = [child EXCEPT ![p] = "leaving"]
  /\ UNCHANGED <<pstate, processes, clearing>>

\* A result longer than the write buffer leaves the child in two writes.
ReturnLong(p) ==
  /\ "long" \in Behaviours
  /\ child[p] = "running"
  /\ \E r \in Results : outcome' = [outcome EXCEPT ![p] = r]
  /\ pipe' = [pipe EXCEPT ![p] = "head"]
  /\ child' = [child EXCEPT ![p] = "writing"]
  /\ UNCHANGED <<pstate, processes, clearing>>

\* The rest completes the line only if nobody read its head in between.
ReturnRest(p) ==
  /\ child[p] = "writing"
  /\ pipe' = [pipe EXCEPT ![p] = IF @ = "head" THEN "result" ELSE "tail"]
  /\ child' = [child EXCEPT ![p] = "leaving"]
  /\ UNCHANGED <<outcome, pstate, processes, clearing>>

\* _clean and os._exit, after the result can already be read.
Exit(p) ==
  /\ child[p] = "leaving"
  /\ child' = [child EXCEPT ![p] = "exited"]
  /\ UNCHANGED <<outcome, pipe, pstate, processes, clearing>>

\* print() blocks on a full stdout pipe until the parent drains it.
Flood(p) ==
  /\ "flood" \in Behaviours
  /\ child[p] = "running"
  /\ child' = [child EXCEPT ![p] = "blocked"]
  /\ UNCHANGED <<outcome, pipe, pstate, processes, clearing>>

\* The child ends without writing the rest, or anything at all.
Die(p) ==
  /\ "die" \in Behaviours
  /\ child[p] \in {"running", "blocked", "writing"}
  /\ child' = [child EXCEPT ![p] = "exited"]
  /\ UNCHANGED <<outcome, pipe, pstate, processes, clearing>>

ChildStep(p) ==
  Return(p) \/ ReturnLong(p) \/ ReturnRest(p) \/ Exit(p) \/ Flood(p) \/ Die(p)

-----------------------------------------------------------------------------
(***************************************************************************)
(* The parent.                                                             *)
(***************************************************************************)

\* getProcess registers the Process, start() forks.
Fork(p) ==
  /\ child[p] = "none"
  /\ child' = [child EXCEPT ![p] = "running"]
  /\ processes' = processes \cup {p}

\* start() raises, in os.pipe or os.fork: the Process that getProcess has
\* registered stays in the dictionary, without a pid.
ForkFails(p) ==
  /\ child[p] = "none"
  /\ child' = [child EXCEPT ![p] = "failed"]
  /\ processes' = processes \cup {p}

\* Mutant: sync() does not read the stdout pipe.
UnblockedNever(p) == child[p]

\* What reading the pipes of p leaves: _readAvailable and _syncStd.
Unblocked(p) == IF child[p] = "blocked" THEN "running" ELSE child[p]

\* Mutant: no early return for a process that is done.
SyncedAgain(p) == IF pipe[p] = "result" THEN outcome[p] ELSE "running"

\* What sync() makes of Process.state when the read text parses.
Synced(p) ==
  IF IsDone(p) THEN pstate[p]
  ELSE IF pipe[p] = "result" THEN outcome[p] ELSE "running"

\* sync() returns.
Sync(p) ==
  /\ IsDone(p) \/ Readable(p)
  /\ pstate' = [pstate EXCEPT ![p] = Synced(p)]
  /\ pipe' = [pipe EXCEPT ![p] = IF IsDone(p) THEN @ ELSE "empty"]
  /\ child' = [child EXCEPT ![p] = IF IsDone(p) THEN @ ELSE Unblocked(p)]
  /\ UNCHANGED outcome

\* sync() raises: of a part of a line the text is consumed.
SyncRaises(p) ==
  /\ ~ IsDone(p) /\ ~ Readable(p)
  /\ pipe' = [pipe EXCEPT ![p] = IF @ = "closed" THEN @ ELSE "empty"]
  /\ UNCHANGED <<child, outcome, pstate>>

\* wait() has the exit status of p and reads its pipe.  What sync() raises it
\* swallows; without a result the pid is kept, of a process that is gone.
Reap(p) ==
  /\ child[p] = "exited"
  /\ \/ Synced(p) # "running" /\ Sync(p)
     \/ /\ Synced(p) = "running"
        /\ child' = [child EXCEPT ![p] = "reaped"]
        /\ pstate' = [pstate EXCEPT ![p] = IF Readable(p) THEN "running" ELSE @]
        /\ pipe' = [pipe EXCEPT ![p] = "empty"]
        /\ UNCHANGED outcome

\* Mutant: close() marks the process without killing it.
KillMarks(p) ==
  /\ pstate' = [pstate EXCEPT ![p] = "killed"]
  /\ UNCHANGED <<child, outcome, pipe>>

\* close() on a process that sync() has just left "running": the child is
\* killed, and a result it still writes before the signal arrives is lost.
Kill(p) ==
  /\ child[p] # "reaped"
  /\ child' = [child EXCEPT ![p] = "exited"]
  /\ pstate' = [pstate EXCEPT ![p] = "killed"]
  /\ outcome' \in {outcome} \cup
       {[outcome EXCEPT ![p] = r] : r \in IF Unblocked(p) = "running" THEN Results ELSE {}}
  /\ UNCHANGED pipe

\* close() on a process that was reaped without a result: the pipe is closed
\* and then the kill raises, so that the state stays "running".
KillFails(p) ==
  /\ child[p] = "reaped"
  /\ ~ IsDone(p) /\ Readable(p)
  /\ pstate' = [pstate EXCEPT ![p] = "running"]
  /\ pipe' = [pipe EXCEPT ![p] = "closed"]
  /\ UNCHANGED <<child, outcome>>

\* Mutant: clear() goes on with a key it has popped.
PopKeepsKey(p) ==
  /\ processes' = processes \ {p}
  /\ UNCHANGED clearing

Pop(p) ==
  /\ processes' = processes \ {p}
  /\ clearing' = clearing \ {p}

\* clear() finds the result of p, and close() waits for the exit of its child.
ClearPop(p) ==
  /\ p \in clearing
  /\ Synced(p) \in Results
  /\ child[p] = "exited"
  /\ Sync(p)
  /\ Pop(p)

\* clear() finds p without a result, and p within its timeout.
ClearKeep(p) ==
  /\ p \in clearing
  /\ Synced(p) \notin Results
  /\ Sync(p)
  /\ clearing' = clearing \ {p}
  /\ UNCHANGED processes

\* Mutant: a process past its timeout is popped without close().
ClearForgets(p) ==
  /\ p \in clearing
  /\ IsDone(p) \/ Readable(p)
  /\ Synced(p) \notin Results
  /\ Pop(p)
  /\ UNCHANGED <<child, outcome, pipe, pstate>>

\* clear() finds p without a result after its timeout: close() and forget.
ClearTimeout(p) ==
  /\ p \in clearing
  /\ IsDone(p) \/ Readable(p)
  /\ Synced(p) \notin Results
  /\ IF IsDone(p) THEN UNCHANGED <<child, outcome, pipe, pstate>> ELSE Kill(p)
  /\ Pop(p)

ClearStep(p) == ClearPop(p) \/ ClearKeep(p) \/ ClearTimeout(p)

\* sync(), or close() past the timeout, raises inside clear(), which leaves the
\* other keys unvisited and p in the dictionary.
ClearRaises(p) ==
  /\ p \in clearing
  /\ SyncRaises(p) \/ KillFails(p)
  /\ clearing' = {}
  /\ UNCHANGED processes

\* clear() has processes left: it syncs the first one and then raises the
\* AttributeError of its own log line (it reads self.pid of the factory).
RemainingRaises ==
  /\ clearing = {}
  /\ \E p \in processes : Sync(p) \/ SyncRaises(p)
  /\ UNCHANGED <<processes, clearing>>

-----------------------------------------------------------------------------
(***************************************************************************)
(* What every caller may rely on.                                          *)
(***************************************************************************)

\* A state the parent reports is one the child reached: a result is the one
\* its method ended with, of a process that is done the method is over, and one
\* that was killed has gone.
ReportedStateIsTrue ==
  \A p \in Procs :
    /\ pstate[p] \in Results => outcome[p] = pstate[p] /\ child[p] \in {"leaving", "exited"}
    /\ pstate[p] = "killed" => child[p] = "exited"

\* The manager never forgets a child that is still running: whatever left
\* `processes` has ended, so no job process outlives the book-keeping.
NoForgottenChild ==
  \A p \in Procs :
    child[p] \in {"running", "blocked", "writing", "leaving"} => p \in processes

-----------------------------------------------------------------------------
(***************************************************************************)
(* Why the two hold: what has to be true of a pipe, of an unstarted and of *)
(* an undecided process for every primitive to preserve them.              *)
(***************************************************************************)

WholeResult ==
  \A p \in Procs :
    /\ child[p] = "writing" => outcome[p] \in Results
    /\ pipe[p] = "result" => outcome[p] \in Results /\ child[p] \in {"leaving", "exited"}

Unmanaged ==
  \A p \in Procs :
    /\ child[p] \in {"none", "inline"} => p \notin processes
    /\ child[p] \in {"none", "inline", "failed"} => pstate[p] = "init"

Undecided ==
  \A p \in Procs :
    child[p] \in {"none", "inline", "failed", "running", "blocked"} => outcome[p] = "none"

PMInv ==
  /\ PMTypeOK
  /\ ReportedStateIsTrue
  /\ NoForgottenChild
  /\ WholeResult
  /\ Unmanaged
  /\ Undecided
=============================================================================
