---------------------------- MODULE ServiceActions ----------------------------
(***************************************************************************)
(* The states of the actions of one AYS service, which is one record in    *)
(* the key-value store.  Whoever changes the state of an action loads the  *)
(* whole record, changes it in memory and writes the whole of it back:     *)
(* Service.scheduleAction, processChange and executeActionJob (Service.py),*)
(* init_actions_ while a run is planned (ActionsBase.py), set_state, the   *)
(* jobs of a run (Job.py, Run.py), and run_action (AtYourServiceDaemon.py).*)
(* There is no lock, so that a copy may be out of date when it is saved.   *)
(*                                                                         *)
(* A task is one call of one of them.  The tasks of one operating system   *)
(* process follow each other, but for the methods of the jobs of a step,   *)
(* which run in children, each with the copy of the service it was forked  *)
(* with.  The job tasks of a process are one step of a run; when an        *)
(* exception ends it, do_run executes the run once more.                   *)
(***************************************************************************)
EXTENDS Naturals

CONSTANTS
  Actions,   \* the actions of the service
  Tasks,
  Kind,      \* what each task is
  ActionOf,  \* the action it is about
  Initial,   \* the states the record may start with
  None,      \* the process of a task that does not take place
  Homes      \* the ways the tasks are spread over processes

ActionStates == {"new", "changed", "ok", "scheduled", "disabled", "error", "running"}
Records == [Actions -> ActionStates]

Edits  == {"schedule", "change", "plan", "set"}
Kinds  == Edits \cup {"job", "direct", "recurring"}

ASSUME ActionsAssumption ==
  /\ Kind \in [Tasks -> Kinds]
  /\ ActionOf \in [Tasks -> Actions]
  /\ Initial \subseteq Records

VARIABLES
  stored,   \* the record in the store
  meant,    \* for each action the last state a task gave it
  first,    \* the record in the beginning
  copy,     \* the copy of the record each task works on, job.service
  outer,    \* the second copy of run_action, or that of a stray child
  pc,       \* where each task is
  result,   \* how the method of a task ended
  earlier,  \* how it ended the first time, for a job that is executed again
  again,    \* the jobs that are executed for the second time
  stray,    \* those whose first execution has left a child behind
  home      \* the process of each task

tries == <<earlier, again, stray>>
vars == <<stored, meant, first, copy, outer, pc, result, earlier, again, stray, home>>

Places == {"idle", "loaded", "again", "marking", "running", "ended", "storing",
           "stored", "restoring", "closing", "done", "dead", "orphan"}
Endings == {"none", "ok", "error", "killed"}

TypeOK ==
  /\ stored \in Records /\ meant \in Records /\ first \in Records
  /\ copy \in [Tasks -> Records] /\ outer \in [Tasks -> Records]
  /\ pc \in [Tasks -> Places]
  /\ result \in [Tasks -> Endings] /\ earlier \in [Tasks -> Endings]
  /\ again \subseteq Tasks /\ stray \subseteq Tasks
  /\ home \in Homes

Init ==
  /\ stored \in Initial /\ meant = stored /\ first = stored
  /\ copy = [t \in Tasks |-> stored] /\ outer = copy
  /\ pc = [t \in Tasks |-> "idle"]
  /\ result = [t \in Tasks |-> "none"] /\ earlier = result
  /\ again = {} /\ stray = {}
  /\ home \in Homes

Others(t) == {u \in Tasks \ {t} : home[u] = home[t]}

\* The process of t has nothing else to do, or it is in the loop that starts
\* the jobs of a step.
Free(t) ==
  /\ home[t] # None
  /\ \A u \in Others(t) :
       IF Kind[t] = "job" /\ Kind[u] = "job"
         THEN pc[u] \in {"idle", "again", "running", "ended"}
         ELSE pc[u] \in {"idle", "done"}

Goto(t, place) == pc' = [pc EXCEPT ![t] = place]

\* Service.reload, or the first read of the service.
Load(t) == copy' = [copy EXCEPT ![t] = stored]

\* Service.saveAll with the action of t set to state s.
SaveState(t, s) ==
  /\ stored' = [copy[t] EXCEPT ![ActionOf[t]] = s]
  /\ copy' = [copy EXCEPT ![t] = stored']
  /\ meant' = [meant EXCEPT ![ActionOf[t]] = s]

-----------------------------------------------------------------------------
(***************************************************************************)
(* Calls that change a state and save it.                                  *)
(***************************************************************************)

StartEdit(t) ==
  /\ pc[t] = "idle" /\ Kind[t] \in Edits /\ Free(t)
  /\ Load(t)
  /\ Goto(t, "loaded")
  /\ UNCHANGED <<stored, meant, first, outer, result, tries, home>>

\* scheduleAction saves, also when the state is "ok" and stays so.
Schedule(t) ==
  LET now == copy[t][ActionOf[t]] IN
  /\ pc[t] = "loaded" /\ Kind[t] = "schedule"
  /\ now # "disabled"
  /\ \E force \in BOOLEAN :
       SaveState(t, IF now = "ok" /\ ~ force THEN now ELSE "scheduled")
  /\ Goto(t, "done")
  /\ UNCHANGED <<first, outer, result, tries, home>>

\* processChange for action_mod_...
Change(t) ==
  /\ pc[t] = "loaded" /\ Kind[t] = "change"
  /\ SaveState(t, "changed")
  /\ Goto(t, "done")
  /\ UNCHANGED <<first, outer, result, tries, home>>

\* The command line's set_state.
SetState(t) ==
  /\ pc[t] = "loaded" /\ Kind[t] = "set"
  /\ \E s \in {"ok", "new", "scheduled"} : SaveState(t, s)
  /\ Goto(t, "done")
  /\ UNCHANGED <<first, outer, result, tries, home>>

\* _build_actions_chain calls init_actions_, which is given the key "action",
\* looks at "action_required", and so only saves what it was called with.
Plan(t) ==
  /\ pc[t] = "loaded" /\ Kind[t] = "plan"
  /\ \E a \in Actions : copy[t][a] \in {"scheduled", "changed", "error"}
  /\ stored' = copy[t]
  /\ Goto(t, "done")
  /\ UNCHANGED <<meant, first, copy, outer, result, tries, home>>

\* scheduleAction raises, or there is nothing to plan.
EditEnds(t) ==
  /\ pc[t] = "loaded"
  /\ \/ Kind[t] = "schedule" /\ copy[t][ActionOf[t]] = "disabled"
     \/ Kind[t] = "plan" /\ \A a \in Actions : copy[t][a] \notin {"scheduled", "changed", "error"}
  /\ Goto(t, "done")
  /\ UNCHANGED <<stored, meant, first, copy, outer, result, tries, home>>

-----------------------------------------------------------------------------
(***************************************************************************)
(* Jobs.                                                                   *)
(***************************************************************************)

\* Job.execute: the service is reloaded to be marked "running".
Execute(t) ==
  /\ pc[t] \in {"idle", "again"} /\ Kind[t] \in {"job", "direct"} /\ Free(t)
  /\ Load(t)
  /\ Goto(t, "marking")
  /\ UNCHANGED <<stored, meant, first, outer, result, tries, home>>

\* The mark is saved, and the method starts.
Mark(t) ==
  /\ pc[t] = "marking"
  /\ SaveState(t, "running")
  /\ Goto(t, "running")
  /\ UNCHANGED <<first, outer, result, tries, home>>

\* run_action reads the service, its job reads it again, and the method
\* starts without a mark.
RunAction(t) ==
  /\ pc[t] = "idle" /\ Kind[t] = "recurring" /\ Free(t)
  /\ Load(t)
  /\ outer' = [outer EXCEPT ![t] = stored]
  /\ Goto(t, "running")
  /\ UNCHANGED <<stored, meant, first, result, tries, home>>

\* The method saves the service it was given, with what it set in its data.
MethodSaves(t) ==
  /\ pc[t] \in {"running", "orphan"}
  /\ stored' = copy[t]
  /\ UNCHANGED <<meant, first, copy, outer, pc, result, tries, home>>

\* The same in a child that the first execution of a run has left behind.
StraySaves(t) ==
  /\ t \in stray
  /\ stored' = outer[t]
  /\ UNCHANGED <<meant, first, copy, outer, pc, result, tries, home>>

MethodEnds(t) ==
  /\ pc[t] = "running"
  /\ \E r \in {"ok", "error"} \cup (IF Kind[t] = "job" THEN {"killed"} ELSE {}) :
       result' = [result EXCEPT ![t] = r]
  /\ Goto(t, "ended")
  /\ UNCHANGED <<stored, meant, first, copy, outer, tries, home>>

\* RunStep.execute collects its jobs when all of them have ended.
Collects(t) ==
  /\ pc[t] = "ended"
  /\ Kind[t] = "job" =>
       \A u \in Others(t) : Kind[u] = "job" => pc[u] \in {"ended", "done"}
  /\ Kind[t] = "direct" => result[t] = "error"

\* Mutant: Job.save does not reload the service.
ReloadNothing(t) ==
  /\ \/ Collects(t) /\ Goto(t, "storing")
     \/ pc[t] = "stored" /\ Goto(t, "restoring")
  /\ UNCHANGED <<stored, meant, first, copy, outer, result, tries, home>>

\* Job.save, to store the state; of a job that failed _processError saves first.
Reload(t) ==
  /\ \/ Collects(t) /\ Goto(t, "storing")
     \/ pc[t] = "stored" /\ Goto(t, "restoring")
  /\ Load(t)
  /\ UNCHANGED <<stored, meant, first, outer, result, tries, home>>

\* Mutant: the state of the process is stored as it is.
StateOfProcess(r) == r

\* Mutant: a process that is not in error is ok.
StateOfKilled(r) == IF r = "error" THEN r ELSE "ok"

\* The job of a killed process stays as it was marked.
StateOf(r) == IF r = "killed" THEN "running" ELSE r

Store(t) ==
  /\ pc[t] \in {"storing", "restoring"}
  /\ SaveState(t, StateOf(result[t]))
  /\ Goto(t, IF pc[t] = "storing" /\ Kind[t] = "job" /\ result[t] = "error" THEN "stored"
             ELSE IF Kind[t] = "direct" \/ (Kind[t] = "recurring" /\ result[t] = "ok")
               THEN "closing" ELSE "done")
  /\ UNCHANGED <<first, outer, result, tries, home>>

\* executeActionJob sets the "ok" in its own copy of the service and saves the
\* job's, which still says "running".
DirectOk(t) ==
  /\ pc[t] = "ended" /\ Kind[t] = "direct" /\ result[t] = "ok"
  /\ meant' = [meant EXCEPT ![ActionOf[t]] = "ok"]
  /\ stored' = copy[t]
  /\ Goto(t, "done")
  /\ UNCHANGED <<first, copy, outer, result, tries, home>>

\* executeActionJob saves the job's copy, run_action the one it read first.
Close(t) ==
  /\ pc[t] = "closing"
  /\ stored' = IF Kind[t] = "recurring" THEN outer[t] ELSE copy[t]
  /\ Goto(t, "done")
  /\ UNCHANGED <<meant, first, copy, outer, result, tries, home>>

\* An exception of Job.execute, of sync or of a collection ends a step, a job
\* that failed ends the run after its step, and do_run executes the run again,
\* with jobs and services that it reads anew.  Children that are running go on,
\* and nobody waits for them.  What the second exception leaves is what Crash
\* leaves.
Retry(p) ==
  LET jobs == {t \in Tasks : home[t] = p /\ Kind[t] = "job"} IN
  /\ p # None
  /\ jobs \cap again = {} /\ \E t \in jobs : pc[t] # "idle"
  /\ \A t \in Tasks : home[t] = p =>
       IF t \in jobs THEN pc[t] \notin {"dead", "orphan"} ELSE pc[t] \in {"idle", "done"}
  /\ pc' = [t \in Tasks |-> IF t \in jobs THEN "again" ELSE pc[t]]
  /\ again' = again \cup jobs
  /\ stray' = stray \cup {t \in jobs : pc[t] = "running"}
  /\ outer' = [t \in Tasks |-> IF t \in stray' \ stray THEN copy[t] ELSE outer[t]]
  /\ earlier' = [t \in Tasks |-> IF t \in jobs THEN result[t] ELSE earlier[t]]
  /\ result' = [t \in Tasks |-> IF t \in jobs THEN "none" ELSE result[t]]
  /\ UNCHANGED <<stored, meant, first, copy, home>>

\* A process dies; the children it forked go on.
Crash(p) ==
  /\ p # None
  /\ \E t \in Tasks : home[t] = p /\ pc[t] \notin {"idle", "done", "dead", "orphan"}
  /\ pc' = [t \in Tasks |->
              IF home[t] # p \/ pc[t] \in {"idle", "done", "orphan"} THEN pc[t]
              ELSE IF Kind[t] \in {"job", "direct"} /\ pc[t] = "running" THEN "orphan"
              ELSE "dead"]
  /\ UNCHANGED <<stored, meant, first, copy, outer, result, tries, home>>

Task(t) ==
  \/ StartEdit(t) \/ Schedule(t) \/ Change(t) \/ SetState(t) \/ Plan(t) \/ EditEnds(t)
  \/ Execute(t) \/ Mark(t) \/ RunAction(t) \/ MethodSaves(t) \/ StraySaves(t) \/ MethodEnds(t)
  \/ Reload(t) \/ Store(t) \/ DirectOk(t) \/ Close(t)

Next == \E t \in Tasks : Task(t) \/ Retry(home[t]) \/ Crash(home[t])

Spec == Init /\ [][Next]_vars

-----------------------------------------------------------------------------
\* Nothing is in progress and nothing was cut short.
Quiet == \A t \in Tasks : pc[t] \in {"idle", "done"}

\* One process works on the service; it schedules, plans, changes, and
\* executes one step of a run in parallel children.
Alone ==
  \E p \in {home[t] : t \in Tasks} :
    \A t \in Tasks : home[t] # None => home[t] = p /\ Kind[t] \in Edits \cup {"job"}

\* In one process nothing is lost: when a step is over, at the first or at the
\* second attempt, every action has the state that was last set, although the
\* children of the step have been saving copies of the service that were out of
\* date.  Only children that an aborted attempt left running are excepted: what
\* they save during the second attempt nobody repairs.
NothingLost == Alone /\ stray = {} /\ Quiet => stored = meant

\* However the saves of all processes overlap, and whoever dies: an "ok" or
\* an "error" in the store was there in the beginning, or a method of this
\* action ended so, or it was set by hand.
StatesHaveCause ==
  \A a \in Actions :
    stored[a] \in {"ok", "error"} =>
      \/ stored[a] = first[a]
      \/ \E t \in Tasks : ActionOf[t] = a /\ stored[a] \in {result[t], earlier[t]}
      \/ stored[a] = "ok" /\ \E t \in Tasks : ActionOf[t] = a /\ Kind[t] = "set" /\ pc[t] = "done"

\* RecurringLoop: "a pool of processes that take care of waiting for the job
\* to complete and saving it's state back the db".  With nobody else about,
\* the state of the action is that of its job when run_action is done.
RunActionIsStored ==
  Quiet /\ (\A t \in Tasks : home[t] # None => Kind[t] = "recurring") => stored = meant
=============================================================================
