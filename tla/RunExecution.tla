---------------------------- MODULE RunExecution ----------------------------
(***************************************************************************)
(* The execution of one AYS run by one worker of the server's pool:        *)
(* do_run (atyourservice81/AtYourServiceDaemon.py), Run.execute and        *)
(* RunStep.execute (jobcontroller/Run.py) and Job.execute                  *)
(* (jobcontroller/Job.py), on top of the process manager.                  *)
(*                                                                         *)
(* A run is a list of steps and a step is a list of jobs.  do_run executes *)
(* the run, executes it once more from its first step if an exception      *)
(* came out of it, and then posts the result to the callback.              *)
(*                                                                         *)
(* The process of job j in attempt a is <<a, j>>, so that the processes of *)
(* an aborted attempt, which nobody stops, stay in the picture.            *)
(***************************************************************************)
EXTENDS ProcessManager

CONSTANTS
  Jobs,      \* the jobs of the run
  NSteps,    \* the number of steps runCreate made
  StepOf,    \* the step a job belongs to
  Debug,     \* the jobs with the debug flag, or a debugger in their source
  Nobody     \* no job

Attempts == {1, 2}

ASSUME RunAssumption ==
  /\ NSteps \in Nat
  /\ StepOf \in [Jobs -> 1..NSteps]
  /\ Debug \subseteq Jobs
  /\ Nobody \notin Jobs
  /\ Procs = Attempts \X Jobs

VARIABLES
  pc,         \* where the worker is
  attempt,    \* 0 before do_run, then 1 or 2
  cur,        \* the number of the step being executed
  job,        \* the job startProcess or executeInProcess is busy with
  todo,       \* the jobs the current loop of RunStep.execute has to visit
  procs,      \* the keys of the local dict `processes`
  noExec,     \* the repository's no_exec flag
  runState,   \* Run.state
  stepState,  \* RunStep.state
  jobState,   \* the state in the stored job, "expired" when it is gone
  callback    \* the body posted to the callback

runVars == <<pc, attempt, cur, job, todo, procs, noExec,
             runState, stepState, jobState, callback>>
vars == <<child, outcome, pipe, pstate, processes, clearing,
          pc, attempt, cur, job, todo, procs, noExec,
          runState, stepState, jobState, callback>>

States == {"new", "running", "ok", "error"}
NotSent == [state |-> "new", failed |-> FALSE]

TypeOK ==
  /\ PMTypeOK
  /\ pc \in {"queued", "start", "clear", "inline", "poll", "collect",
             "raised", "finally", "done"}
  /\ attempt \in 0..2
  /\ cur \in 0..NSteps
  /\ job \in Jobs \cup {Nobody}
  /\ todo \subseteq Jobs
  /\ procs \subseteq Jobs
  /\ noExec \in BOOLEAN
  /\ runState \in States
  /\ stepState \in [1..NSteps -> States]
  /\ jobState \in [Jobs -> States \cup {"expired"}]
  /\ callback \in [state : States, failed : BOOLEAN]

JobsOf(s) == {j \in Jobs : StepOf[j] = s}
Proc(j) == <<attempt, j>>

Init ==
  /\ PMInit
  /\ pc = "queued"
  /\ attempt = 0
  /\ cur = 0
  /\ job = Nobody
  /\ todo = {}
  /\ procs = {}
  /\ noExec \in BOOLEAN
  /\ runState = "new"
  /\ stepState = [s \in 1..NSteps |-> "new"]
  /\ jobState = [j \in Jobs |-> "new"]
  /\ callback = NotSent

-----------------------------------------------------------------------------
(***************************************************************************)
(* Run.execute.                                                            *)
(***************************************************************************)

\* The jobs RunStep.jobs finds: those whose stored record still exists.
StoredJobs(s) == {j \in JobsOf(s) : jobState[j] # "expired"}

\* Mutant: one step too many.
EnterStepTooFar(s) ==
  /\ procs' = {}
  /\ IF s <= NSteps + 1
       THEN /\ cur' = s
            /\ todo' = StoredJobs(s)
            /\ pc' = "start"
            /\ runState' = "running"
       ELSE /\ pc' = "finally"
            /\ runState' = "ok"
            /\ todo' = {}
            /\ UNCHANGED cur

\* The for loop over the steps takes step s, or is at its end.
EnterStep(s) ==
  /\ procs' = {}
  /\ IF s <= NSteps
       THEN /\ cur' = s
            /\ todo' = StoredJobs(s)
            /\ pc' = "start"
            /\ runState' = "running"
       ELSE /\ pc' = "finally"
            /\ runState' = "ok"
            /\ todo' = {}
            /\ UNCHANGED cur

\* do_run fetches the run and executes it.
BeginRun ==
  /\ pc = "queued"
  /\ attempt' = 1
  /\ EnterStep(1)
  /\ UNCHANGED <<job, noExec, stepState, jobState, callback, pmVars>>

\* An exception leaves RunStep.execute and Run.execute; the run is saved in
\* the state it has.  The local dict of processes is lost.
Raise ==
  /\ pc' = "raised"
  /\ todo' = {}
  /\ procs' = {}

-----------------------------------------------------------------------------
(***************************************************************************)
(* RunStep.execute, first loop: start every job of the step.               *)
(***************************************************************************)

StartsJob(j) ==
  /\ pc = "start"
  /\ j \in todo
  /\ UNCHANGED <<attempt, cur, noExec, runState, stepState, callback>>

\* Mutant: the jobs are faked whatever the repository says.
FakeExecAlways(j) ==
  /\ StartsJob(j)
  /\ jobState' = [jobState EXCEPT ![j] = "ok"]
  /\ todo' = todo \ {j}
  /\ UNCHANGED <<pc, job, procs, pmVars>>

\* RunStep._fake_exec
FakeExec(j) ==
  /\ StartsJob(j)
  /\ noExec
  /\ jobState' = [jobState EXCEPT ![j] = "ok"]
  /\ todo' = todo \ {j}
  /\ UNCHANGED <<pc, job, procs, pmVars>>

\* Job.execute first stores the state "running".
ExecutesJob(j) ==
  /\ StartsJob(j)
  /\ ~ noExec
  /\ jobState' = [jobState EXCEPT ![j] = "running"]

\* Loading the source of the action fails.
LoadFails(j) ==
  /\ ExecutesJob(j)
  /\ Raise
  /\ UNCHANGED <<job, pmVars>>

\* A debug job runs in the worker itself.
StartInline(j) ==
  /\ ExecutesJob(j)
  /\ j \in Debug
  /\ child' = [child EXCEPT ![Proc(j)] = "inline"]
  /\ pc' = "inline" /\ job' = j
  /\ UNCHANGED <<todo, procs, outcome, pipe, pstate, processes, clearing>>

StartProcess(j) ==
  /\ ExecutesJob(j)
  /\ j \notin Debug
  /\ Cardinality(processes) <= MaxProcesses
  /\ Fork(Proc(j))
  /\ todo' = todo \ {j}
  /\ procs' = procs \cup {j}
  /\ UNCHANGED <<pc, job, outcome, pipe, pstate, clearing>>

\* start() raises: after getProcess found room, or made it.
StartFails(j) ==
  /\ \/ /\ pc = "start" /\ j \in todo
        /\ ~ noExec /\ j \notin Debug
        /\ Cardinality(processes) <= MaxProcesses
        /\ jobState' = [jobState EXCEPT ![j] = "running"]
     \/ /\ pc = "clear" /\ j = job
        /\ clearing = {} /\ processes = {}
        /\ UNCHANGED jobState
  /\ ForkFails(Proc(j))
  /\ Raise
  /\ job' = Nobody
  /\ UNCHANGED <<attempt, cur, noExec, runState, stepState, callback,
                 outcome, pipe, pstate, clearing>>

StartClears(j) ==
  /\ ExecutesJob(j)
  /\ j \notin Debug
  /\ Cardinality(processes) > MaxProcesses
  /\ clearing' = processes
  /\ pc' = "clear" /\ job' = j
  /\ UNCHANGED <<todo, procs, child, outcome, pipe, pstate, processes>>

\* getProcess is busy with clear().
Clear(p) ==
  /\ pc = "clear"
  /\ ClearStep(p)
  /\ UNCHANGED runVars

ClearFails ==
  /\ pc = "clear"
  /\ RemainingRaises \/ \E p \in Procs : ClearRaises(p)
  /\ Raise
  /\ job' = Nobody
  /\ UNCHANGED <<attempt, cur, noExec, runState, stepState, jobState, callback>>

StartCleared ==
  /\ pc = "clear"
  /\ clearing = {} /\ processes = {}
  /\ Fork(Proc(job))
  /\ todo' = todo \ {job}
  /\ procs' = procs \cup {job}
  /\ pc' = "start" /\ job' = Nobody
  /\ UNCHANGED <<attempt, cur, noExec, runState, stepState, jobState, callback,
                 outcome, pipe, pstate, clearing>>

\* Job.executeInProcess comes to its end; RunStep.execute leaves the state
\* of the step alone.
InlineEnds(r) ==
  /\ pc = "inline"
  /\ child' = [child EXCEPT ![Proc(job)] = "exited"]
  /\ outcome' = [outcome EXCEPT ![Proc(job)] = r]
  /\ job' = Nobody
  /\ UNCHANGED <<attempt, cur, noExec, runState, stepState, callback,
                 pipe, pstate, processes, clearing>>

InlineOk ==
  /\ InlineEnds("success")
  /\ jobState' = [jobState EXCEPT ![job] = "ok"]
  /\ todo' = todo \ {job}
  /\ pc' = "start"
  /\ UNCHANGED procs

InlineError ==
  /\ InlineEnds("exception")
  /\ jobState' = [jobState EXCEPT ![job] = "error"]
  /\ Raise

\* A SystemExit of the method passes every `except Exception` up to do_run,
\* whose finally block posts the run as it is.
InlineQuits ==
  /\ "die" \in Behaviours
  /\ InlineEnds("none")
  /\ pc' = "finally"
  /\ todo' = {} /\ procs' = {}
  /\ UNCHANGED jobState

AllStarted ==
  /\ pc = "start"
  /\ todo = {}
  /\ pc' = "poll"
  /\ UNCHANGED <<attempt, cur, job, todo, procs, noExec, runState, stepState,
                 jobState, callback, pmVars>>

-----------------------------------------------------------------------------
(***************************************************************************)
(* Second loop: poll the processes until a whole pass finds all done.      *)
(***************************************************************************)

Poll(j) ==
  /\ pc = "poll"
  /\ j \in procs
  /\ ~ IsDone(Proc(j))
  /\ Sync(Proc(j))
  /\ UNCHANGED <<processes, clearing, runVars>>

\* Mutant: an exception of sync() is swallowed and the job dropped.
PollDrops(j) ==
  /\ pc = "poll"
  /\ j \in procs
  /\ SyncRaises(Proc(j))
  /\ procs' = procs \ {j}
  /\ UNCHANGED <<processes, clearing, pc, attempt, cur, job, todo, noExec,
                 runState, stepState, jobState, callback>>

PollFails(j) ==
  /\ pc = "poll"
  /\ j \in procs
  /\ SyncRaises(Proc(j))
  /\ Raise
  /\ UNCHANGED <<processes, clearing, attempt, cur, job, noExec, runState,
                 stepState, jobState, callback>>

\* Mutant: the loop ends when one process is done.
OneDone ==
  /\ pc = "poll"
  /\ procs # {} => \E j \in procs : IsDone(Proc(j))
  /\ pc' = "collect"
  /\ todo' = {j \in procs : IsDone(Proc(j))}
  /\ UNCHANGED <<attempt, cur, job, procs, noExec, runState, stepState,
                 jobState, callback, pmVars>>

AllDone ==
  /\ pc = "poll"
  /\ \A j \in procs : IsDone(Proc(j))
  /\ pc' = "collect"
  /\ todo' = procs
  /\ UNCHANGED <<attempt, cur, job, procs, noExec, runState, stepState,
                 jobState, callback, pmVars>>

(***************************************************************************)
(* Third loop, in the order of the dict: store the state of each job.      *)
(***************************************************************************)

\* Mutant: a killed process counts as an error.
StateOfKilled(s, old) == IF s = "success" THEN "ok" ELSE "error"

\* A killed job keeps its state "running", and the step the one it has.
StateOf(s, old) == [success |-> "ok", exception |-> "error", killed |-> old][s]

Collect(j) ==
  /\ pc = "collect"
  /\ j \in todo
  /\ todo' = todo \ {j}
  /\ stepState' = [stepState EXCEPT ![cur] = StateOf(pstate[Proc(j)], @)]
  /\ jobState' = [jobState EXCEPT ![j] = StateOf(pstate[Proc(j)], "running")]
  /\ UNCHANGED <<pc, attempt, cur, job, procs, noExec, runState, callback, pmVars>>

\* An exception in the middle of a collection (looking up the service or the
\* action, _processError on an error without a text, a save): the state of the
\* step, or of the step and the job, is set or not.
CollectFails(j) ==
  /\ pc = "collect"
  /\ j \in todo
  /\ \/ UNCHANGED <<stepState, jobState>>
     \/ /\ stepState' = [stepState EXCEPT ![cur] = StateOf(pstate[Proc(j)], @)]
        /\ \/ UNCHANGED jobState
           \/ jobState' = [jobState EXCEPT ![j] = StateOf(pstate[Proc(j)], "running")]
  /\ Raise
  /\ UNCHANGED <<attempt, cur, job, noExec, runState, callback, pmVars>>

\* run.save() raises at the end of RunStep.execute.
SaveFails ==
  /\ pc = "collect" /\ todo = {}
  /\ Raise
  /\ UNCHANGED <<attempt, cur, job, noExec, runState, stepState, jobState, callback, pmVars>>

\* Mutant: the state of the step is not looked at.
StepOkUnchecked ==
  /\ pc = "collect" /\ todo = {}
  /\ EnterStep(cur + 1)
  /\ UNCHANGED <<attempt, job, noExec, stepState, jobState, callback, pmVars>>

\* The step is saved; Run.execute looks at its state.
StepOk ==
  /\ pc = "collect" /\ todo = {}
  /\ stepState[cur] # "error"
  /\ EnterStep(cur + 1)
  /\ UNCHANGED <<attempt, job, noExec, stepState, jobState, callback, pmVars>>

StepError ==
  /\ pc = "collect" /\ todo = {}
  /\ stepState[cur] = "error"
  /\ runState' = "error"
  /\ Raise
  /\ UNCHANGED <<attempt, cur, job, noExec, stepState, jobState, callback, pmVars>>

-----------------------------------------------------------------------------
(***************************************************************************)
(* do_run: one more execution after an exception, then the callback.       *)
(***************************************************************************)

Retry ==
  /\ pc = "raised"
  /\ attempt = 1
  /\ attempt' = 2
  /\ EnterStep(1)
  /\ UNCHANGED <<job, noExec, stepState, jobState, callback, pmVars>>

\* Mutant: no second execution.
GiveUpAtOnce ==
  /\ pc = "raised"
  /\ pc' = "finally"
  /\ UNCHANGED <<attempt, cur, job, todo, procs, noExec, runState, stepState,
                 jobState, callback, pmVars>>

GiveUp ==
  /\ pc = "raised"
  /\ attempt = 2
  /\ pc' = "finally"
  /\ UNCHANGED <<attempt, cur, job, todo, procs, noExec, runState, stepState,
                 jobState, callback, pmVars>>

\* error_msg is set by the first exception and never reset.
PostCallback ==
  /\ pc = "finally"
  /\ callback' = [state |-> runState, failed |-> attempt = 2]
  /\ pc' = "done"
  /\ UNCHANGED <<attempt, cur, job, todo, procs, noExec, runState, stepState,
                 jobState, pmVars>>

\* A stored job lives two days (JobModel.save).
Expire(j) ==
  /\ jobState[j] # "expired"
  /\ jobState' = [jobState EXCEPT ![j] = "expired"]
  /\ UNCHANGED <<pc, attempt, cur, job, todo, procs, noExec, runState,
                 stepState, callback, pmVars>>

\* A method saves the record of its own job (job.save, job.error): as it was
\* when the process was forked, which for a process of an aborted attempt is
\* not what has been stored since.
MethodSaves(j) ==
  /\ \E a \in Attempts : child[<<a, j>>] \in {"running", "inline"}
  /\ jobState' = [jobState EXCEPT ![j] = "running"]
  /\ UNCHANGED <<pc, attempt, cur, job, todo, procs, noExec, runState,
                 stepState, callback, pmVars>>

JobStep(j) ==
  \/ FakeExec(j) \/ LoadFails(j) \/ StartInline(j) \/ StartProcess(j)
  \/ StartFails(j) \/ StartClears(j) \/ Poll(j) \/ PollFails(j)
  \/ Collect(j) \/ CollectFails(j)

WorkerStep ==
  \/ BeginRun \/ AllStarted \/ AllDone \/ StepOk \/ StepError
  \/ ClearFails \/ StartCleared \/ InlineOk \/ InlineError \/ InlineQuits \/ SaveFails
  \/ Retry \/ GiveUp \/ PostCallback

Worker == WorkerStep \/ (\E j \in Jobs : JobStep(j)) \/ (\E p \in Procs : Clear(p))

Next ==
  \/ Worker
  \/ \E p \in Procs : ChildStep(p) /\ UNCHANGED runVars
  \/ \E j \in Jobs : MethodSaves(j) \/ Expire(j)

Spec == Init /\ [][Next]_vars

\* The worker and the children are scheduled, and every method returns once
\* its output is drained often enough.
Fairness ==
  /\ WF_vars(Worker)
  /\ \A p \in Procs :
       SF_vars((Return(p) \/ ReturnRest(p) \/ Exit(p)) /\ UNCHANGED runVars)

FairSpec == Spec /\ Fairness

-----------------------------------------------------------------------------
\* No job of a step runs while a job of a later step of the same attempt has
\* been started.
StepBarrier ==
  \A a \in Attempts, j, k \in Jobs :
    StepOf[j] < StepOf[k] /\ child[<<a, k>>] # "none" => ~ Alive(<<a, j>>)

\* The first attempt was aborted after it had started job j, whose process may
\* have saved its own record since.
Orphaned(j) == attempt = 2 /\ child[<<1, j>>] # "none"

\* What an ok run has to say of a job: it is ok or its record is gone; it
\* failed, and another job of its step succeeded; its process was killed; or one
\* of an aborted attempt saved "running".
Explained(j) ==
  \/ jobState[j] \in {"ok", "expired"}
  \/ /\ jobState[j] = "error"
     /\ \E k \in JobsOf(StepOf[j]) : outcome[Proc(k)] = "success"
  \/ jobState[j] = "running" /\ (pstate[Proc(j)] = "killed" \/ Orphaned(j))

\* A run that ends "ok" explains each of its jobs (RunStep.execute lets the job
\* collected last decide, and says nothing of killed ones).
OkRunIsExplained == runState = "ok" => \A j \in Jobs : Explained(j)

\* A run ends in "error" only if a method of one of its steps raised.
RunErrorHasCause ==
  runState = "error" =>
    \E a \in Attempts, j \in JobsOf(cur) : outcome[<<a, j>>] = "exception"

\* A stored state "ok" or "error" is that of a method that ended this way,
\* unless the repository is in no_exec mode.
JobStateHasCause ==
  \A j \in Jobs :
    /\ jobState[j] = "ok" => noExec \/ \E a \in Attempts : outcome[<<a, j>>] = "success"
    /\ jobState[j] = "error" => \E a \in Attempts : outcome[<<a, j>>] = "exception"

\* A debug job of the first attempt ended without returning or raising.
Quit ==
  \E j \in Debug : LET p == <<1, j>> IN
    child[p] # "none" /\ ~ Alive(p) /\ outcome[p] = "none"

\* The callback comes last and tells the final state; without an error text
\* it reports a run that was executed once and is "ok", or was left where a
\* debug job quit.
CallbackIsFinal ==
  pc = "done" =>
    /\ callback.state = runState
    /\ ~ callback.failed => attempt = 1 /\ (runState = "ok" \/ Quit)
    /\ \A a \in Attempts, j \in Jobs : child[<<a, j>>] # "inline"

\* Every run is reported (under the assumption of Fairness).
CallbackEventually == <>(pc = "done")

\* The jobs of the current attempt, as StagedRun sees them.
Status ==
  [j \in Jobs |->
     IF attempt = 0 \/ child[Proc(j)] \in {"none", "failed"} THEN "waiting"
     ELSE IF Alive(Proc(j)) THEN "active" ELSE "ended"]

Staged == INSTANCE StagedRun WITH
  StageOf <- StepOf, MaxTries <- 2,
  try <- attempt, status <- Status, reported <- pc = "done"

\* Every execution of a run is a staged run: barriers between the steps, at
\* most two tries, no job twice in a try, nothing started after the report.
ImplementsStagedRun == Staged!Spec

\* Run.execute: "if a step finishes with an error state ... raise any
\* exeception to stop execution".  A job that failed stops the run before
\* its next step.
StopsOnError ==
  \A a \in Attempts, j, k \in Jobs :
    StepOf[j] < StepOf[k] /\ pstate[<<a, j>>] = "exception" =>
      child[<<a, k>>] = "none"

-----------------------------------------------------------------------------
(***************************************************************************)
(* Why they hold: where the jobs of the current attempt can be, for each   *)
(* place the worker can be in.                                             *)
(***************************************************************************)

\* The current attempt has started nothing beyond step `cur`, and nothing of
\* it is active before that step.
AttemptInv ==
  /\ attempt = 0 <=> pc = "queued"
  /\ \A a \in Attempts, j \in Jobs : a > attempt => child[<<a, j>>] = "none"
  /\ attempt > 0 =>
       \A j \in Jobs : /\ StepOf[j] > cur => child[Proc(j)] = "none"
                       /\ StepOf[j] < cur => ~ Alive(Proc(j))

\* In step `cur` the loops know every active job: it is a key of the local
\* dict or the one being executed in the worker.
LoopInv ==
  /\ todo \subseteq JobsOf(cur) /\ procs \subseteq JobsOf(cur)
  /\ \/ pc \in {"queued", "raised", "finally", "done"} /\ todo = {} /\ procs = {}
     \/ pc \in {"start", "clear", "inline", "poll", "collect"} /\ cur \in 1..NSteps
  /\ \A j \in procs : child[Proc(j)] \notin {"none", "inline"}
  /\ pc \in {"start", "clear", "inline"} =>
       \A j \in todo : child[Proc(j)] = "none" \/ (pc = "inline" /\ j = job)
  /\ pc \in {"start", "clear", "inline", "poll"} =>
       \A j \in JobsOf(cur) \ procs : Alive(Proc(j)) => pc = "inline" /\ j = job
  /\ pc = "collect" =>
       /\ todo \subseteq procs
       /\ \A j \in procs : IsDone(Proc(j))
       /\ \A j \in JobsOf(cur) : ~ Alive(Proc(j))

InlineInv ==
  /\ pc \in {"clear", "inline"} => job \in todo
  /\ pc = "inline" => job \in Debug
  /\ \A p \in Procs : child[p] = "inline" <=> pc = "inline" /\ p = Proc(job)

CauseInv ==
  /\ \A s \in 1..NSteps :
       stepState[s] = "error" =>
         \E a \in Attempts, j \in JobsOf(s) : outcome[<<a, j>>] = "exception"
  /\ pc = "finally" /\ attempt = 1 => runState = "ok" \/ Quit

RunInv ==
  /\ TypeOK /\ PMInv /\ AttemptInv /\ LoopInv /\ InlineInv /\ CauseInv
  /\ StepBarrier /\ RunErrorHasCause /\ JobStateHasCause /\ CallbackIsFinal

\* A job whose record shows no failure of the current attempt.
Recorded(j) ==
  jobState[j] \in {"ok", "expired"} \/ (jobState[j] = "running" /\ Orphaned(j))

\* The loops of the current step: started jobs are in `procs`, the others have
\* ended in the worker; of the collected ones, an error that the step does not show
\* is masked by a success.
CollectedInv ==
  /\ pc = "poll" => todo = {}
  /\ pc \in {"start", "clear", "inline", "poll", "collect"} =>
       \A j \in JobsOf(cur) \ (todo \cup procs) : Recorded(j)
  /\ pc = "collect" =>
       /\ \A j \in procs \ todo :
            \/ Recorded(j)
            \/ jobState[j] = "error" /\ pstate[Proc(j)] = "exception"
            \/ jobState[j] = "running" /\ pstate[Proc(j)] = "killed"
       /\ \/ stepState[cur] = "error"
          \/ \A j \in procs \ todo : pstate[Proc(j)] # "exception"
          \/ \E k \in procs \ todo : pstate[Proc(k)] = "success"

\* The jobs of the steps that are over are explained.
ExplainInv ==
  /\ runState = "ok" => pc \in {"finally", "done"} /\ \A j \in Jobs : ~ Alive(Proc(j))
  /\ pc \in {"start", "clear", "inline", "poll", "collect"} =>
       \A j \in Jobs : StepOf[j] < cur => Explained(j)
  /\ CollectedInv
  /\ OkRunIsExplained
=============================================================================
