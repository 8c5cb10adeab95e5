------------------------- MODULE RunExecutionProofs -------------------------
(***************************************************************************)
(* The barrier between the steps of a run, the causes of the stored states *)
(* and the callback, for every set of jobs, number of steps and limit of   *)
(* processes.  RunInv is inductive; each action is looked at in turn.      *)
(***************************************************************************)
EXTENDS RunExecution, ProcessManagerProofs

\* What every step of the run leaves standing: a decided outcome stays, who
\* was started stays started and does not come back to life, and a process
\* is started only for a job the first loop has still to visit.
Grown ==
  \A p \in Procs :
    /\ outcome[p] # "none" \/ ~ Alive(p) => outcome'[p] = outcome[p]
    /\ child[p] # "none" => child'[p] # "none" /\ (Alive(p)' => Alive(p))
    /\ child[p] = "none" /\ child'[p] # "none" =>
         pc \in {"start", "clear"} /\ \E j \in todo : p = Proc(j)

\* The processes of the jobs are processes.
LEMMA ProcInProcs ==
  /\ \A a \in Attempts, j \in Jobs : <<a, j>> \in Procs
  /\ \A p \in Procs : \E a \in Attempts, j \in Jobs : p = <<a, j>>
  BY RunAssumption

LEMMA SettledGrown == Settled => Grown
  BY DEF Settled, Grown, Alive

\* A job that has quit has quit for good.
LEMMA QuitKept ==
  ASSUME Grown, Quit
  PROVE  Quit'
<1>1. PICK j \in Debug : /\ child[<<1, j>>] # "none" /\ ~ Alive(<<1, j>>)
                         /\ outcome[<<1, j>>] = "none"
  BY DEF Quit
<1>2. <<1, j>> \in Procs
  BY ProcInProcs, RunAssumption DEF Attempts
<1>3. /\ child'[<<1, j>>] # "none" /\ ~ Alive(<<1, j>>)'
      /\ outcome'[<<1, j>>] = "none"
  BY <1>1, <1>2 DEF Grown
<1>4. QED
  BY <1>3 DEF Quit

\* The barrier survives every step: a job is started only in step `cur`, when
\* nothing is active before it and nothing was started after it.
LEMMA BarrierKept ==
  ASSUME RunInv, Grown
  PROVE  StepBarrier'
<1> SUFFICES ASSUME NEW a \in Attempts, NEW j \in Jobs, NEW k \in Jobs,
                    StepOf[j] < StepOf[k], child'[<<a, k>>] # "none"
             PROVE  ~ Alive(<<a, j>>)'
  BY DEF StepBarrier
<1>1. <<a, j>> \in Procs /\ <<a, k>> \in Procs
  BY ProcInProcs
<1>2. StepOf[j] \in Nat /\ StepOf[k] \in Nat /\ cur \in Nat /\ attempt \in Nat
  BY RunAssumption DEF RunInv, TypeOK
<1>3. \A i \in todo : i \in Jobs /\ StepOf[i] = cur
  BY DEF RunInv, LoopInv, JobsOf
<1>4. pc \in {"start", "clear"} => attempt > 0
  BY <1>2 DEF RunInv, AttemptInv
<1>5. \A i \in todo, l \in Jobs : <<a, l>> = Proc(i) => l = i /\ a = attempt
  BY DEF Proc
<1>6. CASE child[<<a, k>>] # "none"
  <2>1. ~ Alive(<<a, j>>)
    BY <1>6 DEF RunInv, StepBarrier
  <2>2. CASE child[<<a, j>>] # "none"
    BY <1>1, <2>1, <2>2 DEF Grown
  <2>3. CASE child[<<a, j>>] = "none"
    <3>1. ASSUME child'[<<a, j>>] # "none" PROVE FALSE
      <4>1. pc \in {"start", "clear"} /\ j \in todo /\ a = attempt
        BY <1>1, <1>5, <2>3, <3>1 DEF Grown
      <4>2. child[<<a, k>>] = "none"
        BY <1>2, <1>3, <1>4, <4>1 DEF RunInv, AttemptInv, Proc
      <4>3. QED
        BY <1>6, <4>2
    <3>2. QED
      BY <3>1 DEF Alive
  <2>4. QED
    BY <2>2, <2>3
<1>7. CASE child[<<a, k>>] = "none"
  <2>1. pc \in {"start", "clear"} /\ k \in todo /\ a = attempt
    BY <1>1, <1>5, <1>7 DEF Grown
  <2>2. ~ Alive(<<a, j>>)
    BY <1>2, <1>3, <1>4, <2>1 DEF RunInv, AttemptInv, Proc
  <2>3. j \notin todo
    BY <1>2, <1>3, <2>1
  <2>4. child[<<a, j>>] = "none" => child'[<<a, j>>] = "none"
    BY <1>1, <1>5, <2>3 DEF Grown
  <2>5. QED
    BY <1>1, <2>2, <2>4 DEF Grown, Alive
<1>8. QED
  BY <1>6, <1>7

\* Where the current attempt is, for the steps that do not move it.
LEMMA AttemptKept ==
  ASSUME RunInv, Grown, UNCHANGED <<attempt, cur>>, pc' = "queued" <=> pc = "queued"
  PROVE  AttemptInv'
<1>1. attempt \in Nat /\ cur \in Nat /\ \A j \in Jobs : StepOf[j] \in Nat
  BY RunAssumption DEF RunInv, TypeOK
<1>2. \A i \in todo : i \in Jobs /\ StepOf[i] = cur
  BY DEF RunInv, LoopInv, JobsOf
<1>3. ASSUME NEW a \in Attempts, NEW j \in Jobs, a > attempt
      PROVE  child'[<<a, j>>] = "none"
  <2>1. <<a, j>> \in Procs /\ child[<<a, j>>] = "none"
    BY <1>3, ProcInProcs DEF RunInv, AttemptInv
  <2>2. \A i \in todo : <<a, j>> # Proc(i)
    BY <1>1, <1>3 DEF Proc, Attempts
  <2>3. QED
    BY <2>1, <2>2 DEF Grown
<1>4. ASSUME attempt > 0, NEW j \in Jobs
      PROVE  /\ StepOf[j] > cur => child'[Proc(j)] = "none"
             /\ StepOf[j] < cur => ~ Alive(Proc(j))'
  <2>1. Proc(j) \in Procs
    BY <1>4, <1>1, ProcInProcs DEF Proc, Attempts, RunInv, TypeOK
  <2>2. \A i \in todo : Proc(j) = Proc(i) => StepOf[j] = cur
    BY <1>2 DEF Proc
  <2>3. CASE StepOf[j] > cur
    BY <1>1, <1>4, <2>1, <2>2, <2>3 DEF Grown, RunInv, AttemptInv
  <2>4. CASE StepOf[j] < cur
    <3>1. ~ Alive(Proc(j))
      BY <1>4, <2>4 DEF RunInv, AttemptInv
    <3>2. Proc(j)' = Proc(j)
      BY DEF Proc
    <3>3. child[Proc(j)] = "none" => child'[Proc(j)] = "none"
      BY <1>1, <2>1, <2>2, <2>4 DEF Grown
    <3>4. child'[Proc(j)] = "none" => ~ Alive(Proc(j))'
      BY <3>2 DEF Alive
    <3>5. child[Proc(j)] # "none" => ~ Alive(Proc(j))'
      BY <2>1, <3>1, <3>2 DEF Grown, Alive
    <3>6. QED
      BY <1>1, <2>4, <3>3, <3>4, <3>5
  <2>5. QED
    BY <1>1, <2>3, <2>4
<1>5. attempt = 0 <=> pc = "queued"
  BY DEF RunInv, AttemptInv
<1>6. \A j \in Jobs : Proc(j)' = Proc(j)
  BY DEF Proc
<1>7. QED
  BY <1>3, <1>4, <1>5, <1>6 DEF AttemptInv

\* What the outcomes explained stays explained.
LEMMA CauseKept ==
  ASSUME RunInv, Grown, UNCHANGED noExec
  PROVE  /\ (\A s \in 1..NSteps : stepState'[s] = "error" => stepState[s] = "error") =>
              \A s \in 1..NSteps : stepState'[s] = "error" =>
                \E a \in Attempts, j \in JobsOf(s) : outcome'[<<a, j>>] = "exception"
         /\ UNCHANGED <<runState, cur>> => RunErrorHasCause'
         /\ (\A j \in Jobs : jobState'[j] \in {"ok", "error"} => jobState'[j] = jobState[j]) =>
              JobStateHasCause'
<1>1. \A a \in Attempts, j \in Jobs :
        outcome[<<a, j>>] # "none" => outcome'[<<a, j>>] = outcome[<<a, j>>]
  BY ProcInProcs DEF Grown
<1>2. \A s : JobsOf(s) \subseteq Jobs
  BY DEF JobsOf
<1>3. \A a \in Attempts, j \in Jobs :
        /\ outcome[<<a, j>>] = "exception" => outcome'[<<a, j>>] = "exception"
        /\ outcome[<<a, j>>] = "success" => outcome'[<<a, j>>] = "success"
  BY <1>1
<1>4. ASSUME \A s \in 1..NSteps : stepState'[s] = "error" => stepState[s] = "error"
      PROVE  \A s \in 1..NSteps : stepState'[s] = "error" =>
               \E a \in Attempts, j \in JobsOf(s) : outcome'[<<a, j>>] = "exception"
  BY <1>2, <1>3, <1>4 DEF RunInv, CauseInv
<1>5. ASSUME UNCHANGED <<runState, cur>>
      PROVE  RunErrorHasCause'
  BY <1>2, <1>3, <1>5 DEF RunInv, RunErrorHasCause, JobsOf
<1>6. ASSUME \A j \in Jobs : jobState'[j] \in {"ok", "error"} => jobState'[j] = jobState[j]
      PROVE  JobStateHasCause'
  BY <1>3, <1>6 DEF RunInv, JobStateHasCause
<1>7. QED
  BY <1>4, <1>5, <1>6

\* A step that leaves the worker alone: of a child, of clear(), of a poll.
LEMMA QuietInv ==
  ASSUME RunInv, PMInv', Settled, UNCHANGED runVars
  PROVE  RunInv'
<1> USE DEF RunInv, runVars
<1>1. Grown
  BY SettledGrown
<1>2. TypeOK'
  BY DEF TypeOK, PMInv
<1>3. AttemptInv'
  BY <1>1, AttemptKept
<1>4. LoopInv'
  <2>1. \A j \in Jobs : Proc(j)' = Proc(j)
    BY DEF Proc
  <2>2. pc # "queued" => \A j \in Jobs : Proc(j) \in Procs
    BY ProcInProcs DEF AttemptInv, Proc, TypeOK, Attempts
  <2>3. todo \subseteq Jobs /\ procs \subseteq Jobs /\ JobsOf(cur) \subseteq Jobs
    BY DEF JobsOf, TypeOK
  <2>4. pc = "queued" => procs = {}
    BY DEF LoopInv
  <2>5. JobsOf(cur)' = JobsOf(cur)
    BY DEF JobsOf
  <2>6. QED
    BY <2>1, <2>2, <2>3, <2>4, <2>5 DEF LoopInv, Settled, Alive, IsDone
<1>5. InlineInv'
  <2>1. Proc(job)' = Proc(job)
    BY DEF Proc
  <2>2. QED
    BY <2>1 DEF InlineInv, Settled
<1>6. CauseInv' /\ RunErrorHasCause' /\ JobStateHasCause'
  BY <1>1, CauseKept, QuitKept DEF CauseInv
<1>7. CallbackIsFinal'
  <2>1. \A a \in Attempts, j \in Jobs : child'[<<a, j>>] = "inline" => child[<<a, j>>] = "inline"
    BY ProcInProcs DEF Settled
  <2>2. QED
    BY <1>1, <2>1, QuitKept DEF CallbackIsFinal
<1>8. StepBarrier'
  BY <1>1, BarrierKept
<1>9. QED
  BY <1>2, <1>3, <1>4, <1>5, <1>6, <1>7, <1>8

\* The loop over the steps goes on, in the same attempt or in a new one.
LEMMA EnterStepInv ==
  ASSUME RunInv, UNCHANGED <<pmVars, noExec, stepState, jobState, callback, job>>,
         NEW s \in Nat, EnterStep(s), 0 < s, s <= NSteps + 1, pc # "inline",
         attempt' \in Attempts, attempt' \in {attempt, attempt + 1},
         \A j \in Jobs : /\ StepOf[j] >= s => child[<<attempt', j>>] = "none"
                         /\ StepOf[j] < s => ~ Alive(<<attempt', j>>),
         s > NSteps => \A j \in Jobs : StepOf[j] > cur => child[<<attempt', j>>] = "none"
  PROVE  RunInv'
<1> USE DEF RunInv
<1>1. PMInv' /\ Settled
  BY PMStutter
<1>2. Grown
  BY <1>1, SettledGrown
<1>3. NSteps \in Nat /\ \A j \in Jobs : StepOf[j] \in 1..NSteps
  BY RunAssumption
<1>4. TypeOK'
  BY <1>1, <1>3 DEF TypeOK, PMInv, EnterStep, States, StoredJobs, JobsOf, Attempts, pmVars
<1>5. UNCHANGED child
  BY DEF pmVars
<1>6. AttemptInv'
  <2>1. (attempt = 0 <=> pc = "queued")'
    BY DEF EnterStep, Attempts
  <2>2. \A a \in Attempts, j \in Jobs : a > attempt' => child'[<<a, j>>] = "none"
    BY <1>5 DEF AttemptInv, Attempts, TypeOK
  <2>3. CASE s <= NSteps
    BY <1>3, <1>5, <2>1, <2>2, <2>3 DEF EnterStep, AttemptInv, Alive, Proc
  <2>4. CASE ~ (s <= NSteps)
    BY <1>3, <1>5, <2>1, <2>2, <2>4 DEF EnterStep, AttemptInv, Alive, Proc
  <2>5. QED
    BY <2>3, <2>4
<1>7. LoopInv'
  <2>1. CASE s <= NSteps
    BY <1>3, <1>5, <2>1 DEF EnterStep, LoopInv, StoredJobs, JobsOf, Alive, Proc
  <2>2. CASE ~ (s <= NSteps)
    BY <2>2 DEF EnterStep, LoopInv
  <2>3. QED
    BY <2>1, <2>2
<1>8. InlineInv'
  BY <1>5 DEF InlineInv, EnterStep
<1>9. CauseInv' /\ RunErrorHasCause' /\ JobStateHasCause'
  BY <1>2, CauseKept DEF CauseInv, EnterStep, RunErrorHasCause
<1>10. CallbackIsFinal'
  BY DEF CallbackIsFinal, EnterStep
<1>11. StepBarrier'
  BY <1>2, BarrierKept
<1>12. QED
  BY <1>1, <1>4, <1>6, <1>7, <1>8, <1>9, <1>10, <1>11

\* An exception ends the attempt, wherever it was raised.
LEMMA RaiseInv ==
  ASSUME RunInv, PMInv', Grown, Raise, UNCHANGED <<attempt, cur, noExec, callback>>,
         pc \notin {"queued", "done"}, job' \in Jobs \cup {Nobody},
         runState' \in States, stepState' \in [1..NSteps -> States],
         jobState' \in [Jobs -> States \cup {"expired"}],
         \A p \in Procs : child'[p] # "inline",
         \A s \in 1..NSteps : stepState'[s] = "error" =>
           \E a \in Attempts, j \in JobsOf(s) : outcome'[<<a, j>>] = "exception",
         RunErrorHasCause', JobStateHasCause'
  PROVE  RunInv'
<1> USE DEF RunInv
<1>1. TypeOK'
  BY DEF TypeOK, PMInv, Raise
<1>2. AttemptInv'
  BY AttemptKept DEF Raise
<1>3. LoopInv'
  BY DEF LoopInv, Raise
<1>4. InlineInv'
  BY DEF InlineInv, Raise
<1>5. CauseInv' /\ CallbackIsFinal'
  BY DEF CauseInv, CallbackIsFinal, Raise, JobsOf
<1>6. StepBarrier'
  BY BarrierKept
<1>7. QED
  BY <1>1, <1>2, <1>3, <1>4, <1>5, <1>6

\* Where the worker is, every job it may look at has a process.
LEMMA Positions ==
  ASSUME RunInv, pc # "queued"
  PROVE  /\ attempt \in Attempts
         /\ \A j \in Jobs : Proc(j) \in Procs
         /\ \A i, j \in Jobs : Proc(i) = Proc(j) => i = j
         /\ todo \subseteq Jobs /\ procs \subseteq Jobs
         /\ \A j \in Jobs : j \in JobsOf(cur) <=> StepOf[j] = cur
  BY ProcInProcs DEF RunInv, AttemptInv, TypeOK, Attempts, Proc, JobsOf

\* The initial states satisfy the invariant.
LEMMA RunInitInv == Init => RunInv
<1> SUFFICES ASSUME Init PROVE RunInv
  OBVIOUS
<1>1. PMInv
  BY PMInitInv DEF Init
<1>2. NSteps \in Nat
  BY RunAssumption
<1>3. TypeOK
  BY <1>1, <1>2 DEF Init, TypeOK, PMInv, States, NotSent
<1>4. \A a \in Attempts, j \in Jobs : child[<<a, j>>] = "none"
  BY ProcInProcs DEF Init, PMInit
<1>5. AttemptInv /\ LoopInv /\ InlineInv
  BY <1>4 DEF Init, PMInit, AttemptInv, LoopInv, InlineInv, Attempts
<1>6. CauseInv /\ RunErrorHasCause /\ JobStateHasCause /\ CallbackIsFinal
  BY DEF Init, CauseInv, RunErrorHasCause, JobStateHasCause, CallbackIsFinal
<1>7. StepBarrier
  BY <1>4 DEF StepBarrier, Alive
<1>8. QED
  BY <1>1, <1>3, <1>5, <1>6, <1>7 DEF RunInv

\* RunStep._fake_exec touches nothing but the record of its job.
LEMMA FakeExecInv ==
  ASSUME RunInv, NEW j \in Jobs, FakeExec(j)
  PROVE  RunInv'
<1> USE DEF RunInv, FakeExec, StartsJob
<1>1. PMInv' /\ Grown
  BY PMStutter, SettledGrown
<1>2. TypeOK'
  BY <1>1 DEF TypeOK, PMInv, States
<1>3. AttemptInv'
  BY <1>1, AttemptKept
<1>4. LoopInv' /\ InlineInv' /\ CallbackIsFinal'
  BY DEF LoopInv, InlineInv, CallbackIsFinal, pmVars, JobsOf, Proc, Alive
<1>5. CauseInv' /\ RunErrorHasCause'
  BY <1>1, CauseKept DEF CauseInv
<1>6. JobStateHasCause'
  BY DEF JobStateHasCause, pmVars, TypeOK
<1>7. QED
  BY <1>1, <1>2, <1>3, <1>4, <1>5, <1>6, BarrierKept

\* Job.execute raises before it starts anything.
LEMMA LoadFailsInv ==
  ASSUME RunInv, NEW j \in Jobs, LoadFails(j)
  PROVE  RunInv'
<1> USE DEF RunInv, LoadFails, ExecutesJob, StartsJob
<1>1. PMInv' /\ Grown
  BY PMStutter, SettledGrown
<1>2. RunErrorHasCause' /\ JobStateHasCause'
  BY <1>1, CauseKept DEF TypeOK
<1>3. \A p \in Procs : child'[p] # "inline"
  BY DEF InlineInv, pmVars
<1>4. \A s \in 1..NSteps : stepState'[s] = "error" =>
           \E a \in Attempts, i \in JobsOf(s) : outcome'[<<a, i>>] = "exception"
  BY DEF CauseInv, pmVars
<1>5. QED
  BY <1>1, <1>2, <1>3, <1>4, RaiseInv DEF TypeOK, States

\* A debug job begins in the worker.
LEMMA StartInlineInv ==
  ASSUME RunInv, NEW j \in Jobs, StartInline(j)
  PROVE  RunInv'
<1> USE DEF RunInv, StartInline, ExecutesJob, StartsJob
<1>1. Proc(j) \in Procs /\ child[Proc(j)] = "none"
  BY Positions DEF LoopInv
<1>2. PMInv'
  BY <1>1 DEF PMInv, PMTypeOK, ReportedStateIsTrue, NoForgottenChild, WholeResult,
     Unmanaged, Undecided, ChildStates, IsDone
<1>3. Grown
  BY <1>1 DEF Grown, Alive, PMInv, PMTypeOK
<1>4. TypeOK'
  BY <1>2 DEF TypeOK, PMInv, States
<1>5. AttemptInv'
  BY <1>3, AttemptKept
<1>6. LoopInv'
  BY <1>1, Positions DEF LoopInv, Alive, JobsOf, Proc, PMInv, PMTypeOK
<1>7. InlineInv'
  BY <1>1 DEF InlineInv, Proc, PMInv, PMTypeOK
<1>8. CauseInv' /\ RunErrorHasCause' /\ JobStateHasCause'
  BY <1>3, CauseKept DEF CauseInv, TypeOK
<1>9. CallbackIsFinal'
  BY DEF CallbackIsFinal
<1>10. QED
  BY <1>2, <1>3, <1>4, <1>5, <1>6, <1>7, <1>8, <1>9, BarrierKept

\* What a fork of the process of job i does to the loops.
LEMMA ForkInv ==
  ASSUME RunInv, NEW i \in todo, pc \in {"start", "clear"}, Fork(Proc(i)),
         UNCHANGED <<attempt, cur, noExec, runState, stepState, callback,
                     outcome, pipe, pstate, clearing>>,
         todo' = todo \ {i}, procs' = procs \cup {i},
         pc' = "start", job' \in Jobs \cup {Nobody},
         jobState' \in [Jobs -> States \cup {"expired"}],
         \A j \in Jobs : jobState'[j] \in {"ok", "error"} => jobState'[j] = jobState[j]
  PROVE  RunInv'
<1> USE DEF RunInv
<1>1. Proc(i) \in Procs /\ i \in Jobs /\ child[Proc(i)] = "none"
  BY Positions DEF Fork
<1>2. PMInv'
  BY <1>1, PMFork
<1>3. child' = [child EXCEPT ![Proc(i)] = "running"] /\ child \in [Procs -> ChildStates]
  BY DEF Fork, PMInv, PMTypeOK
<1>4. Grown
  BY <1>1, <1>3 DEF Grown, Alive
<1>5. TypeOK'
  BY <1>1, <1>2 DEF TypeOK, PMInv
<1>6. AttemptInv'
  BY <1>4, AttemptKept
<1>7. LoopInv'
  BY <1>1, <1>3, Positions DEF LoopInv, Alive, JobsOf, Proc
<1>8. InlineInv'
  BY <1>1, <1>3 DEF InlineInv
<1>9. CauseInv' /\ RunErrorHasCause' /\ JobStateHasCause'
  BY <1>4, CauseKept DEF CauseInv
<1>10. CallbackIsFinal'
  BY DEF CallbackIsFinal
<1>11. QED
  BY <1>2, <1>4, <1>5, <1>6, <1>7, <1>8, <1>9, <1>10, BarrierKept

\* start() raises, and leaves a Process that has no child.
LEMMA StartFailsInv ==
  ASSUME RunInv, NEW j \in Jobs, StartFails(j)
  PROVE  RunInv'
<1> USE DEF RunInv
<1>1. /\ pc \in {"start", "clear"} /\ j \in todo
      /\ ForkFails(Proc(j)) /\ Raise /\ job' = Nobody
      /\ jobState' = jobState \/ jobState' = [jobState EXCEPT ![j] = "running"]
      /\ UNCHANGED <<attempt, cur, noExec, runState, stepState, callback,
                     outcome, pipe, pstate, clearing>>
  BY DEF StartFails, InlineInv
<1>2. Proc(j) \in Procs /\ child[Proc(j)] = "none"
  BY <1>1, Positions DEF ForkFails
<1>3. PMInv'
  BY <1>1, <1>2, PMFork
<1>4. child' = [child EXCEPT ![Proc(j)] = "failed"] /\ child \in [Procs -> ChildStates]
  BY <1>1 DEF ForkFails, PMInv, PMTypeOK
<1>5. Grown
  BY <1>1, <1>2, <1>4 DEF Grown, Alive
<1>6. /\ jobState' \in [Jobs -> States \cup {"expired"}]
      /\ \A i \in Jobs : jobState'[i] \in {"ok", "error"} => jobState'[i] = jobState[i]
  BY <1>1 DEF TypeOK, States
<1>7. RunErrorHasCause' /\ JobStateHasCause'
  BY <1>1, <1>5, <1>6, CauseKept
<1>8. \A p \in Procs : child'[p] # "inline"
  BY <1>1, <1>4 DEF InlineInv
<1>9. \A s \in 1..NSteps : stepState'[s] = "error" =>
           \E a \in Attempts, i \in JobsOf(s) : outcome'[<<a, i>>] = "exception"
  BY <1>1, <1>5, CauseKept
<1>10. QED
  BY <1>1, <1>3, <1>5, <1>6, <1>7, <1>8, <1>9, RaiseInv DEF TypeOK

\* startProcess meets the limit and begins to clear().
LEMMA StartClearsInv ==
  ASSUME RunInv, NEW j \in Jobs, StartClears(j)
  PROVE  RunInv'
<1> USE DEF RunInv, StartClears, ExecutesJob, StartsJob
<1>1. PMInv' /\ Grown
  BY PMClearBegins, SettledGrown
<1>2. TypeOK'
  BY <1>1 DEF TypeOK, PMInv, States
<1>3. AttemptInv'
  BY <1>1, AttemptKept
<1>4. LoopInv' /\ InlineInv' /\ CallbackIsFinal'
  BY DEF LoopInv, InlineInv, CallbackIsFinal, JobsOf, Proc, Alive
<1>5. CauseInv' /\ RunErrorHasCause' /\ JobStateHasCause'
  BY <1>1, CauseKept DEF CauseInv, TypeOK
<1>6. QED
  BY <1>1, <1>2, <1>3, <1>4, <1>5, BarrierKept

\* clear() raises: on a partial result or on its own log line.
LEMMA ClearFailsInv ==
  ASSUME RunInv, ClearFails
  PROVE  RunInv'
<1> USE DEF RunInv, ClearFails
<1>1. PMInv' /\ Settled
  BY PMClearRaises
<1>2. Grown
  BY <1>1, SettledGrown
<1>3. RunErrorHasCause' /\ JobStateHasCause'
  BY <1>2, CauseKept
<1>4. \A p \in Procs : child'[p] # "inline"
  BY <1>1 DEF InlineInv, Settled
<1>5. \A s \in 1..NSteps : stepState'[s] = "error" =>
           \E a \in Attempts, i \in JobsOf(s) : outcome'[<<a, i>>] = "exception"
  BY <1>2, CauseKept
<1>6. QED
  BY <1>1, <1>2, <1>3, <1>4, <1>5, RaiseInv DEF TypeOK

\* executeInProcess comes to its end, with or without an exception, or with one
\* that no `except Exception` sees.
LEMMA InlineEndsInv ==
  ASSUME RunInv, InlineOk \/ InlineError \/ InlineQuits
  PROVE  RunInv'
<1> USE DEF RunInv
<1>1. PICK r \in Results \cup {"none"} : InlineEnds(r)
  BY DEF InlineOk, InlineError, InlineQuits, Results
<1>2. /\ pc = "inline" /\ job \in todo /\ job \in Jobs
      /\ Proc(job) \in Procs /\ child[Proc(job)] = "inline"
      /\ child' = [child EXCEPT ![Proc(job)] = "exited"]
      /\ outcome' = [outcome EXCEPT ![Proc(job)] = r]
      /\ UNCHANGED <<attempt, cur, noExec, runState, stepState, callback,
                     pipe, pstate, processes, clearing>>
      /\ job' = Nobody
  BY <1>1, Positions DEF InlineEnds, InlineInv
<1>3. PMInv'
  BY <1>2 DEF PMInv, PMTypeOK, ReportedStateIsTrue, NoForgottenChild, WholeResult,
     Unmanaged, Undecided, ChildStates, Results, IsDone
<1>4. outcome[Proc(job)] = "none" /\ child \in [Procs -> ChildStates]
      /\ outcome \in [Procs -> Results \cup {"none"}]
  BY <1>2 DEF PMInv, PMTypeOK, Undecided
<1>5. Grown
  BY <1>2, <1>4 DEF Grown, Alive
<1>6. \A p \in Procs : child'[p] # "inline"
  BY <1>2, <1>4 DEF InlineInv
<1>7. RunErrorHasCause' /\ \A s \in 1..NSteps : stepState'[s] = "error" =>
           \E a \in Attempts, i \in JobsOf(s) : outcome'[<<a, i>>] = "exception"
  BY <1>2, <1>5, CauseKept
<1>8. attempt \in Attempts /\ Proc(job) = <<attempt, job>>
  BY <1>2, Positions DEF Proc
<1>9. CASE InlineOk
  <2>1. /\ r = "success" /\ todo' = todo \ {job} /\ pc' = "start"
        /\ jobState' = [jobState EXCEPT ![job] = "ok"] /\ UNCHANGED procs
    BY <1>1, <1>2, <1>4, <1>9 DEF InlineOk, InlineEnds
  <2>2. TypeOK'
    BY <1>2, <1>3, <2>1 DEF TypeOK, PMInv, States
  <2>3. AttemptInv'
    BY <1>2, <1>5, <2>1, AttemptKept
  <2>4. LoopInv'
    BY <1>2, <1>4, <2>1, Positions DEF LoopInv, Alive, JobsOf, Proc
  <2>5. InlineInv' /\ CallbackIsFinal' /\ CauseInv'
    BY <1>6, <1>7, <2>1 DEF InlineInv, CallbackIsFinal, CauseInv, JobsOf
  <2>6. JobStateHasCause'
    <3>1. outcome'[<<attempt, job>>] = "success"
      BY <1>2, <1>4, <1>8, <2>1
    <3>2. \A i \in Jobs \ {job} : jobState'[i] = jobState[i]
      BY <2>1 DEF TypeOK
    <3>3. \A a \in Attempts, i \in Jobs : outcome[<<a, i>>] # "none" =>
            outcome'[<<a, i>>] = outcome[<<a, i>>]
      BY <1>5, ProcInProcs DEF Grown
    <3>4. jobState'[job] = "ok"
      BY <1>2, <2>1 DEF TypeOK
    <3>5. UNCHANGED noExec
      BY <1>2
    <3>6. QED
      BY <1>8, <3>1, <3>2, <3>3, <3>4, <3>5 DEF JobStateHasCause
  <2>7. QED
    BY <1>3, <1>5, <1>7, <2>2, <2>3, <2>4, <2>5, <2>6, BarrierKept
<1>10. CASE InlineError
  <2>1. /\ r = "exception" /\ Raise
        /\ jobState' = [jobState EXCEPT ![job] = "error"]
    BY <1>1, <1>2, <1>4, <1>10 DEF InlineError, InlineEnds
  <2>2. JobStateHasCause'
    <3>1. outcome'[<<attempt, job>>] = "exception"
      BY <1>2, <1>4, <1>8, <2>1
    <3>2. \A i \in Jobs \ {job} : jobState'[i] = jobState[i]
      BY <2>1 DEF TypeOK
    <3>3. \A a \in Attempts, i \in Jobs : outcome[<<a, i>>] # "none" =>
            outcome'[<<a, i>>] = outcome[<<a, i>>]
      BY <1>5, ProcInProcs DEF Grown
    <3>4. jobState'[job] = "error"
      BY <1>2, <2>1 DEF TypeOK
    <3>5. UNCHANGED noExec
      BY <1>2
    <3>6. QED
      BY <1>8, <3>1, <3>2, <3>3, <3>4, <3>5 DEF JobStateHasCause
  <2>3. QED
    BY <1>2, <1>3, <1>5, <1>6, <1>7, <2>1, <2>2, RaiseInv DEF TypeOK, States
<1>11. CASE InlineQuits
  <2>1. /\ r = "none" /\ pc' = "finally" /\ todo' = {} /\ procs' = {}
        /\ UNCHANGED jobState
    BY <1>1, <1>2, <1>4, <1>11 DEF InlineQuits, InlineEnds
  <2>2. TypeOK'
    BY <1>2, <1>3, <2>1 DEF TypeOK, PMInv
  <2>3. AttemptInv'
    BY <1>2, <1>5, <2>1, AttemptKept
  <2>4. LoopInv' /\ InlineInv' /\ CallbackIsFinal'
    BY <1>6, <2>1 DEF LoopInv, InlineInv, CallbackIsFinal
  <2>5. attempt = 1 => Quit'
    <3>1. job \in Debug
      BY <1>2 DEF InlineInv
    <3>2. /\ child'[Proc(job)] = "exited"
          /\ outcome'[Proc(job)] = "none"
      BY <1>2, <1>4, <2>1
    <3>3. QED
      BY <1>8, <3>1, <3>2 DEF Quit, Alive
  <2>6. CauseInv' /\ JobStateHasCause'
    BY <1>2, <1>5, <1>7, <2>1, <2>5, CauseKept DEF CauseInv
  <2>7. QED
    BY <1>3, <1>5, <1>7, <2>2, <2>3, <2>4, <2>6, BarrierKept
<1>12. QED
  BY <1>9, <1>10, <1>11

\* The polling loop begins, and ends when every process is done.
LEMMA PollBoundsInv ==
  ASSUME RunInv, AllStarted \/ AllDone
  PROVE  RunInv'
<1> USE DEF RunInv
<1>1. PMInv' /\ Grown
  BY PMStutter, SettledGrown DEF AllStarted, AllDone
<1>2. UNCHANGED <<child, outcome, pstate, attempt, cur, job, procs, noExec,
                  runState, stepState, jobState, callback>>
  BY DEF AllStarted, AllDone, pmVars
<1>3. TypeOK'
  BY <1>1 DEF TypeOK, PMInv, AllStarted, AllDone
<1>4. AttemptInv'
  BY <1>1, <1>2, AttemptKept DEF AllStarted, AllDone
<1>5. InlineInv' /\ CallbackIsFinal'
  BY <1>2 DEF AllStarted, AllDone, InlineInv, CallbackIsFinal, Proc
<1>6. CauseInv' /\ RunErrorHasCause' /\ JobStateHasCause'
  BY <1>1, <1>2, CauseKept DEF CauseInv, AllStarted, AllDone
<1>7. LoopInv'
  <2>1. CASE AllStarted
    BY <1>2, <2>1 DEF AllStarted, LoopInv, JobsOf, Proc, Alive
  <2>2. CASE AllDone
    <3>1. \A j \in JobsOf(cur) : ~ Alive(Proc(j))
      <4>1. \A j \in procs : child[Proc(j)] \in {"leaving", "exited"}
        BY <2>2, Positions DEF AllDone, IsDone, PMInv, PMTypeOK, ProcStates,
           ReportedStateIsTrue
      <4>2. \A j \in JobsOf(cur) \ procs : ~ Alive(Proc(j))
        BY <2>2 DEF AllDone, LoopInv
      <4>3. QED
        BY <4>1, <4>2 DEF Alive
    <3>2. QED
      BY <1>2, <2>2, <3>1 DEF AllDone, LoopInv, JobsOf, Proc, Alive, IsDone
  <2>3. QED
    BY <2>1, <2>2
<1>8. QED
  BY <1>1, <1>3, <1>4, <1>5, <1>6, <1>7, BarrierKept

\* A poll reads a part of a result and raises.
LEMMA PollFailsInv ==
  ASSUME RunInv, NEW j \in Jobs, PollFails(j)
  PROVE  RunInv'
<1> USE DEF RunInv, PollFails
<1>1. PMInv' /\ Settled
  <2>1. Managed(Proc(j)) /\ Proc(j) \in Procs
    BY Positions DEF Managed, LoopInv
  <2>2. QED
    BY <2>1, PMSync
<1>2. Grown
  BY <1>1, SettledGrown
<1>3. RunErrorHasCause' /\ JobStateHasCause'
  BY <1>2, CauseKept
<1>4. \A p \in Procs : child'[p] # "inline"
  BY <1>1 DEF InlineInv, Settled
<1>5. \A s \in 1..NSteps : stepState'[s] = "error" =>
           \E a \in Attempts, i \in JobsOf(s) : outcome'[<<a, i>>] = "exception"
  BY <1>2, CauseKept
<1>6. QED
  BY <1>1, <1>2, <1>3, <1>4, <1>5, RaiseInv DEF TypeOK

\* The processes the third loop collects have ended as they say.
LEMMA Collected ==
  ASSUME RunInv, NEW j \in todo, pc = "collect"
  PROVE  /\ j \in Jobs /\ attempt \in Attempts /\ Proc(j) = <<attempt, j>>
         /\ cur \in 1..NSteps /\ j \in JobsOf(cur)
         /\ pstate[Proc(j)] \in {"success", "exception", "killed"}
         /\ pstate[Proc(j)] # "killed" => outcome[<<attempt, j>>] = pstate[Proc(j)]
<1> USE DEF RunInv
<1>1. j \in Jobs /\ Proc(j) \in Procs /\ attempt \in Attempts /\ Proc(j) = <<attempt, j>>
  BY Positions DEF Proc
<1>2. j \in JobsOf(cur) /\ IsDone(Proc(j))
  BY DEF LoopInv
<1>3. StepOf[j] = cur /\ StepOf[j] \in 1..NSteps
  BY <1>1, <1>2, RunAssumption DEF JobsOf
<1>4. pstate[Proc(j)] \in {"success", "exception", "killed"}
  BY <1>1, <1>2 DEF IsDone, PMInv, PMTypeOK, ProcStates, Results
<1>5. pstate[Proc(j)] # "killed" => outcome[<<attempt, j>>] = pstate[Proc(j)]
  BY <1>1, <1>4 DEF PMInv, ReportedStateIsTrue, Results
<1>6. QED
  BY <1>1, <1>2, <1>3, <1>4, <1>5

\* A state that the third loop stores, of the job or of its step, is that of a
\* method that ended this way.
LEMMA Stored ==
  ASSUME RunInv, NEW j \in todo, pc = "collect", UNCHANGED <<outcome, noExec>>,
         stepState' \in {stepState, [stepState EXCEPT ![cur] = StateOf(pstate[Proc(j)], @)]},
         jobState' \in {jobState, [jobState EXCEPT ![j] = StateOf(pstate[Proc(j)], "running")]}
  PROVE  /\ stepState' \in [1..NSteps -> States]
         /\ jobState' \in [Jobs -> States \cup {"expired"}]
         /\ \A s \in 1..NSteps : stepState'[s] = "error" =>
              \E a \in Attempts, i \in JobsOf(s) : outcome'[<<a, i>>] = "exception"
         /\ JobStateHasCause'
<1> USE DEF RunInv
<1>1. /\ j \in Jobs /\ attempt \in Attempts /\ Proc(j) = <<attempt, j>>
      /\ cur \in 1..NSteps /\ j \in JobsOf(cur)
      /\ pstate[Proc(j)] \in {"success", "exception", "killed"}
      /\ pstate[Proc(j)] # "killed" => outcome[<<attempt, j>>] = pstate[Proc(j)]
  BY Collected
<1>2. \A old : StateOf(pstate[Proc(j)], old) =
        IF pstate[Proc(j)] = "success" THEN "ok"
        ELSE IF pstate[Proc(j)] = "exception" THEN "error" ELSE old
  BY <1>1 DEF StateOf
<1>3. stepState \in [1..NSteps -> States] /\ stepState[cur] \in States
      /\ jobState \in [Jobs -> States \cup {"expired"}]
  BY <1>1 DEF TypeOK
<1>4. stepState' \in [1..NSteps -> States]
  BY <1>2, <1>3 DEF States
<1>5. jobState' \in [Jobs -> States \cup {"expired"}]
  BY <1>2, <1>3 DEF States
<1>6. ASSUME NEW s \in 1..NSteps, stepState'[s] = "error"
      PROVE  \E a \in Attempts, i \in JobsOf(s) : outcome'[<<a, i>>] = "exception"
  <2>1. CASE stepState[s] = "error"
    BY <2>1 DEF CauseInv
  <2>2. CASE stepState[s] # "error"
    <3>1. s = cur /\ pstate[Proc(j)] = "exception"
      BY <1>1, <1>2, <1>3, <1>6, <2>2
    <3>2. QED
      BY <1>1, <3>1
  <2>3. QED
    BY <2>1, <2>2
<1>7. JobStateHasCause'
  <2>1. \A i \in Jobs \ {j} : jobState'[i] = jobState[i]
    BY <1>3
  <2>2. jobState'[j] \in {jobState[j], StateOf(pstate[Proc(j)], "running")}
    BY <1>1, <1>3
  <2>3. QED
    BY <1>1, <1>2, <2>1, <2>2 DEF JobStateHasCause
<1>8. QED
  BY <1>4, <1>5, <1>6, <1>7

\* The state of one job is stored, and becomes that of its step.
LEMMA CollectInv ==
  ASSUME RunInv, NEW j \in Jobs, Collect(j)
  PROVE  RunInv'
<1> USE DEF RunInv
<1>1. PMInv' /\ Grown
  BY PMStutter, SettledGrown DEF Collect
<1>2. /\ pc = "collect" /\ j \in todo /\ todo' = todo \ {j}
      /\ UNCHANGED <<child, outcome, pstate, pc, attempt, cur, job, procs, noExec,
                     runState, callback>>
  BY DEF Collect, pmVars
<1>3. /\ stepState' \in [1..NSteps -> States]
      /\ jobState' \in [Jobs -> States \cup {"expired"}]
      /\ \A s \in 1..NSteps : stepState'[s] = "error" =>
           \E a \in Attempts, i \in JobsOf(s) : outcome'[<<a, i>>] = "exception"
      /\ JobStateHasCause'
  BY <1>2, Stored DEF Collect
<1>4. TypeOK'
  BY <1>1, <1>2, <1>3 DEF TypeOK, PMInv
<1>5. AttemptInv'
  BY <1>1, <1>2, AttemptKept
<1>6. LoopInv' /\ InlineInv' /\ CallbackIsFinal'
  BY <1>2 DEF LoopInv, InlineInv, CallbackIsFinal, JobsOf, Proc, Alive, IsDone
<1>7. CauseInv' /\ RunErrorHasCause'
  BY <1>1, <1>2, <1>3, CauseKept DEF CauseInv, JobsOf
<1>8. QED
  BY <1>1, <1>3, <1>4, <1>5, <1>6, <1>7, BarrierKept

\* The collection of a job raises somewhere on its way.
LEMMA CollectFailsInv ==
  ASSUME RunInv, NEW j \in Jobs, CollectFails(j)
  PROVE  RunInv'
<1> USE DEF RunInv
<1>1. PMInv' /\ Grown
  BY PMStutter, SettledGrown DEF CollectFails
<1>2. /\ pc = "collect" /\ j \in todo /\ Raise
      /\ UNCHANGED <<child, outcome, attempt, cur, job, noExec, runState, callback>>
  BY DEF CollectFails, pmVars
<1>3. /\ stepState' \in [1..NSteps -> States]
      /\ jobState' \in [Jobs -> States \cup {"expired"}]
      /\ \A s \in 1..NSteps : stepState'[s] = "error" =>
           \E a \in Attempts, i \in JobsOf(s) : outcome'[<<a, i>>] = "exception"
      /\ JobStateHasCause'
  BY <1>2, Stored DEF CollectFails
<1>4. RunErrorHasCause'
  BY <1>1, <1>2, CauseKept
<1>5. \A p \in Procs : child'[p] # "inline"
  BY <1>2 DEF InlineInv
<1>6. QED
  BY <1>1, <1>2, <1>3, <1>4, <1>5, RaiseInv DEF TypeOK

\* The run cannot be saved after the third loop.
LEMMA SaveFailsInv ==
  ASSUME RunInv, SaveFails
  PROVE  RunInv'
<1> USE DEF RunInv
<1>1. PMInv' /\ Grown
  BY PMStutter, SettledGrown DEF SaveFails
<1>2. /\ pc = "collect" /\ Raise
      /\ UNCHANGED <<child, outcome, attempt, cur, job, noExec, runState, stepState,
                     jobState, callback>>
  BY DEF SaveFails, pmVars
<1>3. RunErrorHasCause' /\ JobStateHasCause'
  BY <1>1, <1>2, CauseKept
<1>4. \A p \in Procs : child'[p] # "inline"
  BY <1>2 DEF InlineInv
<1>5. \A s \in 1..NSteps : stepState'[s] = "error" =>
           \E a \in Attempts, i \in JobsOf(s) : outcome'[<<a, i>>] = "exception"
  BY <1>2 DEF CauseInv
<1>6. QED
  BY <1>1, <1>2, <1>3, <1>4, <1>5, RaiseInv DEF TypeOK

\* The step is not in error: the loop goes on behind a step that is over.
LEMMA StepOkInv ==
  ASSUME RunInv, StepOk
  PROVE  RunInv'
<1> USE DEF RunInv
<1>1. pc = "collect" /\ attempt \in Attempts /\ cur \in Nat /\ NSteps \in Nat
      /\ cur <= NSteps /\ UNCHANGED attempt
  BY Positions, RunAssumption DEF StepOk, TypeOK
<1>2. \A j \in Jobs : StepOf[j] \in 1..NSteps
  BY RunAssumption
<1>3. \A j \in Jobs : /\ StepOf[j] > cur => child[<<attempt, j>>] = "none"
                      /\ StepOf[j] < cur => ~ Alive(<<attempt, j>>)
                      /\ StepOf[j] = cur => ~ Alive(<<attempt, j>>)
  BY <1>1 DEF AttemptInv, LoopInv, Proc, JobsOf, Attempts
<1>4. \A j \in Jobs : /\ StepOf[j] >= cur + 1 => child[<<attempt, j>>] = "none"
                      /\ StepOf[j] < cur + 1 => ~ Alive(<<attempt, j>>)
  <2>1. ASSUME NEW j \in Jobs, StepOf[j] >= cur + 1
        PROVE  child[<<attempt, j>>] = "none"
    BY <1>1, <1>2, <1>3, <2>1
  <2>2. ASSUME NEW j \in Jobs, StepOf[j] < cur + 1
        PROVE  ~ Alive(<<attempt, j>>)
    <3>1. StepOf[j] < cur \/ StepOf[j] = cur
      BY <1>1, <1>2, <2>2
    <3>2. QED
      BY <1>3, <3>1
  <2>3. QED
    BY <2>1, <2>2
<1>5. cur + 1 \in Nat /\ 0 < cur + 1 /\ cur + 1 <= NSteps + 1
  BY <1>1
<1>6. EnterStep(cur + 1)
  BY DEF StepOk
<1>7. UNCHANGED <<pmVars, noExec, stepState, jobState, callback, job>>
  BY DEF StepOk
<1>8. QED
  BY <1>1, <1>3, <1>4, <1>5, <1>6, <1>7, EnterStepInv

\* The step is in error: Run.execute stores the error and raises.
LEMMA StepErrorInv ==
  ASSUME RunInv, StepError
  PROVE  RunInv'
<1> USE DEF RunInv
<1>1. PMInv' /\ Grown
  BY PMStutter, SettledGrown DEF StepError
<1>2. /\ pc = "collect" /\ stepState[cur] = "error" /\ Raise /\ runState' = "error"
      /\ UNCHANGED <<child, outcome, attempt, cur, job, noExec, stepState, jobState, callback>>
  BY DEF StepError, pmVars
<1>3. RunErrorHasCause'
  <2>1. cur \in 1..NSteps
    BY <1>2 DEF LoopInv
  <2>2. QED
    BY <1>2, <2>1 DEF RunErrorHasCause, CauseInv, JobsOf
<1>4. JobStateHasCause'
  BY <1>1, <1>2, CauseKept
<1>5. \A p \in Procs : child'[p] # "inline"
  BY <1>2 DEF InlineInv
<1>6. \A s \in 1..NSteps : stepState'[s] = "error" =>
           \E a \in Attempts, i \in JobsOf(s) : outcome'[<<a, i>>] = "exception"
  BY <1>2 DEF CauseInv
<1>7. QED
  BY <1>1, <1>2, <1>3, <1>4, <1>5, <1>6, RaiseInv DEF TypeOK, States

\* do_run executes the run, for the first time and for the second.
LEMMA BeginsInv ==
  ASSUME RunInv, BeginRun \/ Retry
  PROVE  RunInv'
<1> USE DEF RunInv
<1>1. /\ attempt' = attempt + 1 /\ attempt' \in Attempts /\ attempt \in Nat
      /\ pc # "inline" /\ EnterStep(1)
      /\ UNCHANGED <<pmVars, noExec, stepState, jobState, callback, job>>
  BY DEF BeginRun, Retry, AttemptInv, Attempts
<1>2. \A j \in Jobs : child[<<attempt', j>>] = "none"
  BY <1>1 DEF AttemptInv
<1>3. NSteps \in Nat /\ \A j \in Jobs : StepOf[j] \in 1..NSteps
  BY RunAssumption
<1>4. \A j \in Jobs : /\ StepOf[j] >= 1 => child[<<attempt', j>>] = "none"
                      /\ StepOf[j] < 1 => ~ Alive(<<attempt', j>>)
  BY <1>2 DEF Alive
<1>5. 1 \in Nat /\ 0 < 1 /\ 1 <= NSteps + 1
  BY <1>3
<1>6. attempt' \in {attempt, attempt + 1}
  BY <1>1
<1>7. 1 > NSteps => \A j \in Jobs : StepOf[j] > cur => child[<<attempt', j>>] = "none"
  BY <1>2
<1> HIDE DEF RunInv
<1>8. QED
  BY <1>1, <1>4, <1>5, <1>6, <1>7, EnterStepInv

\* do_run gives up or posts the callback; a stored job expires.
LEMMA EndsInv ==
  ASSUME RunInv, GiveUp \/ PostCallback \/ \E j \in Jobs : Expire(j)
  PROVE  RunInv'
<1> USE DEF RunInv
<1>1. PMInv' /\ Grown
  BY PMStutter, SettledGrown DEF GiveUp, PostCallback, Expire
<1>2. UNCHANGED <<child, outcome, pstate, attempt, cur, job, todo, procs, noExec,
                  runState, stepState>>
  BY DEF GiveUp, PostCallback, Expire, pmVars
<1>3. TypeOK'
  <2>1. CASE GiveUp
    BY <1>1, <2>1 DEF TypeOK, PMInv, GiveUp
  <2>2. CASE PostCallback
    <3>1. (attempt = 2) \in BOOLEAN
      OBVIOUS
    <3>2. callback' \in [state : States, failed : BOOLEAN]
      BY <2>2, <3>1 DEF PostCallback, TypeOK
    <3>3. QED
      BY <1>1, <2>2, <3>2 DEF TypeOK, PMInv, PostCallback
  <2>3. CASE \E j \in Jobs : Expire(j)
    BY <1>1, <2>3 DEF TypeOK, PMInv, Expire
  <2>4. QED
    BY <2>1, <2>2, <2>3
<1>4. AttemptInv'
  BY <1>1, <1>2, AttemptKept DEF GiveUp, PostCallback, Expire
<1>5. LoopInv' /\ InlineInv'
  BY <1>2 DEF LoopInv, InlineInv, GiveUp, PostCallback, Expire, JobsOf, Proc, Alive, IsDone
<1>6. CauseInv' /\ RunErrorHasCause' /\ JobStateHasCause'
  BY <1>1, <1>2, CauseKept, QuitKept DEF CauseInv, GiveUp, PostCallback, Expire, TypeOK
<1>7. CallbackIsFinal'
  <2>1. CASE GiveUp
    BY <2>1 DEF GiveUp, CallbackIsFinal
  <2>2. CASE PostCallback
    <3>1. attempt # 2 => attempt = 1
      BY <2>2, Positions DEF PostCallback, Attempts
    <3>2. \A p \in Procs : child[p] # "inline"
      BY <2>2 DEF PostCallback, InlineInv
    <3>3. QED
      BY <1>1, <1>2, <2>2, <3>1, <3>2, ProcInProcs, QuitKept
         DEF PostCallback, CallbackIsFinal, CauseInv
  <2>3. CASE \E j \in Jobs : Expire(j)
    BY <1>1, <1>2, <2>3, QuitKept DEF Expire, CallbackIsFinal
  <2>4. QED
    BY <2>1, <2>2, <2>3
<1>8. QED
  BY <1>1, <1>3, <1>4, <1>5, <1>6, <1>7, BarrierKept

\* A method saves the record of its own job.
LEMMA MethodSavesInv ==
  ASSUME RunInv, NEW j \in Jobs, MethodSaves(j)
  PROVE  RunInv'
<1> USE DEF RunInv
<1>1. PMInv' /\ Grown
  BY PMStutter, SettledGrown DEF MethodSaves
<1>2. UNCHANGED <<child, outcome, pstate, pc, attempt, cur, job, todo, procs, noExec,
                  runState, stepState, callback>>
  BY DEF MethodSaves, pmVars
<1>3. jobState' = [jobState EXCEPT ![j] = "running"]
  BY DEF MethodSaves
<1>4. TypeOK'
  BY <1>1, <1>2, <1>3 DEF TypeOK, PMInv, States
<1>5. AttemptInv'
  BY <1>1, <1>2, AttemptKept
<1>6. LoopInv' /\ InlineInv'
  BY <1>2 DEF LoopInv, InlineInv, JobsOf, Proc, Alive, IsDone
<1>7. CauseInv' /\ RunErrorHasCause' /\ JobStateHasCause'
  BY <1>1, <1>2, <1>3, CauseKept, QuitKept DEF CauseInv, TypeOK
<1>8. CallbackIsFinal'
  BY <1>1, <1>2, QuitKept DEF CallbackIsFinal
<1>9. QED
  BY <1>1, <1>4, <1>5, <1>6, <1>7, <1>8, BarrierKept

\* Every step of the run preserves RunInv.
LEMMA RunNextInv ==
  ASSUME RunInv, [Next]_vars
  PROVE  RunInv'
<1>1. CASE \E p \in Procs : ChildStep(p) /\ UNCHANGED runVars
  BY <1>1, PMChildStep, QuietInv DEF RunInv
<1>2. CASE \E p \in Procs : Clear(p)
  BY <1>2, PMClearStep, QuietInv DEF RunInv, Clear
<1>3. CASE \E j \in Jobs : Poll(j)
  <2>1. PICK j \in Jobs : Poll(j)
    BY <1>3
  <2>2. Managed(Proc(j)) /\ Proc(j) \in Procs
    BY <2>1, Positions DEF Poll, Managed, RunInv, LoopInv
  <2>3. PMInv' /\ Settled /\ UNCHANGED runVars
    BY <2>1, <2>2, PMSync DEF Poll, RunInv
  <2>4. QED
    BY <2>3, QuietInv
<1>4. CASE UNCHANGED vars
  BY <1>4, PMStutter, QuietInv DEF vars, runVars, pmVars, RunInv
<1>5. ASSUME NEW j \in Jobs, StartProcess(j)
      PROVE  RunInv'
  <2>1. /\ j \in todo /\ pc \in {"start", "clear"} /\ pc' = "start"
        /\ Fork(Proc(j)) /\ todo' = todo \ {j} /\ procs' = procs \cup {j}
        /\ UNCHANGED <<attempt, cur, noExec, runState, stepState, callback,
                       outcome, pipe, pstate, clearing, job>>
        /\ jobState' = [jobState EXCEPT ![j] = "running"]
    BY <1>5 DEF StartProcess, ExecutesJob, StartsJob
  <2>2. QED
    BY <2>1, ForkInv DEF RunInv, TypeOK, States
<1>6. CASE StartCleared
  <2>1. /\ pc \in {"start", "clear"} /\ pc' = "start" /\ job' = Nobody
        /\ Fork(Proc(job)) /\ todo' = todo \ {job} /\ procs' = procs \cup {job}
        /\ UNCHANGED <<attempt, cur, noExec, runState, stepState, callback, jobState,
                       outcome, pipe, pstate, clearing>>
    BY <1>6 DEF StartCleared
  <2>2. job \in todo
    BY <1>6 DEF StartCleared, RunInv, InlineInv
  <2>3. QED
    BY <2>1, <2>2, ForkInv DEF RunInv, TypeOK
<1>7. ASSUME NEW j \in Jobs,
             \/ FakeExec(j) \/ LoadFails(j) \/ StartInline(j) \/ StartClears(j)
             \/ StartFails(j) \/ PollFails(j) \/ Collect(j) \/ CollectFails(j)
             \/ MethodSaves(j)
      PROVE  RunInv'
  BY <1>7, FakeExecInv, LoadFailsInv, StartInlineInv, StartClearsInv, StartFailsInv,
     PollFailsInv, CollectInv, CollectFailsInv, MethodSavesInv
<1>8. CASE \/ BeginRun \/ AllStarted \/ AllDone \/ StepOk \/ StepError \/ SaveFails
           \/ ClearFails \/ InlineOk \/ InlineError \/ InlineQuits
           \/ Retry \/ GiveUp \/ PostCallback \/ \E j \in Jobs : Expire(j)
  BY <1>8, BeginsInv, PollBoundsInv, StepOkInv, StepErrorInv, SaveFailsInv, ClearFailsInv,
     InlineEndsInv, EndsInv
<1>9. QED
  BY <1>1, <1>2, <1>3, <1>4, <1>5, <1>6, <1>7, <1>8 DEF Next, Worker, WorkerStep, JobStep

\* RunInv holds in every reachable state.
LEMMA RunInvariant == Spec => []RunInv
<1>1. Init => RunInv
  BY RunInitInv
<1>2. RunInv /\ [Next]_vars => RunInv'
  BY RunNextInv
<1>3. QED
  BY <1>1, <1>2, PTL DEF Spec

\* The types of the worker's state and of the processes under it.
THEOREM TypeCorrect == Spec => []TypeOK
<1>1. RunInv => TypeOK
  BY DEF RunInv
<1>2. QED
  BY <1>1, RunInvariant, PTL

\* RunStep.execute: no job of a step runs beside one of a later step.
THEOREM BarrierHolds == Spec => []StepBarrier
<1>1. RunInv => StepBarrier
  BY DEF RunInv
<1>2. QED
  BY <1>1, RunInvariant, PTL

\* RunStep.execute, third loop: no stored state of a job without a cause.
THEOREM CausesExist == Spec => []JobStateHasCause
<1>1. RunInv => JobStateHasCause
  BY DEF RunInv
<1>2. QED
  BY <1>1, RunInvariant, PTL

\* Run.execute: a run in error has a job that ended with an exception.
THEOREM RunErrorsHaveCause == Spec => []RunErrorHasCause
<1>1. RunInv => RunErrorHasCause
  BY DEF RunInv
<1>2. QED
  BY <1>1, RunInvariant, PTL

\* do_run: the callback comes last and tells the state the run ended in.
THEOREM CallbackHolds == Spec => []CallbackIsFinal
<1>1. RunInv => CallbackIsFinal
  BY DEF RunInv
<1>2. QED
  BY <1>1, RunInvariant, PTL
-----------------------------------------------------------------------------
(***************************************************************************)
(* What a run that ends "ok" has to say of its jobs: ExplainInv, relative to *)
(* RunInv.                                                                 *)
(***************************************************************************)

\* What was settled of a process stays, whatever is started meanwhile.
Final ==
  \A p \in Procs :
    /\ outcome[p] = "success" => outcome'[p] = "success"
    /\ IsDone(p) => pstate'[p] = pstate[p]
    /\ child[p] # "none" => child'[p] # "none"

LEMMA SettledFinal ==
  ASSUME Settled
  PROVE  Final
<1>1. \A p \in Procs : outcome[p] = "success" => outcome[p] # "none"
  OBVIOUS
<1>2. QED
  BY <1>1 DEF Settled, Final

\* A job of the aborted attempt stays one.
LEMMA OrphanedKept ==
  ASSUME Final, UNCHANGED attempt, NEW j \in Jobs, Orphaned(j)
  PROVE  Orphaned(j)'
  BY ProcInProcs DEF Orphaned, Final, Attempts

\* What a record shows it shows as long as it is not written.
LEMMA RecordedKept ==
  ASSUME Final, UNCHANGED attempt, NEW j \in Jobs, Recorded(j),
         jobState'[j] \in {jobState[j], "expired"}
  PROVE  Recorded(j)'
  BY OrphanedKept DEF Recorded

\* An explanation holds as long as the record of the job is not written.
LEMMA ExplainedKept ==
  ASSUME RunInv, Final, UNCHANGED attempt, pc # "queued", NEW j \in Jobs,
         Explained(j), jobState'[j] \in {jobState[j], "expired"}
  PROVE  Explained(j)'
<1>1. Proc(j)' = Proc(j) /\ Proc(j) \in Procs
  BY Positions DEF Proc
<1>2. JobsOf(StepOf[j])' = JobsOf(StepOf[j]) /\ JobsOf(StepOf[j]) \subseteq Jobs
  BY DEF JobsOf
<1>3. CASE jobState'[j] = "expired"
  BY <1>3 DEF Explained
<1>4. CASE jobState'[j] = jobState[j]
  <2>1. CASE jobState[j] \in {"ok", "expired"}
    BY <1>4, <2>1 DEF Explained
  <2>2. CASE jobState[j] = "error" /\ \E k \in JobsOf(StepOf[j]) : outcome[Proc(k)] = "success"
    <3>1. PICK k \in JobsOf(StepOf[j]) : outcome[Proc(k)] = "success"
      BY <2>2
    <3>2. k \in Jobs /\ Proc(k)' = Proc(k) /\ Proc(k) \in Procs
      BY <1>2, Positions DEF Proc
    <3>3. outcome'[Proc(k)'] = "success"
      BY <3>1, <3>2 DEF Final
    <3>4. QED
      BY <1>2, <1>4, <2>2, <3>3 DEF Explained
  <2>3. CASE jobState[j] = "running" /\ pstate[Proc(j)] = "killed"
    BY <1>1, <1>4, <2>3 DEF Explained, Final, IsDone
  <2>4. CASE jobState[j] = "running" /\ Orphaned(j)
    BY <1>4, <2>4, OrphanedKept DEF Explained
  <2>5. QED
    BY <2>1, <2>2, <2>3, <2>4 DEF Explained
<1>5. QED
  BY <1>3, <1>4

\* A run that is not "ok" has nothing to explain at its end.
LEMMA RaisedExplains ==
  ASSUME ExplainInv, pc' \in {"raised", "finally"}, runState' # "ok"
  PROVE  ExplainInv'
  BY DEF ExplainInv, CollectedInv, OkRunIsExplained

\* The first two loops write the records of jobs of their step only.
LEMMA LoopExplains ==
  ASSUME RunInv, ExplainInv, Final, UNCHANGED <<attempt, cur, runState>>,
         pc \in {"start", "clear", "inline", "poll"}, pc' \in {"start", "clear", "inline", "poll"},
         \A j \in Jobs : StepOf[j] # cur => jobState'[j] \in {jobState[j], "expired"},
         pc' = "poll" => todo' = {},
         \A j \in JobsOf(cur) \ (todo' \cup procs') : Recorded(j)'
  PROVE  ExplainInv'
<1>1. cur \in Nat /\ \A j \in Jobs : StepOf[j] \in Nat
  BY RunAssumption DEF RunInv, TypeOK
<1>2. runState' # "ok"
  BY DEF ExplainInv
<1>3. \A j \in Jobs : StepOf[j] < cur' => Explained(j)'
  BY <1>1, ExplainedKept DEF ExplainInv
<1>4. CollectedInv'
  BY DEF CollectedInv, JobsOf
<1>5. QED
  BY <1>2, <1>3, <1>4 DEF ExplainInv, OkRunIsExplained

\* The next step of the loop over the steps, or its end.
LEMMA EnterExplains ==
  ASSUME RunInv, NEW s \in Nat, EnterStep(s), runState # "ok",
         UNCHANGED jobState,
         \A j \in Jobs : StepOf[j] < s => Explained(j)' /\ ~ Alive(Proc(j))'
  PROVE  ExplainInv'
<1>1. NSteps \in Nat /\ \A j \in Jobs : StepOf[j] \in 1..NSteps
  BY RunAssumption
<1>2. CASE s <= NSteps
  BY <1>2 DEF EnterStep, ExplainInv, CollectedInv, Recorded, OkRunIsExplained,
     StoredJobs, JobsOf
<1>3. CASE ~ (s <= NSteps)
  <2>1. \A j \in Jobs : StepOf[j] < s
    BY <1>1, <1>3
  <2>2. QED
    BY <1>3, <2>1 DEF EnterStep, ExplainInv, CollectedInv, OkRunIsExplained
<1>4. QED
  BY <1>2, <1>3

\* The worker stands still, while children, clear() and polls go on and
\* records expire.
LEMMA StillExplains ==
  ASSUME RunInv, ExplainInv, Final,
         UNCHANGED <<pc, attempt, cur, todo, procs, runState, stepState>>,
         \A p \in Procs : Alive(p)' => Alive(p),
         \A j \in Jobs : jobState'[j] \in {jobState[j], "expired"}
  PROVE  ExplainInv'
<1>1. CASE pc = "queued"
  <2>1. runState' # "ok"
    BY <1>1 DEF ExplainInv
  <2>2. QED
    BY <1>1, <2>1 DEF ExplainInv, CollectedInv, OkRunIsExplained
<1>2. CASE pc # "queued"
  <2>1. \A j \in Jobs : Explained(j) => Explained(j)'
    BY <1>2, ExplainedKept
  <2>2. \A j \in Jobs : Proc(j)' = Proc(j) /\ Proc(j) \in Procs
    BY <1>2, Positions DEF Proc
  <2>3. JobsOf(cur)' = JobsOf(cur) /\ JobsOf(cur) \subseteq Jobs /\ procs \subseteq Jobs
    BY DEF JobsOf, RunInv, TypeOK
  <2>4. pc = "collect" => \A j \in procs : pstate'[Proc(j)'] = pstate[Proc(j)]
    BY <2>2, <2>3 DEF RunInv, LoopInv, Final
  <2>5. \A j \in Jobs : /\ Recorded(j) => Recorded(j)'
                        /\ jobState'[j] = jobState[j] \/ Recorded(j)'
    BY RecordedKept DEF Recorded
  <2>6. CollectedInv'
    BY <2>2, <2>3, <2>4, <2>5 DEF CollectedInv, ExplainInv
  <2>7. runState' = "ok" => \A j \in Jobs : ~ Alive(Proc(j))'
    <3>1. ASSUME runState' = "ok", NEW j \in Jobs
          PROVE  ~ Alive(Proc(j))'
      <4>1. ~ Alive(Proc(j)) /\ Proc(j)' = Proc(j) /\ Proc(j) \in Procs
        BY <2>2, <3>1 DEF ExplainInv
      <4>2. QED
        BY <4>1 DEF Alive
    <3>2. QED
      BY <3>1
  <2>8. QED
    BY <2>1, <2>6, <2>7 DEF ExplainInv, OkRunIsExplained
<1>3. QED
  BY <1>1, <1>2

\* The first loop: a fork, the begin of a debug job or of clear(), a faked job.
LEMMA StartExplains ==
  ASSUME RunInv, ExplainInv, NEW j \in Jobs, FakeExec(j) \/ StartInline(j) \/ StartProcess(j) \/ StartClears(j)
  PROVE  ExplainInv'
<1> USE DEF StartsJob, ExecutesJob, FakeExec, StartInline, StartProcess, StartClears
<1>1. /\ pc = "start" /\ j \in todo /\ pc' \in {"start", "clear", "inline"}
      /\ UNCHANGED <<attempt, cur, runState, outcome, pstate>>
  BY DEF pmVars
<1>2. Final
  BY <1>1 DEF pmVars, Final, Fork, RunInv, PMInv, PMTypeOK
<1>3. StepOf[j] = cur
  BY <1>1 DEF RunInv, LoopInv, JobsOf
<1>4. \A i \in Jobs \ {j} : jobState'[i] = jobState[i]
  BY DEF RunInv, TypeOK
<1>5. \A i \in Jobs : StepOf[i] # cur => jobState'[i] \in {jobState[i], "expired"}
  BY <1>3, <1>4
<1>6. FakeExec(j) => jobState'[j] = "ok" /\ todo' = todo \ {j} /\ procs' = procs
  BY DEF RunInv, TypeOK
<1>7. ~ FakeExec(j) => todo \cup procs = todo' \cup procs'
  BY <1>1
<1>8. JobsOf(cur) \subseteq Jobs
  BY DEF JobsOf
<1>9. \A i \in JobsOf(cur) \ (todo \cup procs) : i # j /\ Recorded(i)
  BY <1>1 DEF ExplainInv, CollectedInv
<1>10. ASSUME NEW i \in JobsOf(cur) \ (todo' \cup procs')
       PROVE  Recorded(i)'
  <2>1. CASE i = j
    BY <1>1, <1>6, <1>7, <1>10, <2>1 DEF Recorded
  <2>2. CASE i # j
    BY <1>1, <1>2, <1>4, <1>6, <1>7, <1>8, <1>9, <1>10, <2>2, RecordedKept
  <2>3. QED
    BY <2>1, <2>2
<1> HIDE DEF StartsJob, ExecutesJob, FakeExec, StartInline, StartProcess, StartClears
<1>11. QED
  BY <1>1, <1>2, <1>5, <1>10, LoopExplains

\* The rest of the first loop: the fork after clear(), the end of a debug job,
\* the end of the loop.
LEMMA StartedExplains ==
  ASSUME RunInv, ExplainInv, StartCleared \/ InlineOk \/ AllStarted
  PROVE  ExplainInv'
<1>1. CASE StartCleared \/ AllStarted
  <2>1. /\ pc \in {"start", "clear"} /\ pc' \in {"start", "poll"}
        /\ UNCHANGED <<attempt, cur, runState, jobState, outcome, pstate>>
        /\ todo \cup procs = todo' \cup procs'
        /\ pc' = "poll" => todo' = {}
    BY <1>1 DEF StartCleared, AllStarted, pmVars, RunInv, InlineInv
  <2>2. Final
    <3>1. \/ UNCHANGED child
          \/ child[Proc(job)] = "none" /\ child' = [child EXCEPT ![Proc(job)] = "running"]
      BY <1>1 DEF StartCleared, AllStarted, Fork, pmVars
    <3>2. child \in [Procs -> ChildStates]
      BY DEF RunInv, PMInv, PMTypeOK
    <3>3. QED
      BY <2>1, <3>1, <3>2 DEF Final
  <2>3. \A i \in JobsOf(cur) \ (todo' \cup procs') : i \in Jobs /\ Recorded(i)
    BY <2>1 DEF ExplainInv, CollectedInv, JobsOf
  <2>4. \A i \in JobsOf(cur) \ (todo' \cup procs') : Recorded(i)'
    BY <2>1, <2>2, <2>3, RecordedKept
  <2>5. QED
    BY <2>1, <2>2, <2>4, LoopExplains
<1>2. CASE InlineOk
  <2>1. /\ pc = "inline" /\ pc' = "start" /\ job \in todo /\ job \in Jobs
        /\ todo' = todo \ {job}
        /\ UNCHANGED <<attempt, cur, runState, pstate, procs>>
        /\ outcome' = [outcome EXCEPT ![Proc(job)] = "success"]
        /\ child' = [child EXCEPT ![Proc(job)] = "exited"]
        /\ jobState' = [jobState EXCEPT ![job] = "ok"]
    BY <1>2, Positions DEF InlineOk, InlineEnds, RunInv, InlineInv
  <2>2. Final
    BY <2>1 DEF Final, RunInv, PMInv, PMTypeOK
  <2>3. StepOf[job] = cur
    BY <2>1 DEF RunInv, LoopInv, JobsOf
  <2>4. jobState'[job] = "ok" /\ \A i \in Jobs \ {job} : jobState'[i] = jobState[i]
    BY <2>1 DEF RunInv, TypeOK
  <2>5. JobsOf(cur) \subseteq Jobs
    BY DEF JobsOf
  <2>6. ASSUME NEW i \in JobsOf(cur) \ (todo' \cup procs')
        PROVE  Recorded(i)'
    <3>1. CASE i = job
      BY <2>4, <3>1 DEF Recorded
    <3>2. CASE i # job
      <4>1. Recorded(i)
        BY <2>1, <2>6, <3>2 DEF ExplainInv, CollectedInv
      <4>2. QED
        BY <2>1, <2>2, <2>4, <2>5, <2>6, <3>2, <4>1, RecordedKept
    <3>3. QED
      BY <3>1, <3>2
  <2>7. QED
    BY <2>1, <2>2, <2>3, <2>4, <2>6, LoopExplains
<1>3. QED
  BY <1>1, <1>2

\* The third loop begins with every process of the step uncollected.
LEMMA AllDoneExplains ==
  ASSUME RunInv, ExplainInv, AllDone
  PROVE  ExplainInv'
<1>1. /\ pc = "poll" /\ pc' = "collect" /\ todo' = procs
      /\ UNCHANGED <<attempt, cur, procs, runState, jobState, stepState, outcome, pstate, child>>
  BY DEF AllDone, pmVars
<1>2. Final
  BY <1>1 DEF Final
<1>3. \A j \in Jobs : StepOf[j] < cur => Explained(j)'
  BY <1>1, <1>2, ExplainedKept DEF ExplainInv
<1>4. CollectedInv'
  BY <1>1 DEF CollectedInv, ExplainInv, Recorded, Orphaned, JobsOf
<1>5. QED
  BY <1>1, <1>3, <1>4 DEF ExplainInv, OkRunIsExplained

\* One more job is collected: its error shows in the step, and hides an
\* earlier one only if it is none.
LEMMA CollectExplains ==
  ASSUME RunInv, ExplainInv, NEW j \in Jobs, Collect(j)
  PROVE  ExplainInv'
<1>1. /\ pc = "collect" /\ j \in todo /\ todo' = todo \ {j}
      /\ UNCHANGED <<outcome, pstate, child, pc, attempt, cur, procs, runState>>
  BY DEF Collect, pmVars
<1>2. /\ jobState' = [jobState EXCEPT ![j] = StateOf(pstate[Proc(j)], "running")]
      /\ stepState' = [stepState EXCEPT ![cur] = StateOf(pstate[Proc(j)], stepState[cur])]
  BY DEF Collect
<1>3. /\ StepOf[j] = cur /\ cur \in 1..NSteps
      /\ pstate[Proc(j)] \in {"success", "exception", "killed"}
  BY <1>1, Positions, Collected
<1>4. \A old : StateOf(pstate[Proc(j)], old) =
        IF pstate[Proc(j)] = "success" THEN "ok"
        ELSE IF pstate[Proc(j)] = "exception" THEN "error" ELSE old
  BY <1>3 DEF StateOf
<1>5. /\ \A i \in Jobs \ {j} : jobState'[i] = jobState[i]
      /\ jobState'[j] = StateOf(pstate[Proc(j)], "running")
      /\ stepState'[cur] = StateOf(pstate[Proc(j)], stepState[cur])
  BY <1>2, <1>3 DEF RunInv, TypeOK
<1>6. Final
  BY <1>1 DEF Final
<1>7. cur \in Nat /\ \A i \in Jobs : StepOf[i] \in Nat
  BY RunAssumption DEF RunInv, TypeOK
<1>8. ASSUME NEW i \in Jobs, StepOf[i] < cur
      PROVE  Explained(i)'
  <2>1. i # j
    BY <1>3, <1>7, <1>8
  <2>2. QED
    BY <1>1, <1>5, <1>6, <1>8, <2>1, ExplainedKept DEF ExplainInv
<1>9. CollectedInv'
  <2>1. j \in procs /\ todo \subseteq procs /\ procs \subseteq Jobs
    BY <1>1, Positions DEF RunInv, LoopInv
  <2>2. procs' \ todo' = (procs \ todo) \cup {j}
    BY <1>1, <2>1
  <2>3. \A i \in Jobs : Proc(i)' = Proc(i) /\ pstate'[Proc(i)'] = pstate[Proc(i)]
    BY <1>1 DEF Proc
  <2>4. \A i \in JobsOf(cur) \ (todo' \cup procs') : Recorded(i)'
    BY <1>1, <1>5, <2>1 DEF CollectedInv, ExplainInv, Recorded, Orphaned, JobsOf
  <2>5. \A i \in procs' \ todo' :
            \/ Recorded(i)'
            \/ jobState'[i] = "error" /\ pstate[Proc(i)] = "exception"
            \/ jobState'[i] = "running" /\ pstate[Proc(i)] = "killed"
    <3>1. ASSUME NEW i \in procs \ todo
          PROVE  \/ Recorded(i)'
                 \/ jobState'[i] = "error" /\ pstate[Proc(i)] = "exception"
                 \/ jobState'[i] = "running" /\ pstate[Proc(i)] = "killed"
      BY <1>1, <1>5, <2>1 DEF CollectedInv, ExplainInv, Recorded, Orphaned
    <3>2. QED
      BY <1>3, <1>4, <1>5, <2>2, <3>1 DEF Recorded
  <2>6. \/ stepState'[cur] = "error"
        \/ \A i \in procs' \ todo' : pstate[Proc(i)] # "exception"
        \/ \E k \in procs' \ todo' : pstate[Proc(k)] = "success"
    <3>1. \/ stepState[cur] = "error"
          \/ \A i \in procs \ todo : pstate[Proc(i)] # "exception"
          \/ \E k \in procs \ todo : pstate[Proc(k)] = "success"
      BY <1>1 DEF CollectedInv, ExplainInv
    <3>2. CASE pstate[Proc(j)] = "success"
      BY <2>2, <3>2
    <3>3. CASE pstate[Proc(j)] = "exception"
      BY <1>4, <1>5, <3>3
    <3>4. CASE pstate[Proc(j)] = "killed"
      BY <1>4, <1>5, <2>2, <3>1, <3>4
    <3>5. QED
      BY <1>3, <3>2, <3>3, <3>4
  <2>7. \A i \in procs' : i \in Jobs
    BY <1>1, <2>1
  <2>8. JobsOf(cur)' = JobsOf(cur)
    BY <1>1 DEF JobsOf
  <2>9. QED
    BY <1>1, <2>3, <2>4, <2>5, <2>6, <2>7, <2>8 DEF CollectedInv
<1>10. QED
  BY <1>1, <1>8, <1>9 DEF ExplainInv, OkRunIsExplained

\* The step is over and not in error: each of its jobs is explained.
LEMMA StepOkExplains ==
  ASSUME RunInv, ExplainInv, StepOk
  PROVE  ExplainInv'
<1>1. /\ pc = "collect" /\ todo = {} /\ stepState[cur] # "error" /\ EnterStep(cur + 1)
      /\ UNCHANGED <<attempt, jobState, outcome, pstate, child>>
  BY DEF StepOk, pmVars
<1>2. cur \in Nat /\ cur + 1 \in Nat /\ \A i \in Jobs : StepOf[i] \in Nat
  BY RunAssumption DEF RunInv, TypeOK
<1>3. Final
  BY <1>1 DEF Final
<1>4. /\ procs \subseteq JobsOf(cur) /\ JobsOf(cur) \subseteq Jobs
      /\ \A i \in Jobs : Proc(i) \in Procs
      /\ \A i \in Jobs : StepOf[i] = cur <=> i \in JobsOf(cur)
  BY <1>1, Positions DEF RunInv, LoopInv, JobsOf
<1>5. ASSUME NEW i \in Jobs, StepOf[i] = cur
      PROVE  Explained(i)
  <2>1. CASE i \notin procs
    BY <1>1, <1>4, <1>5, <2>1 DEF ExplainInv, CollectedInv, Recorded, Explained
  <2>2. CASE i \in procs /\ jobState[i] # "error"
    BY <1>1, <2>2 DEF ExplainInv, CollectedInv, Recorded, Explained
  <2>3. CASE i \in procs /\ jobState[i] = "error"
    <3>1. pstate[Proc(i)] = "exception"
      BY <1>1, <2>3 DEF ExplainInv, CollectedInv, Recorded
    <3>2. PICK k \in procs : pstate[Proc(k)] = "success"
      BY <1>1, <2>3, <3>1 DEF ExplainInv, CollectedInv
    <3>3. outcome[Proc(k)] = "success" /\ k \in JobsOf(StepOf[i])
      BY <1>4, <1>5, <3>2 DEF RunInv, PMInv, ReportedStateIsTrue, Results
    <3>4. QED
      BY <2>3, <3>3 DEF Explained
  <2>4. QED
    BY <2>1, <2>2, <2>3
<1>6. ASSUME NEW i \in Jobs, StepOf[i] < cur + 1
      PROVE  Explained(i)' /\ ~ Alive(Proc(i))'
  <2>1. StepOf[i] < cur \/ StepOf[i] = cur
    BY <1>2, <1>6
  <2>2. Explained(i)
    BY <1>1, <1>5, <2>1 DEF ExplainInv
  <2>3. ~ Alive(Proc(i))
    BY <1>1, <1>4, <2>1, Positions DEF RunInv, AttemptInv, LoopInv, Attempts
  <2>4. ~ Alive(Proc(i))'
    BY <1>1, <2>3 DEF Alive, Proc
  <2>5. QED
    BY <1>1, <1>3, <2>2, <2>4, ExplainedKept
<1>7. runState # "ok"
  BY <1>1 DEF ExplainInv
<1>8. QED
  BY <1>1, <1>2, <1>6, <1>7, EnterExplains

\* do_run executes the run, again for a failed one, and posts its result.
LEMMA DoRunExplains ==
  ASSUME RunInv, ExplainInv, BeginRun \/ Retry \/ GiveUp \/ PostCallback
  PROVE  ExplainInv'
<1>1. CASE BeginRun \/ Retry
  <2>1. EnterStep(1) /\ UNCHANGED jobState /\ runState # "ok"
    BY <1>1 DEF BeginRun, Retry, ExplainInv
  <2>2. \A j \in Jobs : ~ (StepOf[j] < 1)
    BY RunAssumption
  <2>3. QED
    BY <2>1, <2>2, EnterExplains
<1>2. CASE GiveUp
  BY <1>2 DEF GiveUp, ExplainInv, CollectedInv, OkRunIsExplained
<1>3. CASE PostCallback
  <2>1. /\ pc = "finally" /\ pc' = "done"
        /\ UNCHANGED <<attempt, runState, jobState, outcome, pstate, child>>
    BY <1>3 DEF PostCallback, pmVars
  <2>2. Final
    BY <2>1 DEF Final
  <2>3. \A j \in Jobs : Explained(j) => Explained(j)'
    BY <2>1, <2>2, ExplainedKept
  <2>4. QED
    BY <2>1, <2>3 DEF ExplainInv, CollectedInv, OkRunIsExplained, Alive, Proc
<1>4. QED
  BY <1>1, <1>2, <1>3

\* A method saves "running" over the record of a job of a step that is over, or
\* of one that was collected, only for an aborted attempt.
LEMMA SavesExplain ==
  ASSUME RunInv, ExplainInv, NEW j \in Jobs, MethodSaves(j)
  PROVE  ExplainInv'
<1>1. /\ UNCHANGED <<pc, attempt, cur, job, todo, procs, runState, stepState>>
      /\ UNCHANGED <<child, outcome, pstate>>
      /\ jobState' = [jobState EXCEPT ![j] = "running"]
  BY DEF MethodSaves, pmVars
<1>2. PICK a \in Attempts : child[<<a, j>>] \in {"running", "inline"}
  BY DEF MethodSaves
<1>3. pc # "queued" /\ attempt \in Attempts /\ a <= attempt
  <2>1. attempt \in 0..2
    BY DEF RunInv, TypeOK
  <2>2. ~ (a > attempt)
    BY <1>2 DEF RunInv, AttemptInv
  <2>3. QED
    BY <2>1, <2>2 DEF RunInv, AttemptInv, Attempts
<1>4. jobState'[j] = "running" /\ \A i \in Jobs \ {j} : jobState'[i] = jobState[i]
  BY <1>1 DEF RunInv, TypeOK
<1>5. ~ Alive(Proc(j)) => Orphaned(j)'
  BY <1>1, <1>2, <1>3 DEF Alive, Proc, Attempts, Orphaned
<1>6. Final
  BY <1>1 DEF Final
<1>7. \A i \in Jobs : i # j \/ ~ Alive(Proc(j)) =>
        /\ Explained(i) => Explained(i)'
        /\ Recorded(i) => Recorded(i)'
  <2>1. ASSUME NEW i \in Jobs, i # j
        PROVE  /\ Explained(i) => Explained(i)'
               /\ Recorded(i) => Recorded(i)'
    BY <1>1, <1>3, <1>4, <1>6, <2>1, ExplainedKept, RecordedKept
  <2>2. ~ Alive(Proc(j)) => Explained(j)' /\ Recorded(j)'
    BY <1>4, <1>5 DEF Explained, Recorded
  <2>3. QED
    BY <2>1, <2>2
<1>8. /\ JobsOf(cur)' = JobsOf(cur)
      /\ \A i \in Jobs : Proc(i)' = Proc(i) /\ (Alive(Proc(i))' <=> Alive(Proc(i)))
  BY <1>1 DEF JobsOf, Proc, Alive
<1>9. /\ procs \subseteq Jobs /\ JobsOf(cur) \subseteq Jobs /\ todo \subseteq Jobs
      /\ procs \subseteq JobsOf(cur)
  BY DEF JobsOf, RunInv, TypeOK, LoopInv
<1>10. pc \in {"start", "clear", "inline", "poll", "collect"} =>
         \A i \in JobsOf(cur) \ (todo \cup procs) : ~ Alive(Proc(i))
  BY DEF RunInv, LoopInv, InlineInv
<1>11. pc = "collect" => \A i \in JobsOf(cur) : ~ Alive(Proc(i))
  BY DEF RunInv, LoopInv
<1>12. pc \in {"start", "clear", "inline", "poll", "collect"} =>
         \A i \in Jobs : StepOf[i] < cur => ~ Alive(Proc(i))
  BY <1>3 DEF RunInv, AttemptInv, Attempts
<1>13. CollectedInv'
  <2>1. pc \in {"start", "clear", "inline", "poll", "collect"} =>
          \A i \in JobsOf(cur) \ (todo \cup procs) : Recorded(i)'
    BY <1>7, <1>9, <1>10 DEF ExplainInv, CollectedInv
  <2>2. pc = "collect" => \A i \in procs \ todo :
          \/ Recorded(i)'
          \/ jobState'[i] = "error" /\ pstate[Proc(i)] = "exception"
          \/ jobState'[i] = "running" /\ pstate[Proc(i)] = "killed"
    <3>1. ASSUME pc = "collect", NEW i \in procs \ todo
          PROVE  \/ Recorded(i)'
                 \/ jobState'[i] = "error" /\ pstate[Proc(i)] = "exception"
                 \/ jobState'[i] = "running" /\ pstate[Proc(i)] = "killed"
      <4>1. CASE i = j
        BY <1>4, <1>5, <1>9, <1>11, <3>1, <4>1 DEF Recorded
      <4>2. CASE i # j
        BY <1>4, <1>7, <1>9, <3>1, <4>2 DEF ExplainInv, CollectedInv
      <4>3. QED
        BY <4>1, <4>2
    <3>2. QED
      BY <3>1
  <2>3. QED
    BY <1>1, <1>8, <1>9, <2>1, <2>2 DEF ExplainInv, CollectedInv
<1>14. pc \in {"start", "clear", "inline", "poll", "collect"} =>
         \A i \in Jobs : StepOf[i] < cur => Explained(i)'
  BY <1>7, <1>12 DEF ExplainInv
<1>15. runState = "ok" => \A i \in Jobs : Explained(i)' /\ ~ Alive(Proc(i))
  BY <1>7 DEF ExplainInv, OkRunIsExplained
<1>16. QED
  BY <1>1, <1>8, <1>13, <1>14, <1>15 DEF ExplainInv, OkRunIsExplained

\* Every step of the run preserves ExplainInv.
LEMMA ExplainNext ==
  ASSUME RunInv, ExplainInv, [Next]_vars
  PROVE  ExplainInv'
<1>1. ASSUME Settled, UNCHANGED runVars
      PROVE  ExplainInv'
  BY <1>1, SettledFinal, StillExplains DEF runVars, Settled
<1>2. CASE \E p \in Procs : ChildStep(p) /\ UNCHANGED runVars
  BY <1>1, <1>2, PMChildStep DEF RunInv
<1>3. CASE \E p \in Procs : Clear(p)
  BY <1>1, <1>3, PMClearStep DEF RunInv, Clear
<1>4. CASE \E j \in Jobs : Poll(j)
  <2>1. PICK j \in Jobs : Poll(j)
    BY <1>4
  <2>2. Managed(Proc(j)) /\ Proc(j) \in Procs
    BY <2>1, Positions DEF Poll, Managed, RunInv, LoopInv
  <2>3. Settled /\ UNCHANGED runVars
    BY <2>1, <2>2, PMSync DEF Poll, RunInv
  <2>4. QED
    BY <1>1, <2>3
<1>5. CASE UNCHANGED vars
  BY <1>1, <1>5, PMStutter DEF vars, runVars, pmVars, RunInv
<1>6. ASSUME NEW j \in Jobs, Expire(j)
      PROVE  ExplainInv'
  <2>1. Final
    BY <1>6, PMStutter, SettledFinal DEF Expire, RunInv
  <2>2. \A i \in Jobs : jobState'[i] \in {jobState[i], "expired"}
    BY <1>6 DEF Expire, RunInv, TypeOK
  <2>3. \A p \in Procs : Alive(p)' => Alive(p)
    BY <1>6 DEF Expire, pmVars, Alive
  <2>4. QED
    BY <1>6, <2>1, <2>2, <2>3, StillExplains DEF Expire
<1>7. ASSUME \/ \E j \in Jobs : \/ LoadFails(j) \/ StartFails(j) \/ PollFails(j)
                                \/ CollectFails(j)
             \/ ClearFails \/ InlineError \/ InlineQuits \/ SaveFails \/ StepError
      PROVE  ExplainInv'
  <2>1. pc' \in {"raised", "finally"}
    BY <1>7 DEF LoadFails, StartFails, PollFails, CollectFails, ClearFails, InlineError,
       InlineQuits, SaveFails, StepError, Raise
  <2>2. runState' \in {runState, "error"} /\ pc \notin {"finally", "done"}
    BY <1>7 DEF LoadFails, ExecutesJob, StartsJob, StartFails, PollFails, CollectFails,
       ClearFails, InlineError, InlineQuits, InlineEnds, SaveFails, StepError
  <2>3. runState' # "ok"
    BY <2>2 DEF ExplainInv
  <2>4. QED
    BY <2>1, <2>3, RaisedExplains
<1>8. CASE \E j \in Jobs : \/ FakeExec(j) \/ StartInline(j) \/ StartProcess(j)
                           \/ StartClears(j) \/ Collect(j) \/ MethodSaves(j)
  BY <1>8, StartExplains, CollectExplains, SavesExplain
<1>9. CASE \/ StartCleared \/ InlineOk \/ AllStarted \/ AllDone \/ StepOk
           \/ BeginRun \/ Retry \/ GiveUp \/ PostCallback
  BY <1>9, StartedExplains, AllDoneExplains, StepOkExplains, DoRunExplains
<1>10. QED
  BY <1>2, <1>3, <1>4, <1>5, <1>6, <1>7, <1>8, <1>9 DEF Next, Worker, WorkerStep, JobStep

\* RunStep.execute, Run.execute: a run that ends "ok" has an explanation for
\* every job, whatever the number of steps, jobs and processes.
THEOREM OkRunsAreExplained == Spec => []OkRunIsExplained
<1>1. Init => RunInv /\ ExplainInv
  <2>1. Init => ExplainInv
    BY DEF Init, ExplainInv, CollectedInv, OkRunIsExplained
  <2>2. QED
    BY <2>1, RunInitInv
<1>2. (RunInv /\ ExplainInv) /\ [Next]_vars => (RunInv /\ ExplainInv)'
  BY RunNextInv, ExplainNext
<1>3. ExplainInv => OkRunIsExplained
  BY DEF ExplainInv
<1>4. QED
  BY <1>1, <1>2, <1>3, PTL DEF Spec
-----------------------------------------------------------------------------
(***************************************************************************)
(* Every step of RunExecution is a step of StagedRun or a stutter.         *)
(***************************************************************************)

\* The status of a job, from what its process of the current attempt does.
LEMMA StatusOf ==
  ASSUME RunInv, pc # "queued", NEW j \in Jobs
  PROVE  /\ Status \in [Jobs -> {"waiting", "active", "ended"}]
         /\ Status[j] = "waiting" <=> child[Proc(j)] \in {"none", "failed"}
         /\ Status[j] = "active" <=> Alive(Proc(j))
         /\ Status[j] = "ended" <=> child[Proc(j)] \notin {"none", "failed"} /\ ~ Alive(Proc(j))
<1>1. attempt # 0
  BY Positions DEF Attempts
<1>2. QED
  BY <1>1 DEF Status, Alive

\* A new attempt is a try: none of its processes exists.
LEMMA TryStep ==
  ASSUME RunInv, BeginRun \/ Retry
  PROVE  Staged!Try
<1>1. /\ pc # "done" /\ pc' # "done"
      /\ attempt \in Nat /\ attempt < 2 /\ attempt' = attempt + 1 /\ attempt' \in Attempts
      /\ UNCHANGED child
  BY DEF BeginRun, Retry, EnterStep, RunInv, AttemptInv, Attempts, pmVars
<1>2. \A j \in Jobs : child[<<attempt', j>>] = "none"
  BY <1>1 DEF RunInv, AttemptInv
<1>3. Status' = [j \in Jobs |-> "waiting"]
  BY <1>1, <1>2 DEF Status, Proc
<1>4. (pc = "done") = FALSE /\ (pc' = "done") = FALSE
  BY <1>1
<1>5. QED
  BY <1>1, <1>3, <1>4 DEF Staged!Try

\* A start is one: nothing of an earlier step is active, nothing of a later
\* one was started.
LEMMA StartStep ==
  ASSUME RunInv, NEW j \in todo, pc \in {"start", "clear"}, pc' # "done",
         child[Proc(j)] = "none", UNCHANGED attempt, NEW c \in {"running", "inline"},
         child' = [child EXCEPT ![Proc(j)] = c]
  PROVE  Staged!Start(j)
<1>1. j \in Jobs /\ StepOf[j] = cur /\ attempt \in Attempts /\ Proc(j) \in Procs
  BY Positions DEF RunInv, LoopInv
<1>2. \A k \in Jobs : StepOf[k] \in Nat
  BY RunAssumption
<1>3. ASSUME NEW k \in Jobs
      PROVE  /\ StepOf[k] < StepOf[j] => Status[k] # "active"
             /\ StepOf[k] > StepOf[j] => Status[k] = "waiting"
  BY <1>1, <1>2, StatusOf DEF RunInv, AttemptInv, Attempts
<1>4. Status[j] = "waiting"
  BY <1>1, StatusOf
<1>5. Status' = [Status EXCEPT ![j] = "active"]
  <2>1. \A k \in Jobs : Proc(k)' = Proc(k) /\ Proc(k) \in Procs /\ (k # j => Proc(k) # Proc(j))
    BY <1>1, Positions DEF Proc
  <2>2. child \in [Procs -> ChildStates]
    BY DEF RunInv, PMInv, PMTypeOK
  <2>3. \A k \in Jobs : Status'[k] = IF k = j THEN "active" ELSE Status[k]
    <3>1. attempt # 0
      BY <1>1 DEF Attempts
    <3>2. child'[Proc(j)] \in {"running", "inline"}
      BY <1>1, <2>2
    <3>3. \A k \in Jobs \ {j} : child'[Proc(k)] = child[Proc(k)]
      BY <2>1, <2>2
    <3>4. Status'[j] = "active"
      BY <1>1, <2>1, <3>1, <3>2 DEF Status, Alive
    <3>5. \A k \in Jobs \ {j} : Status'[k] = Status[k]
      BY <2>1, <3>1, <3>3 DEF Status, Alive
    <3>6. QED
      BY <3>4, <3>5
  <2>4. /\ Status = [k \in Jobs |-> Status[k]]
        /\ Status' = [k \in Jobs |-> Status'[k]]
    BY DEF Status
  <2>5. QED
    BY <2>3, <2>4
<1>6. (pc = "done") = FALSE /\ (pc' = "done") = FALSE
  OBVIOUS
<1>7. attempt > 0
  BY <1>1 DEF Attempts
<1>8. QED
  BY <1>1, <1>3, <1>4, <1>5, <1>6, <1>7 DEF Staged!Start

\* At most one process ends in a step: its job ends, or it belongs to an
\* attempt that was given up.
LEMMA EndStep ==
  ASSUME RunInv, UNCHANGED attempt, (pc' = "done") = (pc = "done"),
         NEW p \in Procs, \A q \in Procs \ {p} : child'[q] = child[q],
         child'[p] = "none" <=> child[p] = "none",
         child'[p] = "failed" <=> child[p] = "failed", Alive(p)' => Alive(p)
  PROVE  [Staged!Next]_(Staged!vars)
<1>1. CASE attempt = 0
  BY <1>1 DEF Status, Staged!vars
<1>2. CASE attempt # 0
  <2>1. pc # "queued"
    BY <1>2 DEF RunInv, AttemptInv
  <2>2. \A k \in Jobs : Proc(k)' = Proc(k) /\ Proc(k) \in Procs
    BY <2>1, Positions DEF Proc
  <2>3. \A k \in Jobs : Proc(k) # p =>
          Status'[k] = Status[k]
    BY <1>2, <2>2 DEF Status, Alive
  <2>4. CASE Status' = Status
    BY <2>4 DEF Staged!vars
  <2>5. CASE Status' # Status
    <3>1. Status \in [Jobs -> {"waiting", "active", "ended"}]
          /\ Status' = [j \in Jobs |-> Status'[j]]
      BY DEF Status
    <3>2. PICK j \in Jobs : Status'[j] # Status[j]
      BY <2>5, <3>1
    <3>3. p = Proc(j)
      BY <2>3, <3>2
    <3>4. Status[j] = "active" /\ Status'[j] = "ended"
      BY <1>2, <2>2, <3>2, <3>3 DEF Status, Alive
    <3>5. \A k \in Jobs \ {j} : Status'[k] = Status[k]
      BY <2>1, <2>3, <3>3, Positions
    <3>6. Status' = [Status EXCEPT ![j] = "ended"]
      BY <3>1, <3>4, <3>5
    <3>7. Staged!End(j)
      BY <3>4, <3>6 DEF Staged!End
    <3>8. QED
      BY <3>7 DEF Staged!Next
  <2>6. QED
    BY <2>4, <2>5
<1>3. QED
  BY <1>1, <1>2

\* A step that settles nobody but p, and starts nobody, in the same attempt.
LEMMA SettledStep ==
  ASSUME RunInv, Settled, UNCHANGED attempt, (pc' = "done") = (pc = "done"),
         \E p \in Procs : \A q \in Procs \ {p} : child'[q] = child[q]
  PROVE  [Staged!Next]_(Staged!vars)
  BY EndStep DEF Settled

\* A step that touches neither children nor attempt is no step of StagedRun.
LEMMA StutterStep ==
  ASSUME UNCHANGED <<child, attempt>>, (pc' = "done") = (pc = "done")
  PROVE  UNCHANGED Staged!vars
  BY DEF Staged!vars, Status, Alive, Proc

\* Every step of a run is a step of the staged run, or none.
LEMMA StagedStep ==
  ASSUME RunInv, [Next]_vars
  PROVE  [Staged!Next]_(Staged!vars)
<1>1. CASE BeginRun \/ Retry
  BY <1>1, TryStep DEF Staged!Next
<1>2. ASSUME NEW j \in Jobs, StartProcess(j) \/ StartInline(j)
      PROVE  [Staged!Next]_(Staged!vars)
  <2>1. /\ j \in todo /\ pc = "start" /\ pc' # "done" /\ UNCHANGED attempt
        /\ child' = [child EXCEPT ![Proc(j)] = "running"]
           \/ child' = [child EXCEPT ![Proc(j)] = "inline"]
    BY <1>2 DEF StartProcess, StartInline, ExecutesJob, StartsJob, Fork
  <2>2. child[Proc(j)] = "none"
    BY <2>1 DEF RunInv, LoopInv
  <2>3. Staged!Start(j)
    BY <2>1, <2>2, StartStep
  <2>4. QED
    BY <2>3 DEF Staged!Next
<1>3. CASE StartCleared
  <2>1. /\ job \in todo /\ pc = "clear" /\ pc' # "done" /\ UNCHANGED attempt
        /\ child' = [child EXCEPT ![Proc(job)] = "running"]
        /\ child[Proc(job)] = "none"
    BY <1>3 DEF StartCleared, Fork, RunInv, InlineInv
  <2>2. Staged!Start(job)
    BY <2>1, StartStep
  <2>3. job \in Jobs
    BY <2>1 DEF RunInv, TypeOK
  <2>4. QED
    BY <2>2, <2>3 DEF Staged!Next
<1>4. CASE InlineOk \/ InlineError \/ InlineQuits
  <2>1. /\ pc = "inline" /\ pc' # "done" /\ UNCHANGED attempt
        /\ child' = [child EXCEPT ![Proc(job)] = "exited"]
    BY <1>4 DEF InlineOk, InlineError, InlineQuits, InlineEnds, Raise
  <2>2. job \in Jobs /\ Proc(job) \in Procs /\ child[Proc(job)] = "inline"
    BY <2>1, Positions DEF RunInv, InlineInv
  <2>3. child \in [Procs -> ChildStates]
    BY DEF RunInv, PMInv, PMTypeOK
  <2>4. /\ \A q \in Procs \ {Proc(job)} : child'[q] = child[q]
        /\ child'[Proc(job)] = "exited"
    BY <2>1, <2>2, <2>3
  <2>5. (pc' = "done") = (pc = "done")
    BY <2>1
  <2>6. QED
    BY <2>1, <2>2, <2>4, <2>5, EndStep DEF Alive
<1>5. CASE PostCallback
  <2>1. /\ pc # "done" /\ pc' = "done" /\ attempt > 0 /\ UNCHANGED <<attempt, child>>
    BY <1>5 DEF PostCallback, RunInv, AttemptInv, TypeOK, pmVars
  <2>2. (pc = "done") = FALSE /\ (pc' = "done") = TRUE
    BY <2>1
  <2>3. Status' = Status
    BY <2>1 DEF Status, Alive, Proc
  <2>4. Staged!Report
    BY <2>1, <2>2, <2>3 DEF Staged!Report
  <2>5. QED
    BY <2>4 DEF Staged!Next
<1>6. ASSUME NEW p \in Procs, ChildStep(p), UNCHANGED runVars
      PROVE  [Staged!Next]_(Staged!vars)
  <2>1. Settled
    BY <1>6, PMChildStep DEF RunInv
  <2>2. \A q \in Procs \ {p} : child'[q] = child[q]
    BY <1>6 DEF ChildStep, Return, ReturnLong, ReturnRest, Exit, Flood, Die,
       RunInv, PMInv, PMTypeOK
  <2>3. QED
    BY <1>6, <2>1, <2>2, SettledStep DEF runVars
<1>7. ASSUME NEW p \in Procs, Clear(p)
      PROVE  [Staged!Next]_(Staged!vars)
  <2>1. Settled
    BY <1>7, PMClearStep DEF RunInv, Clear
  <2>2. \A q \in Procs \ {p} : child'[q] = child[q]
    BY <1>7 DEF Clear, ClearStep, ClearPop, ClearKeep, ClearTimeout, Sync, Kill,
       RunInv, PMInv, PMTypeOK
  <2>3. QED
    BY <1>7, <2>1, <2>2, SettledStep DEF Clear, runVars
<1>8. CASE ClearFails
  <2>1. Settled
    BY <1>8, PMClearRaises DEF RunInv, ClearFails
  <2>2. \E p \in Procs : Sync(p) \/ SyncRaises(p) \/ KillFails(p)
    BY <1>8 DEF ClearFails, RemainingRaises, ClearRaises, RunInv, PMInv, PMTypeOK
  <2>3. \E p \in Procs : \A q \in Procs \ {p} : child'[q] = child[q]
    BY <2>2 DEF Sync, SyncRaises, KillFails, RunInv, PMInv, PMTypeOK
  <2>4. UNCHANGED attempt /\ (pc' = "done") = (pc = "done")
    BY <1>8 DEF ClearFails, Raise
  <2>5. QED
    BY <2>1, <2>3, <2>4, SettledStep
<1>9. ASSUME NEW j \in Jobs, Poll(j) \/ PollFails(j)
      PROVE  [Staged!Next]_(Staged!vars)
  <2>1. pc = "poll" /\ j \in procs /\ UNCHANGED <<processes, clearing, attempt>>
        /\ (Sync(Proc(j)) \/ SyncRaises(Proc(j))) /\ pc' # "done"
    BY <1>9 DEF Poll, PollFails, Raise, runVars
  <2>2. Proc(j) \in Procs /\ Managed(Proc(j))
    BY <2>1, Positions DEF RunInv, LoopInv, Managed
  <2>3. Settled
    BY <2>1, <2>2, PMSync DEF RunInv
  <2>4. \A q \in Procs \ {Proc(j)} : child'[q] = child[q]
    BY <2>1, <2>2 DEF Sync, SyncRaises, RunInv, PMInv, PMTypeOK
  <2>5. (pc' = "done") = (pc = "done")
    BY <2>1
  <2>6. QED
    BY <2>1, <2>2, <2>3, <2>4, <2>5, SettledStep
<1>10. CASE \/ AllStarted \/ AllDone \/ StepOk \/ StepError \/ SaveFails \/ GiveUp
            \/ \E j \in Jobs : \/ FakeExec(j) \/ LoadFails(j) \/ StartClears(j)
                               \/ Collect(j) \/ CollectFails(j) \/ MethodSaves(j)
                               \/ Expire(j)
            \/ UNCHANGED vars
  <2>1. UNCHANGED <<child, attempt>>
    BY <1>10 DEF AllStarted, AllDone, StepOk, StepError, SaveFails, GiveUp, FakeExec, LoadFails,
       StartClears, Collect, CollectFails, MethodSaves, Expire, StartsJob, ExecutesJob,
       pmVars, vars
  <2>2. (pc' = "done") = (pc = "done")
    BY <1>10 DEF AllStarted, AllDone, StepOk, StepError, SaveFails, GiveUp, FakeExec, LoadFails,
       StartClears, Collect, CollectFails, MethodSaves, Expire, StartsJob, ExecutesJob,
       Raise, EnterStep, vars
  <2>3. QED
    BY <2>1, <2>2, StutterStep
<1>11. ASSUME NEW j \in Jobs, StartFails(j)
       PROVE  [Staged!Next]_(Staged!vars)
  <2>1. /\ pc \in {"start", "clear"} /\ pc' # "done" /\ UNCHANGED attempt
        /\ child[Proc(j)] = "none" /\ child' = [child EXCEPT ![Proc(j)] = "failed"]
    BY <1>11 DEF StartFails, ForkFails, Raise
  <2>2. \A k \in Jobs : Proc(k)' = Proc(k) /\ Proc(k) \in Procs
    BY <2>1, Positions DEF Proc
  <2>3. child \in [Procs -> ChildStates]
    BY DEF RunInv, PMInv, PMTypeOK
  <2>4. Status' = Status
    BY <2>1, <2>2, <2>3 DEF Status, Alive
  <2>5. (pc' = "done") = (pc = "done")
    BY <2>1
  <2>6. QED
    BY <2>1, <2>4, <2>5 DEF Staged!vars
<1>12. QED
  BY <1>1, <1>2, <1>3, <1>4, <1>5, <1>6, <1>7, <1>8, <1>9, <1>10, <1>11
     DEF Next, Worker, WorkerStep, JobStep

\* Run.execute and do_run implement the staged run: barriers between the
\* steps, two tries at most, no job twice in a try, one report at the end.
THEOREM RunImplementsStaged == Spec => ImplementsStagedRun
<1>1. Init => Staged!Init
  <2>1. Init => (pc = "done") = FALSE
    BY DEF Init
  <2>2. QED
    BY <2>1 DEF Init, Staged!Init, Status
<1>2. RunInv /\ [Next]_vars => [Staged!Next]_(Staged!vars)
  BY StagedStep
<1>3. QED
  BY <1>1, <1>2, RunInvariant, PTL DEF Spec, ImplementsStagedRun, Staged!Spec
=============================================================================
