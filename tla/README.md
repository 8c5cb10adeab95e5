# JumpScale core: the AYS engine in TLA+

JumpScale's *at your service* (AYS) keeps a repository of services, each with
actions (`install`, `start`, `stop`, ...). Scheduling an action changes its
stored state, `runCreate` turns the scheduled actions of a repository into a
*run* of *steps* of *jobs*, and a worker of the AYS daemon executes the run by
forking a process per job. Services, their relations and the runs are records
in redis, found through indexes that are written separately. This directory
holds specifications of the parts of that path where order, concurrency and
failure matter, the TLC models that check them on small instances, and TLAPS
proofs that hold for every instance.

All paths below are under `src/lib/JumpScale/`; *ays* stands for
`baselib/atyourservice81`.

## 1. The system

| component | code | state it keeps | operations |
|---|---|---|---|
| process manager | `core/processmanager/ProcessManagerFactory.py` | `processes` of the factory; per process its `state`, pid, four pipes, what was read of them | `startProcess`, `getProcess`, `clear`; `start`, `sync`, `wait`, `close`, `isDone`, and the child from the fork to `os._exit` |
| run execution | `ays/AtYourServiceDaemon.py` (`do_run`), `baselib/jobcontroller/Run.py`, `Job.py` | `Run.state`, `RunStep.state`, the stored job state, the local dictionary of processes | `do_run`, `Run.execute`, `RunStep.execute`, `Job.execute`, `executeInProcess`, `_processError`, `save` |
| run planning | `ays/AtYourServiceDependencies.py`, `findScheduledActions` and `runCreate` of `AtYourServiceRepo.py`, `_build_actions_chain` of `models/ServiceModel.py` | the graph of nodes (service, action) | `build_nodes`, `create_graphs`, `addEdges`, `addConsumerEdges`, `get_task_batches` |
| job records | `jobcontroller/models/JobModel.py`, `JobsCollections.py` | a job per key, kept two days, and its index entry | `save`, `index`, `job_cleanup` |
| AYS daemon | `ays/AtYourServiceDaemon.py` (`Server`, `RecurringLoop`) | the command queue in redis, two pools of worker processes, two `_running` flags | `start`, `stop`, `_execute`, `_do_run`, `_progagate_event`, the recurring thread, `run_action` |
| service and action states | `ays/Service.py`, `ays/models/*.py`, `ays/ActionsBase.py` | the state, `lastRun` and period of each action, in memory and in the store | `scheduleAction`, `processChange`, `init_actions_`, `executeActionJob`, `Job.save`, `run_action` |
| service graph | `ays/Service.py`, `models/ServiceModel.py` | producers, consumers, parent of each service | create, `consume`, `delete`, `index` |
| key-value store | `servers/key_value_store/*.py` | the values, the index hash, the queues | `index`, `index_remove`, `list`, `queuePut`, `queueGet` |
| index of runs | `jobcontroller/models/RunModel.py`, `RunsCollection.py` | per state and date, the list of runs | `RunModel.index`, `find` |
| lock | `tools/lock/Lock.py` | a lock file | `lock`, `unlock`, which nothing calls |
| AYS client | `clients/atyourservice/Client.py` | none | pushes commands on the daemon's queue |
| actors, templates, blueprints | `ays/Actor.py`, `ActorTemplate.py`, `Blueprint.py` | files and their models | parsing, `init`, `update` |

How they meet:

* `ays` (the command line) or a client calls `runCreate`, which reads the
  store through the service models, and pushes `{'command': 'run', 'run_key'}`
  on the redis queue. The daemon pops it and hands `do_run` to a pool.
* `do_run` reads the run from the store and calls `Run.execute`, which calls
  `RunStep.execute`, which calls `Job.execute` for every job of the step; that
  is a `startProcess` of the process manager. A debug job runs in the worker
  itself (`executeInProcess`).
* `RunStep.execute` polls the processes with `sync` until all are done,
  then stores the state of the jobs and of the actions they stand for.
* the recurring thread walks all services and hands `run_action` to a pool of
  its own (its docstring says that it sends commands to the main thread; the
  code does not); it shares the stored services with the runs and with every command
  line, without a lock.

### What is hard, and what correctness means

* **process manager**: the parent knows of a child only what it reads
  of a pipe without blocking. The result may arrive in pieces, the child may
  block on a full stdout pipe, die without a result, or be killed between its
  result and the reading of it. *Correct*: a state the parent reports is one
  the child reached and is final; no running child leaves `processes`; the
  limit on processes holds.
* **run execution**: jobs of a step run in parallel and end in any order;
  starting, polling and collecting each raise in the middle; an exception makes
  `do_run` start over from the first step while processes of the first attempt
  run on. *Correct*: the barrier between steps, states that have a cause, one
  callback with the final state, an "ok" that can be explained.
* **run planning**: two directions of dependencies between services, chains
  of requirements within a service, a graph that must have no circle.
  *Correct*: what is waited for comes first, the plan holds what is needed and
  nothing else, it ends.
* **daemon**: a popped command lives in memory only; stopping races with a
  blocked `queueGet`; the recurring loop may dispatch what still runs.
  *Correct*: a command is executed at most once, a stopped daemon dispatches
  nothing, the loop keeps waking up.
* **service states**: read, change and save of whole services by processes
  that do not see each other. *Correct*: a scheduled action is not lost, `ok`
  means the job ended ok after the last change, `lastRun` survives.
* **service graph**: a relation stored at both ends, changed one end at a
  time, in records that are saved as a whole from copies of any age, and an
  index beside them. *Correct*: both ends agree after each operation, what is
  stored can be found, what was deleted does not come back.
* **key-value store and index of runs**: `index` reads, appends and writes, and
  `list` reads names first and values later. *Correct*: a run is listed once,
  under the state that is stored, and a listing that returns has it.

`PROJECT.json` lists each hazard at its line with the properties that watch it.

## 2. Modules

```
 ProcessManager  --EXTENDS--  ProcessClient      ProcessManagerProofs, ProcessClientProofs
       |
       +---------EXTENDS--  RunExecution         RunExecutionProofs
                                | implements
                            StagedRun
 RunPlanning                                     RunPlanningProofs
 ServiceActions                                  ServiceActionsProofs
 AysServer  --implements--  CommandQueue         AysServerProofs
 ServiceGraph                                    ServiceGraphProofs
 RunIndex                                        RunIndexProofs
```

The modules meet at values, not by EXTENDS: `RunPlanning` starts from the
records `ServiceGraph` and `ServiceActions` leave (`consumers` lost or kept,
any states), `RunExecution` is what one `run` task in `AysServer.tasks` does,
`ServiceActions` what an `execute` task or a recurring action does, `RunIndex`
what every save of a run in `RunExecution` does to the store, and a dangling
entry of `ServiceGraph` is what makes `AysServer.WalkRaises` happen.

### ProcessManager

State and primitives of the manager, without a caller. `child[p]` is where the
child is, `pipe[p]` what the parent has not read of its result (`head`: a first
piece, `tail`: a rest without its head, `result`: a whole line), `pstate[p]` is
`Process.state`, `processes` the dictionary of the factory, and `clearing` the
keys `clear()` still has to visit. `Return`, `ReturnLong`/`ReturnRest`, `Exit`,
`Flood` and `Die` are the child; `Fork`, `ForkFails`, `Sync`, `SyncRaises`,
`Reap`, `Kill`, `KillFails` and the `Clear...` operators are the parent.
`outcome[p]` is how the method ended, which no code of the parent can see: it is
what a reported state is compared with.

* A child is `leaving` from its result, which the parent can read, to the end of
  `_clean` and `os._exit` (`Exit`). A process whose `start()` raised is `failed`:
  it stays in the dictionary without a pid, and each `sync` of it raises.
* A `sync` that reads `head` consumes it and lets `json.loads` raise; when
  the rest arrives it is `tail`, which raises again.
* `wait()` takes the exit status and swallows what its `sync` raises: without a
  result the process is `reaped` and still `running` for the parent (`Reap`). A
  `close()` of it closes the pipe, then fails to kill (`KillFails`), and every
  later `sync` raises on the closed pipe.
* `close()` looks at the state before it kills. `Kill` lets the child return
  in between: `outcome` may become a result that nobody will ever read.
* `clear()` with a remaining process always raises: after its loop it formats
  a log line with `self.pid`, which a factory has not got
  (`RemainingRaises`). So `getProcess` never enters its waiting loop.

### ProcessClient

Any single-threaded caller: `StartProcess`, `Poll`, `Wait`, `CloseEnded`,
`CloseRunning` in any order; `StartFails` is a start that raises after
`getProcess`, `WaitReturns` a `Reap`, and a `Poll`, `CloseRunning` or `Clear` may
be one that raises as above. A start beyond the limit is in several steps,
`StartClears`, one `Clear` per key, then `StartCleared` or `StartRaises`, so that
children move in between.

### RunExecution

`do_run` for one run in one worker. `pc` is the place in the code: `start` is the
first loop of `RunStep.execute`, `clear` the `clear()` of a start at the limit,
`inline` a debug job in the worker, `poll` the polling loop, `collect` the last
loop, `raised` and `finally` are in `do_run`. `todo` is what the current loop
has still to visit (a set: the order of the jobs is any order, which covers
the list order), and `procs` the local dictionary. The process of job `j` in
attempt `a` is `<<a, j>>`: an attempt that gives up leaves its children running
and the second attempt meets them in `processes`.

Each `RunStep.execute` loop iteration is one action, since another child may
act between two of them; a whole `Collect` of one job (state of the job, of
the step, the stored job) is one action, since no other reader of these is
in this module, and `CollectFails` is one that an exception ends before, between
or after its assignments. `StartFails`, `ClearFails`, `PollFails` and `SaveFails`
raise elsewhere. `InlineQuits` is a debug job that raises `SystemExit`: neither
`executeInProcess` nor `do_run` catches it, and the `finally` of `do_run` posts
`running` without an error text (`Quit` in `CallbackIsFinal`). `MethodSaves` is a
method that saves the record of its job as it got it; for a child of the
aborted attempt that undoes what the second one stored, which is one more
explanation of a job of an ok run (`Orphaned`). `Expire` is the two days after
which redis forgets a job.

### StagedRun

What a run promises to somebody who sees no process: jobs in stages, at most
two tries, a job at most once per try, nothing started after the report.
`RunExecution` implements it with `try <- attempt`, `status <- Status`,
`reported <- pc = "done"`.

### RunPlanning

`runCreate` on one snapshot of a repository. `pc = "find"` and `"chain"` are
`findScheduledActions` with `_build_actions_chain`, whose recursion is kept as
a list of calls still to be made (`agenda`), with the actions each is made for
(`above`, the parameter `parents`). `"graph"` is `create_graphs`: `AddChain`
adds a chain, `AddEdges` is one visit of `addEdges` or `addConsumerEdges`.
`"batch"` is `get_task_batches` and the loop over the batches that makes the
steps. `Requires` is what `init_actions_` of the service's template returns, so
that templates with branching, circular or missing requirements are covered;
`VisitRaises` allows that method to raise at any call.

The order of a plan is stated by three properties of different reach.
`ProducersFirst` is about the same action of different services. `ChainInOrder`
is about every node of a chain, scheduled or not, and holds where no
action requires more than one other, as with the default `init_actions_`.
`RequiredFirst` holds for any requirements, but of scheduled actions only. Two
kinds of plan are in neither of the last two, and the model makes both:

* `create_graphs` takes the list of `_build_actions_chain`, which is in preorder,
  for a total order. Where `test` requires `install` and `start`, `start`
  requires `install`, and only `test` is scheduled, the list is
  `[test, install, start]` and the plan `{start}, {install}, {test}`: `start` is
  run before the `install` it requires. When `start` is scheduled too, the two lists
  contradict each other and a circle is reported.
* A producer that is planned on account of its consumers gets no edges between
  its own actions, so that its `install` and `start` may be in one step, whose jobs
  run in parallel.

A circle of producers makes `addEdges` recurse until Python raises; the model
raises when the chain is taken (`ChainFails`), since nothing of the graph is
used after the exception. A second visit of a node by `addEdges` adds nothing
and is left out.

### ServiceActions

The states of the actions of one service, which are one record in the store
(`stored`) and as many copies in memory as there are calls at work (`copy`,
and `outer` for the second copy of `run_action`). A task is one call: an edit
(`scheduleAction`, `processChange`, `init_actions_`, the command line's
`set_state`), a job of a run, `executeActionJob` or `run_action`. `home` is the
process of each task, 0 when it does not take place; the tasks of a process
follow each other, but the jobs of a step, whose methods run in children: the
job tasks of a process are one step of a run.
Loading and saving are separate actions, so that other processes act in
between; `MethodSaves` is a job's method that calls `service.saveAll()` with
the copy it was forked with, any number of times. `meant` and `first` are history:
the state last given to each action, and the record in the beginning.

* `init_actions_` gets `{'action': ...}` and looks at `action_required`: it
  resets nothing and saves what it was called with (`Plan`).
* `Job.save` reloads, sets the state of its own action and saves (`Reload`,
  `Store`). This is what makes `NothingLost` true within one process.
* `executeActionJob` sets `ok` in its own copy of the service and saves the
  job's copy, so the store keeps `running` (`DirectOk`).
  A job that failed is saved twice, by `_processError` and at the end of its
  collection (`stored`, `restoring`).
* An exception in the middle of the step makes `do_run` execute it once more
  (`Retry`; `again`, and `earlier` for how the first execution ended). What runs
  at that moment becomes `stray`, with the copy it has kept in `outer`, and may
  save it during and after the second execution (`StraySaves`). Nobody repairs
  that, so `NothingLost` holds of a second attempt only when no child of the first
  one is left.
* A worker that dies leaves its children running (`Crash`, `orphan`); an orphan
  may still save.
* The two reads of `run_action` are one step: nothing in it happens between
  them. A debug job in the worker, `lastRun`, and methods that schedule
  other actions are not in this module.

### AysServer and CommandQueue

The daemon in four threads of control: the main thread (`pc`), the thread that
calls `stop()` (`stopPc`), the recurring thread (`loopPc`) and the two pools.
Each action is one access to what the threads share: the two `_running` flags,
the list in redis, the pool. `Get` is the `blpop`, after which the command is in
`hand` only; `HandOver` and `Refused` are the two outcomes of `apply_async`.

* `_execute` logs a refusal, `_do_run` does not catch it: the exception leaves
  `start()` with `_running` still set (`pc = "raised"`).
* `actionsEvent` is defined by no model, so an event ends the main thread as
  soon as there is one service (`PropagateEvent`). The recurring thread goes on.
* `stop()` clears a flag that the other thread may not have set yet
  (`Start`/`Started`, `LoopBegins`): the daemon then runs on with a closed
  pool. `StopCompletes` is stated for a stop that finds both set, and
  `StoppedIsIdle` and `CommandQueue` hold in either case.
* the pool of the recurring thread is neither closed nor joined by `stop()`, so
  `pending` goes on after `stopped`, and only `tasks` is in `StoppedIsIdle`.
* `due` says that the period of an action has passed; `ActionEnds` may leave it
  set, since a raised `run_action` writes no `lastRun`. `seen` is what a walk
  knows of `due`: services are loaded at its beginning, the clock is read at
  each. `MaxPending` bounds how often one action is submitted again meanwhile.
* a crash loses all but the list, the records and what the workers still end.

`CommandQueue` is what a client may rely on: commands are taken in order, each
is given to a worker at most once, none while the daemon is closed. It does
not promise that a command is given: `NothingDropped` says when it may not be.

### ServiceGraph

`record` is the stored producers and consumers of each service, `index` the
entries `<<service, producer>>` of the hash, `copy[p]` the objects a process
holds. An operation is a list of steps (`todo`), each one access to the store:
`CreateSteps` is `Service.__init__`, `ConsumeSteps` `consume`, `DeleteSteps`
`delete`, which the steps `wants`, `parent` and `each` lengthen per producer, for
the parent and per child.
A save is two accesses, the record and then the entries (`mid`), a removal two
the other way round. Every step works on the copy the process holds, whatever
its age, as the code does.

* `saveAll` writes whole records: an old copy drops what others added and brings
  deleted services back. `fresh` says whether a copy was written past, and
  `doubt` collects what was written from one that was, or half done when an
  operation raised. The properties are about everything else.
* `delete()` changes its producers and consumers in memory and saves none of
  them: `EndsAgree` only speaks of services that are both stored.
* `consume` tests `service in self.producers`, which is a dictionary by role,
  so the early return is never taken.
* The entry without a producer stays when a service gets its first one; when
  `delete()` finds no producer, it passes an entry as a pattern that is the
  beginning of all entries of the service, so all go (`Remove`).
* `_initProducers` looks up all producers of a role before it links the first of
  them. Which producers share a role is left open (`WantSteps`), and a dangling entry
  of any service may be of the role that is asked for (`WantsStep`).
* A parent that is not listed any more when the creation gets to it is passed
  over; one that is, is looked up again at each use (`ParentStep`,
  `ParentSteps`).
* A `find` that meets an entry without a record raises (`FindRaises`), and
  `Service.__init__` then deletes what it has made so far (`Raise`).

A second object of one service in the same process behaves as the copy of
another process; one per process is kept. A name is not used twice.

### RunIndex

`RunModel.save` one access at a time: the record, the names of the fields, each
field, the `hdel` of the field that was found, `hget` and `hset` of the new one.
A field is a state and a date, its value the set of runs in it, which the code
keeps as text with commas. `Look` and `FindLook` raise on a field that another
save has removed. The date is the second in which a run was created, so that
two runs may share one: what happens to these is that entries are lost, and the
properties speak of runs that are `Alone` in their date, while runs that are
not disturb the same hash.

## 3. Runs

| run | instance | shows |
|---|---|---|
| `process_client` | 3 processes, limit 1, long results, floods, deaths, failing starts | true and final reports, no forgotten child, the limit |
| `run_execution` | 3 jobs in 2 steps, a debug job that may quit, limit 1, long results, deaths | barrier, causes, callback, explained ok, refinement of `StagedRun` |
| `run_liveness` | 2 jobs in 2 steps, limit 0, long results and floods | every run reaches its callback |
| `run_planning` | 3 services, `install`, `start`, `stop`, all orders of producers and a circle | producers before consumers, chains in order, exactness of the plan, no false circle for the default template |
| `run_planning_custom` | 2 services, templates that branch, loop and ask for what is missing | scheduled actions after what they require, and planning ends |
| `service_actions` | 2 actions; a step of two jobs with `set` or `chg` in its process or `pln` in another one, or any two tasks but `job2` in a process each | no state without a cause; within one process none is lost, also by a second attempt without stray children |
| `ays_server` | 2 commands out of one of each kind, 1 recurring action, 1 stop per daemon, 1 crash | refinement of `CommandQueue`, what may be dropped, idle after stop, liveness of all three threads |
| `service_graph` | a service, its child, one that consumes; 2 processes, 2 operations, crashes | found, both ends, no unknown names, children, no coming back |
| `run_index` | 3 runs, 2 of one date, 4 saves, 1 find, crashes | listed once under the stored state, complete listings |
| `run_stops_on_error` | violation | a failed job can be masked in its step |
| `service_run_action` | violation | `run_action` overwrites the state its job stored |
| `service_delete` | violation | a deleted service stays in the index |

The three violations are disagreements between the code and what its comments
say; `PROJECT.json` quotes the lines under `findings`.

* `StopsOnError`: each collected job overwrites the state of its step, so the
  job collected last decides (`Run.py:136`).
* `RunActionIsStored`: `run_action` holds a copy of the service from before its
  job, and `service.saveAll()` at its end (`AtYourServiceDaemon.py:23`) puts the
  old state back.
* `DeletedCompletely`: one process creates a service, has it consume another and
  deletes it. The entry from before the `consume` stays, names no record, and
  every later listing of the services raises: `ays` commands, further deletes,
  and the walk of the recurring thread, which ends (`WalkRaises`).

### Bounds, and why they are enough

* *Processes*: three against a limit of one. The limit is compared with `>`, so
  two are admitted and the third start clears; a `clear()` has then two keys to
  visit, the first of which may end or raise while the second is untouched. The
  real limit of 100 is `MaxProcesses`, which the proofs leave open.
* *Jobs*: two parallel jobs and a later step are the least that can mask an
  error, cross a barrier, or clear a process of an earlier attempt. The
  two attempts are the code's own bound. In `run_execution` a child can
  deliver in pieces or die but not flood; `process_client` has all three,
  `run_liveness` has floods, and the proofs cover every set of behaviours. A
  child that dies silently is polled for ever (`sync` reads an empty pipe as
  `running`), so `run_liveness` leaves deaths out, and no property says that such
  a run ends.
* *Planning*: with three services a chain of two producer edges exists, which
  is what a recursion that stops too early loses; one service lacks `stop`,
  where the recursion of `addConsumerEdges` ends although it has consumers;
  consumers are either those `consume()` stores or none, as after a lost
  write; one or two actions are scheduled and none, one or all others are
  `ok`. Requirements, producers and states are arbitrary in the proofs.
  `run_planning_custom` has no circle of producers; `run_planning` has one.
* *Service*: two actions, so that a save can overwrite the other one, and two
  jobs, so that a child can be older than a sibling's mark and a stray one older
  than what the second attempt stores. The two initial
  records have an action that is scheduled, `ok` (which `scheduleAction` keeps)
  and `disabled` (where it raises). Any number of tasks, processes and
  initial records is covered by the proofs.
* *Daemon*: two commands are the least that have an order and that can be
  doubled by a restart; one crash is followed by a whole second life. With one
  recurring action a round is one visit, and two submissions of it
  can be pending. The proofs have any number of each.
* *Graph*: parent, child and a consumer give every kind of step; two processes
  are the least that hold copies of different age. Two operations begin, any
  number of loads and one crash per process position come on top; `Init` ranges over all
  repositories that creations in any order leave, so both operations meet
  every relation. The consequences of three overlapping
  operations are left to the proofs, which cover every property of this run.
* *Runs*: with two runs in one field and one in another, a save removes a
  field under the hands of another save, of a find, or of both. Four saves let
  one run be saved twice while each of the others is saved.
* No counter of the models is unbounded; no state constraint is used.

`CHECK_DEADLOCK FALSE` is set since runs and plans end, and a caller of the
process manager may have nothing left to start.

### Fairness

`run_liveness` assumes weak fairness of the worker: a process of the operating
system that is never blocked in this path, since `RunStep.execute` polls
without blocking. Per child it assumes strong fairness of returning: a method
that floods its stdout is blocked until the parent drains it, so returning is
enabled again and again but not always. This is the assumption that job methods
terminate; nothing is assumed of floods, of partial writes or of expiry.
`run_planning_custom` assumes weak fairness of the one
thread that plans.

`ays_server` assumes weak fairness of the main thread, of the thread in
`stop()` and of the recurring thread (`Main`, `Stopping`, `Loop`), each of
which the operating system runs when it can, and of tasks ending, without which
`join()` may wait for ever. Strong fairness of `CleanedUp` says that
`job_cleanup` does not raise each time for ever. Nothing is assumed of clients,
of `stop()` being called, of the ends and periods of recurring actions, or of
restarts; a service that cannot be read (`WalkRaises`) may come at any
time, and the liveness properties name it as an excuse.

## 4. Proofs

All theorems are about the specifications TLC checks, for every value of the
constants allowed by `ManagerAssumption`, `RunAssumption`, `PlanAssumption`,
`ActionsAssumption`, `ServerAssumption`, `GraphAssumption` and
`IndexAssumption`, which only say what the constants are: of what type, and that
the services and actions of a repository are finitely many. Every safety
property of a passing run has a theorem.

**Process manager.** `ReportedStateIsTrue` and `NoForgottenChild` are not
inductive: a result in the pipe could be of a child that has none, or an
unstarted process could be in the dictionary. `PMInv` adds `WholeResult`,
`Unmanaged` and `Undecided`. `ProcessManagerProofs` shows once per primitive
that it preserves `PMInv` and, as `Settled`, that what is final stays so;
the two callers cite these lemmas. For `ProcessClient` the limit needs that
`processes` is finite, and that a `StartCleared` finds it empty.

**Run execution.** `StepBarrier` fails to be inductive for three reasons, each
a conjunct of `RunInv`: `AttemptInv` (nothing beyond the current step was
started, nothing before it is active, in the current attempt), `LoopInv` (the
loops know every active job of the step) and `InlineInv` (only the job at hand
runs inside the worker). `CauseInv` carries the cause of a step's error
to the error of the run. The proof has a lemma per action, grouped by what the
action leaves alone: `QuietInv` for all steps that start and end nothing,
`Grown` for those after which each process is at least as far as before.

`OkRunIsExplained` needs to know in the middle of a collection what has been
collected, relative to `RunInv`: an error that the state of the step no longer
shows is masked by a success among the collected jobs (`CollectedInv`), and the
steps before are explained already (`ExplainInv`). `Recorded` is what is known
of a job without a failure in the current attempt, whose record a child of the
aborted one may have set back. `CauseInv` also says that a first attempt gets to
the callback only if the run is ok or a debug job has quit.

**Refinement.** `RunImplementsStaged` maps each step of `RunExecution` to a
`Try`, `Start`, `End`, `Report` or a stutter of `StagedRun`. The invariant is
needed for `Start`: that no earlier stage is active and no later one has begun.

**Run planning.** `ProducersFirst` and `RequiredFirst` follow from
`PlanInv`: a chain being built holds or has still to visit what its actions
require (`ChainInv`), a finished chain is closed (`ChainsInv`), a visited
node has the edges to all it waits for (`GraphInv`), and a placed node has all
its successors placed (`BatchInv`). `Below` and `Required` are defined as
smallest closed sets, so the proof exhibits a closed set (what has been
placed) instead of an induction over the graph. `PlanIsExact` needs the other
direction too (`ExactInv`): every node, and every call still to be made, is
needed by a selected action. It holds since `Below` and `Required` are closed
themselves, so a step along an edge or a requirement stays within.
`LinearChainsInOrder` assumes `Linear` and proves `ChainInOrder`: with one successor each,
what an action requires is what follows it in its chain (`LineInv`), and along a
chain `BatchInv` places the later nodes first.

`NeverCircular` says that `create_graphs` places every node when the templates
agree on what an action requires, which is at most one other (`Linear`). An edge
leads to the same action of another service, of which there is no circle
(`FlowInv`), or to the next action of a chain, which is a `Line` as long as each
action has one successor (`LineInv`); both are `AcyclicInv`. The step that fails
would be one where every waiting node waits for another one. But along a chain
less is left to require, and along a link as much, with fewer services below.
So a waiting node with least `Required` and, of those, least `Below` waits for
none. Such a node exists since sets of members of a finite set cannot
shrink for ever (`SmallestSet`); this replaces an induction along the paths.

**Service actions.** `StatesHaveCause` becomes inductive when every copy has to
be explained too (`CauseInv`), since any copy may be saved at any time.
`NothingLost` is about the end of a step; in its middle the store does lose
states. `CurrentInv` says which: where the store, or a copy in use, differs from
what was meant, a job for that action is still to be stored (`Pending`).
`PhaseInv` says why storing it repairs this: while one job is stored, the
methods of all others have ended, so nobody saves an old copy. A second attempt
has every job of the step before it again, so that what the first one left
unrepaired is still pending (`RetryAlone`); this is relative to `Undisturbed`, that
no child of an aborted attempt or of a dead process is about.

**Daemon.** `DaemonIsQueue` maps each step of `AysServer` to a step or a stutter
of `CommandQueue`. What it needs beyond types is that the list is the end of
`put` (so that its length says how many were taken), that the command in hand is
the last one taken, and that `hand` is only set in `dispatch`; these are
the invariant. `NothingDropped` follows since a taken command leaves `hand` in
`HandOver` or where one of its excuses is true, and `crashes` and the kinds never
go back; a pool that is closed opens again with a restart only, which a
crash comes before. `StoppedIsIdle` needs that a closed pool takes nothing.

**Service graph.** What carries `StoredIsListed` is that an index step
adds at least one entry and that no step but `Remove` takes one away, of its
own service only; `mid` is the excuse until the record goes too. `NoComeBack`
needs that a process whose copy is fresh has one of a service that is not
deleted (`GoneInv`). The types are not immediate, since a step changes a copy
that an earlier step has to have loaded: `CopyInv` says of every step that is
left that its copy is there or that a `need` before it brings it, and the
lemmas show this of each sequence an operation is put together from; `Plans` are
those that `wants` and `parent` put before the others.

The properties of whole operations need to know what the steps that are left
will write. First, every step is of one of a few `Kinds`: one that writes nothing
and puts steps before the others (`Moves`, `Puts`), one that writes a record
(`Writes`), one that raises (`Breaks`), the two halves and a crash; each
further invariant is shown once per kind.

* `EndsAgree` rests on facts that never become false again: that a service
  was stored (`Seen`), and that a service named its producer (`Linked`), where
  what is deleted or in doubt counts. `FreshInv` (a fresh copy is what is stored) keeps `Linked` under
  writes of whole records, `KnownInv` and `CreatingInv` say that what is in
  memory was stored or is in its `__init__`, which ends with a save. `Orderly` says of the
  steps left that a producer is loaded before it is added, that its consumer is
  told after, and that no one tells it before. Then `EndsInv` is inductive: a
  consumer that is stored has a link, and a producer that is stored has its
  consumer, or an operation under way has still to tell it (`Pending`). At rest nothing is pending.
* `NamesWereStored` follows from the same order: what a write adds is a producer
  that was loaded, or a consumer that is linked, and both were stored; what it
  keeps is in the copy, for which `NamesInv` says the same.
* `ChildrenGoWithParent` is about the services that no deletion has reached
  (`Rest`). `Swept` says of the steps left that before a `remove` they look for
  the children, or remove each child in `Rest`. The look misses no child, since
  what is stored is listed (`ListInv`) and a parent that is not found has no
  child in `Rest` but one whose creation has yet to look for it
  (`ParentInv`). A child that a creation adds meanwhile is `late`, by
  the definition of the exception.

**Index of runs.** `DatesInv` keeps dates apart: a save removes and rewrites only
fields of the date of its run, so for a run that is alone nobody else touches the
field it is in. `AloneInv` then follows its own save: all the fields it is in
have been found before one is removed, and none is left when the new one is
written. `FindInv` says of a listing that it has still to read the field of a
quiet run or has the run.

**Only model-checked.** Liveness (`CallbackEventually`, `PlanningEnds`,
`CommandTaken`, `StopCompletes`, `DueIsDispatched`) is out of reach of the
prover. The three properties of the runs that expect a violation are false.

## 5. Not modelled, not covered

Some hazards that `PROJECT.json` lists are in the models but no property excludes
what they lead to, since the code does it:

* a child that dies silently makes its run poll for ever;
* `install` and `start` of a producer in one step, and the wrong order on
  branching chains (see `RunPlanning`); a plan with both `stop` and `start` of a
  service, for which `PlanIsExact` holds as well;
* a circle of producers, which is an exception by the definition of `ChainFails`;
* an event command that ends the main thread: the liveness properties excuse it
  (`Ended`);
* ends of relations that name a deleted service: `EndsAgree` is about pairs of stored
  services, and the entries of the index that name no record are seen only by
  `DeletedCompletely`.

What is left out of the models:


* **Process manager**: `startSync` (only its own tests call it). A child whose last
  flush blocks on a full stdout pipe is one in `Flood`.
* **Runs**: a store that fails again while `do_run` handles the exception of the
  first failure, in which case no callback is posted.
* **Runs**: `Run.reverse`, `Run.delete` and printing; `RunsCollection.delete`,
  which nothing calls; the filters of `find` on date and repository.
* **Planning**: one snapshot of the repository: that other processes write
  between its two reads is left out, and what `init_actions_` saves meanwhile
  is `Plan` of `ServiceActions`. A second plan of one process meets the default
  list `parents` with what an exception left in it (`ServiceModel.py:55`).
* **Service actions**: `lastRun` and the period (`AysServer` has them as `due`),
  debug jobs, methods that schedule other actions.
* **Service graph**: services created automatically (`auto`) as parents or
  producers, which are creations of their own inside another; `disabled`,
  which only hides services from listings; a name that is used again; files.
* **Daemon**: which entries `job_cleanup` removes. `stop()` is called by no
  command; its behaviour is what the code says it would be.
* **Index of jobs**: as that of runs without the removal of the old entry, so
  that stale entries are the rule; `job_cleanup` removes them by age.
* **Lock**: `Lock.lock` uses `self.cleanupString` and `Util`, which do not
  exist, so every call raises before it locks; nothing calls it.
* **Everything else**: the text of errors and logs, capnp and msgpack encoding,
  parsing of templates and blueprints, the installer, and the libraries under
  `sal/`, `clients/`, `servers/` and `tools/` that wrap other systems: they make up most
  of the repository, are sequential calls of external programs and remote
  interfaces, and keep no state whose steps a model could order.
