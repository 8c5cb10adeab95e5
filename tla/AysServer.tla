------------------------------ MODULE AysServer ------------------------------
(***************************************************************************)
(* The AYS daemon (AtYourServiceDaemon.py): the main thread of Server,     *)
(* which takes commands from a list in redis and hands them to a pool of   *)
(* worker processes; the thread RecurringLoop, which hands the recurring   *)
(* actions that are due to a pool of its own; and stop(), called by a      *)
(* third thread.  The daemon may crash at any time and be started again:   *)
(* the list in redis and the services survive, all else is lost.           *)
(*                                                                         *)
(* The clients (clients/atyourservice/Client.py) put each command once.    *)
(***************************************************************************)
EXTENDS Naturals, Sequences

CONSTANTS
  Commands,    \* requests on the list
  Kind,        \* what each of them asks for
  Recurring,   \* the recurring actions of all services
  None,        \* no command
  MaxPut,      \* bound: commands put
  MaxPending,  \* bound: submissions of one recurring action not yet ended
  MaxCrashes   \* bound: crashes of the daemon

\* "ignored" is whatever _dispatch or the decoding before it only logs: no
\* json, no dict, an unknown command, or one of its keys missing.
ASSUME ServerAssumption ==
  /\ Kind \in [Commands -> {"execute", "run", "event", "ignored"}]
  /\ None \notin Commands
  /\ MaxPut \in Nat
  /\ MaxPending \in Nat \ {0}
  /\ MaxCrashes \in Nat

VARIABLES
  put,          \* history: the commands clients have put, in that order
  queue,        \* the list in redis
  pc,           \* the main thread
  hand,         \* the command it has taken
  running,      \* Server._running
  pool,         \* whether the pool of the server takes tasks
  tasks,        \* the commands handed to that pool that have not ended
  handed,       \* history: the commands handed to workers, in that order
  stopPc,       \* the thread that calls stop()
  loopPc,       \* the recurring thread
  loopRunning,  \* RecurringLoop._running
  due,          \* the recurring actions whose period has passed
  seen,         \* of those still to be visited, the ones the walk finds due
  walk,         \* what this round has still to visit
  pending,      \* submissions to the pool of the loop that have not ended
  crashes

mainVars == <<pc, hand, running>>
loopVars == <<loopPc, loopRunning, due, seen, walk, pending>>
vars == <<put, queue, mainVars, pool, tasks, handed, stopPc, loopVars, crashes>>

TypeOK ==
  /\ put \in Seq(Commands) /\ queue \in Seq(Commands) /\ handed \in Seq(Commands)
  /\ pc \in {"new", "starting", "head", "get", "dispatch", "returned", "raised", "crashed"}
  /\ hand \in Commands \cup {None}
  /\ running \in BOOLEAN /\ loopRunning \in BOOLEAN
  /\ pool \in {"open", "closed"}
  /\ tasks \subseteq Commands
  /\ stopPc \in {"idle", "running", "close", "join", "stopped"}
  /\ loopPc \in {"new", "begin", "head", "cleanup", "walk", "done", "dead"}
  /\ due \subseteq Recurring /\ seen \subseteq Recurring /\ walk \subseteq Recurring
  /\ pending \in [Recurring -> 0..MaxPending]
  /\ crashes \in 0..MaxCrashes

\* Server.__init__, on a repository whose recurring actions never ran.
Init ==
  /\ put = <<>> /\ queue = <<>> /\ handed = <<>>
  /\ pc = "new" /\ hand = None /\ running = FALSE
  /\ pool = "open" /\ tasks = {} /\ stopPc = "idle"
  /\ loopPc = "new" /\ loopRunning = FALSE
  /\ due = Recurring /\ seen = {} /\ walk = {}
  /\ pending = [r \in Recurring |-> 0]
  /\ crashes = 0

Alive == pc # "crashed"
Elements(s) == {s[i] : i \in DOMAIN s}

(***************************************************************************)
(* Clients: Client._do puts a request at the end of the list.              *)
(***************************************************************************)
Put(c) ==
  /\ c \notin Elements(put)
  /\ Len(put) < MaxPut
  /\ put' = Append(put, c)
  /\ queue' = Append(queue, c)
  /\ UNCHANGED <<mainVars, pool, tasks, handed, stopPc, loopVars, crashes>>

(***************************************************************************)
(* The main thread: Server.start.                                          *)
(***************************************************************************)
\* start() returns when the thread of the loop runs; it sets _running after.
Start ==
  /\ pc = "new"
  /\ ~ running
  /\ loopPc = "new"
  /\ loopPc' = "begin"
  /\ pc' = "starting"
  /\ UNCHANGED <<put, queue, hand, running, pool, tasks, handed, stopPc,
                 loopRunning, due, seen, walk, pending, crashes>>

\* Mutant for CommandTaken: start() calls run() of the loop, not its start().
StartedAfterLoop ==
  /\ pc = "starting"
  /\ loopPc = "done"
  /\ running' = TRUE
  /\ pc' = "head"
  /\ UNCHANGED <<put, queue, hand, pool, tasks, handed, stopPc, loopVars, crashes>>

Started ==
  /\ pc = "starting"
  /\ running' = TRUE
  /\ pc' = "head"
  /\ UNCHANGED <<put, queue, hand, pool, tasks, handed, stopPc, loopVars, crashes>>

\* A second start() of a server that was stopped: Thread.start raises, since a
\* thread is started once.
StartAgain ==
  /\ pc = "returned"
  /\ pc' = "raised"
  /\ UNCHANGED <<put, queue, hand, running, pool, tasks, handed, stopPc, loopVars, crashes>>

LoopTest ==
  /\ pc = "head"
  /\ pc' = IF running THEN "get" ELSE "returned"
  /\ UNCHANGED <<put, queue, hand, running, pool, tasks, handed, stopPc, loopVars, crashes>>

\* Mutant for ImplementsQueue: queueFetch, which leaves the element on the list.
GetKeeps ==
  /\ pc = "get"
  /\ queue # <<>>
  /\ hand' = queue[1]
  /\ pc' = "dispatch"
  /\ UNCHANGED <<put, queue, running, pool, tasks, handed, stopPc, loopVars, crashes>>

\* Mutant for NothingDropped: start() loses what it took when queueGet returns
\* just before its timeout.
GetForgets ==
  /\ pc = "get"
  /\ queue # <<>>
  /\ queue' = Tail(queue)
  /\ \/ hand' = queue[1] /\ pc' = "dispatch"
     \/ hand' = None /\ pc' = "head"
  /\ UNCHANGED <<put, running, pool, tasks, handed, stopPc, loopVars, crashes>>

\* queueGet: blpop removes the first element, or times out on an empty list.
Get ==
  /\ pc = "get"
  /\ queue # <<>>
  /\ hand' = queue[1]
  /\ queue' = Tail(queue)
  /\ pc' = "dispatch"
  /\ UNCHANGED <<put, running, pool, tasks, handed, stopPc, loopVars, crashes>>

GetTimesOut ==
  /\ pc = "get"
  /\ queue = <<>>
  /\ pc' = "head"
  /\ UNCHANGED <<put, queue, hand, running, pool, tasks, handed, stopPc, loopVars, crashes>>

\* apply_async hands the command over; a closed pool raises instead.
HandOver ==
  /\ pool = "open"
  /\ tasks' = tasks \cup {hand}
  /\ handed' = Append(handed, hand)
  /\ pc' = "head"

Refused ==
  /\ pool = "closed"
  /\ UNCHANGED <<tasks, handed>>

\* _execute catches and logs what apply_async raises.
Execute ==
  /\ pc = "dispatch" /\ Kind[hand] = "execute"
  /\ HandOver \/ (Refused /\ pc' = "head")
  /\ hand' = None
  /\ UNCHANGED <<put, queue, running, pool, stopPc, loopVars, crashes>>

\* _do_run does not: the exception leaves start(), with _running still set.
DoRun ==
  /\ pc = "dispatch" /\ Kind[hand] = "run"
  /\ HandOver \/ (Refused /\ pc' = "raised")
  /\ hand' = None
  /\ UNCHANGED <<put, queue, running, pool, stopPc, loopVars, crashes>>

\* _progagate_event reads actionsEvent, which no model has, of the first
\* service it meets; without a service it does nothing.
PropagateEvent ==
  /\ pc = "dispatch" /\ Kind[hand] = "event"
  /\ pc' \in {"head", "raised"}
  /\ hand' = None
  /\ UNCHANGED <<put, queue, running, pool, tasks, handed, stopPc, loopVars, crashes>>

Ignore ==
  /\ pc = "dispatch" /\ Kind[hand] = "ignored"
  /\ pc' = "head"
  /\ hand' = None
  /\ UNCHANGED <<put, queue, running, pool, tasks, handed, stopPc, loopVars, crashes>>

Main ==
  Start \/ Started \/ LoopTest \/ Get \/ GetTimesOut \/ Execute \/ DoRun \/ PropagateEvent \/ Ignore

\* A worker ends what it was handed: do_run or run_action returned or raised.
TaskEnds(c) ==
  /\ c \in tasks
  /\ tasks' = tasks \ {c}
  /\ UNCHANGED <<put, queue, mainVars, pool, handed, stopPc, loopVars, crashes>>

(***************************************************************************)
(* Server.stop, by another thread, once in the life of a daemon.           *)
(***************************************************************************)
\* RecurringLoop.stop, when that thread is alive: it clears a flag that run()
\* may not have set yet.
StopLoop ==
  /\ Alive
  /\ stopPc = "idle"
  /\ loopRunning' = (loopRunning /\ loopPc \in {"new", "done", "dead"})
  /\ stopPc' = "running"
  /\ UNCHANGED <<put, queue, mainVars, pool, tasks, handed,
                 loopPc, due, seen, walk, pending, crashes>>

\* Mutant for StopCompletes: stop() forgets the flag of the main thread.
StopServerKeepsRunning ==
  /\ stopPc = "running"
  /\ stopPc' = "close"
  /\ UNCHANGED <<put, queue, pc, hand, running, pool, tasks, handed, loopVars, crashes>>

StopServer ==
  /\ stopPc = "running"
  /\ running' = FALSE
  /\ stopPc' = "close"
  /\ UNCHANGED <<put, queue, pc, hand, pool, tasks, handed, loopVars, crashes>>

ClosePool ==
  /\ stopPc = "close"
  /\ pool' = "closed"
  /\ stopPc' = "join"
  /\ UNCHANGED <<put, queue, mainVars, tasks, handed, loopVars, crashes>>

\* Mutant for StoppedIsIdle: stop() does not join the pool.
JoinPoolAtOnce ==
  /\ stopPc = "join"
  /\ stopPc' = "stopped"
  /\ UNCHANGED <<put, queue, mainVars, pool, tasks, handed, loopVars, crashes>>

JoinPool ==
  /\ stopPc = "join"
  /\ tasks = {}
  /\ stopPc' = "stopped"
  /\ UNCHANGED <<put, queue, mainVars, pool, tasks, handed, loopVars, crashes>>

Stopping == StopServer \/ ClosePool \/ JoinPool

(***************************************************************************)
(* RecurringLoop.run.                                                      *)
(***************************************************************************)
LoopBegins ==
  /\ Alive
  /\ loopPc = "begin"
  /\ loopRunning' = TRUE
  /\ loopPc' = "head"
  /\ UNCHANGED <<put, queue, mainVars, pool, tasks, handed, stopPc,
                 due, seen, walk, pending, crashes>>

LoopEnds ==
  /\ Alive
  /\ loopPc = "head"
  /\ ~ loopRunning
  /\ loopPc' = "done"
  /\ UNCHANGED <<put, queue, mainVars, pool, tasks, handed, stopPc,
                 loopRunning, due, seen, walk, pending, crashes>>

RoundBegins ==
  /\ Alive
  /\ loopPc = "head"
  /\ loopRunning
  /\ loopPc' = "cleanup"
  /\ UNCHANGED <<put, queue, mainVars, pool, tasks, handed, stopPc,
                 loopRunning, due, seen, walk, pending, crashes>>

\* Mutant for DueIsDispatched: break in the place of continue.
CleanupBreaks ==
  /\ Alive
  /\ loopPc = "cleanup"
  /\ loopPc' = "done"
  /\ UNCHANGED <<put, queue, mainVars, pool, tasks, handed, stopPc,
                 loopRunning, due, seen, walk, pending, crashes>>

\* job_cleanup raises: the loop goes round at once, without looking at a
\* service and without its sleep.
CleanupRaises ==
  /\ Alive
  /\ loopPc = "cleanup"
  /\ loopPc' = "head"
  /\ UNCHANGED <<put, queue, mainVars, pool, tasks, handed, stopPc,
                 loopRunning, due, seen, walk, pending, crashes>>

\* The services are loaded, with the lastRun they have now.
CleanedUp ==
  /\ Alive
  /\ loopPc = "cleanup"
  /\ walk' = Recurring
  /\ seen' = due
  /\ loopPc' = "walk"
  /\ UNCHANGED <<put, queue, mainVars, pool, tasks, handed, stopPc,
                 loopRunning, due, pending, crashes>>

\* An action that is due is submitted; lastRun stays as it is until it ends.
\* The guard on pending is the bound: beyond it the model looks at no more.
Visit(r) ==
  /\ Alive
  /\ loopPc = "walk"
  /\ r \in walk
  /\ walk' = walk \ {r}
  /\ seen' = seen \ {r}
  /\ pending' = IF r \in seen /\ pending[r] < MaxPending
                  THEN [pending EXCEPT ![r] = @ + 1] ELSE pending
  /\ UNCHANGED <<put, queue, mainVars, pool, tasks, handed, stopPc,
                 loopPc, loopRunning, due, crashes>>

\* Outside of its two try blocks the walk reads every service of every
\* repository: one that cannot be read ends the thread, with its flag set.
WalkRaises ==
  /\ Alive
  /\ loopPc = "walk"
  /\ walk # {}
  /\ loopPc' = "dead"
  /\ walk' = {} /\ seen' = {}
  /\ UNCHANGED <<put, queue, mainVars, pool, tasks, handed, stopPc,
                 loopRunning, due, pending, crashes>>

\* The round is over and the loop has slept.
Wake ==
  /\ Alive
  /\ loopPc = "walk"
  /\ walk = {}
  /\ loopPc' = "head"
  /\ UNCHANGED <<put, queue, mainVars, pool, tasks, handed, stopPc,
                 loopRunning, due, seen, walk, pending, crashes>>

\* Mutant for TypeOK: the end of a submission is counted twice.
ActionEndsTwice(r) ==
  /\ pending[r] > 0
  /\ pending' = [pending EXCEPT ![r] = @ - 2]
  /\ due' \in {due, due \ {r}}
  /\ UNCHANGED <<put, queue, mainVars, pool, tasks, handed, stopPc,
                 loopPc, loopRunning, seen, walk, crashes>>

\* run_action of a recurring action ends: it sets lastRun, unless it raised.
ActionEnds(r) ==
  /\ pending[r] > 0
  /\ pending' = [pending EXCEPT ![r] = @ - 1]
  /\ due' \in {due, due \ {r}}
  /\ UNCHANGED <<put, queue, mainVars, pool, tasks, handed, stopPc,
                 loopPc, loopRunning, seen, walk, crashes>>

\* Its period passes: now is more than lastRun + period, for the walk as well,
\* which reads the clock at each service.
PeriodPasses(r) ==
  /\ r \notin due
  /\ due' = due \cup {r}
  /\ seen' = IF r \in walk THEN seen \cup {r} ELSE seen
  /\ UNCHANGED <<put, queue, mainVars, pool, tasks, handed, stopPc,
                 loopPc, loopRunning, walk, pending, crashes>>

Loop ==
  \/ LoopBegins \/ LoopEnds \/ RoundBegins \/ CleanupRaises \/ CleanedUp \/ Wake
  \/ \E r \in Recurring : Visit(r)

(***************************************************************************)
(* Crash and restart.  Workers may finish what they are at.                *)
(***************************************************************************)
Crash ==
  /\ Alive
  /\ crashes < MaxCrashes
  /\ crashes' = crashes + 1
  /\ pc' = "crashed"
  /\ hand' = None /\ tasks' = {} /\ stopPc' = "idle"
  /\ \E ended \in SUBSET {r \in Recurring : pending[r] > 0} : due' = due \ ended
  /\ pending' = [r \in Recurring |-> 0]
  /\ UNCHANGED <<put, queue, running, pool, handed, loopPc, loopRunning, seen, walk>>

Restart ==
  /\ pc = "crashed"
  /\ pc' = "new" /\ hand' = None /\ running' = FALSE
  /\ pool' = "open" /\ tasks' = {} /\ stopPc' = "idle"
  /\ loopPc' = "new" /\ loopRunning' = FALSE
  /\ seen' = {} /\ walk' = {} /\ pending' = [r \in Recurring |-> 0]
  /\ UNCHANGED <<put, queue, handed, due, crashes>>

Next ==
  \/ WalkRaises
  \/ \E c \in Commands : Put(c) \/ TaskEnds(c)
  \/ \E r \in Recurring : ActionEnds(r) \/ PeriodPasses(r)
  \/ Main \/ StartAgain \/ StopLoop \/ Stopping \/ Loop
  \/ Crash \/ Restart

Spec == Init /\ [][Next]_vars

\* Threads run whenever they can, and job methods end.  Nothing makes
\* job_cleanup succeed, but it is assumed not to raise each time for ever.
FairSpec ==
  /\ Spec
  /\ WF_vars(Main) /\ WF_vars(Stopping) /\ WF_vars(Loop)
  /\ SF_vars(CleanedUp)
  /\ WF_vars(\E c \in Commands : TaskEnds(c))

(***************************************************************************)
(* Properties.                                                             *)
(***************************************************************************)
\* Whatever main thread, stop() and crashes do, the daemon is a queue that
\* hands each command over at most once, in the order in which they were put,
\* and none once its pool is closed.
Queue == INSTANCE CommandQueue WITH
  taken <- Len(put) - Len(queue),
  held  <- hand # None,
  given <- handed,
  open  <- pool = "open"

ImplementsQueue == Queue!Spec

\* A command to execute or to run is dropped for one of two reasons only: the
\* daemon crashed with it in hand, or its pool was closed when it was taken.
NothingDropped ==
  \A c \in Elements(put) :
    \/ c \in Elements(queue) \/ c = hand \/ c \in Elements(handed)
    \/ Kind[c] \in {"event", "ignored"}
    \/ pool = "closed" \/ crashes > 0

\* When stop() has returned, every command handed to a worker has ended, and no
\* other is handed over: also when the main thread goes on, as it does when
\* stop() came before start() had set _running.
StoppedIsIdle == stopPc = "stopped" => tasks = {} /\ pool = "closed"

Ended == pc \in {"returned", "raised", "crashed"}

\* The n-th command put is taken from the list, unless the main thread ends.
CommandTaken ==
  \A n \in 1..MaxPut :
    Len(put) >= n ~> (Len(put) - Len(queue) >= n \/ Ended)

\* A stop() that finds both flags set ends both threads and returns.
StopCompletes ==
  (stopPc = "running" /\ running /\ ~ loopRunning /\ loopPc # "begin")
    ~> (pc = "crashed" \/ (Ended /\ loopPc \in {"done", "dead"} /\ stopPc = "stopped"))

\* A recurring action that is due is submitted, also after the main thread has
\* died of an exception and after rounds whose job_cleanup raised, until stop()
\* ends the loop, a service that cannot be read does, or the daemon crashes.
DueIsDispatched ==
  \A r \in Recurring :
    r \in due ~>
      (pending[r] > 0 \/ r \notin due \/ (loopPc = "done" /\ stopPc # "idle")
        \/ loopPc = "dead" \/ pc = "crashed")
=============================================================================
