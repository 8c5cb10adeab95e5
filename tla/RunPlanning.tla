----------------------------- MODULE RunPlanning -----------------------------
(***************************************************************************)
(* AtYourServiceRepo.runCreate: how the scheduled actions of a repository  *)
(* become the steps of a run.  findScheduledActions builds, for each of    *)
(* them, the chain of actions of the same service it requires              *)
(* (ServiceModel._build_actions_chain); create_graphs turns the chains and *)
(* the producer and consumer relations into a graph of nodes               *)
(* <<service, action>>; get_task_batches cuts the graph into batches, and  *)
(* a batch becomes a step that holds its nodes that are not "ok"           *)
(* (AtYourServiceDependencies.py).  RunExecution executes these steps.     *)
(***************************************************************************)
EXTENDS Naturals, Sequences, FiniteSets, Functions

CONSTANTS
  Services,
  Actions,
  ActionsOf,   \* the actions each service has
  Requires,    \* what init_actions_ of each service returns: for an action,
               \* the list of the actions it requires
  Repos        \* the repositories that are planned for

\* The nodes build_nodes makes.
Nodes == {n \in Services \X Actions : n[2] \in ActionsOf[n[1]]}

ActionStates == {"new", "changed", "ok", "scheduled", "disabled", "error", "running"}

Repositories ==
  [producers : [Services -> SUBSET Services],
   consumers : [Services -> SUBSET Services],
   state : [Nodes -> ActionStates]]

ASSUME PlanAssumption ==
  /\ IsFiniteSet(Services) /\ IsFiniteSet(Actions)
  /\ ActionsOf \in [Services -> SUBSET Actions]
  /\ Requires \in [Services -> [Actions -> Seq(Actions)]]
  /\ Repos \subseteq Repositories

VARIABLES
  repo,      \* the services as they are stored
  pc,        \* which function is busy
  pending,   \* the scheduled actions findScheduledActions has still to see
  service,   \* the service whose chain is being built
  agenda,    \* the calls of _build_actions_chain still to be made
  ds,        \* the chain built so far
  chains,    \* the finished chains, each with its service
  todo,      \* the chains create_graphs has still to visit
  nodes, edges,  \* the graph
  visits,    \* the nodes addEdges has still to visit
  waiting,   \* the keys of id_to_deps in get_task_batches
  steps      \* the steps of the run

vars == <<repo, pc, pending, service, agenda, ds, chains, todo, nodes, edges, visits, waiting, steps>>

\* A call: its action, and the actions it is called for (`parents`).
Call(a, above) == [act |-> a, above |-> above]
CallRecords == [act : Actions, above : SUBSET Actions]

Selected == {n \in Nodes : repo.state[n] \in {"scheduled", "changed", "error"}}

TypeOK ==
  /\ repo \in Repositories
  /\ pc \in {"find", "chain", "graph", "batch", "done", "raised", "circular"}
  /\ pending \subseteq Selected
  /\ service \in Services
  /\ agenda \in Seq(CallRecords)
  /\ ds \in Seq(Actions)
  /\ chains \subseteq Services \X Seq(Actions)
  /\ todo \subseteq chains
  /\ nodes \subseteq Nodes
  /\ edges \subseteq nodes \X nodes
  /\ visits \subseteq nodes
  /\ waiting \subseteq nodes
  /\ steps \in Seq(SUBSET Nodes)

Init ==
  /\ repo \in Repos
  /\ pc = "find"
  /\ pending = Selected
  /\ service \in Services
  /\ agenda = << >> /\ ds = << >>
  /\ chains = {} /\ todo = {}
  /\ nodes = {} /\ edges = {} /\ visits = {} /\ waiting = {}
  /\ steps = << >>

-----------------------------------------------------------------------------
(***************************************************************************)
(* findScheduledActions.                                                   *)
(***************************************************************************)

TakeScheduled(n) ==
  /\ pc = "find"
  /\ n \in pending
  /\ pending' = pending \ {n}
  /\ service' = n[1]
  /\ agenda' = <<Call(n[2], {})>>
  /\ ds' = << >>
  /\ pc' = "chain"
  /\ UNCHANGED <<repo, chains, todo, nodes, edges, visits, waiting, steps>>

FoundAll ==
  /\ pc = "find"
  /\ pending = {}
  /\ pc' = "graph"
  /\ todo' = chains
  /\ UNCHANGED <<repo, pending, service, agenda, ds, chains, nodes, edges, visits, waiting, steps>>

\* The recursive calls of a call for action a, in their order.
Calls(c) ==
  [i \in DOMAIN Requires[service][c.act] |->
     Call(Requires[service][c.act][i], c.above \cup {c.act})]

\* Mutant: what an action requires is not followed.
VisitAlone ==
  LET c == Head(agenda) IN
  /\ pc = "chain" /\ agenda # << >>
  /\ c.act \notin c.above
  /\ ds' = IF c.act \in Range(ds) THEN ds ELSE Append(ds, c.act)
  /\ agenda' = Tail(agenda)
  /\ UNCHANGED <<repo, pc, pending, service, chains, todo, nodes, edges, visits, waiting, steps>>

\* _build_actions_chain: an action that is in the list already is skipped
\* with all it requires.
Visit ==
  LET c == Head(agenda) IN
  /\ pc = "chain" /\ agenda # << >>
  /\ c.act \notin c.above
  /\ IF c.act \in Range(ds)
       THEN ds' = ds /\ agenda' = Tail(agenda)
       ELSE ds' = Append(ds, c.act) /\ agenda' = Calls(c) \o Tail(agenda)
  /\ UNCHANGED <<repo, pc, pending, service, chains, todo, nodes, edges, visits, waiting, steps>>

Raise(how) ==
  /\ pc' = how
  /\ UNCHANGED <<repo, pending, service, agenda, ds, chains, todo, nodes, edges, visits, waiting, steps>>

\* "cyclic dep", or the init_actions_ of the template raises.
VisitRaises ==
  /\ pc = "chain" /\ agenda # << >>
  /\ Raise("raised")

Chained ==
  /\ pc = "chain"
  /\ agenda = << >>
  /\ chains' = chains \cup {<<service, ds>>}
  /\ pc' = "find"
  /\ UNCHANGED <<repo, pending, service, agenda, ds, todo, nodes, edges, visits, waiting, steps>>

-----------------------------------------------------------------------------
(***************************************************************************)
(* create_graphs.                                                          *)
(***************************************************************************)

\* The services action a of a service waits for: its producers, or its
\* consumers when it goes down.
Link(a) ==
  [s \in Services |->
     {t \in (IF a \in {"stop", "uninstall"} THEN repo.consumers ELSE repo.producers)[s] :
        a \in ActionsOf[t]}]

\* The services reached along these links from s on, and s.
Below(s, a) ==
  {t \in Services :
     \A S \in SUBSET Services : s \in S /\ (\A u \in S : Link(a)[u] \subseteq S) => t \in S}

NodesOf(c) == {<<c[1], c[2][i]>> : i \in DOMAIN c[2]}

\* Mutant: the list is not reversed back.
ChainEdgesBack(c) == {<< <<c[1], c[2][i + 1]>>, <<c[1], c[2][i]>> >> : i \in 1..(Len(c[2]) - 1)}

\* The list runs from the scheduled action down to what it requires.
ChainEdges(c) == {<< <<c[1], c[2][i]>>, <<c[1], c[2][i + 1]>> >> : i \in 1..(Len(c[2]) - 1)}

\* all_nodes[name] raises a KeyError for an action the service has not got,
\* and addEdges a RecursionError on a circle of producers (or consumers).
ChainFails(c) ==
  \/ ~ (NodesOf(c) \subseteq Nodes)
  \/ \E i \in DOMAIN c[2] : LET a == c[2][i] IN
       \E t \in Below(c[1], a) : \E u \in Link(a)[t] : t \in Below(u, a)

\* The nodes and edges of the service's own chain; addEdges has still to
\* visit those nodes that are new to the graph.
AddChain(c) ==
  /\ pc = "graph" /\ visits = {}
  /\ c \in todo
  /\ ~ ChainFails(c)
  /\ nodes' = nodes \cup NodesOf(c)
  /\ edges' = edges \cup ChainEdges(c)
  /\ visits' = NodesOf(c) \ nodes
  /\ todo' = todo \ {c}
  /\ UNCHANGED <<repo, pc, pending, service, agenda, ds, chains, waiting, steps>>

AddChainRaises(c) ==
  /\ pc = "graph" /\ visits = {}
  /\ c \in todo
  /\ ChainFails(c)
  /\ Raise("raised")

LinkedNodes(n) == Link(n[2])[n[1]] \X {n[2]}

\* Mutant: addEdges does not recurse.
AddEdgesOnce(n) ==
  /\ pc = "graph"
  /\ n \in visits
  /\ nodes' = nodes \cup LinkedNodes(n)
  /\ edges' = edges \cup ({n} \X LinkedNodes(n))
  /\ visits' = visits \ {n}
  /\ UNCHANGED <<repo, pc, pending, service, agenda, ds, chains, todo, waiting, steps>>

\* Mutant: the nodes the edges lead to are not put in the graph.
AddEdgesOnly(n) ==
  /\ pc = "graph"
  /\ n \in visits
  /\ edges' = edges \cup ({n} \X LinkedNodes(n))
  /\ visits' = (visits \ {n}) \cup (LinkedNodes(n) \ nodes)
  /\ UNCHANGED <<repo, pc, pending, service, agenda, ds, chains, todo, nodes, waiting, steps>>

\* addEdges or addConsumerEdges visits a node.  A second visit of a node adds
\* nothing to the graph and is left out.
AddEdges(n) ==
  /\ pc = "graph"
  /\ n \in visits
  /\ nodes' = nodes \cup LinkedNodes(n)
  /\ edges' = edges \cup ({n} \X LinkedNodes(n))
  /\ visits' = (visits \ {n}) \cup (LinkedNodes(n) \ nodes)
  /\ UNCHANGED <<repo, pc, pending, service, agenda, ds, chains, todo, waiting, steps>>

GraphDone ==
  /\ pc = "graph"
  /\ todo = {} /\ visits = {}
  /\ waiting' = nodes
  /\ pc' = "batch"
  /\ UNCHANGED <<repo, pending, service, agenda, ds, chains, todo, nodes, edges, visits, steps>>

-----------------------------------------------------------------------------
(***************************************************************************)
(* get_task_batches, and the loop of runCreate over the batches.           *)
(***************************************************************************)

\* Mutant: deps.difference_update(ready) is forgotten.
ReadyStale == {n \in waiting : \A m \in nodes : <<n, m>> \notin edges}

Ready == {n \in waiting : \A m \in waiting : <<n, m>> \notin edges}

\* Mutant: the batch with the nodes that are ok is dropped as a whole.
StepOfWhole(batch) == IF \E n \in batch : repo.state[n] = "ok" THEN {} ELSE batch

StepOf(batch) == {n \in batch : repo.state[n] # "ok"}

NextBatch ==
  /\ pc = "batch"
  /\ Ready # {}
  /\ waiting' = waiting \ Ready
  /\ steps' = IF StepOf(Ready) = {} THEN steps ELSE Append(steps, StepOf(Ready))
  /\ UNCHANGED <<repo, pc, pending, service, agenda, ds, chains, todo, nodes, edges, visits>>

\* Mutant: the batch loop goes round with nothing ready.
CircularSpins ==
  /\ pc = "batch"
  /\ waiting # {} /\ Ready = {}
  /\ UNCHANGED vars

\* "Circular dependencies found!"
Circular ==
  /\ pc = "batch"
  /\ waiting # {} /\ Ready = {}
  /\ Raise("circular")

Planned ==
  /\ pc = "batch"
  /\ waiting = {}
  /\ Raise("done")

Next ==
  \/ FoundAll \/ Visit \/ VisitRaises \/ Chained
  \/ GraphDone \/ NextBatch \/ Circular \/ Planned
  \/ \E n \in Nodes : TakeScheduled(n) \/ AddEdges(n)
  \/ \E c \in todo : AddChain(c) \/ AddChainRaises(c)

Spec == Init /\ [][Next]_vars
FairSpec == Spec /\ WF_vars(Next)

-----------------------------------------------------------------------------
\* In the steps made so far, what a planned action waits for in other
\* services comes in an earlier step or is ok: an install after the install
\* of the producers, a stop after the stop of the consumers, however far.
ProducersFirst ==
  \A i \in DOMAIN steps : \A n \in steps[i] : \A s \in Below(n[1], n[2]) \ {n[1]} :
    \/ repo.state[<<s, n[2]>>] = "ok"
    \/ \E k \in 1..(i - 1) : <<s, n[2]>> \in steps[k]

\* The actions of service s that action a requires, directly or not, and a.
Required(s, a) ==
  {b \in Actions : \A S \in SUBSET Actions :
     a \in S /\ (\A x \in S : Range(Requires[s][x]) \subseteq S) => b \in S}

\* What a scheduled action requires in its own service comes in an earlier
\* step or is ok, across every branch of the requirements.  Of actions that are
\* planned without being scheduled it says nothing: those of a chain may come in
\* the wrong order (see ChainInOrder), and those of a producer that is planned
\* on account of its consumers may share a step, since addEdges links them to
\* nothing of their own service.
RequiredFirst ==
  \A i \in DOMAIN steps : \A n \in steps[i] \cap Selected :
    \A a \in Required(n[1], n[2]) \ {n[2]} :
      \/ repo.state[<<n[1], a>>] = "ok"
      \/ \E k \in 1..(i - 1) : <<n[1], a>> \in steps[k]

\* What any action of a chain requires in its own service, scheduled or not,
\* comes in an earlier step or is ok.  create_graphs takes the list that
\* _build_actions_chain makes in preorder for a total order, so that this holds
\* for requirements that do not branch only: of [test, install, start], where
\* start requires install, it runs start first.
ChainInOrder ==
  \A c \in chains : \A i \in DOMAIN steps : \A n \in steps[i] \cap NodesOf(c) :
    \A a \in Required(n[1], n[2]) \ {n[2]} :
      \/ repo.state[<<n[1], a>>] = "ok"
      \/ \E k \in 1..(i - 1) : <<n[1], a>> \in steps[k]

\* A finished plan holds exactly what the scheduled actions need and is not
\* ok: their requirements, and the same action of all they wait for.  Each
\* is in one step, and no step is empty.
PlanIsExact ==
  pc = "done" =>
    /\ UNION Range(steps) =
         {n \in Nodes : /\ repo.state[n] # "ok"
                        /\ \E m \in Selected : /\ n[2] \in Required(m[1], m[2])
                                               /\ n[1] \in Below(m[1], n[2])}
    /\ \A i, k \in DOMAIN steps : steps[i] # {} /\ (i # k => steps[i] \cap steps[k] = {})

\* No circle is reported when all templates agree and every action requires
\* at most one other, as the default init_actions_ has it: requirement,
\* producer and consumer edges cannot close one.
Linear ==
  \A s, t \in Services, a \in Actions :
    Requires[s][a] = Requires[t][a] /\ Len(Requires[s][a]) <= 1
NeverCircular == Linear => pc # "circular"

\* Planning comes to an end, whatever the templates require.
PlanningEnds == <>(pc \in {"done", "raised", "circular"})
-----------------------------------------------------------------------------
(***************************************************************************)
(* Why ProducersFirst and RequiredFirst hold.                              *)
(***************************************************************************)

\* The action whose chain is being built.
Target == IF ds = << >> THEN agenda[1].act ELSE ds[1]

\* The chain holds, or the agenda has still to visit, all its actions require.
ChainInv ==
  pc = "chain" =>
    /\ ds = << >> => Len(agenda) = 1
    /\ \A x \in Range(ds) : \A b \in Range(Requires[service][x]) :
         b \in Range(ds) \/ \E i \in DOMAIN agenda : agenda[i].act = b

\* A finished chain is closed, and each scheduled action seen has one.
ChainsInv ==
  /\ \A c \in chains : /\ c[2] # << >>
                       /\ \A x \in Range(c[2]) : Range(Requires[c[1]][x]) \subseteq Range(c[2])
  /\ pc \in {"find", "chain", "graph", "batch", "done", "circular"} =>
       \A n \in Selected \ pending :
         \/ \E c \in chains : c[1] = n[1] /\ c[2][1] = n[2]
         \/ pc = "chain" /\ n = <<service, Target>>

\* A node that addEdges has visited has the edges to all it waits for, and
\* a chain that create_graphs has visited has its own.
GraphInv ==
  /\ pc \in {"find", "chain"} => nodes = {} /\ edges = {} /\ visits = {}
  /\ pc \in {"graph", "batch", "done", "circular"} => pending = {}
  /\ pc \in {"batch", "done", "circular"} => todo = {} /\ visits = {}
  /\ pc \in {"find", "chain", "graph"} => waiting = {} /\ steps = << >>
  /\ \A n \in nodes \ visits : {n} \X LinkedNodes(n) \subseteq edges
  /\ pc \in {"graph", "batch", "done", "circular"} =>
       \A c \in chains \ todo : NodesOf(c) \subseteq nodes /\ ChainEdges(c) \subseteq edges

\* What is placed has all it waits for placed, and is in a step or ok.
BatchInv ==
  pc \in {"batch", "done", "circular"} =>
    /\ \A e \in edges : e[1] \notin waiting => e[2] \notin waiting
    /\ \A n \in nodes \ waiting :
         repo.state[n] = "ok" \/ \E k \in DOMAIN steps : n \in steps[k]
    /\ \A k \in DOMAIN steps : steps[k] \subseteq nodes \ waiting
    /\ \A c \in chains : \A i, j \in DOMAIN c[2] :
         i < j /\ <<c[1], c[2][i]>> \notin waiting => <<c[1], c[2][j]>> \notin waiting

PlanInv ==
  /\ TypeOK /\ ChainInv /\ ChainsInv /\ GraphInv /\ BatchInv
  /\ ProducersFirst /\ RequiredFirst

(***************************************************************************)
(* Why PlanIsExact holds: nothing gets into a chain, the graph or a step   *)
(* that no scheduled action needs.                                         *)
(***************************************************************************)

\* A scheduled action needs node n.
Needed(n) == \E m \in Selected : n[2] \in Required(m[1], m[2]) /\ n[1] \in Below(m[1], n[2])

\* The chain being built, and what it is to visit, is required by its target.
SoundChainInv ==
  pc = "chain" =>
    /\ <<service, Target>> \in Selected
    /\ Range(ds) \subseteq Required(service, Target)
    /\ \A i \in DOMAIN agenda : agenda[i].act \in Required(service, Target)

SoundInv ==
  /\ \A c \in chains : \E m \in Selected : c[1] = m[1] /\ Range(c[2]) \subseteq Required(m[1], m[2])
  /\ \A n \in nodes : Needed(n)

DistinctInv ==
  /\ \A k \in DOMAIN steps : steps[k] # {} /\ \A n \in steps[k] : repo.state[n] # "ok"
  /\ \A i, k \in DOMAIN steps : i # k => steps[i] \cap steps[k] = {}

ExactInv == SoundChainInv /\ SoundInv /\ DistinctInv /\ (pc = "done" => waiting = {})

(***************************************************************************)
(* Why NeverCircular holds: along an edge that create_graphs makes, either *)
(* the requirements that are left or the services that are left get less.  *)
(***************************************************************************)

\* Each action of list q requires the next one and no other, and is there once.
Line(s, q) ==
  /\ \A i, k \in DOMAIN q : i # k => q[i] # q[k]
  /\ \A i \in DOMAIN q : i + 1 \in DOMAIN q => Range(Requires[s][q[i]]) = {q[i + 1]}

\* The last one requires nothing.
Ended(s, q) == q # << >> /\ Range(Requires[s][q[Len(q)]]) = {}

\* With linear requirements a chain is a line, and while it is built there is
\* one call to be made, for what the last action requires.
LineInv ==
  /\ pc = "chain" =>
       /\ Line(service, ds)
       /\ agenda = << >> => Ended(service, ds)
       /\ agenda # << >> =>
            /\ Len(agenda) = 1 /\ agenda[1].above = Range(ds)
            /\ ds # << >> => Range(Requires[service][ds[Len(ds)]]) = {agenda[1].act}
  /\ \A c \in chains : Line(c[1], c[2]) /\ Ended(c[1], c[2])

\* The links below a node of the graph have no circle, and every edge is a link
\* or joins two actions that follow each other in a chain.
FlowInv ==
  /\ \A n \in nodes : \A t \in Below(n[1], n[2]) : \A u \in Link(n[2])[t] : t \notin Below(u, n[2])
  /\ \A e \in edges : e[2] \in LinkedNodes(e[1]) \/ \E c \in chains : e \in ChainEdges(c)

AcyclicInv == (Linear => LineInv) /\ FlowInv
=============================================================================
