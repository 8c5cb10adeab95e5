-------------------------- MODULE RunPlanningProofs --------------------------
(***************************************************************************)
(* The steps of a run respect what actions wait for, whatever the          *)
(* repository and the templates: PlanInv is inductive.  No induction over  *)
(* the graph is needed: Below and Required are the smallest sets closed    *)
(* under a relation, and what has left `waiting` is closed under it.       *)
(* Planning never ends in a circle when requirements are linear            *)
(* (AcyclicInv): of finitely many services one has least below it.         *)
(***************************************************************************)
EXTENDS RunPlanning, SequenceTheorems, FiniteSetTheorems, TLAPS

LEMMA SameLink ==
  ASSUME repo' = repo
  PROVE  /\ Selected' = Selected
         /\ \A a \in Actions : Link(a)' = Link(a)
  <1>1. Selected' = Selected  BY DEF Selected
  <1>2. \A a \in Actions : Link(a)' = Link(a)  BY DEF Link
  <1> QED BY <1>1, <1>2

LEMMA SameBelow ==
  ASSUME repo' = repo
  PROVE  \A s \in Services, a \in Actions : Below(s, a)' = Below(s, a)
  <1> SUFFICES ASSUME NEW s \in Services, NEW a \in Actions
               PROVE  Below(s, a)' = Below(s, a)
    OBVIOUS
  <1> QED BY SameLink DEF Below

LEMMA SameLinkedNodes ==
  ASSUME repo' = repo
  PROVE  \A n \in Nodes : LinkedNodes(n)' = LinkedNodes(n)
  <1> QED BY SameLink DEF LinkedNodes, Nodes

LEMMA SameOrder ==
  ASSUME TypeOK, repo' = repo, steps' = steps
  PROVE  /\ ProducersFirst => ProducersFirst'
         /\ RequiredFirst => RequiredFirst'
  <1>1. ProducersFirst => ProducersFirst'
    <2> SUFFICES ASSUME ProducersFirst,
                        NEW i \in DOMAIN steps, NEW n \in steps[i],
                        NEW s \in Below(n[1], n[2])' \ {n[1]}
                 PROVE  \/ repo.state[<<s, n[2]>>] = "ok"
                        \/ \E k \in 1..(i - 1) : <<s, n[2]>> \in steps[k]
      BY DEF ProducersFirst
    <2>1. n[1] \in Services /\ n[2] \in Actions  BY DEF TypeOK, Nodes
    <2> QED BY <2>1, SameBelow DEF ProducersFirst
  <1>2. RequiredFirst => RequiredFirst'
    BY SameLink DEF RequiredFirst
  <1> QED BY <1>1, <1>2

-----------------------------------------------------------------------------
LEMMA LinkType ==
  ASSUME TypeOK
  PROVE  /\ \A s \in Services, a \in Actions : Link(a)[s] \subseteq {t \in Services : a \in ActionsOf[t]}
         /\ \A n \in Nodes : LinkedNodes(n) \subseteq Nodes
  <1>1. \A s \in Services, a \in Actions : Link(a)[s] \subseteq {t \in Services : a \in ActionsOf[t]}
    BY DEF TypeOK, Repositories, Link
  <1>2. \A n \in Nodes : LinkedNodes(n) \subseteq Nodes
    BY <1>1 DEF Nodes, LinkedNodes
  <1> QED BY <1>1, <1>2

LEMMA FunctionIsSeq ==
  ASSUME NEW S, NEW n \in Nat, NEW f \in [1..n -> S]
  PROVE  f \in Seq(S) /\ Len(f) = n
  OBVIOUS

LEMMA CallsType ==
  ASSUME TypeOK, agenda # << >>
  PROVE  /\ Head(agenda) \in CallRecords
         /\ Head(agenda).act \in Actions
         /\ Calls(Head(agenda)) \in Seq(CallRecords)
         /\ Len(Calls(Head(agenda))) = Len(Requires[service][Head(agenda).act])
         /\ Tail(agenda) \in Seq(CallRecords)
  <1> DEFINE c == Head(agenda)
             R == Requires[service][c.act]
  <1>1. c \in CallRecords /\ Tail(agenda) \in Seq(CallRecords)
    BY HeadTailProperties DEF TypeOK
  <1>2. c.act \in Actions /\ c.above \subseteq Actions  BY <1>1 DEF CallRecords
  <1>3. R \in Seq(Actions)  BY <1>2, PlanAssumption DEF TypeOK
  <1>4. \A i \in 1..Len(R) : Call(R[i], c.above \cup {c.act}) \in CallRecords
    BY <1>2, <1>3 DEF Call, CallRecords
  <1>5. Calls(c) = [i \in 1..Len(R) |-> Call(R[i], c.above \cup {c.act})]
    BY <1>3 DEF Calls
  <1>6. Len(R) \in Nat  BY <1>3
  <1> HIDE DEF R
  <1>7. [i \in 1..Len(R) |-> Call(R[i], c.above \cup {c.act})] \in [1..Len(R) -> CallRecords]
    BY <1>4
  <1>8. Calls(c) \in Seq(CallRecords) /\ Len(Calls(c)) = Len(R)
    BY <1>5, <1>6, <1>7, FunctionIsSeq
  <1> QED BY <1>1, <1>2, <1>8 DEF R

LEMMA TypeNext ==
  ASSUME TypeOK, [Next]_vars
  PROVE  TypeOK'
  <1> USE DEF TypeOK
  <1>1. CASE FoundAll  BY <1>1, SameLink DEF FoundAll
  <1>2. CASE Visit
    <2>1. agenda # << >>  BY <1>2 DEF Visit
    <2>2. ds' \in Seq(Actions)
      <3>1. ds' = ds \/ ds' = Append(ds, Head(agenda).act)  BY <1>2 DEF Visit
      <3>2. Head(agenda).act \in Actions  BY <2>1, CallsType
      <3> QED BY <3>1, <3>2
    <2>3. agenda' \in Seq(CallRecords)
      <3>1. agenda' = Tail(agenda) \/ agenda' = Calls(Head(agenda)) \o Tail(agenda)
        BY <1>2 DEF Visit
      <3> QED BY <2>1, <3>1, CallsType, ConcatProperties
    <2> QED BY <1>2, <2>2, <2>3, SameLink DEF Visit
  <1>3. CASE VisitRaises  BY <1>3, SameLink DEF VisitRaises, Raise
  <1>4. CASE Chained  BY <1>4, SameLink DEF Chained
  <1>5. CASE GraphDone  BY <1>5, SameLink DEF GraphDone
  <1>6. CASE NextBatch
    <2>1. StepOf(Ready) \in SUBSET Nodes  BY DEF StepOf, Ready
    <2>2. steps' \in Seq(SUBSET Nodes)  BY <1>6, <2>1 DEF NextBatch
    <2> QED BY <1>6, <2>2, SameLink DEF NextBatch
  <1>7. CASE Circular  BY <1>7, SameLink DEF Circular, Raise
  <1>8. CASE Planned  BY <1>8, SameLink DEF Planned, Raise
  <1>9. CASE \E n \in Nodes : TakeScheduled(n)
    <2> PICK n \in Nodes : TakeScheduled(n)  BY <1>9
    <2>1. n[1] \in Services /\ n[2] \in Actions  BY DEF Nodes
    <2>2. agenda' \in Seq(CallRecords)
      <3>1. Call(n[2], {}) \in CallRecords  BY <2>1 DEF Call, CallRecords
      <3> QED BY <3>1 DEF TakeScheduled
    <2> QED BY <2>1, <2>2, SameLink DEF TakeScheduled
  <1>10. CASE \E n \in Nodes : AddEdges(n)
    <2> PICK n \in Nodes : AddEdges(n)  BY <1>10
    <2>1. LinkedNodes(n) \subseteq Nodes  BY LinkType
    <2> QED BY <2>1, SameLink DEF AddEdges
  <1>11. CASE \E c \in todo : AddChain(c)
    <2> PICK c \in todo : AddChain(c)  BY <1>11
    <2>1. NodesOf(c) \subseteq Nodes  BY DEF AddChain, ChainFails
    <2>2. ChainEdges(c) \subseteq NodesOf(c) \X NodesOf(c)
      <3>1. c[2] \in Seq(Actions)  OBVIOUS
      <3> QED BY <3>1 DEF ChainEdges, NodesOf
    <2> QED BY <2>1, <2>2, SameLink DEF AddChain
  <1>12. CASE \E c \in todo : AddChainRaises(c)
    BY <1>12, SameLink DEF AddChainRaises, Raise
  <1>13. CASE UNCHANGED vars  BY <1>13, SameLink DEF vars
  <1> QED BY <1>1, <1>2, <1>3, <1>4, <1>5, <1>6, <1>7, <1>8, <1>9, <1>10, <1>11,
             <1>12, <1>13 DEF Next

-----------------------------------------------------------------------------
LEMMA RangeOfAppend ==
  ASSUME NEW S, NEW s \in Seq(S), NEW e \in S
  PROVE  Range(Append(s, e)) = Range(s) \cup {e}
  <1>1. DOMAIN Append(s, e) = 1..(Len(s) + 1) /\ DOMAIN s = 1..Len(s)  OBVIOUS
  <1>2. \A i \in 1..Len(s) : Append(s, e)[i] = s[i]  OBVIOUS
  <1>3. Append(s, e)[Len(s) + 1] = e  OBVIOUS
  <1> QED BY <1>1, <1>2, <1>3 DEF Range

\* The entries of the agenda after a step of _build_actions_chain.
LEMMA AgendaTail ==
  ASSUME TypeOK, agenda # << >>
  PROVE  /\ Len(Tail(agenda)) = Len(agenda) - 1
         /\ \A i \in DOMAIN agenda :
              \/ agenda[i] = Head(agenda)
              \/ \E k \in DOMAIN Tail(agenda) : Tail(agenda)[k] = agenda[i]
  <1>1. /\ agenda \in Seq(CallRecords)
        /\ Len(agenda) \in Nat \ {0}
        /\ DOMAIN agenda = 1..Len(agenda)
        /\ Head(agenda) = agenda[1]
    BY DEF TypeOK
  <1>2. Tail(agenda) \in Seq(CallRecords) /\ Len(Tail(agenda)) = Len(agenda) - 1
    BY <1>1, HeadTailProperties
  <1>3. \A k \in 1..Len(Tail(agenda)) : Tail(agenda)[k] = agenda[k + 1]
    BY <1>1, HeadTailProperties
  <1>4. ASSUME NEW i \in 2..Len(agenda)
        PROVE  \E k \in DOMAIN Tail(agenda) : Tail(agenda)[k] = agenda[i]
    <2>1. i - 1 \in 1..Len(Tail(agenda)) /\ agenda[(i - 1) + 1] = agenda[i]  BY <1>1, <1>2
    <2>2. Tail(agenda)[i - 1] = agenda[i]  BY <1>3, <2>1
    <2> QED BY <1>2, <2>1, <2>2
  <1> QED BY <1>1, <1>2, <1>4

LEMMA AgendaCalls ==
  ASSUME TypeOK, agenda # << >>
  PROVE  LET next == Calls(Head(agenda)) \o Tail(agenda) IN
         /\ \A b \in Range(Requires[service][Head(agenda).act]) :
              \E i \in DOMAIN next : next[i].act = b
         /\ \A k \in DOMAIN Tail(agenda) : \E i \in DOMAIN next : next[i] = Tail(agenda)[k]
  <1> DEFINE C == Calls(Head(agenda))
             T == Tail(agenda)
             R == Requires[service][Head(agenda).act]
  <1>1. /\ C \in Seq(CallRecords) /\ T \in Seq(CallRecords)
        /\ Len(C) = Len(R)
        /\ Head(agenda).act \in Actions
    BY CallsType
  <1>2. R \in Seq(Actions)  BY <1>1, PlanAssumption DEF TypeOK
  <1>3. \A i \in 1..Len(R) : C[i].act = R[i]  BY <1>2 DEF Calls, Call
  <1> HIDE DEF C, T, R
  <1>4. /\ DOMAIN (C \o T) = 1..(Len(C) + Len(T))
        /\ \A i \in 1..Len(C) : (C \o T)[i] = C[i]
        /\ \A i \in 1..Len(T) : (C \o T)[Len(C) + i] = T[i]
        /\ Len(C) \in Nat /\ Len(T) \in Nat
        /\ DOMAIN T = 1..Len(T)
    BY <1>1
  <1>5. \A b \in Range(R) : \E i \in DOMAIN (C \o T) : (C \o T)[i].act = b
    <2> SUFFICES ASSUME NEW b \in Range(R) PROVE \E i \in DOMAIN (C \o T) : (C \o T)[i].act = b
      OBVIOUS
    <2>1. PICK i \in 1..Len(R) : R[i] = b  BY <1>2 DEF Range
    <2> QED BY <2>1, <1>1, <1>3, <1>4
  <1>6. \A k \in DOMAIN T : \E i \in DOMAIN (C \o T) : (C \o T)[i] = T[k]
    <2> SUFFICES ASSUME NEW k \in 1..Len(T) PROVE \E i \in DOMAIN (C \o T) : (C \o T)[i] = T[k]
      BY <1>4
    <2>1. Len(C) + k \in 1..(Len(C) + Len(T))  BY <1>4
    <2> QED BY <2>1, <1>4
  <1> QED BY <1>5, <1>6 DEF C, T, R

LEMMA ChainNext ==
  ASSUME TypeOK, ChainInv, [Next]_vars
  PROVE  ChainInv'
  <1>1. CASE Visit
    <2> DEFINE c == Head(agenda)
    <2>1. /\ agenda # << >> /\ pc = "chain" /\ service' = service
      BY <1>1 DEF Visit
    <2>2. \A x \in Range(ds) : \A b \in Range(Requires[service][x]) :
            \/ b \in Range(ds) \/ b = c.act
            \/ \E k \in DOMAIN Tail(agenda) : Tail(agenda)[k].act = b
      BY <2>1, AgendaTail DEF ChainInv
    <2>3. CASE c.act \in Range(ds)
      <3>1. ds' = ds /\ agenda' = Tail(agenda)  BY <1>1, <2>3 DEF Visit
      <3>2. ds # << >>  BY <2>3 DEF Range
      <3> QED BY <2>1, <2>2, <2>3, <3>1, <3>2 DEF ChainInv
    <2>4. CASE c.act \notin Range(ds)
      <3>1. ds' = Append(ds, c.act) /\ agenda' = Calls(c) \o Tail(agenda)
        BY <1>1, <2>4 DEF Visit
      <3>2. Range(ds') = Range(ds) \cup {c.act} /\ ds' # << >>
        BY <2>1, <3>1, CallsType, RangeOfAppend DEF TypeOK
      <3>3. /\ \A b \in Range(Requires[service][c.act]) :
                 \E i \in DOMAIN agenda' : agenda'[i].act = b
            /\ \A k \in DOMAIN Tail(agenda) : \E i \in DOMAIN agenda' : agenda'[i] = Tail(agenda)[k]
        BY <2>1, <3>1, AgendaCalls
      <3>4. ASSUME NEW x \in Range(ds'), NEW b \in Range(Requires[service][x])
            PROVE  b \in Range(ds') \/ \E i \in DOMAIN agenda' : agenda'[i].act = b
        BY <2>2, <3>2, <3>3
      <3> QED BY <2>1, <3>2, <3>4 DEF ChainInv
    <2> QED BY <2>3, <2>4
  <1>2. CASE \E n \in Nodes : TakeScheduled(n)
    <2>1. ds' = << >> /\ Len(agenda') = 1  BY <1>2 DEF TakeScheduled
    <2>2. Range(ds') = {}  BY <2>1 DEF Range
    <2> QED BY <2>1, <2>2 DEF ChainInv
  <1>3. CASE UNCHANGED <<pc, service, agenda, ds>>
    BY <1>3 DEF ChainInv
  <1>4. CASE pc' # "chain"  BY <1>4 DEF ChainInv
  <1> QED
    BY <1>1, <1>2, <1>3, <1>4
    DEF Next, FoundAll, VisitRaises, Raise, Chained, GraphDone, NextBatch, Circular,
        Planned, AddEdges, AddChain, AddChainRaises, vars

\* The action a chain is built for stays the first of the chain.
LEMMA SameTarget ==
  ASSUME TypeOK, ChainInv, Visit
  PROVE  Target' = Target
  <1> DEFINE c == Head(agenda)
  <1>1. agenda # << >> /\ pc = "chain"  BY DEF Visit
  <1>2. /\ c.act \in Actions /\ ds \in Seq(Actions)
        /\ agenda \in Seq(CallRecords)
    BY <1>1, CallsType DEF TypeOK
  <1>3. CASE ds = << >>
    <2>1. Range(ds) = {}  BY <1>3 DEF Range
    <2>2. ds' = <<c.act>>  BY <2>1, <1>2, <1>3 DEF Visit
    <2>3. Target = c.act  BY <1>1, <1>2, <1>3 DEF Target
    <2> QED BY <2>2, <2>3 DEF Target
  <1>4. CASE ds # << >>
    <2>1. ds' = ds \/ ds' = Append(ds, c.act)  BY DEF Visit
    <2>2. ds'[1] = ds[1] /\ ds' # << >>  BY <2>1, <1>2, <1>4
    <2> QED BY <2>2, <1>4 DEF Target
  <1> QED BY <1>3, <1>4

LEMMA ChainsNext ==
  ASSUME TypeOK, ChainInv, ChainsInv, [Next]_vars
  PROVE  ChainsInv'
  <1>1. CASE Visit
    <2>1. Target' = Target  BY <1>1, SameTarget
    <2>2. Selected' = Selected  BY <1>1, SameLink DEF Visit
    <2> QED BY <1>1, <2>1, <2>2 DEF ChainsInv, Visit
  <1>2. CASE Chained
    <2>1. pc = "chain" /\ agenda = << >> /\ DOMAIN agenda = {}  BY <1>2 DEF Chained
    <2>2. ds # << >>  BY <2>1 DEF ChainInv
    <2>3. \A x \in Range(ds) : Range(Requires[service][x]) \subseteq Range(ds)
      BY <2>1 DEF ChainInv
    <2>4. Selected' = Selected  BY <1>2, SameLink DEF Chained
    <2>5. chains' = chains \cup {<<service, ds>>} /\ pc' = "find" /\ pending' = pending
      BY <1>2 DEF Chained
    <2>6. Target = ds[1]  BY <2>2 DEF Target
    <2>7. \A n \in Selected \ pending : \E c \in chains' : c[1] = n[1] /\ c[2][1] = n[2]
      <3> TAKE n \in Selected \ pending
      <3>1. CASE \E c \in chains : c[1] = n[1] /\ c[2][1] = n[2]  BY <2>5, <3>1
      <3>2. CASE n = <<service, Target>>
        <4> DEFINE c == <<service, ds>>
        <4>1. c \in chains' /\ c[1] = n[1] /\ c[2][1] = n[2]  BY <2>5, <2>6, <3>2
        <4> QED BY <4>1
      <3> QED BY <2>1, <3>1, <3>2 DEF ChainsInv
    <2>8. \A c \in chains' : /\ c[2] # << >>
                             /\ \A x \in Range(c[2]) : Range(Requires[c[1]][x]) \subseteq Range(c[2])
      BY <2>2, <2>3, <2>5 DEF ChainsInv
    <2> QED BY <2>4, <2>5, <2>7, <2>8 DEF ChainsInv
  <1>3. CASE \E n \in Nodes : TakeScheduled(n)
    <2> PICK n \in Nodes : TakeScheduled(n)  BY <1>3
    <2>1. /\ pc = "find" /\ pc' = "chain" /\ service' = n[1]
          /\ ds' = << >> /\ agenda' = <<Call(n[2], {})>>
          /\ chains' = chains /\ pending' = pending \ {n}
      BY DEF TakeScheduled
    <2>2. Target' = n[2]  BY <2>1 DEF Target, Call
    <2>3. n = <<n[1], n[2]>>  BY DEF Nodes
    <2>4. Selected' = Selected  BY SameLink DEF TakeScheduled
    <2> QED BY <2>1, <2>2, <2>3, <2>4 DEF ChainsInv
  <1>4. CASE FoundAll
    <2>1. Selected' = Selected  BY <1>4, SameLink DEF FoundAll
    <2> QED BY <1>4, <2>1 DEF ChainsInv, FoundAll
  <1>5. CASE VisitRaises \/ \E c \in todo : AddChainRaises(c)
    BY <1>5 DEF ChainsInv, VisitRaises, AddChainRaises, Raise
  <1>6. CASE /\ UNCHANGED <<repo, chains, pending>>
             /\ pc \in {"graph", "batch"} /\ pc' \in {"graph", "batch", "done", "circular"}
    <2>1. Selected' = Selected  BY <1>6, SameLink
    <2> QED BY <1>6, <2>1 DEF ChainsInv
  <1>7. CASE UNCHANGED vars
    <2>1. Selected' = Selected /\ Target' = Target  BY <1>7, SameLink DEF vars, Target
    <2> QED BY <1>7, <2>1 DEF ChainsInv, vars
  <1> QED
    BY <1>1, <1>2, <1>3, <1>4, <1>5, <1>6, <1>7
    DEF Next, GraphDone, NextBatch, Circular, Planned, Raise, AddEdges, AddChain

LEMMA GraphNext ==
  ASSUME TypeOK, GraphInv, [Next]_vars
  PROVE  GraphInv'
  <1>0. repo' = repo
    BY DEF Next, FoundAll, Visit, VisitRaises, Raise, Chained, GraphDone, NextBatch, Circular,
           Planned, TakeScheduled, AddEdges, AddChain, AddChainRaises, vars
  <1>1. \A n \in Nodes : LinkedNodes(n)' = LinkedNodes(n)  BY <1>0, SameLinkedNodes
  <1>2. CASE \E c \in todo : AddChain(c)
    <2> PICK c \in todo : AddChain(c)  BY <1>2
    <2>1. /\ pc = "graph" /\ pc' = "graph" /\ visits = {} /\ pending' = pending
          /\ chains' = chains /\ todo' = todo \ {c}
          /\ nodes' = nodes \cup NodesOf(c) /\ visits' = NodesOf(c) \ nodes
          /\ edges' = edges \cup ChainEdges(c)
          /\ UNCHANGED <<waiting, steps>>
      BY DEF AddChain
    <2>2. \A n \in nodes' \ visits' : {n} \X LinkedNodes(n)' \subseteq edges'
      BY <1>1, <2>1 DEF GraphInv, TypeOK
    <2>3. \A d \in chains' \ todo' : NodesOf(d) \subseteq nodes' /\ ChainEdges(d) \subseteq edges'
      BY <2>1 DEF GraphInv
    <2> QED BY <2>1, <2>2, <2>3 DEF GraphInv, NodesOf, ChainEdges
  <1>3. CASE \E n \in Nodes : AddEdges(n)
    <2> PICK n \in Nodes : AddEdges(n)  BY <1>3
    <2>1. /\ pc = "graph" /\ pc' = "graph" /\ pending' = pending
          /\ chains' = chains /\ todo' = todo
          /\ nodes' = nodes \cup LinkedNodes(n)
          /\ visits' = (visits \ {n}) \cup (LinkedNodes(n) \ nodes)
          /\ edges' = edges \cup ({n} \X LinkedNodes(n))
          /\ UNCHANGED <<waiting, steps>>
      BY DEF AddEdges
    <2>2. nodes' \subseteq Nodes  BY <2>1, LinkType DEF TypeOK
    <2>3. \A m \in nodes' \ visits' : {m} \X LinkedNodes(m)' \subseteq edges'
      BY <1>1, <2>1, <2>2 DEF GraphInv
    <2> QED BY <2>1, <2>3 DEF GraphInv, NodesOf, ChainEdges
  <1>4. CASE /\ UNCHANGED <<nodes, edges, visits>>
             /\ \/ UNCHANGED <<pc, pending, chains, todo, waiting, steps>>
                \/ FoundAll \/ Visit \/ VisitRaises \/ Chained \/ GraphDone \/ NextBatch
                \/ Circular \/ Planned \/ (\E n \in Nodes : TakeScheduled(n))
                \/ \E c \in todo : AddChainRaises(c)
    <2>1. \A n \in nodes' \ visits' : {n} \X LinkedNodes(n)' \subseteq edges'
      BY <1>1, <1>4 DEF GraphInv, TypeOK
    <2>2. CASE FoundAll \/ Visit \/ Chained \/ \E n \in Nodes : TakeScheduled(n)
      BY <2>1, <2>2 DEF GraphInv, NodesOf, ChainEdges, FoundAll, Visit, Chained, TakeScheduled
    <2>3. CASE GraphDone \/ NextBatch
      BY <2>1, <2>3 DEF GraphInv, NodesOf, ChainEdges, GraphDone, NextBatch
    <2>4. CASE Circular \/ Planned
      BY <2>1, <2>4 DEF GraphInv, NodesOf, ChainEdges, Circular, Planned, Raise
    <2>5. CASE VisitRaises \/ \E c \in todo : AddChainRaises(c)
      BY <1>4, <2>1, <2>5 DEF GraphInv, VisitRaises, AddChainRaises, Raise
    <2>6. CASE UNCHANGED <<pc, pending, chains, todo, waiting, steps>>
      BY <1>4, <2>1, <2>6 DEF GraphInv, NodesOf, ChainEdges
    <2> QED BY <1>4, <2>2, <2>3, <2>4, <2>5, <2>6
  <1> QED
    BY <1>2, <1>3, <1>4
    DEF Next, FoundAll, Visit, VisitRaises, Raise, Chained, GraphDone, NextBatch, Circular,
        Planned, TakeScheduled, AddChainRaises, vars

-----------------------------------------------------------------------------
(***************************************************************************)
(* A batch: what its nodes wait for has left `waiting` before them.        *)
(***************************************************************************)
LEMMA StepsGrow ==
  ASSUME TypeOK, NextBatch
  PROVE  /\ DOMAIN steps = 1..Len(steps) /\ Len(steps) \in Nat
         /\ DOMAIN steps \subseteq DOMAIN steps'
         /\ \A k \in DOMAIN steps : steps'[k] = steps[k]
         /\ \A k \in DOMAIN steps' \ DOMAIN steps :
              k = Len(steps) + 1 /\ steps'[k] = StepOf(Ready)
         /\ \A n \in StepOf(Ready) : \E k \in DOMAIN steps' : n \in steps'[k]
  <1> DEFINE B == StepOf(Ready)
  <1>1. steps \in Seq(SUBSET Nodes) /\ B \in SUBSET Nodes
    BY DEF TypeOK, StepOf, Ready
  <1>2. CASE B = {}
    <2>1. steps' = steps  BY <1>2 DEF NextBatch
    <2> QED BY <1>1, <1>2, <2>1
  <1>3. CASE B # {}
    <2>1. steps' = Append(steps, B)  BY <1>3 DEF NextBatch
    <2> HIDE DEF B
    <2>2. /\ DOMAIN steps' = 1..(Len(steps) + 1) /\ DOMAIN steps = 1..Len(steps)
          /\ Len(steps) \in Nat
          /\ \A k \in 1..Len(steps) : steps'[k] = steps[k]
          /\ steps'[Len(steps) + 1] = B
      BY <1>1, <2>1
    <2> QED BY <2>2 DEF B
  <1> QED BY <1>2, <1>3

\* A node of the batch has no edge to a node that waits.
LEMMA ReadyFree ==
  ASSUME TypeOK, BatchInv, pc = "batch",
         NEW e \in edges, e[1] \notin waiting \/ e[1] \in Ready
  PROVE  e[2] \in nodes \ waiting
  <1>1. e = <<e[1], e[2]>> /\ e[2] \in nodes  BY DEF TypeOK
  <1>2. CASE e[1] \in Ready  BY <1>1, <1>2 DEF Ready
  <1>3. CASE e[1] \notin waiting  BY <1>1, <1>3 DEF BatchInv
  <1> QED BY <1>2, <1>3

\* What follows a node of the batch in a chain has been placed.
LEMMA ChainFree ==
  ASSUME TypeOK, GraphInv, BatchInv, pc = "batch",
         NEW c \in chains, NEW i \in DOMAIN c[2], NEW j \in DOMAIN c[2], i < j,
         <<c[1], c[2][i]>> \notin waiting \/ <<c[1], c[2][i]>> \in Ready
  PROVE  <<c[1], c[2][j]>> \in nodes \ waiting
  <1>1. c[2] \in Seq(Actions) /\ DOMAIN c[2] = 1..Len(c[2]) /\ Len(c[2]) \in Nat
    BY DEF TypeOK
  <1>2. NodesOf(c) \subseteq nodes /\ ChainEdges(c) \subseteq edges  BY DEF GraphInv
  <1>3. i \in 1..(Len(c[2]) - 1) /\ i + 1 \in DOMAIN c[2]  BY <1>1
  <1>4. << <<c[1], c[2][i]>>, <<c[1], c[2][i + 1]>> >> \in edges
    BY <1>2, <1>3 DEF ChainEdges
  <1>5. <<c[1], c[2][i + 1]>> \notin waiting  BY <1>4, ReadyFree
  <1>6. <<c[1], c[2][j]>> \notin waiting
    <2>1. CASE j = i + 1  BY <2>1, <1>5
    <2>2. CASE i + 1 < j  BY <2>2, <1>3, <1>5 DEF BatchInv
    <2> QED BY <2>1, <2>2, <1>1
  <1>7. <<c[1], c[2][j]>> \in NodesOf(c)  BY DEF NodesOf
  <1> QED BY <1>2, <1>6, <1>7

LEMMA BatchNext ==
  ASSUME TypeOK, GraphInv, BatchInv, [Next]_vars
  PROVE  BatchInv'
  <1>1. CASE NextBatch
    <2>1. /\ pc = "batch" /\ waiting' = waiting \ Ready
          /\ UNCHANGED <<repo, pc, chains, nodes, edges>>
      BY <1>1 DEF NextBatch
    <2>2. \A e \in edges : e[1] \notin waiting' => e[2] \notin waiting'
      BY <2>1, ReadyFree
    <2>3. \A n \in nodes \ waiting' :
            repo.state[n] = "ok" \/ \E k \in DOMAIN steps' : n \in steps'[k]
      <3> TAKE n \in nodes \ waiting'
      <3>1. CASE n \notin waiting
        <4>1. repo.state[n] = "ok" \/ \E k \in DOMAIN steps : n \in steps[k]
          BY <2>1, <3>1 DEF BatchInv
        <4> QED BY <4>1, <1>1, StepsGrow
      <3>2. CASE n \in Ready /\ repo.state[n] # "ok"
        <4>1. n \in StepOf(Ready)  BY <3>2 DEF StepOf
        <4> QED BY <4>1, <1>1, StepsGrow
      <3> QED BY <2>1, <3>1, <3>2
    <2>4. \A k \in DOMAIN steps' : steps'[k] \subseteq nodes \ waiting'
      <3> TAKE k \in DOMAIN steps'
      <3>1. CASE k \in DOMAIN steps
        BY <1>1, <2>1, <3>1, StepsGrow DEF BatchInv
      <3>2. CASE k \notin DOMAIN steps
        <4>1. steps'[k] = StepOf(Ready)  BY <1>1, <3>2, StepsGrow
        <4> QED BY <2>1, <4>1 DEF StepOf, Ready, TypeOK
      <3> QED BY <3>1, <3>2
    <2>5. ASSUME NEW c \in chains, NEW i \in DOMAIN c[2], NEW j \in DOMAIN c[2],
                 i < j, <<c[1], c[2][i]>> \notin waiting'
          PROVE  <<c[1], c[2][j]>> \notin waiting'
      BY <2>1, <2>5, ChainFree
    <2> QED BY <2>1, <2>2, <2>3, <2>4, <2>5 DEF BatchInv
  <1>2. CASE GraphDone
    <2>1. /\ pc = "graph" /\ todo = {} /\ waiting' = nodes
          /\ UNCHANGED <<nodes, edges, steps, chains>>
      BY <1>2 DEF GraphDone
    <2>2. steps' = << >>  BY <2>1 DEF GraphInv
    <2>3. \A e \in edges : e[1] \in waiting'  BY <2>1 DEF TypeOK
    <2>4. \A c \in chains : \A i \in DOMAIN c[2] : <<c[1], c[2][i]>> \in waiting'
      BY <2>1 DEF GraphInv, NodesOf
    <2> QED BY <2>1, <2>2, <2>3, <2>4 DEF BatchInv
  <1>3. CASE pc' \notin {"batch", "done", "circular"}  BY <1>3 DEF BatchInv
  <1>4. CASE /\ UNCHANGED <<repo, chains, nodes, edges, waiting, steps>>
             /\ pc \in {"batch", "done", "circular"}
    BY <1>4 DEF BatchInv
  <1> QED
    BY <1>1, <1>2, <1>3, <1>4
    DEF Next, FoundAll, Visit, VisitRaises, Raise, Chained, Circular, Planned,
        TakeScheduled, AddEdges, AddChain, AddChainRaises, vars

LEMMA OrderNext ==
  ASSUME PlanInv, [Next]_vars
  PROVE  ProducersFirst' /\ RequiredFirst'
  <1> USE DEF PlanInv
  <1>1. CASE UNCHANGED <<repo, steps>>  BY <1>1, SameOrder
  <1>2. CASE NextBatch
    <2>1. pc = "batch" /\ visits = {} /\ todo = {} /\ pending = {} /\ repo' = repo
      BY <1>2 DEF NextBatch, GraphInv
    <2>2. ASSUME NEW i \in DOMAIN steps' \ DOMAIN steps, NEW n \in steps'[i]
          PROVE  /\ n \in Ready /\ n \in nodes
                 /\ n[1] \in Services /\ n[2] \in Actions /\ n = <<n[1], n[2]>>
                 /\ \A m \in nodes \ waiting :
                      repo.state[m] = "ok" \/ \E k \in 1..(i - 1) : m \in steps'[k]
      <3>1. /\ i = Len(steps) + 1 /\ steps'[i] = StepOf(Ready)
            /\ DOMAIN steps = 1..(i - 1)
            /\ \A k \in DOMAIN steps : steps'[k] = steps[k]
        BY <1>2, StepsGrow
      <3>2. n \in Ready /\ n \in nodes  BY <3>1 DEF StepOf, Ready, TypeOK
      <3>3. \A m \in nodes \ waiting :
              repo.state[m] = "ok" \/ \E k \in DOMAIN steps : m \in steps[k]
        BY <2>1 DEF BatchInv
      <3> QED BY <3>1, <3>2, <3>3 DEF TypeOK, Nodes
    <2>3. ProducersFirst'
      <3> SUFFICES ASSUME NEW i \in DOMAIN steps', NEW n \in steps'[i],
                          NEW s \in Below(n[1], n[2])' \ {n[1]}
                   PROVE  \/ repo.state[<<s, n[2]>>] = "ok"
                          \/ \E k \in 1..(i - 1) : <<s, n[2]>> \in steps'[k]
        BY <2>1 DEF ProducersFirst
      <3>1. CASE i \in DOMAIN steps
        <4>1. n \in steps[i] /\ DOMAIN steps = 1..Len(steps)
              /\ \A k \in 1..(i - 1) : steps'[k] = steps[k]
          BY <1>2, <3>1, StepsGrow
        <4>2. n[1] \in Services /\ n[2] \in Actions  BY <3>1, <4>1 DEF TypeOK, Nodes
        <4>3. s \in Below(n[1], n[2])  BY <2>1, <4>2, SameBelow
        <4> QED BY <3>1, <4>1, <4>3 DEF ProducersFirst
      <3>2. CASE i \notin DOMAIN steps
        <4> DEFINE a == n[2]
                   S == {n[1]} \cup {t \in Services : <<t, a>> \in nodes \ waiting}
        <4>1. s \in Below(n[1], a)  BY <2>1, <2>2, <3>2, SameBelow
        <4>2. \A t \in S : Link(a)[t] \subseteq S
          <5> SUFFICES ASSUME NEW t \in S, NEW u \in Link(a)[t]  PROVE u \in S
            OBVIOUS
          <5>1. /\ t \in Services /\ u \in Services /\ <<t, a>> \in nodes
                /\ <<t, a>> \notin waiting \/ <<t, a>> \in Ready
            BY <2>2, <3>2, LinkType
          <5>2. <<u, a>> \in LinkedNodes(<<t, a>>)  BY DEF LinkedNodes
          <5>3. << <<t, a>>, <<u, a>> >> \in edges  BY <2>1, <5>1, <5>2 DEF GraphInv
          <5>4. <<u, a>> \in nodes \ waiting  BY <2>1, <5>1, <5>3, ReadyFree
          <5> QED BY <5>1, <5>4
        <4>3. S \in SUBSET Services  BY <2>2, <3>2
        <4>4. s \in S  BY <4>1, <4>2, <4>3 DEF Below
        <4> QED BY <4>4, <2>2, <3>2
      <3> QED BY <3>1, <3>2
    <2>4. RequiredFirst'
      <3> SUFFICES ASSUME NEW i \in DOMAIN steps', NEW n \in steps'[i] \cap Selected,
                          NEW a \in Required(n[1], n[2]) \ {n[2]}
                   PROVE  \/ repo.state[<<n[1], a>>] = "ok"
                          \/ \E k \in 1..(i - 1) : <<n[1], a>> \in steps'[k]
        BY <2>1, SameLink DEF RequiredFirst
      <3>1. CASE i \in DOMAIN steps
        <4>1. n \in steps[i] /\ DOMAIN steps = 1..Len(steps)
              /\ \A k \in 1..(i - 1) : steps'[k] = steps[k]
          BY <1>2, <3>1, StepsGrow
        <4> QED BY <3>1, <4>1 DEF RequiredFirst
      <3>2. CASE i \notin DOMAIN steps
        <4>1. PICK c \in chains : c[1] = n[1] /\ c[2][1] = n[2]
          BY <2>1 DEF ChainsInv
        <4>2. /\ c[2] \in Seq(Actions) /\ c[2] # << >>
              /\ DOMAIN c[2] = 1..Len(c[2]) /\ Len(c[2]) \in Nat \ {0}
              /\ \A x \in Range(c[2]) : Range(Requires[n[1]][x]) \subseteq Range(c[2])
          <5>1. c[2] \in Seq(Actions)  BY DEF TypeOK
          <5>2. c[2] # << >>  BY DEF ChainsInv
          <5>3. \A x \in Range(c[2]) : Range(Requires[n[1]][x]) \subseteq Range(c[2])
            BY <4>1 DEF ChainsInv
          <5> QED BY <5>1, <5>2, <5>3
        <4>3. Range(c[2]) \in SUBSET Actions /\ n[2] \in Range(c[2])
          BY <4>1, <4>2 DEF Range
        <4>4. a \in Range(c[2])  BY <4>2, <4>3 DEF Required
        <4>5. PICK j \in DOMAIN c[2] : c[2][j] = a  BY <4>4 DEF Range
        <4>6. 1 \in DOMAIN c[2] /\ 1 < j  BY <4>1, <4>2, <4>5
        <4>7. <<c[1], c[2][1]>> \in Ready  BY <4>1, <2>2, <3>2
        <4>8. <<n[1], a>> \in nodes \ waiting
          BY <2>1, <4>1, <4>5, <4>6, <4>7, ChainFree
        <4> QED BY <4>8, <2>2, <3>2
      <3> QED BY <3>1, <3>2
    <2> QED BY <2>3, <2>4
  <1> QED
    BY <1>1, <1>2
    DEF Next, FoundAll, Visit, VisitRaises, Raise, Chained, GraphDone, Circular, Planned,
        TakeScheduled, AddEdges, AddChain, AddChainRaises, vars

-----------------------------------------------------------------------------
LEMMA PlanInit ==
  ASSUME Init
  PROVE  PlanInv
  <1>1. TypeOK
    <2>1. Repos \subseteq Repositories  BY PlanAssumption
    <2>2. << >> \in Seq(CallRecords) /\ << >> \in Seq(Actions) /\ << >> \in Seq(SUBSET Nodes)
      OBVIOUS
    <2> QED BY <2>1, <2>2 DEF Init, TypeOK
  <1>2. ChainInv /\ ChainsInv /\ BatchInv  BY DEF Init, ChainInv, ChainsInv, BatchInv
  <1>3. GraphInv  BY DEF Init, GraphInv
  <1>4. ProducersFirst /\ RequiredFirst  BY DEF Init, ProducersFirst, RequiredFirst
  <1> QED BY <1>1, <1>2, <1>3, <1>4 DEF PlanInv

LEMMA PlanNextInv ==
  ASSUME PlanInv, [Next]_vars
  PROVE  PlanInv'
  <1> QED
    BY TypeNext, ChainNext, ChainsNext, GraphNext, BatchNext, OrderNext DEF PlanInv

LEMMA PlanInvariant == Spec => []PlanInv
  <1> QED BY PlanInit, PlanNextInv, PTL DEF Spec

\* The types of the chain, the graph and the steps, whatever the templates.
THEOREM PlanTypeCorrect == Spec => []TypeOK
  <1>1. PlanInv => TypeOK  BY DEF PlanInv
  <1> QED BY PlanInvariant, <1>1, PTL

\* For every repository and every templates: in the steps of a run, what a
\* planned action waits for in other services is ok or in an earlier step.
THEOREM ProducersComeFirst == Spec => []ProducersFirst
  <1>1. PlanInv => ProducersFirst  BY DEF PlanInv
  <1> QED BY PlanInvariant, <1>1, PTL

\* And so is what a scheduled action requires in its own service.
THEOREM RequirementsComeFirst == Spec => []RequiredFirst
  <1>1. PlanInv => RequiredFirst  BY DEF PlanInv
  <1> QED BY PlanInvariant, <1>1, PTL

-----------------------------------------------------------------------------
(***************************************************************************)
(* Nothing more is planned than is needed: ExactInv, relative to PlanInv.  *)
(* Required and Below are themselves closed, so whatever is added to a     *)
(* chain or to the graph stays within them.                                *)
(***************************************************************************)
LEMMA RequiredClosed ==
  ASSUME NEW s \in Services, NEW a \in Actions
  PROVE  /\ a \in Required(s, a) /\ Required(s, a) \subseteq Actions
         /\ \A x \in Required(s, a) : Range(Requires[s][x]) \subseteq Required(s, a)
  <1>1. \A x \in Actions : Range(Requires[s][x]) \subseteq Actions
    <2> TAKE x \in Actions
    <2>1. Requires[s][x] \in Seq(Actions)  BY PlanAssumption
    <2> QED BY <2>1 DEF Range
  <1> QED BY <1>1 DEF Required

LEMMA BelowClosed ==
  ASSUME TypeOK, NEW s \in Services, NEW a \in Actions
  PROVE  /\ s \in Below(s, a) /\ Below(s, a) \subseteq Services
         /\ \A t \in Below(s, a) : Link(a)[t] \subseteq Below(s, a)
  <1>1. \A t \in Services : Link(a)[t] \subseteq Services  BY LinkType
  <1> QED BY <1>1 DEF Below

LEMMA SelectedType ==
  ASSUME NEW m \in Selected
  PROVE  m \in Nodes /\ m[1] \in Services /\ m[2] \in Actions /\ m = <<m[1], m[2]>>
  BY DEF Selected, Nodes

\* The plan is for the repository that was read at first.
LEMMA SameRepo == [Next]_vars => repo' = repo
  BY DEF Next, FoundAll, Visit, VisitRaises, Raise, Chained, GraphDone, NextBatch, Circular,
         Planned, TakeScheduled, AddEdges, AddChain, AddChainRaises, vars

LEMMA SameNeeded ==
  ASSUME repo' = repo, NEW n \in Nodes, Needed(n)
  PROVE  Needed(n)'
  <1>1. PICK m \in Selected : n[2] \in Required(m[1], m[2]) /\ n[1] \in Below(m[1], n[2])
    BY DEF Needed
  <1>2. Below(m[1], n[2])' = Below(m[1], n[2]) /\ Selected' = Selected
    BY SelectedType, SameBelow, SameLink DEF Nodes
  <1>3. Required(m[1], m[2])' = Required(m[1], m[2])  BY DEF Required
  <1> QED BY <1>1, <1>2, <1>3 DEF Needed

\* A call of _build_actions_chain adds what its action requires.
LEMMA SoundChainNext ==
  ASSUME TypeOK, ChainInv, SoundChainInv, [Next]_vars
  PROVE  SoundChainInv'
  <1>1. CASE Visit
    <2> DEFINE c == Head(agenda)
               R == Required(service, Target)
    <2>1. /\ agenda # << >> /\ pc = "chain" /\ service' = service /\ repo' = repo
          /\ service \in Services
      BY <1>1 DEF Visit, TypeOK
    <2>2. Target' = Target /\ Selected' = Selected  BY <1>1, <2>1, SameTarget, SameLink
    <2>3. <<service, Target>> \in Selected /\ Target \in Actions
      BY <2>1, SelectedType DEF SoundChainInv
    <2>4. /\ Range(ds) \subseteq R
          /\ \A i \in DOMAIN agenda : agenda[i].act \in R
      BY <2>1 DEF SoundChainInv
    <2>5. /\ agenda \in Seq(CallRecords) /\ 1 \in DOMAIN agenda /\ c = agenda[1]
          /\ Tail(agenda) \in Seq(CallRecords)
          /\ \A k \in DOMAIN Tail(agenda) : k + 1 \in DOMAIN agenda /\ Tail(agenda)[k] = agenda[k + 1]
      BY <2>1 DEF TypeOK
    <2>6. c.act \in R /\ \A k \in DOMAIN Tail(agenda) : Tail(agenda)[k].act \in R
      BY <2>4, <2>5
    <2>7. CASE c.act \in Range(ds)
      <3>1. ds' = ds /\ agenda' = Tail(agenda)  BY <1>1, <2>7 DEF Visit
      <3> QED BY <2>1, <2>2, <2>3, <2>4, <2>6, <3>1 DEF SoundChainInv, Required
    <2>8. CASE c.act \notin Range(ds)
      <3>1. ds' = Append(ds, c.act) /\ agenda' = Calls(c) \o Tail(agenda)
        BY <1>1, <2>8 DEF Visit
      <3>2. Range(ds') = Range(ds) \cup {c.act}
        BY <2>1, <3>1, CallsType, RangeOfAppend DEF TypeOK
      <3>3. c.act \in Actions /\ Calls(c) \in Seq(CallRecords)
            /\ Requires[service][c.act] \in Seq(Actions)
        BY <2>1, CallsType, PlanAssumption
      <3>4. \A k \in DOMAIN Calls(c) : Calls(c)[k].act \in R
        <4> TAKE k \in DOMAIN Calls(c)
        <4>1. k \in DOMAIN Requires[service][c.act] /\ Calls(c)[k].act = Requires[service][c.act][k]
          BY DEF Calls, Call
        <4>2. Calls(c)[k].act \in Range(Requires[service][c.act])  BY <4>1 DEF Range
        <4> QED BY <2>1, <2>3, <2>6, <4>2, RequiredClosed
      <3>5. \A i \in DOMAIN agenda' : agenda'[i].act \in R
        <4> TAKE i \in DOMAIN agenda'
        <4> HIDE DEF c, R
        <4>1. \/ i \in DOMAIN Calls(c) /\ agenda'[i] = Calls(c)[i]
              \/ i - Len(Calls(c)) \in DOMAIN Tail(agenda)
                 /\ agenda'[i] = Tail(agenda)[i - Len(Calls(c))]
          BY <2>5, <3>1, <3>3
        <4> QED BY <2>6, <3>4, <4>1
      <3> QED BY <2>1, <2>2, <2>3, <2>4, <2>6, <3>2, <3>5 DEF SoundChainInv, Required
    <2> QED BY <2>7, <2>8
  <1>2. CASE \E n \in Nodes : TakeScheduled(n)
    <2> PICK n \in Nodes : TakeScheduled(n)  BY <1>2
    <2>1. /\ n \in pending /\ service' = n[1] /\ agenda' = <<Call(n[2], {})>> /\ ds' = << >>
          /\ repo' = repo
      BY DEF TakeScheduled
    <2>2. n \in Selected /\ Selected' = Selected  BY <2>1, SameLink DEF TypeOK
    <2>3. Range(ds') = {} /\ Target' = n[2]  BY <2>1 DEF Range, Target, Call
    <2>4. DOMAIN agenda' = {1} /\ agenda'[1].act = n[2]  BY <2>1 DEF Call
    <2>5. n[2] \in Required(n[1], n[2]) /\ n = <<n[1], n[2]>>
      BY <2>2, SelectedType, RequiredClosed
    <2> QED BY <2>1, <2>2, <2>3, <2>4, <2>5 DEF SoundChainInv, Required
  <1>3. CASE UNCHANGED vars
    BY <1>3, SameLink DEF SoundChainInv, vars, Target, Required
  <1>4. CASE pc' # "chain"  BY <1>4 DEF SoundChainInv
  <1> QED
    BY <1>1, <1>2, <1>3, <1>4
    DEF Next, FoundAll, VisitRaises, Raise, Chained, GraphDone, NextBatch, Circular,
        Planned, AddEdges, AddChain, AddChainRaises

\* The nodes of a chain and what the edges lead to are needed.
LEMMA SoundNext ==
  ASSUME TypeOK, ChainInv, SoundChainInv, SoundInv, [Next]_vars
  PROVE  SoundInv'
  <1>1. repo' = repo  BY SameRepo
  <1>2. Selected' = Selected  BY <1>1, SameLink
  <1>3. \A m \in Selected : Required(m[1], m[2])' = Required(m[1], m[2])  BY DEF Required
  <1>4. \A n \in nodes : Needed(n)'  BY <1>1, SameNeeded DEF SoundInv, TypeOK
  <1>5. \A c \in chains : \E m \in Selected' :
          c[1] = m[1] /\ Range(c[2]) \subseteq Required(m[1], m[2])'
    BY <1>2, <1>3 DEF SoundInv
  <1>6. CASE UNCHANGED <<chains, nodes>>
    BY <1>4, <1>5, <1>6 DEF SoundInv
  <1>7. CASE Chained
    <2>1. /\ pc = "chain" /\ agenda = << >> /\ chains' = chains \cup {<<service, ds>>}
          /\ nodes' = nodes
      BY <1>7 DEF Chained
    <2>2. <<service, Target>> \in Selected /\ Range(ds) \subseteq Required(service, Target)
      BY <2>1 DEF SoundChainInv
    <2>3. \E m \in Selected' : service = m[1] /\ Range(ds) \subseteq Required(m[1], m[2])'
      BY <1>2, <1>3, <2>2
    <2> QED BY <1>4, <1>5, <2>1, <2>3 DEF SoundInv
  <1>8. CASE \E c \in todo : AddChain(c)
    <2> PICK c \in todo : AddChain(c)  BY <1>8
    <2>1. /\ nodes' = nodes \cup NodesOf(c) /\ chains' = chains /\ NodesOf(c) \subseteq Nodes
      BY DEF AddChain, ChainFails
    <2>2. PICK m \in Selected : c[1] = m[1] /\ Range(c[2]) \subseteq Required(m[1], m[2])
      BY DEF SoundInv, TypeOK
    <2>3. \A n \in NodesOf(c) : Needed(n)
      <3> TAKE n \in NodesOf(c)
      <3>1. n[1] = m[1] /\ n[2] \in Required(m[1], m[2])  BY <2>2 DEF NodesOf, Range
      <3>2. n[2] \in Actions /\ n[1] \in Services  BY <2>1 DEF Nodes
      <3>3. n[1] \in Below(m[1], n[2])  BY <3>1, <3>2, BelowClosed
      <3> QED BY <3>1, <3>3 DEF Needed
    <2> QED BY <1>1, <1>4, <1>5, <2>1, <2>3, SameNeeded DEF SoundInv
  <1>9. CASE \E n \in Nodes : AddEdges(n)
    <2> PICK n \in Nodes : AddEdges(n)  BY <1>9
    <2>1. /\ nodes' = nodes \cup LinkedNodes(n) /\ chains' = chains
          /\ n \in nodes /\ LinkedNodes(n) \subseteq Nodes
      BY LinkType DEF AddEdges, TypeOK
    <2>2. PICK m \in Selected : n[2] \in Required(m[1], m[2]) /\ n[1] \in Below(m[1], n[2])
      BY <2>1 DEF SoundInv, Needed
    <2>3. m[1] \in Services /\ n[2] \in Actions  BY SelectedType DEF Nodes
    <2>4. \A k \in LinkedNodes(n) : k[2] = n[2] /\ k[1] \in Link(n[2])[n[1]]  BY DEF LinkedNodes
    <2>5. \A k \in LinkedNodes(n) : Needed(k)
      BY <2>2, <2>3, <2>4, BelowClosed DEF Needed
    <2> QED BY <1>1, <1>4, <1>5, <2>1, <2>5, SameNeeded DEF SoundInv
  <1> QED
    BY <1>6, <1>7, <1>8, <1>9
    DEF Next, FoundAll, Visit, VisitRaises, Raise, GraphDone, NextBatch, Circular, Planned,
        TakeScheduled, AddChainRaises, vars

\* A batch holds what no earlier one held.
LEMMA DistinctNext ==
  ASSUME TypeOK, GraphInv, BatchInv, DistinctInv, [Next]_vars
  PROVE  DistinctInv'
  <1>1. CASE UNCHANGED <<repo, steps>>  BY <1>1 DEF DistinctInv
  <1>2. CASE NextBatch
    <2>1. repo' = repo /\ pc = "batch"  BY <1>2 DEF NextBatch
    <2>2. \A k \in DOMAIN steps : steps[k] \cap Ready = {}
      BY <2>1 DEF BatchInv, Ready
    <2>3. StepOf(Ready) \subseteq Ready /\ \A n \in StepOf(Ready) : repo.state[n] # "ok"
      BY DEF StepOf
    <2>4. CASE StepOf(Ready) = {}
      <3>1. steps' = steps  BY <1>2, <2>4 DEF NextBatch
      <3> QED BY <2>1, <3>1 DEF DistinctInv
    <2>5. CASE StepOf(Ready) # {}
      <3>1. /\ \A k \in DOMAIN steps : steps'[k] = steps[k]
            /\ \A k \in DOMAIN steps' \ DOMAIN steps :
                 k = Len(steps) + 1 /\ steps'[k] = StepOf(Ready)
        BY <1>2, StepsGrow
      <3>2. \A k \in DOMAIN steps' : steps'[k] # {} /\ \A n \in steps'[k] : repo.state[n] # "ok"
        BY <2>3, <2>5, <3>1 DEF DistinctInv
      <3>3. \A i, k \in DOMAIN steps' : i # k => steps'[i] \cap steps'[k] = {}
        <4> TAKE i, k \in DOMAIN steps'
        <4>1. CASE i \in DOMAIN steps /\ k \in DOMAIN steps  BY <3>1, <4>1 DEF DistinctInv
        <4>2. CASE i \in DOMAIN steps /\ k \notin DOMAIN steps  BY <2>2, <2>3, <3>1, <4>2
        <4>3. CASE i \notin DOMAIN steps /\ k \in DOMAIN steps  BY <2>2, <2>3, <3>1, <4>3
        <4>4. CASE i \notin DOMAIN steps /\ k \notin DOMAIN steps  BY <3>1, <4>4
        <4> QED BY <4>1, <4>2, <4>3, <4>4
      <3> QED BY <2>1, <3>2, <3>3 DEF DistinctInv
    <2> QED BY <2>4, <2>5
  <1> QED
    BY <1>1, <1>2, SameRepo
    DEF Next, FoundAll, Visit, VisitRaises, Raise, Chained, GraphDone, Circular, Planned,
        TakeScheduled, AddEdges, AddChain, AddChainRaises, vars

LEMMA ExactInvariant == Spec => [](PlanInv /\ ExactInv)
  <1>1. Init => ExactInv
    BY DEF Init, ExactInv, SoundChainInv, SoundInv, DistinctInv
  <1>2. ASSUME PlanInv, ExactInv, [Next]_vars
        PROVE  ExactInv'
    <2>1. (pc = "done" => waiting = {})'
      BY <1>2 DEF ExactInv, Next, FoundAll, Visit, VisitRaises, Raise, Chained, GraphDone,
         NextBatch, Circular, Planned, TakeScheduled, AddEdges, AddChain, AddChainRaises, vars
    <2> QED BY <1>2, <2>1, SoundChainNext, SoundNext, DistinctNext DEF PlanInv, ExactInv
  <1> QED BY <1>1, <1>2, PlanInit, PlanNextInv, PTL DEF Spec

\* A finished graph has all nodes that are needed.
LEMMA NeededIsPlaced ==
  ASSUME PlanInv, ExactInv, pc = "done", NEW n \in Nodes, Needed(n)
  PROVE  n \in nodes
  <1> USE DEF PlanInv
  <1>1. visits = {} /\ todo = {} /\ pending = {}  BY DEF GraphInv
  <1>2. PICK m \in Selected : n[2] \in Required(m[1], m[2]) /\ n[1] \in Below(m[1], n[2])
    BY DEF Needed
  <1>3. n[1] \in Services /\ n[2] \in Actions /\ n = <<n[1], n[2]>>  BY DEF Nodes
  <1>4. PICK c \in chains : c[1] = m[1] /\ c[2][1] = m[2]
    BY <1>1 DEF ChainsInv
  <1>5. /\ c[2] \in Seq(Actions) /\ c[2] # << >>
        /\ \A x \in Range(c[2]) : Range(Requires[m[1]][x]) \subseteq Range(c[2])
    BY <1>4 DEF ChainsInv, TypeOK
  <1>6. Range(c[2]) \in SUBSET Actions /\ m[2] \in Range(c[2])
    BY <1>4, <1>5 DEF Range
  <1>7. n[2] \in Range(c[2])  BY <1>2, <1>5, <1>6 DEF Required
  <1>8. <<m[1], n[2]>> \in nodes
    <2>1. PICK j \in DOMAIN c[2] : c[2][j] = n[2]  BY <1>7 DEF Range
    <2> QED BY <1>1, <1>4, <2>1 DEF GraphInv, NodesOf
  <1> DEFINE S == {t \in Services : <<t, n[2]>> \in nodes}
  <1>9. \A t \in S : Link(n[2])[t] \subseteq S
    <2> SUFFICES ASSUME NEW t \in S, NEW u \in Link(n[2])[t]  PROVE u \in S
      OBVIOUS
    <2>1. u \in Services /\ <<t, n[2]>> \in nodes  BY <1>3, LinkType
    <2>2. <<u, n[2]>> \in LinkedNodes(<<t, n[2]>>)  BY DEF LinkedNodes
    <2>3. << <<t, n[2]>>, <<u, n[2]>> >> \in edges  BY <1>1, <2>1, <2>2 DEF GraphInv
    <2> QED BY <2>1, <2>3 DEF TypeOK
  <1>10. m[1] \in S /\ S \in SUBSET Services  BY <1>8, SelectedType
  <1>11. n[1] \in S  BY <1>2, <1>9, <1>10 DEF Below
  <1> QED BY <1>3, <1>11

\* A finished plan holds what the scheduled actions need, each once, and
\* nothing else, for every repository and every templates.
THEOREM PlansAreExact == Spec => []PlanIsExact
  <1>1. ASSUME PlanInv, ExactInv
        PROVE  PlanIsExact
    <2> SUFFICES ASSUME pc = "done"
                 PROVE  /\ UNION Range(steps) = {n \in Nodes : repo.state[n] # "ok" /\ Needed(n)}
                        /\ \A i, k \in DOMAIN steps :
                             steps[i] # {} /\ (i # k => steps[i] \cap steps[k] = {})
      BY DEF PlanIsExact, Needed
    <2> USE <1>1 DEF PlanInv, ExactInv
    <2>1. waiting = {}  OBVIOUS
    <2>2. ASSUME NEW n \in Nodes, repo.state[n] # "ok", Needed(n)
          PROVE  n \in UNION Range(steps)
      <3>1. n \in nodes \ waiting  BY <2>1, <2>2, NeededIsPlaced
      <3>2. \E k \in DOMAIN steps : n \in steps[k]  BY <2>2, <3>1 DEF BatchInv
      <3> QED BY <3>2 DEF Range
    <2>3. ASSUME NEW n \in UNION Range(steps)
          PROVE  n \in Nodes /\ repo.state[n] # "ok" /\ Needed(n)
      <3>1. PICK k \in DOMAIN steps : n \in steps[k]  BY <2>3 DEF Range
      <3>2. n \in nodes /\ repo.state[n] # "ok"  BY <3>1 DEF BatchInv, DistinctInv
      <3> QED BY <3>2 DEF SoundInv, TypeOK
    <2>4. \A i, k \in DOMAIN steps : steps[i] # {} /\ (i # k => steps[i] \cap steps[k] = {})
      BY DEF DistinctInv
    <2> QED BY <2>2, <2>3, <2>4
  <1> QED BY <1>1, ExactInvariant, PTL

-----------------------------------------------------------------------------
(***************************************************************************)
(* No circle: with linear requirements an edge leads to where fewer        *)
(* requirements are left, or as many and fewer services; so there is a     *)
(* node whose edges lead to nothing that waits.                            *)
(***************************************************************************)
LEMMA AtMostOne ==
  ASSUME NEW n \in Nat
  PROVE  /\ n <= 1 => n = 0 \/ n = 1
         /\ 1..n = {1} => n = 1
  <1>1. n <= 1 => n = 0 \/ n = 1  OBVIOUS
  <1>2. ASSUME 1..n = {1}  PROVE n = 1
    <2>1. n = 0 => 1 \notin 1..n  OBVIOUS
    <2>2. n > 1 => n \in 1..n  OBVIOUS
    <2> QED BY <1>2, <2>1, <2>2
  <1> QED BY <1>1, <1>2

LEMMA LinearRequires ==
  ASSUME Linear, NEW s \in Services, NEW a \in Actions
  PROVE  /\ Requires[s][a] \in Seq(Actions)
         /\ \/ Requires[s][a] = << >> /\ Range(Requires[s][a]) = {}
            \/ /\ DOMAIN Requires[s][a] = {1}
               /\ Range(Requires[s][a]) = {Requires[s][a][1]}
               /\ Requires[s][a][1] \in Actions
  <1> DEFINE R == Requires[s][a]
  <1>1. R \in Seq(Actions) /\ Len(R) <= 1  BY PlanAssumption DEF Linear
  <1> HIDE DEF R
  <1>2. CASE Len(R) = 0
    <2>1. R = << >>  BY <1>1, <1>2
    <2> QED BY <1>1, <2>1 DEF R, Range
  <1>3. CASE Len(R) = 1
    <2>1. DOMAIN R = {1} /\ R[1] \in Actions  BY <1>1, <1>3
    <2>2. Range(R) = {R[1]}  BY <2>1 DEF Range
    <2> QED BY <1>1, <2>1, <2>2 DEF R
  <1>4. Len(R) = 0 \/ Len(R) = 1
    <2>1. Len(R) \in Nat  BY <1>1, LenProperties
    <2> QED BY <1>1, <2>1, AtMostOne
  <1> QED BY <1>2, <1>3, <1>4

\* A line that is continued by what its last action requires.
LEMMA LineGrows ==
  ASSUME NEW s, NEW q \in Seq(Actions), NEW a \in Actions, Line(s, q), a \notin Range(q),
         q # << >> => Range(Requires[s][q[Len(q)]]) = {a}
  PROVE  Line(s, Append(q, a))
  <1> DEFINE r == Append(q, a)
  <1>1. /\ Len(q) \in Nat /\ DOMAIN q = 1..Len(q)
        /\ DOMAIN r = 1..(Len(q) + 1) /\ r[Len(q) + 1] = a
        /\ \A i \in DOMAIN q : r[i] = q[i]
        /\ q # << >> <=> Len(q) > 0
    OBVIOUS
  <1> HIDE DEF r
  <1>2. \A i \in DOMAIN q : q[i] # a  BY DEF Range
  <1>3. ASSUME NEW i \in DOMAIN r, NEW k \in DOMAIN r, i # k  PROVE r[i] # r[k]
    <2>1. CASE i \in DOMAIN q /\ k \in DOMAIN q  BY <1>1, <1>3, <2>1 DEF Line
    <2>2. CASE i \in DOMAIN q /\ k \notin DOMAIN q  BY <1>1, <1>2, <2>2
    <2>3. CASE i \notin DOMAIN q /\ k \in DOMAIN q  BY <1>1, <1>2, <2>3
    <2>4. CASE i \notin DOMAIN q /\ k \notin DOMAIN q  BY <1>1, <1>3, <2>4
    <2> QED BY <2>1, <2>2, <2>3, <2>4
  <1>4. ASSUME NEW i \in DOMAIN r, i + 1 \in DOMAIN r
        PROVE  Range(Requires[s][r[i]]) = {r[i + 1]}
    <2>1. CASE i + 1 \in DOMAIN q
      <3>1. i \in DOMAIN q  BY <1>1, <1>4, <2>1
      <3> QED BY <1>1, <2>1, <3>1 DEF Line
    <2>2. CASE i + 1 \notin DOMAIN q
      <3>1. i = Len(q) /\ i \in DOMAIN q /\ q # << >>  BY <1>1, <1>4, <2>2
      <3> QED BY <1>1, <3>1
    <2> QED BY <2>1, <2>2
  <1> QED BY <1>3, <1>4 DEF Line, r

LEMMA LineNext ==
  ASSUME Linear, TypeOK, ChainInv, LineInv, [Next]_vars
  PROVE  LineInv'
  <1>1. CASE Visit
    <2> DEFINE c == Head(agenda)
               R == Requires[service][c.act]
    <2>1. /\ agenda # << >> /\ pc = "chain" /\ c.act \notin c.above
          /\ service' = service /\ chains' = chains /\ pc' = pc
      BY <1>1 DEF Visit
    <2>2. /\ Line(service, ds) /\ Len(agenda) = 1 /\ agenda[1].above = Range(ds)
          /\ ds # << >> => Range(Requires[service][ds[Len(ds)]]) = {agenda[1].act}
      BY <2>1 DEF LineInv
    <2>3. /\ agenda \in Seq(CallRecords) /\ c = agenda[1] /\ c.act \in Actions
          /\ Tail(agenda) = << >> /\ service \in Services /\ ds \in Seq(Actions)
      <3>1. agenda \in Seq(CallRecords) /\ service \in Services /\ ds \in Seq(Actions)
        BY DEF TypeOK
      <3>2. c = agenda[1] /\ agenda[1] \in CallRecords  BY <2>2, <3>1
      <3>3. Tail(agenda) \in Seq(CallRecords) /\ Len(Tail(agenda)) = 0
        BY <2>1, <2>2, <3>1, HeadTailProperties
      <3>4. Tail(agenda) = << >>
        <4> DEFINE T == Tail(agenda)
        <4>1. T \in Seq(CallRecords) /\ Len(T) = 0  BY <3>3
        <4> HIDE DEF T
        <4>2. T = << >>  BY <4>1
        <4> QED BY <4>2 DEF T
      <3> QED BY <3>1, <3>2, <3>4 DEF CallRecords
    <2>4. c.act \notin Range(ds)  BY <2>1, <2>2, <2>3
    <2>5. Calls(c) \in Seq(CallRecords)  BY <2>1, CallsType
    <2>6. ds' = Append(ds, c.act) /\ agenda' = Calls(c)
      <3>1. ds' = Append(ds, c.act) /\ agenda' = Calls(c) \o Tail(agenda)
        BY <1>1, <2>4 DEF Visit
      <3> DEFINE C == Calls(c)
      <3>2. C \in Seq(CallRecords)  BY <2>5
      <3>3. agenda' = C \o << >>  BY <2>3, <3>1
      <3> HIDE DEF C
      <3>4. agenda' = C  BY <3>2, <3>3
      <3> QED BY <3>1, <3>4 DEF C
    <2>7. Line(service, ds')  BY <2>2, <2>3, <2>4, <2>6, LineGrows
    <2>8. Range(ds') = Range(ds) \cup {c.act}  BY <2>3, <2>6, RangeOfAppend
    <2>9. ds' # << >> /\ ds'[Len(ds')] = c.act  BY <2>3, <2>6
    <2>10. CASE R = << >> /\ Range(R) = {}
      <3>1. DOMAIN Calls(c) = {}  BY <2>10 DEF Calls
      <3>2. agenda' = << >>
        <4> DEFINE C == Calls(c)
        <4>1. C \in Seq(CallRecords) /\ DOMAIN C = {}  BY <2>5, <3>1
        <4> HIDE DEF C
        <4>2. C = << >>  BY <4>1
        <4> QED BY <2>6, <4>2 DEF C
      <3>3. Ended(service, ds')  BY <2>9, <2>10 DEF Ended
      <3> QED BY <2>1, <2>7, <3>2, <3>3 DEF LineInv
    <2>11. CASE DOMAIN R = {1} /\ Range(R) = {R[1]} /\ R[1] \in Actions
      <3>1. DOMAIN Calls(c) = {1} /\ Calls(c)[1] = Call(R[1], c.above \cup {c.act})
        BY <2>11 DEF Calls
      <3>2. Len(Calls(c)) = 1 /\ Calls(c) # << >>
        <4> DEFINE C == Calls(c)
        <4>1. C \in Seq(CallRecords) /\ DOMAIN C = {1}  BY <2>5, <3>1
        <4> HIDE DEF C
        <4>2. Len(C) \in Nat /\ 1..Len(C) = {1}  BY <4>1, LenProperties
        <4>3. Len(C) = 1  BY <4>2, AtMostOne
        <4> QED BY <4>1, <4>3 DEF C
      <3>3. agenda'[1].act = R[1] /\ agenda'[1].above = Range(ds')
        <4>1. agenda'[1] = Call(R[1], c.above \cup {c.act})  BY <2>6, <3>1
        <4>2. c.above = Range(ds)  BY <2>2, <2>3
        <4> QED BY <2>8, <4>1, <4>2 DEF Call
      <3>4. Range(Requires[service][ds'[Len(ds')]]) = {agenda'[1].act}
        BY <2>9, <2>11, <3>3
      <3> QED BY <2>1, <2>6, <2>7, <3>2, <3>3, <3>4 DEF LineInv
    <2> QED BY <2>3, <2>10, <2>11, LinearRequires
  <1>2. CASE \E n \in Nodes : TakeScheduled(n)
    <2> PICK n \in Nodes : TakeScheduled(n)  BY <1>2
    <2>1. /\ agenda' = <<Call(n[2], {})>> /\ ds' = << >> /\ chains' = chains
      BY DEF TakeScheduled
    <2>2. Range(ds') = {}  BY <2>1 DEF Range
    <2>4. Line(service, ds)'  BY <2>1 DEF Line
    <2>3. Len(agenda') = 1 /\ agenda'[1].above = {} /\ agenda' # << >>  BY <2>1 DEF Call
    <2>5. \A c \in chains' : Line(c[1], c[2]) /\ Ended(c[1], c[2])  BY <2>1 DEF LineInv
    <2> QED BY <2>1, <2>2, <2>3, <2>4, <2>5 DEF LineInv
  <1>3. CASE Chained
    <2>1. /\ pc = "chain" /\ agenda = << >> /\ pc' = "find"
          /\ chains' = chains \cup {<<service, ds>>}
      BY <1>3 DEF Chained
    <2>2. Line(service, ds) /\ Ended(service, ds)  BY <2>1 DEF LineInv
    <2>3. \A c \in chains' : Line(c[1], c[2]) /\ Ended(c[1], c[2])
      BY <2>1, <2>2 DEF LineInv
    <2> QED BY <2>1, <2>3 DEF LineInv
  <1>4. CASE UNCHANGED <<pc, service, agenda, ds, chains>>
    BY <1>4 DEF LineInv, Line, Ended
  <1>5. CASE pc' # "chain" /\ chains' = chains  BY <1>5 DEF LineInv, Line, Ended
  <1> QED
    BY <1>1, <1>2, <1>3, <1>4, <1>5
    DEF Next, FoundAll, VisitRaises, Raise, GraphDone, NextBatch, Circular,
        Planned, AddEdges, AddChain, AddChainRaises, vars

LEMMA BelowWithin ==
  ASSUME TypeOK, NEW s \in Services, NEW a \in Actions, NEW t \in Below(s, a)
  PROVE  t \in Services /\ Below(t, a) \subseteq Below(s, a)
  <1>1. /\ Below(s, a) \in SUBSET Services /\ t \in Below(s, a)
        /\ \A u \in Below(s, a) : Link(a)[u] \subseteq Below(s, a)
    BY BelowClosed
  <1>2. \A v \in Below(t, a) : v \in Below(s, a)  BY <1>1 DEF Below
  <1> QED BY <1>1, <1>2

LEMMA FlowNext ==
  ASSUME TypeOK, FlowInv, [Next]_vars
  PROVE  FlowInv'
  <1> DEFINE NoCircle(n) ==
        \A t \in Below(n[1], n[2]) : \A u \in Link(n[2])[t] : t \notin Below(u, n[2])
  <1> DEFINE Known(e) == e[2] \in LinkedNodes(e[1]) \/ \E c \in chains : e \in ChainEdges(c)
  <1>1. repo' = repo  BY SameRepo
  <1>2. ASSUME NEW n \in Nodes, NoCircle(n)  PROVE NoCircle(n)'
    <2>1. n[1] \in Services /\ n[2] \in Actions  BY DEF Nodes
    <2>2. Below(n[1], n[2])' = Below(n[1], n[2]) /\ Link(n[2])' = Link(n[2])
      BY <1>1, <2>1, SameBelow, SameLink
    <2>3. \A t \in Below(n[1], n[2]) : \A u \in Link(n[2])[t] : Below(u, n[2])' = Below(u, n[2])
      BY <1>1, <2>1, SameBelow, LinkType, BelowClosed
    <2> QED BY <1>2, <2>2, <2>3
  <1>3. ASSUME NEW e \in nodes \X nodes, Known(e), chains \subseteq chains'  PROVE Known(e)'
    <2>1. e[1] \in Nodes  BY DEF TypeOK
    <2>2. LinkedNodes(e[1])' = LinkedNodes(e[1])  BY <1>1, <2>1, SameLinkedNodes
    <2> QED BY <1>3, <2>2 DEF ChainEdges
  <1>4. nodes \subseteq Nodes /\ edges \subseteq nodes \X nodes  BY DEF TypeOK
  <1>5. (\A n \in nodes : NoCircle(n)) /\ (\A e \in edges : Known(e))  BY DEF FlowInv
  <1>6. CASE UNCHANGED <<nodes, edges>> /\ chains \subseteq chains'
    <2>1. \A n \in nodes' : NoCircle(n)'  BY <1>2, <1>4, <1>5, <1>6
    <2>2. \A e \in edges' : Known(e)'  BY <1>3, <1>4, <1>5, <1>6
    <2> QED BY <2>1, <2>2 DEF FlowInv
  <1>7. CASE \E c \in todo : AddChain(c)
    <2> PICK c \in todo : AddChain(c)  BY <1>7
    <2>1. /\ nodes' = nodes \cup NodesOf(c) /\ edges' = edges \cup ChainEdges(c)
          /\ chains' = chains /\ ~ ChainFails(c) /\ c \in chains
      BY DEF AddChain, TypeOK
    <2>2. ASSUME NEW n \in NodesOf(c)  PROVE n \in Nodes /\ NoCircle(n)
      <3>1. PICK i \in DOMAIN c[2] : n = <<c[1], c[2][i]>>  BY DEF NodesOf
      <3> QED BY <2>1, <3>1 DEF ChainFails
    <2>3. \A n \in nodes' : NoCircle(n)'  BY <1>2, <1>4, <1>5, <2>1, <2>2
    <2>4. \A e \in edges : Known(e)'  BY <1>3, <1>4, <1>5, <2>1
    <2>5. \A e \in ChainEdges(c) : Known(e)'  BY <2>1 DEF ChainEdges
    <2>6. \A e \in edges' : Known(e)'  BY <2>1, <2>4, <2>5
    <2> QED BY <2>3, <2>6 DEF FlowInv
  <1>8. CASE \E n \in Nodes : AddEdges(n)
    <2> PICK n \in Nodes : AddEdges(n)  BY <1>8
    <2>1. /\ nodes' = nodes \cup LinkedNodes(n) /\ edges' = edges \cup ({n} \X LinkedNodes(n))
          /\ chains' = chains /\ n \in nodes
      BY DEF AddEdges, TypeOK
    <2>2. n[1] \in Services /\ n[2] \in Actions /\ NoCircle(n)
      BY <1>5, <2>1 DEF Nodes
    <2>3. ASSUME NEW m \in LinkedNodes(n)  PROVE m \in Nodes /\ NoCircle(m)
      <3>1. m[1] \in Link(n[2])[n[1]] /\ m[2] = n[2]  BY DEF LinkedNodes
      <3>2. m[1] \in Below(n[1], n[2])  BY <2>2, <3>1, BelowClosed
      <3>3. Below(m[1], n[2]) \subseteq Below(n[1], n[2])  BY <2>2, <3>2, BelowWithin
      <3> QED BY <2>2, <3>1, <3>3, LinkType
    <2>4. \A m \in nodes' : NoCircle(m)'  BY <1>2, <1>4, <1>5, <2>1, <2>3
    <2>5. \A e \in edges : Known(e)'  BY <1>3, <1>4, <1>5, <2>1
    <2>6. \A e \in {n} \X LinkedNodes(n) : Known(e)'
      <3>1. LinkedNodes(n)' = LinkedNodes(n)  BY <1>1, SameLinkedNodes
      <3> QED BY <3>1
    <2>7. \A e \in edges' : Known(e)'  BY <2>1, <2>5, <2>6
    <2> QED BY <2>4, <2>7 DEF FlowInv
  <1> QED
    BY <1>6, <1>7, <1>8
    DEF Next, FoundAll, Visit, VisitRaises, Raise, Chained, GraphDone, NextBatch, Circular,
        Planned, TakeScheduled, AddChainRaises, vars

LEMMA RequiredWithin ==
  ASSUME NEW s, NEW a, NEW S \in SUBSET Actions, a \in S,
         \A x \in S : Range(Requires[s][x]) \subseteq S
  PROVE  Required(s, a) \subseteq S
  BY DEF Required

LEMMA NotTheLast ==
  ASSUME NEW n \in Nat, NEW i \in 1..(n - 1), NEW j \in (i + 1)..n, j # n
  PROVE  j \in 1..n /\ j + 1 \in 1..n /\ j + 1 \in (i + 1)..n
  OBVIOUS

\* Of what follows an action in a chain, less is required.
LEMMA ChainDescends ==
  ASSUME NEW s \in Services, NEW q \in Seq(Actions), Line(s, q), Ended(s, q),
         NEW i \in 1..(Len(q) - 1)
  PROVE  /\ Required(s, q[i + 1]) \subseteq Required(s, q[i])
         /\ Required(s, q[i + 1]) # Required(s, q[i])
  <1>1. /\ Len(q) \in Nat /\ DOMAIN q = 1..Len(q)
        /\ i \in DOMAIN q /\ i + 1 \in DOMAIN q
        /\ q[i] \in Actions /\ q[i + 1] \in Actions
    OBVIOUS
  <1>2. Required(s, q[i + 1]) \subseteq Required(s, q[i])
    <2>1. q[i] \in Required(s, q[i]) /\ Required(s, q[i]) \in SUBSET Actions
      BY <1>1, RequiredClosed
    <2>2. q[i + 1] \in Range(Requires[s][q[i]])  BY <1>1 DEF Line
    <2>3. \A x \in Required(s, q[i]) : Range(Requires[s][x]) \subseteq Required(s, q[i])
      BY <1>1, RequiredClosed
    <2>4. q[i + 1] \in Required(s, q[i])  BY <2>1, <2>2, <2>3
    <2> QED BY <2>1, <2>3, <2>4, RequiredWithin
  <1>3. q[i] \notin Required(s, q[i + 1])
    <2> DEFINE S == {q[j] : j \in (i + 1)..Len(q)}
    <2>1. S \in SUBSET Actions /\ q[i + 1] \in S  BY <1>1
    <2>2. ASSUME NEW x \in S  PROVE Range(Requires[s][x]) \subseteq S
      <3>1. PICK j \in (i + 1)..Len(q) : x = q[j]  OBVIOUS
      <3>2. CASE j = Len(q)  BY <3>1, <3>2 DEF Ended
      <3>3. CASE j # Len(q)
        <4>1. j \in DOMAIN q /\ j + 1 \in DOMAIN q /\ j + 1 \in (i + 1)..Len(q)
          BY <1>1, <3>3, NotTheLast
        <4>2. Range(Requires[s][x]) = {q[j + 1]}  BY <3>1, <4>1 DEF Line
        <4> QED BY <4>1, <4>2
      <3> QED BY <3>2, <3>3
    <2>3. q[i] \notin S
      <3>1. \A j \in (i + 1)..Len(q) : j \in DOMAIN q /\ j # i  BY <1>1
      <3> QED BY <1>1, <3>1 DEF Line
    <2>4. \A x \in S : Range(Requires[s][x]) \subseteq S  BY <2>2
    <2> HIDE DEF S
    <2>5. Required(s, q[i + 1]) \subseteq S  BY <2>1, <2>4, RequiredWithin
    <2> QED BY <2>3, <2>5
  <1>4. q[i] \in Required(s, q[i])  BY <1>1, RequiredClosed
  <1> QED BY <1>2, <1>3, <1>4

\* Among sets of members of a finite set one holds no other.
LEMMA SmallestSet ==
  ASSUME NEW S, IsFiniteSet(S), NEW T \in SUBSET SUBSET S, T # {}
  PROVE  \E x \in T : \A y \in T : y \subseteq x => y = x
  <1>1. T \subseteq FiniteSubsetsOf(S)
    <2> SUFFICES ASSUME NEW x \in T  PROVE x \in FiniteSubsetsOf(S)
      OBVIOUS
    <2>1. x \in SUBSET S /\ IsFiniteSet(x)  BY FS_Subset
    <2> QED BY <2>1 DEF FiniteSubsetsOf
  <1>2. PICK x \in T : \A y \in T : ~ (<<y, x>> \in StrictSubsetOrdering(S))
    BY <1>1, FS_StrictSubsetOrderingWellFounded, WFMin
  <1> QED BY <1>2 DEF StrictSubsetOrdering

\* Something that waits can be placed: a node that has least left to require
\* and, of those, the fewest services below it.
LEMMA SomeReady ==
  ASSUME TypeOK, AcyclicInv, Linear, waiting # {}
  PROVE  Ready # {}
  <1> DEFINE Left(n) == Required(n[1], n[2])
             Down(n) == Below(n[1], n[2])
  <1>1. \A n \in waiting : /\ n \in nodes /\ n[1] \in Services /\ n[2] \in Actions
                           /\ n = <<n[1], n[2]>>
    BY DEF TypeOK, Nodes
  <1>2. \A n \in waiting : Left(n) \subseteq Actions /\ Down(n) \subseteq Services
    BY <1>1, RequiredClosed, BelowClosed
  <1>3. PICK x \in {Left(n) : n \in waiting} :
          \A y \in {Left(n) : n \in waiting} : y \subseteq x => y = x
    <2> DEFINE T == {Left(n) : n \in waiting}
    <2>1. T \in SUBSET SUBSET Actions  BY <1>2
    <2>2. T # {}  OBVIOUS
    <2>3. IsFiniteSet(Actions)  BY PlanAssumption
    <2> HIDE DEF T
    <2>4. \E x \in T : \A y \in T : y \subseteq x => y = x  BY <2>1, <2>2, <2>3, SmallestSet
    <2> QED BY <2>4 DEF T
  <1> DEFINE W == {n \in waiting : Left(n) = x}
  <1>4. PICK y \in {Down(n) : n \in W} :
          \A z \in {Down(n) : n \in W} : z \subseteq y => z = y
    <2> DEFINE T == {Down(n) : n \in W}
    <2>1. T \in SUBSET SUBSET Services  BY <1>2
    <2>2. T # {}  BY <1>3
    <2>3. IsFiniteSet(Services)  BY PlanAssumption
    <2> HIDE DEF T
    <2>4. \E y \in T : \A z \in T : z \subseteq y => z = y  BY <2>1, <2>2, <2>3, SmallestSet
    <2> QED BY <2>4 DEF T
  <1>5. PICK n \in W : y = Down(n)  BY <1>4
  <1>6. ASSUME NEW m \in waiting, <<n, m>> \in edges
        PROVE  FALSE
    <2>1. m \in LinkedNodes(n) \/ \E c \in chains : <<n, m>> \in ChainEdges(c)
      BY <1>6 DEF AcyclicInv, FlowInv
    <2>2. CASE m \in LinkedNodes(n)
      <3>1. m[1] \in Link(n[2])[n[1]] /\ m[2] = n[2]  BY <2>2 DEF LinkedNodes
      <3>2. Left(m) = Left(n)
        <4>1. \A a \in Actions : Requires[m[1]][a] = Requires[n[1]][a]
          BY <1>1 DEF Linear
        <4> QED BY <3>1, <4>1 DEF Required
      <3>3. m[1] \in Below(n[1], n[2]) /\ n[1] \in Below(n[1], n[2])
        BY <1>1, <3>1, BelowClosed
      <3>4. Down(m) \subseteq Down(n)  BY <1>1, <3>1, <3>3, BelowWithin
      <3>5. m \in W  BY <3>2
      <3>6. Down(m) = Down(n)  BY <1>4, <1>5, <3>4, <3>5
      <3>7. n[1] \notin Below(m[1], n[2])
        BY <1>1, <3>1, <3>3 DEF AcyclicInv, FlowInv
      <3> QED BY <3>1, <3>3, <3>6, <3>7
    <2>3. CASE \E c \in chains : <<n, m>> \in ChainEdges(c)
      <3>1. PICK c \in chains : <<n, m>> \in ChainEdges(c)  BY <2>3
      <3>2. PICK i \in 1..(Len(c[2]) - 1) :
              n = <<c[1], c[2][i]>> /\ m = <<c[1], c[2][i + 1]>>
        BY <3>1 DEF ChainEdges
      <3>3. c[1] \in Services /\ c[2] \in Seq(Actions)  BY DEF TypeOK
      <3>4. Line(c[1], c[2]) /\ Ended(c[1], c[2])  BY DEF AcyclicInv, LineInv
      <3>5. Left(m) \subseteq Left(n) /\ Left(m) # Left(n)
        <4> DEFINE s == c[1]
                   q == c[2]
        <4>1. s \in Services /\ q \in Seq(Actions) /\ Line(s, q) /\ Ended(s, q)
          BY <3>3, <3>4
        <4>2. n[1] = s /\ n[2] = q[i] /\ m[1] = s /\ m[2] = q[i + 1] /\ i \in 1..(Len(q) - 1)
          BY <3>2
        <4> HIDE DEF s, q
        <4>3. /\ Required(s, q[i + 1]) \subseteq Required(s, q[i])
              /\ Required(s, q[i + 1]) # Required(s, q[i])
          BY <4>1, <4>2, ChainDescends
        <4> QED BY <4>2, <4>3
      <3> QED BY <1>3, <3>5
    <2> QED BY <2>1, <2>2, <2>3
  <1> QED BY <1>5, <1>6 DEF Ready

LEMMA AcyclicInvariant == Spec => [](PlanInv /\ AcyclicInv /\ NeverCircular)
  <1>1. Init => AcyclicInv /\ NeverCircular
    BY DEF Init, AcyclicInv, LineInv, FlowInv, NeverCircular
  <1>2. ASSUME PlanInv, AcyclicInv, NeverCircular, [Next]_vars
        PROVE  AcyclicInv' /\ NeverCircular'
    <2> USE <1>2 DEF PlanInv, AcyclicInv
    <2>1. FlowInv'  BY FlowNext
    <2>2. Linear => LineInv'  BY LineNext
    <2>3. ~ (Linear /\ Circular)  BY SomeReady DEF Circular
    <2>4. NeverCircular'
      BY <2>3
      DEF NeverCircular, Next, FoundAll, Visit, VisitRaises, Raise, Chained, GraphDone,
          NextBatch, Planned, TakeScheduled, AddEdges, AddChain, AddChainRaises, vars
    <2>5. Linear' <=> Linear  BY DEF Linear
    <2> QED BY <2>1, <2>2, <2>4, <2>5
  <1> QED BY <1>1, <1>2, PlanInit, PlanNextInv, PTL DEF Spec

\* With templates that agree and require at most one action each, no circle
\* is ever reported, however the producers and consumers are set.
THEOREM LinearPlansNeverCircular == Spec => []NeverCircular
  <1> QED BY AcyclicInvariant, PTL

-----------------------------------------------------------------------------
(***************************************************************************)
(* Linear requirements and the order of a chain: what an action of a line  *)
(* requires are the actions that follow it, and those are placed first.    *)
(***************************************************************************)
LEMMA NextIsLater ==
  ASSUME NEW n \in Nat, NEW i \in 1..n, NEW j \in i..n, j # n
  PROVE  j \in 1..n /\ j + 1 \in 1..n /\ j + 1 \in i..n
  OBVIOUS

LEMMA LineRequired ==
  ASSUME NEW s \in Services, NEW q \in Seq(Actions), Line(s, q), Ended(s, q),
         NEW i \in DOMAIN q, NEW a \in Required(s, q[i]) \ {q[i]}
  PROVE  \E j \in DOMAIN q : i < j /\ q[j] = a
  <1> DEFINE S == {q[j] : j \in i..Len(q)}
  <1>1. /\ Len(q) \in Nat /\ DOMAIN q = 1..Len(q) /\ i \in 1..Len(q)
        /\ \A j \in i..Len(q) : j \in DOMAIN q /\ q[j] \in Actions /\ (j = i \/ i < j)
    OBVIOUS
  <1>2. S \in SUBSET Actions /\ q[i] \in S  BY <1>1
  <1>3. ASSUME NEW x \in S  PROVE Range(Requires[s][x]) \subseteq S
    <2>1. PICK j \in i..Len(q) : x = q[j]  OBVIOUS
    <2>2. CASE j = Len(q)  BY <2>1, <2>2 DEF Ended
    <2>3. CASE j # Len(q)
      <3>1. j \in DOMAIN q /\ j + 1 \in DOMAIN q /\ j + 1 \in i..Len(q)
        BY <1>1, <2>3, NextIsLater
      <3>2. Range(Requires[s][x]) = {q[j + 1]}  BY <2>1, <3>1 DEF Line
      <3> QED BY <3>1, <3>2
    <2> QED BY <2>2, <2>3
  <1>4. \A x \in S : Range(Requires[s][x]) \subseteq S  BY <1>3
  <1>5. \A x \in S : \E j \in i..Len(q) : x = q[j]  OBVIOUS
  <1> HIDE DEF S
  <1>6. a \in S  BY <1>2, <1>4, RequiredWithin
  <1>7. PICK j \in i..Len(q) : a = q[j]  BY <1>5, <1>6
  <1> QED BY <1>1, <1>7

LEMMA ChainOrderNext ==
  ASSUME PlanInv, LineInv, ChainInOrder, [Next]_vars
  PROVE  ChainInOrder'
  <1> USE DEF PlanInv
  <1>1. CASE UNCHANGED <<repo, steps, chains>>
    <2>1. repo' = repo /\ steps' = steps /\ chains' = chains  BY <1>1
    <2>2. ASSUME NEW c \in chains', NEW i \in DOMAIN steps',
                 NEW n \in steps'[i] \cap NodesOf(c),
                 NEW a \in Required(n[1], n[2]) \ {n[2]}
          PROVE  \/ repo'.state[<<n[1], a>>] = "ok"
                 \/ \E k \in 1..(i - 1) : <<n[1], a>> \in steps'[k]
      BY <2>1 DEF ChainInOrder
    <2> QED BY <2>2 DEF ChainInOrder, NodesOf
  <1>2. CASE Chained
    <2>1. steps' = << >>  BY <1>2 DEF Chained, GraphInv
    <2>2. DOMAIN steps' = {}  BY <2>1
    <2> QED BY <2>2 DEF ChainInOrder
  <1>3. CASE NextBatch
    <2>1. pc = "batch" /\ UNCHANGED <<repo, chains>>  BY <1>3 DEF NextBatch
    <2> SUFFICES ASSUME NEW c \in chains, NEW i \in DOMAIN steps',
                        NEW n \in steps'[i] \cap NodesOf(c),
                        NEW a \in Required(n[1], n[2]) \ {n[2]}
                 PROVE  \/ repo.state[<<n[1], a>>] = "ok"
                        \/ \E k \in 1..(i - 1) : <<n[1], a>> \in steps'[k]
      BY <2>1 DEF ChainInOrder, NodesOf
    <2>2. CASE i \in DOMAIN steps
      <3>1. n \in steps[i] /\ DOMAIN steps = 1..Len(steps)
            /\ \A k \in 1..(i - 1) : steps'[k] = steps[k]
        BY <1>3, <2>2, StepsGrow
      <3> QED BY <2>2, <3>1 DEF ChainInOrder
    <2>3. CASE i \notin DOMAIN steps
      <3>1. /\ i = Len(steps) + 1 /\ steps'[i] = StepOf(Ready)
            /\ DOMAIN steps = 1..(i - 1)
            /\ \A k \in DOMAIN steps : steps'[k] = steps[k]
        BY <1>3, <2>3, StepsGrow
      <3>2. n \in Ready  BY <3>1 DEF StepOf
      <3>3. /\ c[1] \in Services /\ c[2] \in Seq(Actions)
            /\ Line(c[1], c[2]) /\ Ended(c[1], c[2])
        BY DEF TypeOK, LineInv
      <3>4. PICK l \in DOMAIN c[2] : n = <<c[1], c[2][l]>>  BY DEF NodesOf
      <3>5. PICK j \in DOMAIN c[2] : l < j /\ c[2][j] = a  BY <3>3, <3>4, LineRequired
      <3>6. <<n[1], a>> \in nodes \ waiting  BY <2>1, <3>2, <3>4, <3>5, ChainFree
      <3>7. \A m \in nodes \ waiting :
              repo.state[m] = "ok" \/ \E k \in DOMAIN steps : m \in steps[k]
        BY <2>1 DEF BatchInv
      <3> QED BY <3>1, <3>6, <3>7
    <2> QED BY <2>2, <2>3
  <1> QED
    BY <1>1, <1>2, <1>3
    DEF Next, FoundAll, Visit, VisitRaises, Raise, GraphDone, Circular, Planned,
        TakeScheduled, AddEdges, AddChain, AddChainRaises, vars

\* When every action requires at most one other, every action of a chain,
\* scheduled or not, is planned after all it requires in its own service.
THEOREM LinearChainsInOrder ==
  ASSUME Linear
  PROVE  Spec => []ChainInOrder
  <1>1. Init => ChainInOrder  BY DEF Init, ChainInOrder
  <1>2. PlanInv /\ AcyclicInv /\ ChainInOrder /\ [Next]_vars => ChainInOrder'
    BY ChainOrderNext DEF AcyclicInv
  <1> QED BY <1>1, <1>2, AcyclicInvariant, PTL DEF Spec
=============================================================================
