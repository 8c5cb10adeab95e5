---------------------------- MODULE ServiceGraph ----------------------------
(***************************************************************************)
(* The relations between the services of a repository (Service.py,         *)
(* models/ServiceModel.py).  A service is stored with its producers and    *)
(* its consumers, and is found through an index that has one entry for     *)
(* each of its producers, or a single entry without one.  Processes (the   *)
(* command line, workers, jobs) create, link and delete services through   *)
(* copies that they loaded some time before; every step below is one       *)
(* access to the store, and steps of several processes interleave.         *)
(*                                                                         *)
(* A process holds one copy of a service; a second object of the same      *)
(* service in a process behaves as the copy of another process.  A         *)
(* service is known by its name: none is created again after its deletion. *)
(***************************************************************************)
EXTENDS Naturals, Sequences

CONSTANTS
  Services,
  Procs,
  Parent,    \* the parent the actor and the blueprint ask for
  Wants,     \* the producers they ask for
  Consumed,  \* pairs that may have been linked by consume() before we look
  Nobody,    \* no parent, no producer
  Absent,    \* no record
  MaxOps     \* bound: operations that are begun

Relations == [prods : SUBSET Services, cons : SUBSET Services]

ASSUME GraphAssumption ==
  /\ Parent \in [Services -> Services \cup {Nobody}]
  /\ Wants \in [Services -> SUBSET Services]
  /\ Consumed \subseteq Services \X Services
  /\ Nobody \notin Services /\ Absent \notin Relations
  /\ MaxOps \in Nat

VARIABLES
  record,    \* what the store holds of a service
  index,     \* the entries <<service, producer>>
  copy,      \* per process, the copies it holds
  todo,      \* per process, the steps left of its operation
  mid,       \* per process, the half of a save or removal it has left to do
  creating,  \* per process, the service whose __init__ it is in
  known,     \* the services that were ever created
  ops,
  fresh,     \* history: per process, the copies nobody has written past
  doubt,     \* history: stored or erased from a copy that was not fresh, or
             \*   part of an operation that was cut short
  torn,      \* history: a crash left one half of their save or removal undone
  gone,      \* history: deleted
  late       \* history: created while their parent was being deleted

vars == <<record, index, copy, todo, mid, creating, known, ops, fresh, doubt, torn, gone, late>>

Steps ==
  [do : {"need", "producer", "consumer", "store", "reload", "wants", "parent",
         "producers", "look", "children", "each", "remove"},
   of : Services, with : SUBSET Services]
Halves == [do : {"index", "erase"}, of : Services]
None == [do |-> "none"]

TypeOK ==
  /\ record \in [Services -> Relations \cup {Absent}]
  /\ index \subseteq Services \X (Services \cup {Nobody})
  /\ copy \in [Procs -> [Services -> Relations \cup {Absent}]]
  /\ todo \in [Procs -> Seq(Steps)]
  /\ mid \in [Procs -> Halves \cup {None}]
  /\ creating \in [Procs -> Services \cup {Nobody}]
  /\ known \subseteq Services /\ ops \in 0..MaxOps
  /\ fresh \in [Procs -> SUBSET Services]
  /\ doubt \subseteq Services /\ torn \subseteq Services
  /\ gone \subseteq Services /\ late \subseteq Services

Stored == {s \in Services : record[s] # Absent}
Listed == {e[1] : e \in index}
Asked(s) == (Wants[s] \cup {Parent[s]}) \ {Nobody}

\* ServiceModel.index: the entries of a copy.
Entries(s, r) == {s} \X (IF r.prods = {} THEN {Nobody} ELSE r.prods)

\* A repository in which some services were created one after the other, with
\* the producers they asked for, and have then consumed those of links.  The
\* entry of a service that asked for none is still there.
Created(E, links) ==
  LET prods(s) == Asked(s) \cup {q \in E : <<s, q>> \in links}
  IN /\ known = E
     /\ record = [s \in Services |->
                    IF s \in E THEN [prods |-> prods(s), cons |-> {t \in E : s \in prods(t)}]
                    ELSE Absent]
     /\ index = UNION {({s} \X prods(s)) \cup (IF Asked(s) = {} THEN {<<s, Nobody>>} ELSE {}) : s \in E}

Init ==
  /\ \E E \in SUBSET Services :
       /\ \A s \in E : Asked(s) \subseteq E
       /\ \E links \in SUBSET Consumed : links \subseteq E \X E /\ Created(E, links)
  /\ copy = [p \in Procs |-> [s \in Services |-> Absent]]
  /\ todo = [p \in Procs |-> <<>>]
  /\ mid = [p \in Procs |-> None]
  /\ creating = [p \in Procs |-> Nobody]
  /\ ops = 0
  /\ fresh = [p \in Procs |-> {}]
  /\ doubt = {} /\ torn = {} /\ gone = {} /\ late = {}

(***************************************************************************)
(* The steps of an operation.                                              *)
(***************************************************************************)
S(do, s, with) == [do |-> do, of |-> s, with |-> with]

\* Mutant for ChildrenGoWithParent: the children are looked for at the end.
DeleteStepsParentFirst(s) == <<S("look", s, {}), S("remove", s, {}), S("children", s, {})>>

DeleteSteps(s) == <<S("look", s, {}), S("children", s, {}), S("remove", s, {})>>

\* Mutant for NamesWereStored: the producer is told first.
LinkStepsToldFirst(s, q) == <<S("consumer", q, {s}), S("producer", s, {q})>>

LinkSteps(s, q) == <<S("producer", s, {q}), S("consumer", q, {s})>>

\* _initProducers looks up all producers of a role before it links the first of
\* them.  After q, which of the others rest in W, those of its role or those of
\* the next one come next; which of them share a role is left open.
WantSteps(s, q, W) ==
  {<<S("need", q, {}), S("wants", s, W)>> \o LinkSteps(s, q),
   <<S("need", q, {})>> \o LinkSteps(s, q) \o <<S("wants", s, W)>>}

\* self.parent is looked up whenever it is used.
ParentSteps(s, q) ==
  <<S("need", q, {}), S("producer", s, {q}), S("need", q, {}), S("consumer", q, {s})>>

\* Mutant for TypeOK: without the guard on services that have no parent.
CreateStepsAlways(s) ==
  <<S("need", Parent[s], {}), S("wants", s, Wants[s]), S("parent", s, {}),
    S("store", s, {}), S("reload", s, {}), S("store", s, {})>>

CreateSteps(s) ==
  (IF Parent[s] = Nobody THEN <<>> ELSE <<S("need", Parent[s], {})>>)
    \o <<S("wants", s, Wants[s]), S("parent", s, {}),
         S("store", s, {}), S("reload", s, {}), S("store", s, {})>>

ConsumeSteps(s, q) ==
  <<S("producers", s, {}), S("producer", s, {q}), S("consumer", q, {s}),
    S("store", s, {}), S("store", q, {})>>

Idle(p) == todo[p] = <<>> /\ mid[p] = None
Ready(p, do) == mid[p] = None /\ todo[p] # <<>> /\ todo[p][1].do = do
Of(p) == todo[p][1].of
With(p) == todo[p][1].with

\* The services an operation under way has still to do with.
StepOn(x) == {x.of} \cup x.with
Busy(p) ==
  (IF mid[p] = None THEN {} ELSE {mid[p].of})
    \cup UNION {StepOn(todo[p][i]) : i \in DOMAIN todo[p]}
AtRest(s) == \A p \in Procs : s \notin Busy(p)

\* ServicesCollection.find of one name raises when the index has an entry whose
\* record is gone.
FindRaises(names) == \E n \in names : n \in Listed /\ n \notin Stored
Done(p) == todo' = [todo EXCEPT ![p] = Tail(@)] /\ UNCHANGED creating

\* An exception ends the operation; Service.__init__ deletes what it made.
Raise(p) ==
  /\ todo' = [todo EXCEPT ![p] = IF creating[p] = Nobody THEN <<>>
                                 ELSE DeleteSteps(creating[p])]
  /\ creating' = [creating EXCEPT ![p] = Nobody]
  /\ doubt' = doubt \cup Busy(p)
  /\ UNCHANGED <<record, index, copy, mid, known, ops, fresh, torn, gone, late>>

(***************************************************************************)
(* Beginning an operation.                                                 *)
(***************************************************************************)
\* serviceGet, serviceGetByKey: a copy is loaded, to be used at some time.
Load(p, s) ==
  /\ Idle(p)
  /\ s \in Stored
  /\ copy' = [copy EXCEPT ![p][s] = record[s]]
  /\ fresh' = [fresh EXCEPT ![p] = @ \cup {s}]
  /\ UNCHANGED <<record, index, todo, mid, creating, known, ops, doubt, torn, gone, late>>

Begin(p, steps) ==
  /\ Idle(p)
  /\ ops < MaxOps
  /\ ops' = ops + 1
  /\ todo' = [todo EXCEPT ![p] = steps]
  /\ UNCHANGED <<record, index, mid, doubt, torn, gone>>

\* Whether an operation that is under way deletes s.
Deleting(s) ==
  \E p \in Procs :
    \/ mid[p] = [do |-> "erase", of |-> s]
    \/ \E i \in DOMAIN todo[p] : todo[p][i].do = "remove" /\ todo[p][i].of = s

Create(p, s) ==
  /\ Begin(p, CreateSteps(s))
  /\ s \notin known \cup gone
  /\ known' = known \cup {s}
  /\ creating' = [creating EXCEPT ![p] = s]
  /\ copy' = [copy EXCEPT ![p][s] = [prods |-> {}, cons |-> {}]]
  /\ fresh' = [fresh EXCEPT ![p] = @ \cup {s}]
  /\ late' = late \cup (IF Parent[s] # Nobody /\ Deleting(Parent[s]) THEN {s} ELSE {})

Consume(p, s, q) ==
  /\ Begin(p, ConsumeSteps(s, q))
  /\ s # q
  /\ copy[p][s] # Absent /\ copy[p][q] # Absent
  /\ UNCHANGED <<copy, creating, known, fresh, late>>

Delete(p, s) ==
  /\ Begin(p, DeleteSteps(s))
  /\ copy[p][s] # Absent
  /\ UNCHANGED <<copy, creating, known, fresh, late>>

(***************************************************************************)
(* Steps that read.                                                        *)
(***************************************************************************)
\* servicesFind of a service that is asked for: it must be there.
Need(p) ==
  /\ Ready(p, "need")
  /\ IF Of(p) \in Listed \cap Stored
       THEN /\ Done(p)
            /\ copy' = [copy EXCEPT ![p][Of(p)] = record[Of(p)]]
            /\ fresh' = [fresh EXCEPT ![p] = @ \cup {Of(p)}]
            /\ UNCHANGED <<record, index, mid, known, ops, doubt, torn, gone, late>>
       ELSE Raise(p)

\* Looking for the services of a role raises when an entry of one is dangling.
WantsStep(p) ==
  /\ Ready(p, "wants")
  /\ \/ /\ With(p) = {}
        /\ todo' = [todo EXCEPT ![p] = Tail(@)]
        /\ UNCHANGED <<record, index, copy, mid, creating, known, ops, fresh, doubt, torn, gone, late>>
     \/ \E q \in With(p) : \E steps \in WantSteps(Of(p), q, With(p) \ {q}) :
        /\ todo' = [todo EXCEPT ![p] = steps \o Tail(@)]
        /\ UNCHANGED <<record, index, copy, mid, creating, known, ops, fresh, doubt, torn, gone, late>>
     \/ With(p) # {} /\ FindRaises(Services) /\ Raise(p)

\* A parent that is not listed any more is passed over.
ParentStep(p) ==
  LET q == Parent[Of(p)]
  IN /\ Ready(p, "parent")
     /\ IF FindRaises({q})
          THEN Raise(p)
          ELSE /\ todo' = [todo EXCEPT ![p] =
                             (IF q \in Listed THEN ParentSteps(Of(p), q) ELSE <<>>) \o Tail(@)]
               /\ UNCHANGED <<record, index, copy, mid, creating, known, ops, fresh, doubt, torn, gone, late>>

LookAt(p, names) ==
  /\ IF FindRaises(names)
       THEN Raise(p)
       ELSE /\ Done(p)
            /\ UNCHANGED <<record, index, copy, mid, known, ops, fresh, doubt, torn, gone, late>>

\* consume() looks at all producers: `service in self.producers` tests the keys
\* of a dictionary, which are roles, and never returns.
Producers(p) == Ready(p, "producers") /\ LookAt(p, copy[p][Of(p)].prods)

\* delete() looks at all producers and consumers, removes the service from what
\* it finds, in memory, and saves none of it.
Look(p) == Ready(p, "look") /\ LookAt(p, copy[p][Of(p)].prods \cup copy[p][Of(p)].cons)

\* Service.children reads every service; a parent that is not listed has none.
Children(p) ==
  LET s    == Of(p)
      kids == {c \in Services : c \in Listed /\ Parent[c] = s /\ s \in Listed}
  IN /\ Ready(p, "children")
     /\ IF FindRaises(Services)
          THEN Raise(p)
          ELSE /\ todo' = [todo EXCEPT ![p] = <<S("each", s, kids)>> \o Tail(@)]
               /\ copy' = [copy EXCEPT ![p] = [c \in Services |->
                                                IF c \in kids THEN record[c] ELSE @[c]]]
               /\ fresh' = [fresh EXCEPT ![p] = @ \cup kids]
               /\ late' = late \cup {c \in known : Parent[c] = s /\ \E o \in Procs : creating[o] = c}
               /\ UNCHANGED <<record, index, mid, creating, known, ops, doubt, torn, gone>>

Each(p) ==
  /\ Ready(p, "each")
  /\ IF With(p) = {}
       THEN todo' = [todo EXCEPT ![p] = Tail(@)]
       ELSE \E c \in With(p) :
              todo' = [todo EXCEPT ![p] = DeleteSteps(c)
                                            \o <<S("each", Of(p), With(p) \ {c})>> \o Tail(@)]
  /\ UNCHANGED <<record, index, copy, mid, creating, known, ops, fresh, doubt, torn, gone, late>>

\* Service.reload.
Reload(p) ==
  /\ Ready(p, "reload")
  /\ IF Of(p) \in Stored
       THEN /\ Done(p)
            /\ copy' = [copy EXCEPT ![p][Of(p)] = record[Of(p)]]
            /\ fresh' = [fresh EXCEPT ![p] = @ \cup {Of(p)}]
            /\ UNCHANGED <<record, index, mid, known, ops, doubt, torn, gone, late>>
       ELSE Raise(p)

(***************************************************************************)
(* Steps that write.  ModelBase.save sets the record, then indexes it.     *)
(***************************************************************************)
\* A write to s by p makes the copies of the others out of date.
Written(p, s) ==
  fresh' = [o \in Procs |-> IF o = p THEN fresh[o] \cup {s} ELSE fresh[o] \ {s}]
Doubted(p, s) == doubt' = doubt \cup (IF s \in fresh[p] THEN {} ELSE {s})

SetRecord(p, r) ==
  /\ copy' = [copy EXCEPT ![p][Of(p)] = r]
  /\ record' = [record EXCEPT ![Of(p)] = r]
  /\ mid' = [mid EXCEPT ![p] = [do |-> "index", of |-> Of(p)]]
  /\ Written(p, Of(p)) /\ Doubted(p, Of(p))
  /\ Done(p)
  /\ UNCHANGED <<index, known, ops, torn, gone, late>>

Store(p) == Ready(p, "store") /\ SetRecord(p, copy[p][Of(p)])

ProducerAdd(p) ==
  /\ Ready(p, "producer")
  /\ SetRecord(p, [copy[p][Of(p)] EXCEPT !.prods = @ \cup With(p)])

\* Mutant for EndsAgree: consumerAdd without its save.
ConsumerAddUnsaved(p) ==
  /\ Ready(p, "consumer")
  /\ copy' = [copy EXCEPT ![p][Of(p)].cons = @ \cup With(p)]
  /\ Done(p)
  /\ UNCHANGED <<record, index, mid, known, ops, fresh, doubt, torn, gone, late>>

ConsumerAdd(p) ==
  /\ Ready(p, "consumer")
  /\ SetRecord(p, [copy[p][Of(p)] EXCEPT !.cons = @ \cup With(p)])

Index(p) ==
  /\ mid[p] # None /\ mid[p].do = "index"
  /\ index' = index \cup Entries(mid[p].of, copy[p][mid[p].of])
  /\ mid' = [mid EXCEPT ![p] = None]
  /\ torn' = torn \ {mid[p].of}
  /\ creating' = IF todo[p] = <<>> THEN [creating EXCEPT ![p] = Nobody] ELSE creating
  /\ UNCHANGED <<record, copy, todo, known, ops, fresh, doubt, gone, late>>

\* Mutant for StoredIsListed: the pattern also matches entries with s as producer.
RemoveAllWith(p) ==
  LET s == Of(p)
  IN /\ Ready(p, "remove")
     /\ index' = {e \in index : e[1] # s /\ e[2] # s}
     /\ mid' = [mid EXCEPT ![p] = [do |-> "erase", of |-> s]]
     /\ Done(p)
     /\ UNCHANGED <<record, copy, known, ops, fresh, doubt, torn, gone, late>>

\* ServiceModel.delete removes the entries of its producers.  Without one, the
\* entry it removes is taken as a pattern that is the beginning of all.
Remove(p) ==
  LET s == Of(p)
  IN /\ Ready(p, "remove")
     /\ index' = IF copy[p][s].prods = {} THEN {e \in index : e[1] # s}
                 ELSE index \ ({s} \X copy[p][s].prods)
     /\ mid' = [mid EXCEPT ![p] = [do |-> "erase", of |-> s]]
     /\ Done(p)
     /\ UNCHANGED <<record, copy, known, ops, fresh, doubt, torn, gone, late>>

\* Mutant for NoComeBack: the record of a service that has consumers is kept.
EraseUnused(p) ==
  LET s == mid[p].of
  IN /\ mid[p] # None /\ mid[p].do = "erase"
     /\ record' = [record EXCEPT ![s] = IF s \in Stored /\ record[s].cons # {} THEN @ ELSE Absent]
     /\ mid' = [mid EXCEPT ![p] = None]
     /\ gone' = gone \cup {s}
     /\ fresh' = [o \in Procs |-> fresh[o] \ {s}] /\ Doubted(p, s)
     /\ UNCHANGED <<index, copy, todo, creating, known, ops, torn, late>>

Erase(p) ==
  LET s == mid[p].of
  IN /\ mid[p] # None /\ mid[p].do = "erase"
     /\ record' = [record EXCEPT ![s] = Absent]
     /\ mid' = [mid EXCEPT ![p] = None]
     /\ gone' = gone \cup {s}
     /\ fresh' = [o \in Procs |-> fresh[o] \ {s}] /\ Doubted(p, s)
     /\ UNCHANGED <<index, copy, todo, creating, known, ops, torn, late>>

\* The process dies in the middle of an operation.
Crash(p) ==
  /\ ~ Idle(p)
  /\ doubt' = doubt \cup Busy(p)
  /\ torn' = torn \cup (IF mid[p] = None THEN {} ELSE {mid[p].of})
  /\ todo' = [todo EXCEPT ![p] = <<>>]
  /\ mid' = [mid EXCEPT ![p] = None]
  /\ creating' = [creating EXCEPT ![p] = Nobody]
  /\ copy' = [copy EXCEPT ![p] = [s \in Services |-> Absent]]
  /\ fresh' = [fresh EXCEPT ![p] = {}]
  /\ UNCHANGED <<record, index, known, ops, gone, late>>

Step(p) ==
  \/ Need(p) \/ WantsStep(p) \/ ParentStep(p) \/ Producers(p) \/ Look(p) \/ Children(p) \/ Each(p) \/ Reload(p)
  \/ Store(p) \/ ProducerAdd(p) \/ ConsumerAdd(p) \/ Index(p) \/ Remove(p) \/ Erase(p)

Next ==
  \E p \in Procs :
    \/ \E s \in Services : Load(p, s) \/ Create(p, s) \/ Delete(p, s)
    \/ \E s, q \in Services : Consume(p, s, q)
    \/ Step(p) \/ Crash(p)

Spec == Init /\ [][Next]_vars

(***************************************************************************)
(* Properties.                                                             *)
(***************************************************************************)
\* A stored service can be found: it is in the index, unless a crash tore its
\* save or its removal apart, or a process is just in the middle of one.
StoredIsListed ==
  \A s \in Stored :
    s \in Listed \/ s \in torn \/ \E p \in Procs : mid[p] # None /\ mid[p].of = s

\* A relation is stored at both ends once the operation that makes it is over,
\* unless an end was written from an out-of-date copy or the operation was cut
\* short.
EndsAgree ==
  \A s, q \in Stored \ doubt :
    AtRest(s) /\ AtRest(q) => (q \in record[s].prods <=> s \in record[q].cons)

\* A service names none whose record was never there, also in the middle of an
\* operation: the new service is stored before its producer is told of it.  Only
\* one whose creation was cut short may be missing.
NamesWereStored ==
  \A s \in Stored : record[s].prods \cup record[s].cons \subseteq Stored \cup gone \cup doubt

\* Deleting a service deletes its children: what is left of them was created
\* while the parent was being deleted, or was brought back, or could not be found.
ChildrenGoWithParent ==
  \A c \in Stored :
    Parent[c] \in gone \ Stored /\ AtRest(c) => c \in gone \cup late \cup doubt

\* There is no coming back: a deleted service is stored again only by a process
\* whose copy dates from before the deletion.
NoComeBack == \A s \in gone \cap Stored : s \in doubt

\* delete() removes a service "completly", "from db": neither its record nor an
\* entry of it is left, also when no other process had to do with it.
DeletedCompletely == \A s \in gone \ doubt : AtRest(s) => s \notin Stored \cup Listed

(***************************************************************************)
(* Why the types hold: a process has a copy of whatever its operation      *)
(* changes, or looks it up before.                                         *)
(***************************************************************************)
Uses == {"producer", "consumer", "store", "wants", "parent", "producers", "look", "remove"}

\* Steps that can be made by a process with the copies c.
Provided(steps, c) ==
  \A i \in DOMAIN steps :
    /\ steps[i].do \in Uses =>
         \/ c[steps[i].of] # Absent
         \/ \E j \in DOMAIN steps : j < i /\ steps[j].do = "need" /\ steps[j].of = steps[i].of
    /\ steps[i].do = "each" => \A k \in steps[i].with : c[k] # Absent

CopyInv ==
  \A p \in Procs :
    /\ Provided(todo[p], copy[p])
    /\ creating[p] # Nobody => copy[p][creating[p]] # Absent
    /\ mid[p] # None => copy[p][mid[p].of] # Absent
=============================================================================
