------------------------------ MODULE RunIndex ------------------------------
(***************************************************************************)
(* The index of runs (models/RunModel.py, models/RunsCollection.py) in a   *)
(* redis hash (redis_store.py).  A field of the hash is the state and the  *)
(* date of a run; its value is the list of the runs with that state and    *)
(* date.  Saving a run is one write of its record, then a listing of the   *)
(* whole index, one field after the other, then the removal of the field   *)
(* that was found, then a read and a write of the new one.  Workers save   *)
(* different runs at the same time, and a reader lists them.  The hash is  *)
(* modelled as a function to sets: a field without a run does not exist.   *)
(*                                                                         *)
(* Of redis_store, this is index, list and the removal of a field.         *)
(***************************************************************************)
EXTENDS Naturals, FiniteSets

CONSTANTS
  Runs,
  Date,      \* the date of a run, set when it is created
  States,    \* the states of a run
  AnyState,  \* the pattern of a find for runs in any state
  Missing,   \* no record
  MaxSaves,  \* bound: saves of runs
  MaxFinds   \* bound: finds

ASSUME IndexAssumption ==
  /\ AnyState \notin States /\ Missing \notin States
  /\ DOMAIN Date = Runs
  /\ MaxSaves \in Nat /\ MaxFinds \in Nat

VARIABLES
  record,  \* the stored state of each run
  field,   \* the hash
  pc,      \* per run, the worker that saves it
  look,    \* the fields its listing has still to read
  old,     \* the fields in which it found the run
  read,    \* what it has read of the new field
  saves,
  broken,  \* history: runs whose last save raised or died
  rpc,     \* the reader
  want,    \* the state it asks for
  rlook,   \* the fields it has still to read
  found,   \* what it has found: pairs of a field and a run
  finds,
  quiet    \* history: runs that nobody saves since the find began

saveVars == <<record, field, pc, look, old, read, saves, broken>>
findVars == <<rpc, want, rlook, found, finds>>
vars == <<saveVars, findVars, quiet>>

Fields == States \X {Date[r] : r \in Runs}
Existing == {f \in Fields : field[f] # {}}
Own(r) == <<record[r], Date[r]>>
FieldsOf(r) == {f \in Fields : r \in field[f]}
Saving(r) == pc[r] # "idle"

TypeOK ==
  /\ record \in [Runs -> States \cup {Missing}]
  /\ field \in [Fields -> SUBSET Runs]
  /\ pc \in [Runs -> {"idle", "keys", "look", "drop", "get", "put"}]
  /\ look \in [Runs -> SUBSET Fields] /\ old \in [Runs -> SUBSET Fields]
  /\ read \in [Runs -> SUBSET Runs]
  /\ saves \in 0..MaxSaves
  /\ broken \subseteq Runs /\ quiet \subseteq Runs
  /\ rpc \in {"idle", "keys", "look", "done"}
  /\ want \in States \cup {AnyState}
  /\ rlook \subseteq Fields
  /\ found \subseteq Fields \X Runs
  /\ finds \in 0..MaxFinds

Init ==
  /\ record = [r \in Runs |-> Missing]
  /\ field = [f \in Fields |-> {}]
  /\ pc = [r \in Runs |-> "idle"]
  /\ look = [r \in Runs |-> {}] /\ old = [r \in Runs |-> {}] /\ read = [r \in Runs |-> {}]
  /\ saves = 0
  /\ broken = {}
  /\ rpc = "idle" /\ want = AnyState /\ rlook = {} /\ found = {} /\ finds = 0
  /\ quiet = {}

(***************************************************************************)
(* RunModel.save: ModelBase.save, then RunModel.index.                     *)
(***************************************************************************)
Goto(r, label) == pc' = [pc EXCEPT ![r] = label]

\* Mutant for TypeOK: a run is saved before it has a state.
SaveUnset(r, s) ==
  /\ pc[r] = "idle"
  /\ saves < MaxSaves
  /\ saves' = saves + 1
  /\ record' = [record EXCEPT ![r] = IF @ = Missing THEN "" ELSE s]
  /\ quiet' = quiet \ {r}
  /\ Goto(r, "keys")
  /\ UNCHANGED <<field, look, old, read, broken, findVars>>

\* newRun, Run.execute and RunStep.execute give the run a state and save it.
Save(r, s) ==
  /\ pc[r] = "idle"
  /\ saves < MaxSaves
  /\ saves' = saves + 1
  /\ record' = [record EXCEPT ![r] = s]
  /\ quiet' = quiet \ {r}
  /\ Goto(r, "keys")
  /\ UNCHANGED <<field, look, old, read, broken, findVars>>

\* hkeys.
Keys(r) ==
  /\ pc[r] = "keys"
  /\ look' = [look EXCEPT ![r] = Existing]
  /\ old' = [old EXCEPT ![r] = {}]
  /\ Goto(r, "look")
  /\ UNCHANGED <<record, field, read, saves, broken, findVars, quiet>>

\* The save ends with the exception of decode() on a field that is gone, or
\* with the death of the worker.
SaveEnds(r) ==
  /\ Goto(r, "idle")
  /\ look' = [look EXCEPT ![r] = {}]
  /\ old' = [old EXCEPT ![r] = {}]
  /\ read' = [read EXCEPT ![r] = {}]

\* Mutant for AloneIsListedOnce: the fields are searched
\* for the state of the run, not for its key.
LookForState(r, f) ==
  /\ pc[r] = "look"
  /\ f \in look[r]
  /\ \/ /\ f \in Existing
        /\ look' = [look EXCEPT ![r] = @ \ {f}]
        /\ old' = [old EXCEPT ![r] = IF f[1] = record[r] THEN @ \cup {f} ELSE @]
        /\ UNCHANGED <<pc, read, broken>>
     \/ /\ f \notin Existing
        /\ SaveEnds(r)
        /\ broken' = broken \cup {r}
  /\ UNCHANGED <<record, field, saves, findVars, quiet>>

\* hget of one of the fields.
Look(r, f) ==
  /\ pc[r] = "look"
  /\ f \in look[r]
  /\ \/ /\ f \in Existing
        /\ look' = [look EXCEPT ![r] = @ \ {f}]
        /\ old' = [old EXCEPT ![r] = IF r \in field[f] THEN @ \cup {f} ELSE @]
        /\ UNCHANGED <<pc, read, broken>>
     \/ /\ f \notin Existing
        /\ SaveEnds(r)
        /\ broken' = broken \cup {r}
  /\ UNCHANGED <<record, field, saves, findVars, quiet>>

\* Mutant for AloneIsNeverTwice: the old field is left to the clean-up of jobs.
LookedOnly(r) ==
  /\ pc[r] = "look"
  /\ look[r] = {}
  /\ Goto(r, "get")
  /\ UNCHANGED <<record, field, look, old, read, saves, broken, findVars, quiet>>

Looked(r) ==
  /\ pc[r] = "look"
  /\ look[r] = {}
  /\ Goto(r, IF old[r] = {} THEN "get" ELSE "drop")
  /\ UNCHANGED <<record, field, look, old, read, saves, broken, findVars, quiet>>

\* hdel of the first of the fields found, whatever other runs are in it.
Drop(r) ==
  /\ pc[r] = "drop"
  /\ \E f \in old[r] : field' = [field EXCEPT ![f] = {}]
  /\ Goto(r, "get")
  /\ UNCHANGED <<record, look, old, read, saves, broken, findVars, quiet>>

\* redis_store.index: hget, and nothing more when the run is already there.
Get(r) ==
  /\ pc[r] = "get"
  /\ IF r \in field[Own(r)]
       THEN SaveEnds(r) /\ broken' = broken \ {r}
       ELSE /\ read' = [read EXCEPT ![r] = field[Own(r)]]
            /\ Goto(r, "put")
            /\ UNCHANGED <<look, old, broken>>
  /\ UNCHANGED <<record, field, saves, findVars, quiet>>

\* hset of what was read and the run.
Put(r) ==
  /\ pc[r] = "put"
  /\ field' = [field EXCEPT ![Own(r)] = read[r] \cup {r}]
  /\ SaveEnds(r)
  /\ broken' = broken \ {r}
  /\ UNCHANGED <<record, saves, findVars, quiet>>

Crash(r) ==
  /\ Saving(r)
  /\ SaveEnds(r)
  /\ broken' = broken \cup {r}
  /\ UNCHANGED <<record, field, saves, findVars, quiet>>

(***************************************************************************)
(* RunsCollection.find, for runsList and the command line.                 *)
(***************************************************************************)
Matches(f) == want \in {AnyState, f[1]}

Find(s) ==
  /\ rpc = "idle"
  /\ finds < MaxFinds
  /\ finds' = finds + 1
  /\ want' = s
  /\ rpc' = "keys"
  /\ found' = {}
  /\ quiet' = {r \in Runs : ~ Saving(r)}
  /\ UNCHANGED <<saveVars, rlook>>

FindKeys ==
  /\ rpc = "keys"
  /\ rlook' = {f \in Existing : Matches(f)}
  /\ rpc' = "look"
  /\ UNCHANGED <<saveVars, want, found, finds, quiet>>

\* Mutant for FindIsComplete: what was found so far is returned.
FindLookStops(f) ==
  /\ rpc = "look"
  /\ f \in rlook
  /\ \/ /\ f \in Existing
        /\ rlook' = rlook \ {f}
        /\ found' = found \cup ({f} \X field[f])
     \/ /\ f \notin Existing
        /\ rlook' = {}
        /\ UNCHANGED found
  /\ UNCHANGED <<saveVars, rpc, want, finds, quiet>>

\* A field that is gone raises, and the caller gets nothing.
FindLook(f) ==
  /\ rpc = "look"
  /\ f \in rlook
  /\ \/ /\ f \in Existing
        /\ rlook' = rlook \ {f}
        /\ found' = found \cup ({f} \X field[f])
        /\ UNCHANGED rpc
     \/ /\ f \notin Existing
        /\ rpc' = "idle" /\ rlook' = {} /\ found' = {}
  /\ UNCHANGED <<saveVars, want, finds, quiet>>

\* The records of all keys are read; a run has one before it is in the index.
Found ==
  /\ rpc = "look"
  /\ rlook = {}
  /\ rpc' = "done"
  /\ UNCHANGED <<saveVars, want, rlook, found, finds, quiet>>

Return ==
  /\ rpc = "done"
  /\ rpc' = "idle" /\ found' = {}
  /\ UNCHANGED <<saveVars, want, rlook, finds, quiet>>

Next ==
  \/ \E r \in Runs :
       \/ \E s \in States : Save(r, s)
       \/ \E f \in Fields : Look(r, f)
       \/ Keys(r) \/ Looked(r) \/ Drop(r) \/ Get(r) \/ Put(r) \/ Crash(r)
  \/ \E s \in States \cup {AnyState} : Find(s)
  \/ \E f \in Fields : FindLook(f)
  \/ FindKeys \/ Found \/ Return

Spec == Init /\ [][Next]_vars

(***************************************************************************)
(* Properties.  A run is alone when no other has its date: redis_store     *)
(* loses entries of runs that share a field, and RunModel.index removes    *)
(* them.                                                                   *)
(***************************************************************************)
Alone(r) == \A o \in Runs \ {r} : Date[o] # Date[r]

\* When its save has ended, a run that is alone is listed under its stored state
\* and nowhere else, whatever saves of other runs did to the index meanwhile.
AloneIsListedOnce ==
  \A r \in Runs :
    Alone(r) /\ record[r] # Missing /\ ~ Saving(r) /\ r \notin broken
      => FieldsOf(r) = {Own(r)}

\* Also a save that raised or died leaves it under one state at most.
AloneIsNeverTwice == \A r \in Runs : Alone(r) => Cardinality(FieldsOf(r)) <= 1

\* A find that returns has every run in the state it asked for that nobody saved
\* since it began, if that run is alone, and has it once.
FindIsComplete ==
  rpc = "done" =>
    \A r \in quiet \ broken :
      Alone(r) /\ record[r] # Missing /\ Matches(Own(r))
        => {x \in found : x[2] = r} = {<<Own(r), r>>}

-----------------------------------------------------------------------------
(***************************************************************************)
(* Why they hold: a save removes and rewrites only fields of the date of   *)
(* its run, and a run that is alone is in no field of another date.        *)
(***************************************************************************)

\* The index, and what the workers know of it, keep the dates apart.
DatesInv ==
  /\ \A f \in Fields, o \in Runs : o \in field[f] => f[2] = Date[o]
  /\ \A r \in Runs : /\ \A f \in old[r] : f[2] = Date[r]
                     /\ \A o \in read[r] : Date[o] = Date[r]
                     /\ Saving(r) => record[r] # Missing
                     /\ r \in quiet => ~ Saving(r)

\* The save of a run that is alone: it finds every field the run is in,
\* removes it, and has no other before it writes its own.
AloneInv(r) ==
  /\ \A f, g \in FieldsOf(r) : f = g
  /\ pc[r] = "look" => old[r] \subseteq FieldsOf(r) /\ FieldsOf(r) \subseteq look[r] \cup old[r]
  /\ pc[r] = "drop" => old[r] = FieldsOf(r)
  /\ pc[r] \in {"get", "put"} => FieldsOf(r) = {}
  /\ pc[r] = "idle" /\ r \notin broken /\ record[r] # Missing => FieldsOf(r) = {Own(r)}

\* A listing has read the field of a run nobody saves, or has it before it.
Due(r) == r \in quiet \ broken /\ Alone(r) /\ record[r] # Missing /\ Matches(Own(r))

FindInv ==
  /\ rpc \in {"idle", "keys"} => found = {}
  /\ \A r \in Runs :
       Due(r) =>
         /\ {x \in found : x[2] = r} \subseteq {<<Own(r), r>>}
         /\ rpc = "look" => Own(r) \in rlook \/ <<Own(r), r>> \in found
         /\ rpc = "done" => <<Own(r), r>> \in found

IndexInv ==
  /\ TypeOK /\ DatesInv
  /\ \A r \in Runs : Alone(r) => AloneInv(r)
  /\ FindInv
=============================================================================
