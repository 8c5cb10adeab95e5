--------------------------- MODULE RunIndexProofs ---------------------------
(***************************************************************************)
(* The index of runs, for any number of runs, dates and states, of saves   *)
(* and of finds: a run that shares its date with no other keeps one entry, *)
(* and a find that returns has it.                                         *)
(***************************************************************************)
EXTENDS RunIndex, FiniteSetTheorems, TLAPS

\* What the steps of the save of run q may do to the index.
WritesFieldsOf(q) ==
  \A f \in Fields :
    field'[f] # field[f] => f[2] = Date[q] /\ \A o \in field'[f] : Date[o] = Date[q]

LEMMA OwnField ==
  ASSUME TypeOK, NEW r \in Runs, record[r] # Missing
  PROVE  Own(r) \in Fields /\ Own(r)[2] = Date[r]
<1>1. record[r] \in States
  BY DEF TypeOK
<1>2. QED
  BY <1>1 DEF Own, Fields

\* A run that is alone is in no field another save writes.
LEMMA OthersKept ==
  ASSUME IndexInv, NEW q \in Runs, field' \in [Fields -> SUBSET Runs], WritesFieldsOf(q)
  PROVE  /\ \A f \in Fields, o \in Runs : o \in field'[f] => f[2] = Date[o]
         /\ \A r \in Runs \ {q} : Alone(r) => FieldsOf(r)' = FieldsOf(r)
<1>1. \A f \in Fields, o \in Runs : o \in field[f] => f[2] = Date[o]
  BY DEF IndexInv, DatesInv
<1>2. ASSUME NEW f \in Fields, NEW o \in Runs, o \in field'[f]
      PROVE  f[2] = Date[o]
  BY <1>1, <1>2 DEF WritesFieldsOf
<1>3. ASSUME NEW r \in Runs \ {q}, Alone(r), NEW f \in Fields
      PROVE  r \in field'[f] <=> r \in field[f]
  <2>1. Date[q] # Date[r]
    BY <1>3 DEF Alone
  <2>2. CASE field'[f] = field[f]
    BY <2>2
  <2>3. CASE field'[f] # field[f]
    BY <1>1, <2>1, <2>3 DEF WritesFieldsOf
  <2>4. QED
    BY <2>2, <2>3
<1>4. ASSUME NEW r \in Runs \ {q}, Alone(r)
      PROVE  FieldsOf(r)' = FieldsOf(r)
  BY <1>3, <1>4 DEF FieldsOf, Fields
<1>5. QED
  BY <1>2, <1>4

\* A step of the save of run q touches nothing of the others and of a find.
LEMMA StepOfOne ==
  ASSUME IndexInv, NEW q \in Runs, TypeOK', WritesFieldsOf(q),
         \A r \in Runs \ {q} : UNCHANGED <<record[r], pc[r], look[r], old[r], read[r]>>,
         \A r \in Runs \ {q} : r \in broken' <=> r \in broken,
         UNCHANGED findVars, quiet' \subseteq quiet, q \notin quiet',
         \A f \in old'[q] : f[2] = Date[q],
         \A o \in read'[q] : Date[o] = Date[q],
         record'[q] # Missing,
         Alone(q) => AloneInv(q)'
  PROVE  IndexInv'
<1>1. field' \in [Fields -> SUBSET Runs]
  BY DEF TypeOK, Fields
<1>2. DatesInv'
  <2>1. \A f \in Fields, o \in Runs : o \in field'[f] => f[2] = Date[o]
    BY <1>1, OthersKept
  <2>2. ASSUME NEW r \in Runs
        PROVE  /\ \A f \in old'[r] : f[2] = Date[r]
               /\ \A o \in read'[r] : Date[o] = Date[r]
               /\ Saving(r)' => record'[r] # Missing
               /\ r \in quiet' => ~ Saving(r)'
    <3>1. CASE r = q
      BY <3>1
    <3>2. CASE r # q
      BY <3>2 DEF IndexInv, DatesInv, Saving
    <3>3. QED
      BY <3>1, <3>2
  <2>3. QED
    BY <2>1, <2>2 DEF DatesInv, Fields
<1>3. ASSUME NEW r \in Runs, Alone(r)
      PROVE  AloneInv(r)'
  <2>1. CASE r = q
    BY <1>3, <2>1
  <2>2. CASE r # q
    <3>1. FieldsOf(r)' = FieldsOf(r) /\ Own(r)' = Own(r)
      BY <1>1, <1>3, <2>2, OthersKept DEF Own
    <3>2. AloneInv(r)
      BY <1>3 DEF IndexInv
    <3>3. QED
      BY <2>2, <3>1, <3>2 DEF AloneInv
  <2>3. QED
    BY <2>1, <2>2
<1>4. FindInv'
  <2>1. ASSUME NEW r \in Runs, Due(r)'
        PROVE  Due(r) /\ Own(r)' = Own(r)
    <3>1. r # q /\ r \in quiet
      BY <2>1 DEF Due
    <3>2. QED
      BY <2>1, <3>1 DEF Due, Own, Matches, findVars, Alone
  <2>2. QED
    BY <2>1 DEF IndexInv, FindInv, findVars
<1>5. \A r \in Runs : Alone(r)' <=> Alone(r)
  BY DEF Alone
<1>6. QED
  BY <1>2, <1>3, <1>4, <1>5 DEF IndexInv

-----------------------------------------------------------------------------
\* The types, for the steps of the worker that saves run r.
LEMMA SaveTypes ==
  ASSUME IndexInv, NEW r \in Runs,
         \/ \E s \in States : Save(r, s)
         \/ \E f \in Fields : Look(r, f)
         \/ Keys(r) \/ Looked(r) \/ Drop(r) \/ Get(r) \/ Put(r) \/ Crash(r)
  PROVE  TypeOK'
<1> USE DEF IndexInv, TypeOK, Goto, findVars
<1>1. CASE \E s \in States : Save(r, s)
  BY <1>1, IndexAssumption DEF Save
<1>2. CASE \E f \in Fields : Look(r, f)
  BY <1>2 DEF Look, SaveEnds
<1>3. CASE Keys(r)
  BY <1>3 DEF Keys, Existing
<1>4. CASE Looked(r)
  BY <1>4 DEF Looked
<1>5. CASE Drop(r)
  BY <1>5 DEF Drop
<1>6. CASE Get(r)
  <2>1. Own(r) \in Fields
    BY <1>6, OwnField DEF Get, DatesInv, Saving
  <2>2. field[Own(r)] \subseteq Runs
    BY <2>1
  <2>3. QED
    BY <1>6, <2>2 DEF Get, SaveEnds
<1>7. CASE Put(r)
  <2>1. read[r] \cup {r} \subseteq Runs
    OBVIOUS
  <2>2. QED
    BY <1>7, <2>1 DEF Put, SaveEnds
<1>8. CASE Crash(r)
  BY <1>8 DEF Crash, SaveEnds
<1>9. QED
  BY <1>1, <1>2, <1>3, <1>4, <1>5, <1>6, <1>7, <1>8

\* The record is written: what the index says is out of date until the end.
LEMMA SaveInv ==
  ASSUME IndexInv, NEW r \in Runs, NEW s \in States, Save(r, s)
  PROVE  IndexInv'
<1>1. TypeOK'
  BY SaveTypes
<1>2. /\ pc[r] = "idle" /\ UNCHANGED <<field, look, old, read, broken, findVars>>
      /\ record' = [record EXCEPT ![r] = s] /\ pc' = [pc EXCEPT ![r] = "keys"]
      /\ quiet' = quiet \ {r}
  BY DEF Save, Goto
<1>3. /\ record'[r] = s /\ pc'[r] = "keys"
      /\ \A o \in Runs \ {r} : record'[o] = record[o] /\ pc'[o] = pc[o]
  BY <1>2 DEF IndexInv, TypeOK
<1>4. Alone(r) => AloneInv(r)'
  BY <1>2, <1>3 DEF IndexInv, AloneInv, FieldsOf
<1>5. WritesFieldsOf(r)
  BY <1>2 DEF WritesFieldsOf
<1>6. s # Missing
  BY IndexAssumption
<1>7. /\ \A f \in old'[r] : f[2] = Date[r]
      /\ \A o \in read'[r] : Date[o] = Date[r]
  BY <1>2 DEF IndexInv, DatesInv
<1>8. QED
  BY <1>1, <1>2, <1>3, <1>4, <1>5, <1>6, <1>7, StepOfOne

\* The worker is done with the run, or dead: the others do not notice.
LEMMA EndOfSave ==
  ASSUME IndexInv, NEW r \in Runs, Saving(r), TypeOK', SaveEnds(r), WritesFieldsOf(r),
         UNCHANGED <<record, findVars, quiet>>,
         \A o \in Runs \ {r} : o \in broken' <=> o \in broken,
         Alone(r) => (\A f, g \in FieldsOf(r)' : f = g)
                     /\ (r \notin broken' => FieldsOf(r)' = {Own(r)})
  PROVE  IndexInv'
<1>1. /\ pc'[r] = "idle" /\ old'[r] = {} /\ read'[r] = {}
      /\ \A o \in Runs \ {r} : UNCHANGED <<record[o], pc[o], look[o], old[o], read[o]>>
  BY DEF SaveEnds, Goto, IndexInv, TypeOK
<1>2. record'[r] # Missing /\ r \notin quiet'
  BY DEF IndexInv, DatesInv
<1>3. Own(r)' = Own(r)
  BY DEF Own
<1>4. Alone(r) => AloneInv(r)'
  BY <1>1, <1>3 DEF AloneInv
<1>5. QED
  BY <1>1, <1>2, <1>4, StepOfOne

\* hkeys: the listing has every field the run is in.
LEMMA KeysInv ==
  ASSUME IndexInv, NEW r \in Runs, Keys(r)
  PROVE  IndexInv'
<1>1. TypeOK'
  BY SaveTypes
<1>2. /\ pc[r] = "keys" /\ UNCHANGED <<record, field, read, broken, findVars, quiet>>
      /\ look' = [look EXCEPT ![r] = Existing] /\ old' = [old EXCEPT ![r] = {}]
      /\ pc' = [pc EXCEPT ![r] = "look"]
  BY DEF Keys, Goto
<1>3. /\ look'[r] = Existing /\ old'[r] = {} /\ pc'[r] = "look"
      /\ \A o \in Runs \ {r} : UNCHANGED <<look[o], old[o], pc[o]>>
  BY <1>2 DEF IndexInv, TypeOK
<1>4. FieldsOf(r) \subseteq Existing
  BY DEF FieldsOf, Existing
<1>5. Alone(r) => AloneInv(r)'
  BY <1>2, <1>3, <1>4 DEF IndexInv, AloneInv, FieldsOf
<1>6. WritesFieldsOf(r) /\ record'[r] # Missing /\ r \notin quiet'
      /\ \A o \in read'[r] : Date[o] = Date[r]
  BY <1>2 DEF WritesFieldsOf, IndexInv, DatesInv, Saving
<1>7. QED
  BY <1>1, <1>2, <1>3, <1>5, <1>6, StepOfOne

\* hget of one field: found if the run is in it, an exception if it is gone.
LEMMA LookInv ==
  ASSUME IndexInv, NEW r \in Runs, NEW f \in Fields, Look(r, f)
  PROVE  IndexInv'
<1>1. TypeOK'
  BY SaveTypes
<1>2. /\ pc[r] = "look" /\ f \in look[r] /\ Saving(r)
      /\ UNCHANGED <<record, field, findVars, quiet>>
  BY DEF Look, Saving
<1>3. /\ WritesFieldsOf(r) /\ record'[r] # Missing /\ r \notin quiet'
      /\ FieldsOf(r)' = FieldsOf(r) /\ Own(r)' = Own(r)
  BY <1>2 DEF WritesFieldsOf, IndexInv, DatesInv, FieldsOf, Own
<1>4. CASE f \in Existing
  <2>1. /\ look' = [look EXCEPT ![r] = @ \ {f}]
        /\ old' = [old EXCEPT ![r] = IF r \in field[f] THEN @ \cup {f} ELSE @]
        /\ UNCHANGED <<pc, read, broken>>
    BY <1>4 DEF Look
  <2>2. /\ look'[r] = look[r] \ {f}
        /\ old'[r] = IF r \in field[f] THEN old[r] \cup {f} ELSE old[r]
        /\ \A o \in Runs \ {r} : UNCHANGED <<look[o], old[o]>>
    BY <2>1 DEF IndexInv, TypeOK
  <2>3. r \in field[f] <=> f \in FieldsOf(r)
    BY DEF FieldsOf
  <2>4. Alone(r) => AloneInv(r)'
    <3>1. Alone(r) => AloneInv(r)
      BY DEF IndexInv
    <3>2. AloneInv(r) => old'[r] \subseteq FieldsOf(r) /\ FieldsOf(r) \subseteq look'[r] \cup old'[r]
      BY <1>2, <2>2, <2>3 DEF AloneInv
    <3>3. QED
      BY <1>2, <1>3, <2>1, <3>1, <3>2 DEF AloneInv
  <2>5. /\ \A g \in old'[r] : g[2] = Date[r]
        /\ \A o \in read'[r] : Date[o] = Date[r]
    BY <2>1, <2>2 DEF IndexInv, DatesInv
  <2>6. QED
    BY <1>1, <1>2, <1>3, <2>1, <2>2, <2>4, <2>5, StepOfOne
<1>5. CASE f \notin Existing
  <2>1. SaveEnds(r) /\ broken' = broken \cup {r}
    BY <1>5 DEF Look
  <2>2. Alone(r) => \A g, h \in FieldsOf(r)' : g = h
    BY <1>3 DEF IndexInv, AloneInv
  <2>3. QED
    BY <1>1, <1>2, <1>3, <2>1, <2>2, EndOfSave
<1>6. QED
  BY <1>4, <1>5

\* The listing is complete.
LEMMA LookedInv ==
  ASSUME IndexInv, NEW r \in Runs, Looked(r)
  PROVE  IndexInv'
<1>1. TypeOK'
  BY SaveTypes
<1>2. /\ pc[r] = "look" /\ look[r] = {} /\ Saving(r)
      /\ UNCHANGED <<record, field, look, old, read, broken, findVars, quiet>>
      /\ pc' = [pc EXCEPT ![r] = IF old[r] = {} THEN "get" ELSE "drop"]
  BY DEF Looked, Goto, Saving
<1>3. /\ WritesFieldsOf(r) /\ record'[r] # Missing /\ r \notin quiet'
      /\ FieldsOf(r)' = FieldsOf(r)
      /\ pc'[r] = IF old[r] = {} THEN "get" ELSE "drop"
      /\ \A o \in Runs \ {r} : pc'[o] = pc[o]
      /\ \A f \in old'[r] : f[2] = Date[r]
      /\ \A o \in read'[r] : Date[o] = Date[r]
  BY <1>2 DEF WritesFieldsOf, IndexInv, DatesInv, FieldsOf, TypeOK
<1>4. Alone(r) => AloneInv(r)'
  BY <1>2, <1>3 DEF IndexInv, AloneInv
<1>5. QED
  BY <1>1, <1>2, <1>3, <1>4, StepOfOne

\* hdel: the run was in that field only.
LEMMA DropInv ==
  ASSUME IndexInv, NEW r \in Runs, Drop(r)
  PROVE  IndexInv'
<1>1. TypeOK'
  BY SaveTypes
<1>2. PICK f \in old[r] : field' = [field EXCEPT ![f] = {}]
  BY DEF Drop
<1>3. /\ pc[r] = "drop" /\ Saving(r)
      /\ UNCHANGED <<record, look, old, read, broken, findVars, quiet>>
      /\ pc' = [pc EXCEPT ![r] = "get"]
  BY DEF Drop, Goto, Saving
<1>4. /\ record'[r] # Missing /\ r \notin quiet'
      /\ pc'[r] = "get" /\ \A o \in Runs \ {r} : pc'[o] = pc[o]
      /\ \A g \in old'[r] : g[2] = Date[r]
      /\ \A o \in read'[r] : Date[o] = Date[r]
  BY <1>3 DEF IndexInv, DatesInv, TypeOK
<1>5. /\ f \in Fields /\ f[2] = Date[r] /\ field'[f] = {}
      /\ \A g \in Fields \ {f} : field'[g] = field[g]
  BY <1>2 DEF IndexInv, TypeOK, DatesInv
<1>6. WritesFieldsOf(r)
  BY <1>5 DEF WritesFieldsOf
<1>7. ASSUME Alone(r)
      PROVE  AloneInv(r)'
  <2>1. \A g \in FieldsOf(r) : g = f
    BY <1>2, <1>3, <1>7 DEF IndexInv, AloneInv
  <2>2. FieldsOf(r)' = {}
    BY <1>5, <2>1 DEF FieldsOf, Fields
  <2>3. QED
    BY <1>4, <2>2 DEF AloneInv
<1>8. QED
  BY <1>1, <1>3, <1>4, <1>6, <1>7, StepOfOne

\* hget of the new field: only runs of the same date are in it.
LEMMA GetInv ==
  ASSUME IndexInv, NEW r \in Runs, Get(r)
  PROVE  IndexInv'
<1>1. TypeOK'
  BY SaveTypes
<1>2. pc[r] = "get" /\ Saving(r) /\ UNCHANGED <<record, field, findVars, quiet>>
  BY DEF Get, Saving
<1>3. /\ WritesFieldsOf(r) /\ record[r] # Missing /\ record'[r] # Missing /\ r \notin quiet'
      /\ FieldsOf(r)' = FieldsOf(r)
  BY <1>2 DEF WritesFieldsOf, IndexInv, DatesInv, FieldsOf
<1>4. Own(r) \in Fields /\ Own(r)[2] = Date[r]
  BY <1>3, OwnField DEF IndexInv
<1>5. Alone(r) => FieldsOf(r) = {}
  BY <1>2 DEF IndexInv, AloneInv
<1>6. CASE r \in field[Own(r)]
  <2>1. SaveEnds(r) /\ broken' = broken \ {r}
    BY <1>6 DEF Get
  <2>2. ~ Alone(r)
    BY <1>4, <1>5, <1>6 DEF FieldsOf
  <2>3. QED
    BY <1>1, <1>2, <1>3, <2>1, <2>2, EndOfSave
<1>7. CASE r \notin field[Own(r)]
  <2>1. /\ read' = [read EXCEPT ![r] = field[Own(r)]]
        /\ pc' = [pc EXCEPT ![r] = "put"]
        /\ UNCHANGED <<look, old, broken>>
    BY <1>7 DEF Get, Goto
  <2>2. /\ read'[r] = field[Own(r)] /\ pc'[r] = "put"
        /\ \A o \in Runs \ {r} : UNCHANGED <<read[o], pc[o]>>
    BY <2>1 DEF IndexInv, TypeOK
  <2>3. /\ \A o \in read'[r] : Date[o] = Date[r]
        /\ \A f \in old'[r] : f[2] = Date[r]
    BY <1>4, <2>1, <2>2 DEF IndexInv, DatesInv, TypeOK
  <2>4. Alone(r) => AloneInv(r)'
    BY <1>3, <1>5, <2>2 DEF AloneInv
  <2>5. QED
    BY <1>1, <1>2, <1>3, <2>1, <2>2, <2>3, <2>4, StepOfOne
<1>8. QED
  BY <1>6, <1>7

\* hset: the run is where its record says, and nowhere else.
LEMMA PutInv ==
  ASSUME IndexInv, NEW r \in Runs, Put(r)
  PROVE  IndexInv'
<1>1. TypeOK'
  BY SaveTypes
<1>2. /\ pc[r] = "put" /\ Saving(r) /\ SaveEnds(r)
      /\ UNCHANGED <<record, findVars, quiet>>
      /\ field' = [field EXCEPT ![Own(r)] = read[r] \cup {r}]
      /\ broken' = broken \ {r}
  BY DEF Put, Saving, findVars
<1>3. record[r] # Missing
  BY <1>2 DEF IndexInv, DatesInv
<1>4. Own(r) \in Fields /\ Own(r)[2] = Date[r]
  BY <1>3, OwnField DEF IndexInv
<1>5. /\ field'[Own(r)] = read[r] \cup {r}
      /\ \A f \in Fields \ {Own(r)} : field'[f] = field[f]
  BY <1>2, <1>4 DEF IndexInv, TypeOK
<1>6. WritesFieldsOf(r)
  BY <1>4, <1>5 DEF WritesFieldsOf, IndexInv, DatesInv
<1>7. Alone(r) => FieldsOf(r)' = {Own(r)}
  <2>1. Alone(r) => FieldsOf(r) = {}
    BY <1>2 DEF IndexInv, AloneInv
  <2>2. QED
    BY <1>4, <1>5, <2>1 DEF FieldsOf, Fields
<1>8. QED
  BY <1>1, <1>2, <1>6, <1>7, EndOfSave

\* The worker dies: the run is in no field or in the one it was in.
LEMMA CrashInv ==
  ASSUME IndexInv, NEW r \in Runs, Crash(r)
  PROVE  IndexInv'
<1>1. TypeOK'
  BY SaveTypes
<1>2. /\ Saving(r) /\ SaveEnds(r) /\ broken' = broken \cup {r}
      /\ UNCHANGED <<record, field, findVars, quiet>>
  BY DEF Crash
<1>3. WritesFieldsOf(r) /\ FieldsOf(r)' = FieldsOf(r)
  BY <1>2 DEF WritesFieldsOf, FieldsOf
<1>4. Alone(r) => \A f, g \in FieldsOf(r)' : f = g
  BY <1>3 DEF IndexInv, AloneInv
<1>5. QED
  BY <1>1, <1>2, <1>3, <1>4, EndOfSave

-----------------------------------------------------------------------------
\* A reader changes nothing of the index.
LEMMA FindKeepsIndex ==
  ASSUME IndexInv, UNCHANGED saveVars, \A r \in quiet' : r \in quiet \/ ~ Saving(r)
  PROVE  DatesInv' /\ \A r \in Runs : Alone(r)' => AloneInv(r)'
<1>1. DatesInv'
  BY DEF IndexInv, DatesInv, saveVars, Saving, Fields
<1>2. ASSUME NEW r \in Runs, Alone(r)'
      PROVE  AloneInv(r)'
  <2>1. Alone(r) /\ FieldsOf(r)' = FieldsOf(r) /\ Own(r)' = Own(r)
    BY <1>2 DEF Alone, FieldsOf, Own, saveVars
  <2>2. QED
    BY <2>1 DEF IndexInv, AloneInv, saveVars
<1>3. QED
  BY <1>1, <1>2

\* The field of a run nobody saves stays where it is while a find reads.
LEMMA DueIsListed ==
  ASSUME IndexInv, NEW r \in Runs, Due(r)
  PROVE  Own(r) \in Existing /\ FieldsOf(r) = {Own(r)}
<1>1. pc[r] = "idle" /\ r \notin broken /\ record[r] # Missing /\ Alone(r)
  BY DEF Due, IndexInv, DatesInv, Saving
<1>2. FieldsOf(r) = {Own(r)}
  BY <1>1 DEF IndexInv, AloneInv
<1>3. QED
  BY <1>2 DEF FieldsOf, Existing

LEMMA FindStepInv ==
  ASSUME IndexInv,
         \/ \E s \in States \cup {AnyState} : Find(s)
         \/ \E f \in Fields : FindLook(f)
         \/ FindKeys \/ Found \/ Return
  PROVE  IndexInv'
<1>1. UNCHANGED saveVars /\ \A r \in quiet' : r \in quiet \/ ~ Saving(r)
  BY DEF Find, FindLook, FindKeys, Found, Return
<1>2. DatesInv' /\ \A r \in Runs : Alone(r)' => AloneInv(r)'
  BY <1>1, FindKeepsIndex
<1>3. \A r \in Runs : Own(r)' = Own(r) /\ Alone(r)' = Alone(r)
  BY <1>1 DEF Own, Alone, saveVars
<1>4. CASE \E s \in States \cup {AnyState} : Find(s)
  <2>1. TypeOK'
    BY <1>4, IndexAssumption DEF Find, IndexInv, TypeOK, saveVars
  <2>2. FindInv'
    BY <1>4 DEF Find, FindInv
  <2>3. QED
    BY <1>2, <2>1, <2>2 DEF IndexInv
<1>5. CASE FindKeys \/ Found \/ Return \/ \E f \in Fields : FindLook(f)
  <2>1. UNCHANGED <<quiet, want, saveVars, finds>>
    BY <1>5 DEF FindKeys, Found, Return, FindLook
  <2>2. \A r \in Runs : Due(r)' => Due(r)
    BY <1>3, <2>1 DEF Due, Matches, saveVars
  <2>3. CASE FindKeys
    <3>1. TypeOK'
      BY <2>1, <2>3 DEF FindKeys, IndexInv, TypeOK, saveVars, Existing
    <3>2. FindInv'
      <4>1. found = {} /\ found' = {} /\ rpc' = "look"
        BY <2>3 DEF FindKeys, IndexInv, FindInv
      <4>2. ASSUME NEW r \in Runs, Due(r)
            PROVE  Own(r) \in rlook'
        BY <2>3, <4>2, DueIsListed DEF FindKeys, Due
      <4>3. QED
        BY <1>3, <2>2, <4>1, <4>2 DEF FindInv
    <3>3. QED
      BY <1>2, <3>1, <3>2 DEF IndexInv
  <2>4. CASE Found \/ Return
    <3>1. TypeOK'
      BY <2>1, <2>4 DEF Found, Return, IndexInv, TypeOK, saveVars
    <3>2. FindInv'
      BY <1>3, <2>2, <2>4 DEF Found, Return, IndexInv, FindInv
    <3>3. QED
      BY <1>2, <3>1, <3>2 DEF IndexInv
  <2>5. ASSUME NEW f \in Fields, FindLook(f)
        PROVE  IndexInv'
    <3>1. rpc = "look" /\ f \in rlook
      BY <2>5 DEF FindLook
    <3>2. CASE f \notin Existing
      <4>1. rpc' = "idle" /\ rlook' = {} /\ found' = {}
        BY <2>5, <3>2 DEF FindLook
      <4>2. TypeOK'
        BY <2>1, <4>1 DEF IndexInv, TypeOK, saveVars
      <4>3. FindInv'
        BY <4>1 DEF FindInv
      <4>4. QED
        BY <1>2, <4>2, <4>3 DEF IndexInv
    <3>3. CASE f \in Existing
      <4>1. rpc' = "look" /\ rlook' = rlook \ {f} /\ found' = found \cup ({f} \X field[f])
        BY <2>5, <3>1, <3>3 DEF FindLook
      <4>2. TypeOK'
        <5>1. field[f] \subseteq Runs /\ found \subseteq Fields \X Runs
          BY DEF IndexInv, TypeOK
        <5>2. found' \subseteq Fields \X Runs
          BY <4>1, <5>1
        <5>3. QED
          BY <2>1, <4>1, <5>2 DEF IndexInv, TypeOK, saveVars
      <4>3. ASSUME NEW r \in Runs, Due(r)
            PROVE  /\ {x \in found' : x[2] = r} \subseteq {<<Own(r), r>>}
                   /\ Own(r) \in rlook' \/ <<Own(r), r>> \in found'
        <5>1. FieldsOf(r) = {Own(r)}
          BY <4>3, DueIsListed
        <5>2. r \in field[f] <=> f = Own(r)
          BY <5>1 DEF FieldsOf
        <5>3. /\ {x \in found : x[2] = r} \subseteq {<<Own(r), r>>}
              /\ Own(r) \in rlook \/ <<Own(r), r>> \in found
          BY <3>1, <4>3 DEF IndexInv, FindInv
        <5>4. \A x \in {f} \X field[f] : x[2] = r => x = <<Own(r), r>>
          BY <5>2
        <5>5. f = Own(r) => <<Own(r), r>> \in {f} \X field[f]
          BY <5>2
        <5>6. QED
          BY <4>1, <5>3, <5>4, <5>5
      <4>4. FindInv'
        BY <1>3, <2>2, <4>1, <4>3 DEF FindInv
      <4>5. QED
        BY <1>2, <4>2, <4>4 DEF IndexInv
    <3>4. QED
      BY <3>2, <3>3
  <2>6. QED
    BY <1>5, <2>3, <2>4, <2>5
<1>6. QED
  BY <1>4, <1>5

-----------------------------------------------------------------------------
\* The inductive invariant holds in every reachable state.
LEMMA IndexInvariant == Spec => []IndexInv
<1>1. Init => IndexInv
  <2> SUFFICES ASSUME Init PROVE IndexInv
    OBVIOUS
  <2>1. TypeOK
    BY IndexAssumption DEF Init, TypeOK
  <2>2. DatesInv /\ FindInv
    BY DEF Init, DatesInv, FindInv, Saving, Due
  <2>3. \A r \in Runs : AloneInv(r)
    BY DEF Init, AloneInv, FieldsOf
  <2>4. QED
    BY <2>1, <2>2, <2>3 DEF IndexInv
<1>2. IndexInv /\ [Next]_vars => IndexInv'
  <2> SUFFICES ASSUME IndexInv, [Next]_vars PROVE IndexInv'
    OBVIOUS
  <2>1. ASSUME NEW r \in Runs,
               \/ \E s \in States : Save(r, s)
               \/ \E f \in Fields : Look(r, f)
               \/ Keys(r) \/ Looked(r) \/ Drop(r) \/ Get(r) \/ Put(r) \/ Crash(r)
        PROVE  IndexInv'
    BY <2>1, SaveInv, LookInv, KeysInv, LookedInv, DropInv, GetInv, PutInv, CrashInv
  <2>2. CASE \/ \E s \in States \cup {AnyState} : Find(s)
             \/ \E f \in Fields : FindLook(f)
             \/ FindKeys \/ Found \/ Return
    BY <2>2, FindStepInv
  <2>3. CASE UNCHANGED vars
    <3>1. UNCHANGED saveVars /\ UNCHANGED findVars /\ UNCHANGED quiet
      BY <2>3 DEF vars
    <3>2. DatesInv' /\ \A r \in Runs : Alone(r)' => AloneInv(r)'
      BY <3>1, FindKeepsIndex
    <3>3. TypeOK' /\ FindInv'
      BY <3>1 DEF IndexInv, TypeOK, FindInv, Due, Alone, Own, Matches, saveVars, findVars
    <3>4. QED
      BY <3>2, <3>3 DEF IndexInv
  <2>4. QED
    BY <2>1, <2>2, <2>3 DEF Next
<1>3. QED
  BY <1>1, <1>2, PTL DEF Spec

\* The types of the index, of the workers that save and of the reader.
THEOREM IndexTypeCorrect == Spec => []TypeOK
<1>1. IndexInv => TypeOK
  BY DEF IndexInv
<1>2. QED
  BY <1>1, IndexInvariant, PTL

\* RunModel.index: a run that is alone in its second is listed under the state
\* of its record, and nowhere else, when its save has ended.
THEOREM AloneIsListed == Spec => []AloneIsListedOnce
<1>1. IndexInv => AloneIsListedOnce
  BY DEF IndexInv, TypeOK, AloneInv, AloneIsListedOnce, Saving
<1>2. QED
  BY <1>1, IndexInvariant, PTL

\* RunModel.index: whatever fails, it is under one state at most.
THEOREM AloneIsOnce == Spec => []AloneIsNeverTwice
<1>1. IndexInv => AloneIsNeverTwice
  <2> SUFFICES ASSUME IndexInv, NEW r \in Runs, Alone(r)
               PROVE  Cardinality(FieldsOf(r)) <= 1
    BY DEF AloneIsNeverTwice
  <2>1. CASE FieldsOf(r) = {}
    BY <2>1, FS_EmptySet
  <2>2. CASE FieldsOf(r) # {}
    <3>1. PICK f \in FieldsOf(r) : TRUE
      BY <2>2
    <3>2. FieldsOf(r) = {f}
      BY <3>1 DEF IndexInv, AloneInv
    <3>3. Cardinality({f}) = 1
      BY FS_Singleton
    <3>4. QED
      BY <3>2, <3>3
  <2>3. QED
    BY <2>1, <2>2
<1>2. QED
  BY <1>1, IndexInvariant, PTL

\* RunsCollection.find: what nobody saves meanwhile is in the result, once.
THEOREM FindsAreComplete == Spec => []FindIsComplete
<1>1. IndexInv => FindIsComplete
  <2> SUFFICES ASSUME IndexInv, rpc = "done", NEW r \in quiet \ broken,
                      Alone(r), record[r] # Missing, Matches(Own(r))
               PROVE  {x \in found : x[2] = r} = {<<Own(r), r>>}
    BY DEF FindIsComplete
  <2>1. r \in Runs /\ Due(r)
    BY DEF IndexInv, TypeOK, Due
  <2>2. <<Own(r), r>> \in found /\ {x \in found : x[2] = r} \subseteq {<<Own(r), r>>}
    BY <2>1 DEF IndexInv, FindInv
  <2>3. <<Own(r), r>> \in {x \in found : x[2] = r}
    BY <2>2
  <2>4. QED
    BY <2>2, <2>3
<1>2. QED
  BY <1>1, IndexInvariant, PTL
=============================================================================
