------------------------- MODULE ServiceGraphProofs -------------------------
(***************************************************************************)
(* Proofs about ServiceGraph, for every graph of services, any number of   *)
(* processes and of operations: StoredIsListed and NoComeBack, the types   *)
(* of the variables, then EndsAgree, NamesWereStored and                   *)
(* ChildrenGoWithParent, which rest on what the steps left of every        *)
(* operation will still write.                                             *)
(***************************************************************************)
EXTENDS ServiceGraph, TLAPS

\* What the steps need of the types of the variables.
DomainInv == DOMAIN record = Services /\ DOMAIN mid = Procs /\ DOMAIN fresh = Procs

\* A deleted service that is not in doubt has no record, and every copy of it
\* dates from before the deletion.
GoneInv ==
  \A s \in gone \ doubt : s \notin Stored /\ \A p \in Procs : s \notin fresh[p]

IInv == DomainInv /\ StoredIsListed /\ GoneInv

-----------------------------------------------------------------------------
\* A copy always has an entry.
LEMMA EntriesExist ==
  ASSUME NEW s, NEW r
  PROVE  \E e \in Entries(s, r) : e[1] = s
  <1>1. CASE r.prods = {}  
    <2>1. <<s, Nobody>> \in Entries(s, r)  BY <1>1 DEF Entries
    <2> QED BY <2>1
  <1>2. CASE r.prods # {}
    <2>1. PICK q \in r.prods : TRUE  BY <1>2
    <2>2. <<s, q>> \in Entries(s, r)  BY <1>2, <2>1 DEF Entries
    <2> QED BY <2>2
  <1> QED BY <1>1, <1>2

LEMMA InitInv == Init => IInv
  <1> SUFFICES ASSUME Init  PROVE IInv
    OBVIOUS
  <1>0. PICK E \in SUBSET Services : \E links \in SUBSET Consumed : Created(E, links)
    BY DEF Init
  <1>1. PICK links \in SUBSET Consumed : Created(E, links)  BY <1>0
  <1>2. DomainInv  BY <1>1 DEF Init, Created, DomainInv
  <1>3. GoneInv  BY DEF Init, GoneInv
  <1>4. ASSUME NEW s \in Stored  PROVE s \in Listed
    <2>1. s \in E /\ s \in Services  BY <1>1 DEF Created, Stored
    <2>2. CASE Asked(s) = {}
      <3>1. <<s, Nobody>> \in index  BY <1>1, <2>1, <2>2 DEF Created
      <3> QED BY <3>1 DEF Listed
    <2>3. CASE Asked(s) # {}
      <3>1. PICK q \in Asked(s) : TRUE  BY <2>3
      <3>2. <<s, q>> \in index  BY <1>1, <2>1, <3>1 DEF Created
      <3> QED BY <3>2 DEF Listed
    <2> QED BY <2>2, <2>3
  <1>5. StoredIsListed  BY <1>4 DEF StoredIsListed
  <1> QED BY <1>2, <1>3, <1>5 DEF IInv

LEMMA DomainNext ==
  ASSUME DomainInv, [Next]_vars
  PROVE  DomainInv'
  <1> USE DEF DomainInv, Written
  <1>1. ASSUME NEW p \in Procs, NEW s \in Services, Load(p, s)  PROVE DomainInv'
    BY <1>1 DEF Load
  <1>2. ASSUME NEW p \in Procs, NEW s \in Services, Create(p, s)  PROVE DomainInv'
    BY <1>2 DEF Create, Begin
  <1>3. ASSUME NEW p \in Procs, NEW s \in Services, Delete(p, s)  PROVE DomainInv'
    BY <1>3 DEF Delete, Begin
  <1>4. ASSUME NEW p \in Procs, NEW s \in Services, NEW q \in Services, Consume(p, s, q)  PROVE DomainInv'
    BY <1>4 DEF Consume, Begin
  <1>5. ASSUME NEW p \in Procs, Crash(p)  PROVE DomainInv'
    BY <1>5 DEF Crash
  <1>6. ASSUME NEW p \in Procs, Need(p)  PROVE DomainInv'
    BY <1>6 DEF Need, Raise, Done
  <1>7. ASSUME NEW p \in Procs, WantsStep(p)  PROVE DomainInv'
    BY <1>7 DEF WantsStep, Raise
  <1>8. ASSUME NEW p \in Procs, Producers(p)  PROVE DomainInv'
    BY <1>8 DEF Producers, LookAt, Raise, Done
  <1>9. ASSUME NEW p \in Procs, Look(p)  PROVE DomainInv'
    BY <1>9 DEF Look, LookAt, Raise, Done
  <1>10. ASSUME NEW p \in Procs, Children(p)  PROVE DomainInv'
    BY <1>10 DEF Children, Raise, Done
  <1>11. ASSUME NEW p \in Procs, Each(p)  PROVE DomainInv'
    BY <1>11 DEF Each
  <1>12. ASSUME NEW p \in Procs, Reload(p)  PROVE DomainInv'
    BY <1>12 DEF Reload, Raise, Done
  <1>13. ASSUME NEW p \in Procs, Store(p)  PROVE DomainInv'
    BY <1>13 DEF Store, SetRecord, Done
  <1>14. ASSUME NEW p \in Procs, ProducerAdd(p)  PROVE DomainInv'
    BY <1>14 DEF ProducerAdd, SetRecord, Done
  <1>15. ASSUME NEW p \in Procs, ConsumerAdd(p)  PROVE DomainInv'
    BY <1>15 DEF ConsumerAdd, SetRecord, Done
  <1>16. ASSUME NEW p \in Procs, Index(p)  PROVE DomainInv'
    BY <1>16 DEF Index
  <1>17. ASSUME NEW p \in Procs, Remove(p)  PROVE DomainInv'
    BY <1>17 DEF Remove, Done
  <1>18. ASSUME NEW p \in Procs, Erase(p)  PROVE DomainInv'
    BY <1>18 DEF Erase
  <1>20. ASSUME NEW p \in Procs, ParentStep(p)  PROVE DomainInv'
    BY <1>20 DEF ParentStep, Raise
  <1>19. CASE UNCHANGED vars
    BY <1>19 DEF vars
  <1> QED
    BY <1>1, <1>2, <1>3, <1>4, <1>5, <1>6, <1>7, <1>8, <1>9, <1>10, <1>11, <1>12, <1>13, <1>14, <1>15, <1>16, <1>17, <1>18, <1>19, <1>20 DEF Next, Step

LEMMA SetListed ==
  ASSUME DomainInv, StoredIsListed, NEW p \in Procs, NEW r, SetRecord(p, r), mid[p] = None
  PROVE  StoredIsListed'
  <1>1. Stored' \subseteq Stored \cup {Of(p)}  BY DEF SetRecord, Stored, DomainInv
  <1>2. Listed' = Listed /\ torn' = torn  BY DEF SetRecord, Listed
  <1>3. mid' = [mid EXCEPT ![p] = [do |-> "index", of |-> Of(p)]]  BY DEF SetRecord
  <1>4. mid'[p] # None /\ mid'[p].of = Of(p)  BY <1>3 DEF DomainInv, None
  <1>5. ASSUME NEW o \in Procs, mid[o] # None  PROVE mid'[o] = mid[o]  BY <1>3, <1>5 DEF DomainInv
  <1> QED BY <1>1, <1>2, <1>4, <1>5 DEF StoredIsListed

LEMMA ListedNext ==
  ASSUME DomainInv, StoredIsListed, [Next]_vars
  PROVE  StoredIsListed'
  <1> USE DEF StoredIsListed
  <1>1. ASSUME NEW p \in Procs, NEW s \in Services, Load(p, s)  PROVE StoredIsListed'
    BY <1>1 DEF Load, Stored, Listed
  <1>2. ASSUME NEW p \in Procs, NEW s \in Services, Create(p, s)  PROVE StoredIsListed'
    BY <1>2 DEF Create, Begin, Stored, Listed
  <1>3. ASSUME NEW p \in Procs, NEW s \in Services, Delete(p, s)  PROVE StoredIsListed'
    BY <1>3 DEF Delete, Begin, Stored, Listed
  <1>4. ASSUME NEW p \in Procs, NEW s \in Services, NEW q \in Services, Consume(p, s, q)  PROVE StoredIsListed'
    BY <1>4 DEF Consume, Begin, Stored, Listed
  <1>5. ASSUME NEW p \in Procs, Crash(p)  PROVE StoredIsListed'
    <2>1. Stored' = Stored /\ Listed' = Listed  BY <1>5 DEF Crash, Stored, Listed
    <2>2. mid' = [mid EXCEPT ![p] = None] /\ torn \subseteq torn' /\ (mid[p] # None => mid[p].of \in torn')  BY <1>5 DEF Crash
    <2>3. ASSUME NEW o \in Procs, o # p  PROVE mid'[o] = mid[o]  BY <2>2, <2>3 DEF DomainInv
    <2> QED BY <2>1, <2>2, <2>3
  <1>6. ASSUME NEW p \in Procs, Need(p)  PROVE StoredIsListed'
    BY <1>6 DEF Need, Raise, Done, Stored, Listed
  <1>7. ASSUME NEW p \in Procs, WantsStep(p)  PROVE StoredIsListed'
    BY <1>7 DEF WantsStep, Raise, Stored, Listed
  <1>8. ASSUME NEW p \in Procs, Producers(p)  PROVE StoredIsListed'
    BY <1>8 DEF Producers, LookAt, Raise, Done, Stored, Listed
  <1>9. ASSUME NEW p \in Procs, Look(p)  PROVE StoredIsListed'
    BY <1>9 DEF Look, LookAt, Raise, Done, Stored, Listed
  <1>10. ASSUME NEW p \in Procs, Children(p)  PROVE StoredIsListed'
    BY <1>10 DEF Children, Raise, Done, Stored, Listed
  <1>11. ASSUME NEW p \in Procs, Each(p)  PROVE StoredIsListed'
    BY <1>11 DEF Each, Stored, Listed
  <1>12. ASSUME NEW p \in Procs, Reload(p)  PROVE StoredIsListed'
    BY <1>12 DEF Reload, Raise, Done, Stored, Listed
  <1>13. ASSUME NEW p \in Procs, Store(p)  PROVE StoredIsListed'
    <2>1. PICK r : SetRecord(p, r) /\ mid[p] = None  BY <1>13 DEF Store, Ready
    <2> QED BY <2>1, SetListed
  <1>14. ASSUME NEW p \in Procs, ProducerAdd(p)  PROVE StoredIsListed'
    <2>1. PICK r : SetRecord(p, r) /\ mid[p] = None  BY <1>14 DEF ProducerAdd, Ready
    <2> QED BY <2>1, SetListed
  <1>15. ASSUME NEW p \in Procs, ConsumerAdd(p)  PROVE StoredIsListed'
    <2>1. PICK r : SetRecord(p, r) /\ mid[p] = None  BY <1>15 DEF ConsumerAdd, Ready
    <2> QED BY <2>1, SetListed
  <1>16. ASSUME NEW p \in Procs, Index(p)  PROVE StoredIsListed'
    <2>1. Listed' = Listed \cup {mid[p].of}
      <3>1. \A e \in Entries(mid[p].of, copy[p][mid[p].of]) : e[1] = mid[p].of  BY DEF Entries
      <3> QED BY <1>16, <3>1, EntriesExist DEF Index, Listed
    <2>2. Stored' = Stored  BY <1>16 DEF Index, Stored
    <2>3. mid' = [mid EXCEPT ![p] = None] /\ torn' = torn \ {mid[p].of}  BY <1>16 DEF Index
    <2> QED BY <2>1, <2>2, <2>3 DEF DomainInv
  <1>17. ASSUME NEW p \in Procs, Remove(p)  PROVE StoredIsListed'
    <2>1. Listed \subseteq Listed' \cup {Of(p)}
      <3>1. ASSUME NEW e \in index, e[1] # Of(p)  PROVE e \in index'  BY <1>17, <3>1 DEF Remove
      <3> QED BY <3>1 DEF Listed
    <2>2. Stored' = Stored /\ torn' = torn  BY <1>17 DEF Remove, Stored
    <2>3. mid' = [mid EXCEPT ![p] = [do |-> "erase", of |-> Of(p)]] /\ mid[p] = None  BY <1>17 DEF Remove, Ready
    <2>4. mid'[p] # None /\ mid'[p].of = Of(p)  BY <2>3 DEF DomainInv, None
    <2>5. ASSUME NEW o \in Procs, mid[o] # None  PROVE mid'[o] = mid[o]  BY <2>3, <2>5 DEF DomainInv
    <2> QED BY <2>1, <2>2, <2>4, <2>5
  <1>18. ASSUME NEW p \in Procs, Erase(p)  PROVE StoredIsListed'
    <2>1. Stored' \subseteq Stored \ {mid[p].of}  BY <1>18 DEF Erase, Stored, DomainInv
    <2>2. Listed' = Listed /\ torn' = torn /\ mid' = [mid EXCEPT ![p] = None]  BY <1>18 DEF Erase, Listed
    <2>3. ASSUME NEW o \in Procs, mid[o].of # mid[p].of  PROVE mid'[o] = mid[o]  BY <2>2, <2>3 DEF DomainInv
    <2> QED BY <2>1, <2>2, <2>3
  <1>20. ASSUME NEW p \in Procs, ParentStep(p)  PROVE StoredIsListed'
    BY <1>20 DEF ParentStep, Raise, Stored, Listed
  <1>19. CASE UNCHANGED vars
    BY <1>19 DEF vars, Stored, Listed
  <1> QED
    BY <1>1, <1>2, <1>3, <1>4, <1>5, <1>6, <1>7, <1>8, <1>9, <1>10, <1>11, <1>12, <1>13, <1>14, <1>15, <1>16, <1>17, <1>18, <1>19, <1>20 DEF Next, Step

LEMMA SetGone ==
  ASSUME DomainInv, GoneInv, NEW p \in Procs, NEW r, SetRecord(p, r)
  PROVE  GoneInv'
  <1>1. gone' = gone /\ Stored' \subseteq Stored \cup {Of(p)}  BY DEF SetRecord, Stored, DomainInv
  <1>2. doubt' = doubt \cup (IF Of(p) \in fresh[p] THEN {} ELSE {Of(p)})  BY DEF SetRecord, Doubted
  <1>3. fresh' = [o \in Procs |-> IF o = p THEN fresh[o] \cup {Of(p)} ELSE fresh[o] \ {Of(p)}]
    BY DEF SetRecord, Written
  <1>4. Of(p) \in gone => Of(p) \in doubt'  BY <1>2 DEF GoneInv
  <1> QED BY <1>1, <1>2, <1>3, <1>4 DEF GoneInv

LEMMA GoneNext ==
  ASSUME DomainInv, GoneInv, [Next]_vars
  PROVE  GoneInv'
  <1> USE DEF GoneInv, DomainInv, Stored, Written, Doubted
  <1>1. ASSUME NEW p \in Procs, NEW s \in Services, Load(p, s)  PROVE GoneInv'
    BY <1>1 DEF Load
  <1>2. ASSUME NEW p \in Procs, NEW s \in Services, Create(p, s)  PROVE GoneInv'
    BY <1>2 DEF Create, Begin
  <1>3. ASSUME NEW p \in Procs, NEW s \in Services, Delete(p, s)  PROVE GoneInv'
    BY <1>3 DEF Delete, Begin
  <1>4. ASSUME NEW p \in Procs, NEW s \in Services, NEW q \in Services, Consume(p, s, q)  PROVE GoneInv'
    BY <1>4 DEF Consume, Begin
  <1>5. ASSUME NEW p \in Procs, Crash(p)  PROVE GoneInv'
    BY <1>5 DEF Crash
  <1>6. ASSUME NEW p \in Procs, Need(p)  PROVE GoneInv'
    BY <1>6 DEF Need, Raise, Done
  <1>7. ASSUME NEW p \in Procs, WantsStep(p)  PROVE GoneInv'
    BY <1>7 DEF WantsStep, Raise
  <1>8. ASSUME NEW p \in Procs, Producers(p)  PROVE GoneInv'
    BY <1>8 DEF Producers, LookAt, Raise, Done
  <1>9. ASSUME NEW p \in Procs, Look(p)  PROVE GoneInv'
    BY <1>9 DEF Look, LookAt, Raise, Done
  <1>10. ASSUME NEW p \in Procs, Children(p)  PROVE GoneInv'
    <2>1. CASE FindRaises(Services)  BY <1>10, <2>1 DEF Children, Raise
    <2>2. CASE ~ FindRaises(Services)
      <3>1. PICK kids \in SUBSET Stored : fresh' = [fresh EXCEPT ![p] = @ \cup kids]
        <4> DEFINE kids == {c \in Services : c \in Listed /\ Parent[c] = Of(p) /\ Of(p) \in Listed}
        <4>1. kids \subseteq Stored  BY <2>2 DEF FindRaises
        <4>2. fresh' = [fresh EXCEPT ![p] = @ \cup kids]  BY <1>10, <2>2 DEF Children
        <4> QED BY <4>1, <4>2
      <3>2. gone' = gone /\ doubt' = doubt /\ Stored' = Stored  BY <1>10, <2>2 DEF Children, Stored
      <3> QED BY <3>1, <3>2
    <2> QED BY <2>1, <2>2
  <1>11. ASSUME NEW p \in Procs, Each(p)  PROVE GoneInv'
    BY <1>11 DEF Each
  <1>12. ASSUME NEW p \in Procs, Reload(p)  PROVE GoneInv'
    BY <1>12 DEF Reload, Raise, Done
  <1>13. ASSUME NEW p \in Procs, Store(p)  PROVE GoneInv'
    <2>1. PICK r : SetRecord(p, r)  BY <1>13 DEF Store
    <2> QED BY <2>1, SetGone
  <1>14. ASSUME NEW p \in Procs, ProducerAdd(p)  PROVE GoneInv'
    <2>1. PICK r : SetRecord(p, r)  BY <1>14 DEF ProducerAdd
    <2> QED BY <2>1, SetGone
  <1>15. ASSUME NEW p \in Procs, ConsumerAdd(p)  PROVE GoneInv'
    <2>1. PICK r : SetRecord(p, r)  BY <1>15 DEF ConsumerAdd
    <2> QED BY <2>1, SetGone
  <1>16. ASSUME NEW p \in Procs, Index(p)  PROVE GoneInv'
    BY <1>16 DEF Index
  <1>17. ASSUME NEW p \in Procs, Remove(p)  PROVE GoneInv'
    BY <1>17 DEF Remove, Done
  <1>18. ASSUME NEW p \in Procs, Erase(p)  PROVE GoneInv'
    BY <1>18 DEF Erase
  <1>20. ASSUME NEW p \in Procs, ParentStep(p)  PROVE GoneInv'
    BY <1>20 DEF ParentStep, Raise
  <1>19. CASE UNCHANGED vars
    BY <1>19 DEF vars
  <1> QED
    BY <1>1, <1>2, <1>3, <1>4, <1>5, <1>6, <1>7, <1>8, <1>9, <1>10, <1>11, <1>12, <1>13, <1>14, <1>15, <1>16, <1>17, <1>18, <1>19, <1>20 DEF Next, Step

LEMMA InvNext == IInv /\ [Next]_vars => IInv'
  BY DomainNext, ListedNext, GoneNext DEF IInv

LEMMA Invariant == Spec => []IInv
  <1>1. Init => IInv  BY InitInv
  <1>2. IInv /\ [Next]_vars => IInv'  BY InvNext
  <1> QED BY <1>1, <1>2, PTL DEF Spec

-----------------------------------------------------------------------------
\* Every stored service can be found, but for crashes and saves under way.
THEOREM StoredCanBeFound == Spec => []StoredIsListed
  <1>1. IInv => StoredIsListed  BY DEF IInv
  <1> QED BY <1>1, Invariant, PTL

\* Only out-of-date copies bring a deleted service back.
THEOREM DeletedStaysDeleted == Spec => []NoComeBack
  <1>1. IInv => NoComeBack  BY DEF IInv, GoneInv, NoComeBack
  <1> QED BY <1>1, Invariant, PTL

-----------------------------------------------------------------------------
(***************************************************************************)
(* The types: CopyInv is inductive together with TypeOK.  The steps of an  *)
(* operation are put together from sequences that are provided for.        *)
(***************************************************************************)

\* What is in c is in d as well.
More(c, d) == \A s \in Services : c[s] # Absent => d[s] # Absent

LEMMA ProvidedConcat ==
  ASSUME NEW q \in Seq(Steps), NEW r \in Seq(Steps), NEW c, Provided(q, c), Provided(r, c)
  PROVE  Provided(q \o r, c) /\ q \o r \in Seq(Steps)
  <1> DEFINE t == q \o r
  <1>1. /\ t \in Seq(Steps) /\ Len(t) = Len(q) + Len(r)
        /\ Len(q) \in Nat /\ Len(r) \in Nat
        /\ DOMAIN t = 1..Len(t) /\ DOMAIN q = 1..Len(q) /\ DOMAIN r = 1..Len(r)
        /\ \A i \in DOMAIN q : t[i] = q[i]
        /\ \A i \in DOMAIN r : t[Len(q) + i] = r[i]
    OBVIOUS
  <1> HIDE DEF t
  <1>2. ASSUME NEW i \in DOMAIN t
        PROVE  /\ t[i].do \in Uses =>
                    \/ c[t[i].of] # Absent
                    \/ \E j \in DOMAIN t : j < i /\ t[j].do = "need" /\ t[j].of = t[i].of
               /\ t[i].do = "each" => \A k \in t[i].with : c[k] # Absent
    <2>1. CASE i \in DOMAIN q
      <3>1. t[i] = q[i] /\ \A j \in DOMAIN q : j \in DOMAIN t /\ t[j] = q[j]  BY <1>1, <2>1
      <3> QED BY <2>1, <3>1 DEF Provided
    <2>2. CASE i \notin DOMAIN q
      <3> DEFINE k == i - Len(q)
      <3>1. k \in DOMAIN r /\ t[i] = r[k]  BY <1>1, <2>2
      <3>2. \A j \in DOMAIN r : j < k =>
              Len(q) + j \in DOMAIN t /\ Len(q) + j < i /\ t[Len(q) + j] = r[j]
        BY <1>1, <3>1
      <3> HIDE DEF k
      <3>3. ASSUME r[k].do \in Uses, c[r[k].of] = Absent
            PROVE  \E j \in DOMAIN t : j < i /\ t[j].do = "need" /\ t[j].of = r[k].of
        <4>1. PICK j \in DOMAIN r : j < k /\ r[j].do = "need" /\ r[j].of = r[k].of
          BY <3>1, <3>3 DEF Provided
        <4> QED BY <3>2, <4>1
      <3> QED BY <3>1, <3>3 DEF Provided
    <2> QED BY <2>1, <2>2
  <1>3. Provided(t, c)  BY <1>2 DEF Provided
  <1> QED BY <1>1, <1>3 DEF t

LEMMA ProvidedTail ==
  ASSUME NEW q \in Seq(Steps), q # << >>, NEW c, NEW d, Provided(q, c), More(c, d),
         q[1].do = "need" => d[q[1].of] # Absent
  PROVE  Provided(Tail(q), d) /\ Tail(q) \in Seq(Steps)
  <1> DEFINE t == Tail(q)
  <1>1. /\ t \in Seq(Steps) /\ Len(t) = Len(q) - 1 /\ Len(q) \in Nat \ {0}
        /\ DOMAIN t = 1..Len(t) /\ DOMAIN q = 1..Len(q)
        /\ \A i \in DOMAIN t : i + 1 \in DOMAIN q /\ t[i] = q[i + 1]
    OBVIOUS
  <1> HIDE DEF t
  <1>2. \A i \in DOMAIN q : q[i] \in Steps  BY <1>1
  <1>3. \A i \in DOMAIN q : q[i].of \in Services /\ q[i].with \subseteq Services
    BY <1>2 DEF Steps
  <1>4. ASSUME NEW i \in DOMAIN t
        PROVE  /\ t[i].do \in Uses =>
                    \/ d[t[i].of] # Absent
                    \/ \E j \in DOMAIN t : j < i /\ t[j].do = "need" /\ t[j].of = t[i].of
               /\ t[i].do = "each" => \A k \in t[i].with : d[k] # Absent
    <2>1. i + 1 \in DOMAIN q /\ t[i] = q[i + 1]  BY <1>1
    <2>2. ASSUME t[i].do \in Uses, d[t[i].of] = Absent
          PROVE  \E j \in DOMAIN t : j < i /\ t[j].do = "need" /\ t[j].of = t[i].of
      <3>1. c[t[i].of] = Absent  BY <1>3, <2>1, <2>2 DEF More
      <3>2. PICK j \in DOMAIN q : j < i + 1 /\ q[j].do = "need" /\ q[j].of = t[i].of
        BY <2>1, <2>2, <3>1 DEF Provided
      <3>3. j # 1  BY <2>2, <3>2
      <3>4. j - 1 \in DOMAIN t /\ t[j - 1] = q[j] /\ j - 1 < i  BY <1>1, <3>2, <3>3
      <3> QED BY <3>2, <3>4
    <2>3. ASSUME t[i].do = "each", NEW k \in t[i].with  PROVE d[k] # Absent
      BY <1>3, <2>1, <2>3 DEF More, Provided
    <2> QED BY <2>2, <2>3
  <1>5. Provided(t, d)  BY <1>4 DEF Provided
  <1> QED BY <1>1, <1>5 DEF t

LEMMA OneProvided ==
  ASSUME NEW x \in Steps, NEW c,
         \/ x.do \notin Uses \cup {"each"}
         \/ c[x.of] # Absent /\ x.do # "each"
         \/ x.do = "each" /\ \A k \in x.with : c[k] # Absent
  PROVE  <<x>> \in Seq(Steps) /\ Provided(<<x>>, c)
  <1>1. <<x>> \in Seq(Steps) /\ DOMAIN <<x>> = {1} /\ <<x>>[1] = x  OBVIOUS
  <1>2. x.do = "each" => x.do \notin Uses  BY DEF Uses
  <1> QED BY <1>1, <1>2 DEF Provided

\* The sequences operations are made of.
LEMMA PartsProvided ==
  ASSUME NEW s \in Services, NEW c
  PROVE  /\ << >> \in Seq(Steps) /\ Provided(<< >>, c)
         /\ c[s] # Absent => DeleteSteps(s) \in Seq(Steps) /\ Provided(DeleteSteps(s), c)
  <1>1. << >> \in Seq(Steps) /\ Provided(<< >>, c)  BY DEF Provided
  <1>2. ASSUME c[s] # Absent
        PROVE  DeleteSteps(s) \in Seq(Steps) /\ Provided(DeleteSteps(s), c)
    <2> DEFINE a == S("look", s, {})
               b == S("children", s, {})
               e == S("remove", s, {})
    <2>1. a \in Steps /\ b \in Steps /\ e \in Steps  BY DEF S, Steps
    <2>2. a.of = s /\ b.do \notin Uses /\ e.of = s
          /\ a.do # "each" /\ b.do # "each" /\ e.do # "each"
      BY DEF S, Uses
    <2>3. DeleteSteps(s) = <<a, b, e>>  BY DEF DeleteSteps
    <2> HIDE DEF a, b, e
    <2>4. /\ DeleteSteps(s) \in Seq(Steps) /\ DOMAIN <<a, b, e>> = 1..3
          /\ <<a, b, e>>[1] = a /\ <<a, b, e>>[2] = b /\ <<a, b, e>>[3] = e
      BY <2>1, <2>3
    <2>5. \A i \in DOMAIN <<a, b, e>> : <<a, b, e>>[i] \in {a, b, e}  BY <2>4
    <2> QED BY <1>2, <2>2, <2>3, <2>4, <2>5 DEF Provided
  <1> QED BY <1>1, <1>2

\* The steps of consume() and of Service.__init__ begin with what they need.
LEMMA ConsumeProvided ==
  ASSUME NEW s \in Services, NEW q \in Services, NEW c, c[s] # Absent, c[q] # Absent
  PROVE  ConsumeSteps(s, q) \in Seq(Steps) /\ Provided(ConsumeSteps(s, q), c)
  <1> DEFINE a == S("producers", s, {})
             b == S("producer", s, {q})
             d == S("consumer", q, {s})
             e == S("store", s, {})
             f == S("store", q, {})
  <1>1. a \in Steps /\ b \in Steps /\ d \in Steps /\ e \in Steps /\ f \in Steps
    BY DEF S, Steps
  <1>2. \A x \in {a, b, d, e, f} : c[x.of] # Absent /\ x.do # "each"  BY DEF S
  <1>3. ConsumeSteps(s, q) = <<a, b, d, e, f>>  BY DEF ConsumeSteps
  <1> HIDE DEF a, b, d, e, f
  <1>4. ConsumeSteps(s, q) \in Seq(Steps)  BY <1>1, <1>3
  <1>5. \A i \in DOMAIN <<a, b, d, e, f>> : <<a, b, d, e, f>>[i] \in {a, b, d, e, f}
    OBVIOUS
  <1> QED BY <1>2, <1>3, <1>4, <1>5 DEF Provided

LEMMA ConcatAt ==
  ASSUME NEW q \in Seq(Steps), NEW r \in Seq(Steps)
  PROVE  /\ q \o r \in Seq(Steps) /\ Len(q \o r) = Len(q) + Len(r)
         /\ Len(q) \in Nat /\ Len(r) \in Nat
         /\ DOMAIN q = 1..Len(q) /\ DOMAIN r = 1..Len(r) /\ DOMAIN (q \o r) = 1..(Len(q) + Len(r))
         /\ \A i \in 1..Len(q) : (q \o r)[i] = q[i]
         /\ \A i \in 1..Len(r) : (q \o r)[Len(q) + i] = r[i]
  OBVIOUS

\* What Service.__init__ puts before the steps it has left, for the producer or
\* the parent q: four steps, q is needed in the first of them.
Plans(s, q, W) == WantSteps(s, q, W) \cup {ParentSteps(s, q)}

LEMMA OneTwoOne ==
  ASSUME NEW a \in Steps, NEW b \in Steps, NEW c \in Steps, NEW x \in Steps
  PROVE  LET r == (<<a>> \o <<b, c>>) \o <<x>>
         IN /\ r \in Seq(Steps) /\ DOMAIN r = {1, 2, 3, 4}
            /\ r[1] = a /\ r[2] = b /\ r[3] = c /\ r[4] = x
  <1> DEFINE d == <<a>>
             e == <<b, c>>
             f == <<x>>
             t == d \o e
             r == t \o f
  <1>1. /\ d \in Seq(Steps) /\ Len(d) = 1 /\ d[1] = a
        /\ e \in Seq(Steps) /\ Len(e) = 2 /\ e[1] = b /\ e[2] = c
        /\ f \in Seq(Steps) /\ Len(f) = 1 /\ f[1] = x
    OBVIOUS
  <1> HIDE DEF d, e, f
  <1>2. /\ d \o e \in Seq(Steps) /\ Len(d \o e) = Len(d) + Len(e)
        /\ \A i \in 1..Len(d) : (d \o e)[i] = d[i]
        /\ \A i \in 1..Len(e) : (d \o e)[Len(d) + i] = e[i]
    BY <1>1, ConcatAt
  <1>3. t \in Seq(Steps) /\ Len(t) = 3 /\ t[1] = a /\ t[2] = b /\ t[3] = c
    <2>1. 1 \in 1..Len(d) /\ 1 \in 1..Len(e) /\ 2 \in 1..Len(e)  BY <1>1
    <2>2. t[1] = d[1] /\ t[Len(d) + 1] = e[1] /\ t[Len(d) + 2] = e[2]  BY <1>2, <2>1
    <2> QED BY <1>1, <1>2, <2>2
  <1> HIDE DEF t
  <1>4. /\ t \o f \in Seq(Steps) /\ DOMAIN (t \o f) = 1..(Len(t) + Len(f))
        /\ \A i \in 1..Len(t) : (t \o f)[i] = t[i]
        /\ \A i \in 1..Len(f) : (t \o f)[Len(t) + i] = f[i]
    BY <1>1, <1>3, ConcatAt
  <1>5. /\ r \in Seq(Steps) /\ DOMAIN r = {1, 2, 3, 4}
        /\ r[1] = a /\ r[2] = b /\ r[3] = c /\ r[4] = x
    <2>1. {1, 2, 3} \subseteq 1..Len(t) /\ 1 \in 1..Len(f)  BY <1>1, <1>3
    <2>2. r[1] = t[1] /\ r[2] = t[2] /\ r[3] = t[3] /\ r[Len(t) + 1] = f[1]  BY <1>4, <2>1
    <2>3. r \in Seq(Steps) /\ DOMAIN r = 1..4  BY <1>1, <1>3, <1>4
    <2> HIDE DEF r
    <2> QED BY <1>1, <1>3, <2>2, <2>3
  <1> QED BY <1>5 DEF d, e, f, t

LEMMA FourSteps ==
  ASSUME NEW a \in Steps, NEW b \in Steps, NEW c \in Steps, NEW x \in Steps,
         NEW r, \/ r = <<a, b, c, x>>
                \/ r = <<a, b>> \o <<c, x>>
                \/ r = <<a, b, c>> \o <<x>>
                \/ r = (<<a>> \o <<b, c>>) \o <<x>>
  PROVE  /\ r \in Seq(Steps) /\ DOMAIN r = {1, 2, 3, 4}
         /\ r[1] = a /\ r[2] = b /\ r[3] = c /\ r[4] = x
  <1>1. CASE r = <<a, b, c, x>>  BY <1>1
  <1>2. CASE r = <<a, b>> \o <<c, x>>  BY <1>2
  <1>3. CASE r = <<a, b, c>> \o <<x>>  BY <1>3
  <1>4. CASE r = (<<a>> \o <<b, c>>) \o <<x>>  BY <1>4, OneTwoOne
  <1> QED BY <1>1, <1>2, <1>3, <1>4

PlanLike(r, s, q, W) ==
  /\ r \in Seq(Steps) /\ DOMAIN r = {1, 2, 3, 4} /\ r[1] = S("need", q, {})
  /\ \/ r[2] = S("wants", s, W) /\ r[3] = S("producer", s, {q}) /\ r[4] = S("consumer", q, {s})
     \/ r[2] = S("producer", s, {q}) /\ r[3] = S("consumer", q, {s}) /\ r[4] = S("wants", s, W)
     \/ r[2] = S("producer", s, {q}) /\ r[3] = S("need", q, {}) /\ r[4] = S("consumer", q, {s})

LEMMA PlansAre ==
  ASSUME NEW s \in Services, NEW q \in Services, NEW W \in SUBSET Services,
         NEW r \in Plans(s, q, W)
  PROVE  PlanLike(r, s, q, W)
  <1> DEFINE a == S("need", q, {})
             x == S("wants", s, W)
             b == S("producer", s, {q})
             e == S("consumer", q, {s})
  <1>1. a \in Steps /\ b \in Steps /\ e \in Steps /\ x \in Steps  BY DEF S, Steps
  <1>2. \/ r = <<a, x>> \o <<b, e>>
        \/ r = (<<a>> \o <<b, e>>) \o <<x>>
        \/ r = <<a, b, a, e>>
    BY DEF Plans, WantSteps, LinkSteps, ParentSteps
  <1> HIDE DEF a, b, e, x
  <1>3. /\ r \in Seq(Steps) /\ DOMAIN r = {1, 2, 3, 4} /\ r[1] = a
        /\ \/ r[2] = x /\ r[3] = b /\ r[4] = e
           \/ r[2] = b /\ r[3] = e /\ r[4] = x
           \/ r[2] = b /\ r[3] = a /\ r[4] = e
    <2>1. CASE r = <<a, x>> \o <<b, e>>  BY <1>1, <2>1, FourSteps
    <2>2. CASE r = (<<a>> \o <<b, e>>) \o <<x>>  BY <1>1, <2>2, FourSteps
    <2>3. CASE r = <<a, b, a, e>>  BY <1>1, <2>3, FourSteps
    <2> QED BY <1>2, <2>1, <2>2, <2>3
  <1> QED BY <1>3 DEF PlanLike, a, b, e, x

LEMMA PlansProvided ==
  ASSUME NEW s \in Services, NEW q \in Services, NEW W \in SUBSET Services,
         NEW r \in Plans(s, q, W), NEW c, c[s] # Absent
  PROVE  r \in Seq(Steps) /\ Provided(r, c)
  <1> DEFINE Same(y) == y.do # "each" /\ (y.of = s \/ y.of = q)
  <1>1. /\ S("need", q, {}).do = "need" /\ S("need", q, {}).of = q
        /\ Same(S("need", q, {})) /\ Same(S("wants", s, W))
        /\ Same(S("producer", s, {q})) /\ Same(S("consumer", q, {s}))
    BY DEF S
  <1> HIDE DEF Same
  <1>2. /\ r \in Seq(Steps) /\ DOMAIN r = {1, 2, 3, 4} /\ r[1].do = "need" /\ r[1].of = q
        /\ Same(r[1]) /\ Same(r[2]) /\ Same(r[3]) /\ Same(r[4])
    BY <1>1, PlansAre DEF PlanLike
  <1>3. \A i \in DOMAIN r : /\ r[i].do # "each" /\ (r[i].of = s \/ r[i].of = q)
                            /\ i = 1 \/ 1 < i
    BY <1>2 DEF Same
  <1>4. "need" \notin Uses  BY DEF Uses
  <1> QED BY <1>2, <1>3, <1>4 DEF Provided

LEMMA CreateProvided ==
  ASSUME GraphAssumption, NEW s \in Services, NEW c, c[s] # Absent
  PROVE  CreateSteps(s) \in Seq(Steps) /\ Provided(CreateSteps(s), c)
  <1> DEFINE h == IF Parent[s] = Nobody THEN << >> ELSE <<S("need", Parent[s], {})>>
             w == S("wants", s, Wants[s])
             v == S("parent", s, {})
             a == S("store", s, {})
             b == S("reload", s, {})
             e == <<w, v, a, b, a>>
  <1>1. h \in Seq(Steps) /\ Provided(h, c)
    <2>1. CASE Parent[s] = Nobody  BY <2>1, PartsProvided
    <2>2. CASE Parent[s] # Nobody
      <3>1. Parent[s] \in Services  BY <2>2, GraphAssumption DEF GraphAssumption
      <3> DEFINE x == S("need", Parent[s], {})
      <3>2. x \in Steps /\ x.do \notin Uses \cup {"each"}  BY <3>1 DEF S, Steps, Uses
      <3>3. h = <<x>>  BY <2>2
      <3> HIDE DEF h, x
      <3> QED BY <3>2, <3>3, OneProvided
    <2> QED BY <2>1, <2>2
  <1>2. e \in Seq(Steps) /\ Provided(e, c)
    <2>1. w \in Steps /\ v \in Steps /\ a \in Steps /\ b \in Steps
      BY GraphAssumption DEF S, Steps, GraphAssumption
    <2>2. \A x \in {w, v, a, b} : c[x.of] # Absent /\ x.do # "each"  BY DEF S
    <2> HIDE DEF w, v, a, b
    <2>3. e \in Seq(Steps) /\ \A i \in DOMAIN e : e[i] \in {w, v, a, b}  BY <2>1
    <2> QED BY <2>2, <2>3 DEF Provided
  <1>3. CreateSteps(s) = h \o e  BY DEF CreateSteps
  <1> HIDE DEF h, e
  <1> QED BY <1>1, <1>2, <1>3, ProvidedConcat

\* What the processes share, and what each of them has of its own.
Copies == [Services -> Relations \cup {Absent}]

SharedOK ==
  /\ record \in [Services -> Relations \cup {Absent}]
  /\ index \subseteq Services \X (Services \cup {Nobody})
  /\ known \subseteq Services /\ ops \in 0..MaxOps
  /\ fresh \in [Procs -> SUBSET Services]
  /\ doubt \subseteq Services /\ torn \subseteq Services
  /\ gone \subseteq Services /\ late \subseteq Services

LocalOK ==
  /\ copy \in [Procs -> Copies]
  /\ todo \in [Procs -> Seq(Steps)]
  /\ mid \in [Procs -> Halves \cup {None}]
  /\ creating \in [Procs -> Services \cup {Nobody}]
  /\ CopyInv

TInv == SharedOK /\ LocalOK

LEMMA TInvTypes == TInv => TypeOK
  BY DEF TInv, SharedOK, LocalOK, Copies, TypeOK

\* The step a process is at, and what it has for it.
LEMMA AtStep ==
  ASSUME TInv, NEW p \in Procs, todo[p] # << >>
  PROVE  /\ todo[p] \in Seq(Steps) /\ todo[p][1] \in Steps
         /\ Of(p) \in Services /\ With(p) \subseteq Services
         /\ todo[p][1].do \in Uses => copy[p][Of(p)] # Absent
         /\ todo[p][1].do = "each" => \A k \in With(p) : copy[p][k] # Absent
  <1>1. todo[p] \in Seq(Steps) /\ Provided(todo[p], copy[p])  BY DEF TInv, LocalOK, CopyInv
  <1>2. 1 \in DOMAIN todo[p] /\ todo[p][1] \in Steps /\ DOMAIN todo[p] \subseteq Nat \ {0}
    BY <1>1
  <1>3. ~ \E j \in DOMAIN todo[p] : j < 1  BY <1>2
  <1> QED BY <1>1, <1>2, <1>3 DEF Provided, Of, With, Steps

LEMMA BusyServices ==
  ASSUME TInv, NEW p \in Procs
  PROVE  Busy(p) \subseteq Services
  <1>1. \A i \in DOMAIN todo[p] : todo[p][i] \in Steps  BY DEF TInv, LocalOK
  <1>2. \A i \in DOMAIN todo[p] : StepOn(todo[p][i]) \subseteq Services
    BY <1>1 DEF Steps, StepOn
  <1>3. mid[p] = None \/ mid[p].of \in Services  BY DEF TInv, LocalOK, Halves
  <1> QED BY <1>2, <1>3 DEF Busy

\* A step of p changes only what p has of its own.
LEMMA LocalStep ==
  ASSUME TInv, NEW p \in Procs, NEW c \in Copies, NEW q \in Seq(Steps),
         NEW m \in Halves \cup {None}, NEW e \in Services \cup {Nobody},
         copy' = [copy EXCEPT ![p] = c], todo' = [todo EXCEPT ![p] = q],
         mid' = [mid EXCEPT ![p] = m], creating' = [creating EXCEPT ![p] = e],
         Provided(q, c), e # Nobody => c[e] # Absent, m # None => c[m.of] # Absent
  PROVE  LocalOK'
  <1>1. /\ copy' \in [Procs -> Copies] /\ todo' \in [Procs -> Seq(Steps)]
        /\ mid' \in [Procs -> Halves \cup {None}]
        /\ creating' \in [Procs -> Services \cup {Nobody}]
    BY DEF TInv, LocalOK
  <1>2. ASSUME NEW o \in Procs
        PROVE  /\ Provided(todo'[o], copy'[o])
               /\ creating'[o] # Nobody => copy'[o][creating'[o]] # Absent
               /\ mid'[o] # None => copy'[o][mid'[o].of] # Absent
    <2>1. CASE o = p
      <3>1. copy'[o] = c /\ todo'[o] = q /\ mid'[o] = m /\ creating'[o] = e
        BY <2>1 DEF TInv, LocalOK
      <3> QED BY <3>1
    <2>2. CASE o # p
      <3>1. copy'[o] = copy[o] /\ todo'[o] = todo[o] /\ mid'[o] = mid[o] /\ creating'[o] = creating[o]
        BY <2>2 DEF TInv, LocalOK
      <3> QED BY <3>1 DEF TInv, LocalOK, CopyInv
    <2> QED BY <2>1, <2>2
  <1>3. CopyInv'  BY <1>2 DEF CopyInv
  <1> QED BY <1>1, <1>3 DEF LocalOK

LEMMA SameAt ==
  ASSUME TInv, NEW p \in Procs
  PROVE  /\ copy = [copy EXCEPT ![p] = copy[p]] /\ copy[p] \in Copies
         /\ todo = [todo EXCEPT ![p] = todo[p]] /\ todo[p] \in Seq(Steps)
         /\ mid = [mid EXCEPT ![p] = mid[p]] /\ mid[p] \in Halves \cup {None}
         /\ creating = [creating EXCEPT ![p] = creating[p]]
         /\ creating[p] \in Services \cup {Nobody}
         /\ Provided(todo[p], copy[p])
         /\ creating[p] # Nobody => copy[p][creating[p]] # Absent
         /\ mid[p] # None => copy[p][mid[p].of] # Absent
  BY DEF TInv, LocalOK, CopyInv

\* An operation goes on with the steps q before the others.
LEMMA GoesOn ==
  ASSUME TInv, NEW p \in Procs, todo[p] # << >>, NEW c \in Copies, NEW q \in Seq(Steps),
         NEW m \in Halves \cup {None}, More(copy[p], c), Provided(q, c),
         todo[p][1].do = "need" => c[Of(p)] # Absent, m # None => c[m.of] # Absent,
         copy' = [copy EXCEPT ![p] = c], todo' = [todo EXCEPT ![p] = q \o Tail(@)],
         mid' = [mid EXCEPT ![p] = m], creating' = creating
  PROVE  LocalOK'
  <1>1. todo[p] \in Seq(Steps) /\ Provided(todo[p], copy[p])  BY DEF TInv, LocalOK, CopyInv
  <1> DEFINE t == Tail(todo[p])
             r == q \o t
             e == creating[p]
  <1>2. todo[p][1].do = "need" => c[todo[p][1].of] # Absent  BY DEF Of
  <1>3. Provided(t, c) /\ t \in Seq(Steps)  BY <1>1, <1>2, ProvidedTail
  <1>4. todo' = [todo EXCEPT ![p] = r]  OBVIOUS
  <1> HIDE DEF t
  <1>5. r \in Seq(Steps) /\ Provided(r, c)  BY <1>3, ProvidedConcat
  <1>6. creating' = [creating EXCEPT ![p] = e] /\ e \in Services \cup {Nobody}
        /\ (e # Nobody => copy[p][e] # Absent)
    BY SameAt
  <1>7. e # Nobody => c[e] # Absent  BY <1>6 DEF More
  <1> HIDE DEF r, e
  <1> QED BY <1>4, <1>5, <1>6, <1>7, LocalStep

\* An operation goes on.
LEMMA GoesOnAfter ==
  ASSUME TInv, NEW p \in Procs, todo[p] # << >>, NEW c \in Copies,
         NEW m \in Halves \cup {None}, More(copy[p], c),
         todo[p][1].do = "need" => c[Of(p)] # Absent, m # None => c[m.of] # Absent,
         copy' = [copy EXCEPT ![p] = c], Done(p), mid' = [mid EXCEPT ![p] = m]
  PROVE  LocalOK'
  <1>1. todo[p] \in Seq(Steps)  BY SameAt
  <1>2. << >> \o Tail(todo[p]) = Tail(todo[p])  BY <1>1
  <1>3. todo' = [todo EXCEPT ![p] = << >> \o Tail(@)] /\ creating' = creating  BY <1>2 DEF Done
  <1>4. << >> \in Seq(Steps) /\ Provided(<< >>, c)  BY DEF Provided
  <1> QED BY <1>3, <1>4, GoesOn

LEMMA Raises ==
  ASSUME TInv, NEW p \in Procs, Raise(p)
  PROVE  LocalOK' /\ SharedOK'
  <1> DEFINE e == creating[p]
             q == IF e = Nobody THEN << >> ELSE DeleteSteps(e)
  <1>1. e \in Services \cup {Nobody} /\ (e # Nobody => copy[p][e] # Absent)  BY SameAt
  <1>2. q \in Seq(Steps) /\ Provided(q, copy[p])
    <2>1. CASE e = Nobody  BY <2>1, PartsProvided DEF Provided
    <2>2. CASE e # Nobody
      <3>1. e \in Services /\ copy[p][e] # Absent  BY <1>1, <2>2
      <3>2. q = DeleteSteps(e)  BY <2>2
      <3> HIDE DEF q, e
      <3> QED BY <3>1, <3>2, PartsProvided
    <2> QED BY <2>1, <2>2
  <1>3. /\ todo' = [todo EXCEPT ![p] = q] /\ creating' = [creating EXCEPT ![p] = Nobody]
        /\ copy' = copy /\ mid' = mid
    BY DEF Raise
  <1> HIDE DEF q
  <1>4. LocalOK'  BY <1>2, <1>3, SameAt, LocalStep
  <1>5. SharedOK'  BY BusyServices DEF Raise, TInv, SharedOK
  <1> QED BY <1>4, <1>5

\* What a process may do with one more copy that is not Absent.
LEMMA OneCopy ==
  ASSUME TInv, NEW p \in Procs, NEW s \in Services, NEW r \in Relations, Absent \notin Relations
  PROVE  /\ [copy[p] EXCEPT ![s] = r] \in Copies
         /\ More(copy[p], [copy[p] EXCEPT ![s] = r])
         /\ [copy[p] EXCEPT ![s] = r][s] # Absent
         /\ [copy EXCEPT ![p][s] = r] = [copy EXCEPT ![p] = [copy[p] EXCEPT ![s] = r]]
  <1>1. copy \in [Procs -> Copies]  BY DEF TInv, LocalOK
  <1>2. copy[p] \in Copies  BY <1>1
  <1> QED BY <1>1, <1>2 DEF More, Copies

LEMMA StoredRecords ==
  ASSUME TInv, NEW s \in Stored
  PROVE  s \in Services /\ record[s] \in Relations
  BY DEF TInv, SharedOK, Stored

\* What is provided for stays so with more copies.
LEMMA ProvidedMore ==
  ASSUME NEW q \in Seq(Steps), NEW c, NEW d, Provided(q, c), More(c, d)
  PROVE  Provided(q, d)
  <1>1. \A i \in DOMAIN q : q[i] \in Steps  OBVIOUS
  <1>2. \A i \in DOMAIN q : q[i].of \in Services /\ q[i].with \subseteq Services
    BY <1>1 DEF Steps
  <1> QED BY <1>2 DEF Provided, More

LEMMA LoadTypes ==
  ASSUME GraphAssumption, TInv, NEW p \in Procs, NEW s \in Services, Load(p, s)
  PROVE  TInv'
  <1>0. s \in Stored /\ record[s] \in Relations /\ Absent \notin Relations
    BY StoredRecords DEF Load, GraphAssumption
  <1> DEFINE c == [copy[p] EXCEPT ![s] = record[s]]
             q == todo[p]
  <1>1. c \in Copies /\ More(copy[p], c) /\ copy' = [copy EXCEPT ![p] = c]
    BY <1>0, OneCopy DEF Load
  <1>2. q \in Seq(Steps) /\ todo' = [todo EXCEPT ![p] = q] /\ Provided(q, copy[p])
        /\ mid' = [mid EXCEPT ![p] = mid[p]] /\ mid[p] = None
        /\ creating' = [creating EXCEPT ![p] = creating[p]] /\ creating[p] \in Services \cup {Nobody}
        /\ (creating[p] # Nobody => copy[p][creating[p]] # Absent)
    BY SameAt DEF Load, Idle
  <1> HIDE DEF c, q
  <1>3. Provided(q, c) /\ (creating[p] # Nobody => c[creating[p]] # Absent)
    <2>1. Provided(q, c)  BY <1>1, <1>2, ProvidedMore
    <2>2. creating[p] # Nobody => c[creating[p]] # Absent  BY <1>1, <1>2 DEF More
    <2> QED BY <2>1, <2>2
  <1>4. mid[p] \in Halves \cup {None}  BY SameAt
  <1>5. LocalOK'  BY <1>1, <1>2, <1>3, <1>4, LocalStep
  <1>6. SharedOK'  BY DEF Load, TInv, SharedOK
  <1> QED BY <1>5, <1>6 DEF TInv

LEMMA CreateTypes ==
  ASSUME GraphAssumption, TInv, NEW p \in Procs, NEW s \in Services, Create(p, s)
  PROVE  TInv'
  <1> DEFINE r == [prods |-> {}, cons |-> {}]
             c == [copy[p] EXCEPT ![s] = r]
             q == CreateSteps(s)
  <1>0. r \in Relations /\ Absent \notin Relations  BY DEF Relations, GraphAssumption
  <1>1. c \in Copies /\ c[s] # Absent /\ copy' = [copy EXCEPT ![p] = c]
    BY <1>0, OneCopy DEF Create
  <1>2. todo' = [todo EXCEPT ![p] = q] /\ creating' = [creating EXCEPT ![p] = s]
        /\ mid' = [mid EXCEPT ![p] = None] /\ mid[p] = None
    BY SameAt DEF Create, Begin, Idle
  <1> HIDE DEF c
  <1>3. q \in Seq(Steps) /\ Provided(q, c)  BY <1>1, CreateProvided
  <1> HIDE DEF q
  <1>4. LocalOK'  BY <1>1, <1>2, <1>3, LocalStep
  <1>5. SharedOK'
    BY GraphAssumption DEF Create, Begin, TInv, SharedOK, GraphAssumption
  <1> QED BY <1>4, <1>5 DEF TInv

LEMMA ConsumeTypes ==
  ASSUME GraphAssumption, TInv, NEW p \in Procs, NEW s \in Services, NEW t \in Services, Consume(p, s, t)
  PROVE  TInv'
  <1> DEFINE q == ConsumeSteps(s, t)
  <1>1. q \in Seq(Steps) /\ Provided(q, copy[p])  BY ConsumeProvided DEF Consume
  <1>2. /\ todo' = [todo EXCEPT ![p] = q] /\ copy' = copy /\ creating' = creating
        /\ mid' = mid
    BY DEF Consume, Begin
  <1> HIDE DEF q
  <1>5. mid' = [mid EXCEPT ![p] = None]  BY <1>2, SameAt DEF Consume, Begin, Idle
  <1> DEFINE c == copy[p]
             e == creating[p]
  <1>6. /\ copy' = [copy EXCEPT ![p] = c] /\ c \in Copies /\ Provided(q, c)
        /\ creating' = [creating EXCEPT ![p] = e] /\ e \in Services \cup {Nobody}
        /\ e # Nobody => c[e] # Absent
    BY <1>1, <1>2, SameAt
  <1> HIDE DEF c, e
  <1>3. LocalOK'  BY <1>1, <1>2, <1>5, <1>6, LocalStep
  <1>4. SharedOK'  BY GraphAssumption DEF Consume, Begin, TInv, SharedOK, GraphAssumption
  <1> QED BY <1>3, <1>4 DEF TInv

LEMMA DeleteTypes ==
  ASSUME GraphAssumption, TInv, NEW p \in Procs, NEW s \in Services, Delete(p, s)
  PROVE  TInv'
  <1> DEFINE q == DeleteSteps(s)
  <1>1. q \in Seq(Steps) /\ Provided(q, copy[p])  BY PartsProvided DEF Delete
  <1>2. /\ todo' = [todo EXCEPT ![p] = q] /\ copy' = copy /\ creating' = creating
        /\ mid' = mid
    BY DEF Delete, Begin
  <1> HIDE DEF q
  <1>5. mid' = [mid EXCEPT ![p] = None]  BY <1>2, SameAt DEF Delete, Begin, Idle
  <1> DEFINE c == copy[p]
             e == creating[p]
  <1>6. /\ copy' = [copy EXCEPT ![p] = c] /\ c \in Copies /\ Provided(q, c)
        /\ creating' = [creating EXCEPT ![p] = e] /\ e \in Services \cup {Nobody}
        /\ e # Nobody => c[e] # Absent
    BY <1>1, <1>2, SameAt
  <1> HIDE DEF c, e
  <1>3. LocalOK'  BY <1>1, <1>2, <1>5, <1>6, LocalStep
  <1>4. SharedOK'  BY GraphAssumption DEF Delete, Begin, TInv, SharedOK, GraphAssumption
  <1> QED BY <1>3, <1>4 DEF TInv

\* Need and Reload, when what they read is there.
LEMMA ReadTypes ==
  ASSUME GraphAssumption, TInv, NEW p \in Procs, todo[p] # << >>, Of(p) \in Stored, Done(p),
         copy' = [copy EXCEPT ![p][Of(p)] = record[Of(p)]],
         fresh' = [fresh EXCEPT ![p] = @ \cup {Of(p)}],
         UNCHANGED <<record, index, mid, known, ops, doubt, torn, gone, late>>
  PROVE  TInv'
  <1> DEFINE c == [copy[p] EXCEPT ![Of(p)] = record[Of(p)]]
  <1>0. Of(p) \in Services /\ record[Of(p)] \in Relations /\ Absent \notin Relations
    BY StoredRecords DEF GraphAssumption
  <1>1. c \in Copies /\ More(copy[p], c) /\ c[Of(p)] # Absent /\ copy' = [copy EXCEPT ![p] = c]
    BY <1>0, OneCopy
  <1> HIDE DEF c
  <1>2. mid' = [mid EXCEPT ![p] = mid[p]] /\ mid[p] \in Halves \cup {None}
        /\ (mid[p] # None => copy[p][mid[p].of] # Absent)
    BY SameAt
  <1>3. mid[p] # None => c[mid[p].of] # Absent
    BY <1>1, <1>2 DEF More, Halves
  <1>4. LocalOK'  BY <1>1, <1>2, <1>3, GoesOnAfter
  <1>5. SharedOK'  BY <1>0 DEF TInv, SharedOK
  <1> QED BY <1>4, <1>5 DEF TInv

LEMMA NeedTypes ==
  ASSUME GraphAssumption, TInv, NEW p \in Procs, Need(p)
  PROVE  TInv'
  <1>1. CASE Of(p) \in Listed \cap Stored  BY <1>1, ReadTypes DEF Need, Ready
  <1>2. CASE Of(p) \notin Listed \cap Stored  BY <1>2, Raises DEF Need, TInv
  <1> QED BY <1>1, <1>2

LEMMA ReloadTypes ==
  ASSUME GraphAssumption, TInv, NEW p \in Procs, Reload(p)
  PROVE  TInv'
  <1>1. CASE Of(p) \in Stored  BY <1>1, ReadTypes DEF Reload, Ready
  <1>2. CASE Of(p) \notin Stored  BY <1>2, Raises DEF Reload, TInv
  <1> QED BY <1>1, <1>2

\* consume() and delete() look at what they do not change.
LEMMA LookTypes ==
  ASSUME TInv, NEW p \in Procs, NEW names, LookAt(p, names), todo[p] # << >>,
         todo[p][1].do # "need"
  PROVE  TInv'
  <1>1. CASE FindRaises(names)  BY <1>1, Raises DEF LookAt, TInv
  <1>2. CASE ~ FindRaises(names)
    <2>1. Done(p) /\ UNCHANGED <<record, index, copy, mid, known, ops, fresh, doubt, torn, gone, late>>
      BY <1>2 DEF LookAt
    <2>2. More(copy[p], copy[p])  BY DEF More
    <2>3. LocalOK'  BY <2>1, <2>2, SameAt, GoesOnAfter
    <2>4. SharedOK'  BY <2>1 DEF TInv, SharedOK
    <2> QED BY <2>3, <2>4 DEF TInv
  <1> QED BY <1>1, <1>2

\* The steps that put others before themselves: q is what they put there.
LEMMA PutsBefore ==
  ASSUME TInv, NEW p \in Procs, todo[p] # << >>, todo[p][1].do # "need", mid[p] = None,
         NEW q \in Seq(Steps), Provided(q, copy[p]),
         todo' = [todo EXCEPT ![p] = q \o Tail(@)],
         UNCHANGED <<record, index, copy, mid, creating, known, ops, fresh, doubt, torn, gone, late>>
  PROVE  TInv'
  <1> DEFINE c == copy[p]
  <1>1. copy' = [copy EXCEPT ![p] = c] /\ c \in Copies /\ Provided(q, c) /\ More(copy[p], c)
    BY SameAt DEF More
  <1>2. mid' = [mid EXCEPT ![p] = None]  BY SameAt
  <1> HIDE DEF c
  <1>3. LocalOK'  BY <1>1, <1>2, GoesOn
  <1>4. SharedOK'  BY DEF TInv, SharedOK
  <1> QED BY <1>3, <1>4 DEF TInv

LEMMA WantsTypes ==
  ASSUME TInv, NEW p \in Procs, WantsStep(p)
  PROVE  TInv'
  <1>0. todo[p] # << >> /\ todo[p][1].do = "wants" /\ mid[p] = None
    BY DEF WantsStep, Ready
  <1>1. /\ Of(p) \in Services /\ With(p) \subseteq Services /\ copy[p][Of(p)] # Absent
        /\ todo[p] \in Seq(Steps)
    BY <1>0, AtStep DEF Uses
  <1> DEFINE Kept == UNCHANGED <<record, index, copy, mid, creating, known, ops, fresh, doubt, torn, gone, late>>
  <1>2. CASE todo' = [todo EXCEPT ![p] = Tail(@)] /\ Kept
    <2>1. << >> \o Tail(todo[p]) = Tail(todo[p])  BY <1>0, <1>1
    <2>2. todo' = [todo EXCEPT ![p] = << >> \o Tail(@)]  BY <1>2, <2>1
    <2>3. << >> \in Seq(Steps) /\ Provided(<< >>, copy[p])  BY DEF Provided
    <2> QED BY <1>0, <1>2, <2>2, <2>3, PutsBefore
  <1>3. ASSUME NEW q \in With(p), NEW r \in WantSteps(Of(p), q, With(p) \ {q}),
               todo' = [todo EXCEPT ![p] = r \o Tail(@)], Kept
        PROVE  TInv'
    <2>1. r \in Plans(Of(p), q, With(p) \ {q})  BY <1>3 DEF Plans
    <2>2. r \in Seq(Steps) /\ Provided(r, copy[p])  BY <1>1, <2>1, PlansProvided
    <2> QED BY <1>0, <1>3, <2>2, PutsBefore
  <1>4. CASE Raise(p)  BY <1>4, Raises DEF TInv
  <1> QED BY <1>2, <1>3, <1>4 DEF WantsStep

LEMMA ParentTypes ==
  ASSUME TInv, NEW p \in Procs, ParentStep(p)
  PROVE  TInv'
  <1>0. todo[p] # << >> /\ todo[p][1].do = "parent" /\ mid[p] = None
    BY DEF ParentStep, Ready
  <1>1. Of(p) \in Services /\ copy[p][Of(p)] # Absent  BY <1>0, AtStep DEF Uses
  <1> DEFINE q == Parent[Of(p)]
             r == IF q \in Listed THEN ParentSteps(Of(p), q) ELSE << >>
  <1>2. r \in Seq(Steps) /\ Provided(r, copy[p])
    <2>1. CASE q \in Listed
      <3>1. q \in Services  BY <2>1 DEF Listed, TInv, SharedOK
      <3>2. r = ParentSteps(Of(p), q)  BY <2>1
      <3> HIDE DEF q, r
      <3>3. {} \in SUBSET Services /\ r \in Plans(Of(p), q, {})  BY <3>2 DEF Plans
      <3> QED BY <1>1, <3>1, <3>3, PlansProvided
    <2>2. CASE q \notin Listed
      <3>1. r = << >>  BY <2>2
      <3> HIDE DEF q, r
      <3> QED BY <3>1 DEF Provided
    <2> QED BY <2>1, <2>2
  <1>3. \/ Raise(p)
        \/ /\ todo' = [todo EXCEPT ![p] = r \o Tail(@)]
           /\ UNCHANGED <<record, index, copy, mid, creating, known, ops, fresh, doubt, torn, gone, late>>
    BY DEF ParentStep
  <1> HIDE DEF q, r
  <1>4. CASE Raise(p)  BY <1>4, Raises DEF TInv
  <1> QED BY <1>0, <1>2, <1>3, <1>4, PutsBefore

LEMMA EachTypes ==
  ASSUME TInv, NEW p \in Procs, Each(p)
  PROVE  TInv'
  <1>0. /\ todo[p] # << >> /\ todo[p][1].do = "each" /\ mid[p] = None
        /\ UNCHANGED <<record, index, copy, mid, creating, known, ops, fresh, doubt, torn, gone, late>>
    BY DEF Each, Ready
  <1>1. /\ Of(p) \in Services /\ With(p) \subseteq Services /\ todo[p] \in Seq(Steps)
        /\ \A k \in With(p) : copy[p][k] # Absent
    BY <1>0, AtStep
  <1>2. CASE With(p) = {}
    <2>1. << >> \o Tail(todo[p]) = Tail(todo[p])  BY <1>0, <1>1
    <2>2. todo' = [todo EXCEPT ![p] = << >> \o Tail(@)]  BY <1>2, <2>1 DEF Each
    <2>3. << >> \in Seq(Steps) /\ Provided(<< >>, copy[p])  BY DEF Provided
    <2> QED BY <1>0, <2>2, <2>3, PutsBefore
  <1>3. CASE With(p) # {}
    <2>1. PICK t \in With(p) :
            todo' = [todo EXCEPT ![p] = DeleteSteps(t) \o <<S("each", Of(p), With(p) \ {t})>> \o Tail(@)]
      BY <1>3 DEF Each
    <2> DEFINE x == S("each", Of(p), With(p) \ {t})
               l == DeleteSteps(t)
               q == l \o <<x>>
    <2>2. x \in Steps /\ x.do = "each" /\ \A k \in x.with : copy[p][k] # Absent
      BY <1>1 DEF S, Steps
    <2>3. todo' = [todo EXCEPT ![p] = q \o Tail(@)]  BY <2>1
    <2>4. l \in Seq(Steps) /\ Provided(l, copy[p])  BY <1>1, <2>1, PartsProvided
    <2> HIDE DEF x, l
    <2>5. <<x>> \in Seq(Steps) /\ Provided(<<x>>, copy[p])  BY <2>2, OneProvided
    <2>6. q \in Seq(Steps) /\ Provided(q, copy[p])  BY <2>4, <2>5, ProvidedConcat
    <2> HIDE DEF q
    <2> QED BY <1>0, <2>3, <2>6, PutsBefore
  <1> QED BY <1>2, <1>3

LEMMA ChildrenTypes ==
  ASSUME GraphAssumption, TInv, NEW p \in Procs, Children(p)
  PROVE  TInv'
  <1>0. todo[p] # << >> /\ todo[p][1].do = "children" /\ mid[p] = None
    BY DEF Children, Ready
  <1>1. CASE FindRaises(Services)  BY <1>1, Raises DEF Children, TInv
  <1>2. CASE ~ FindRaises(Services)
    <2> DEFINE kids == {k \in Services : k \in Listed /\ Parent[k] = Of(p) /\ Of(p) \in Listed}
               c == [k \in Services |-> IF k \in kids THEN record[k] ELSE copy[p][k]]
               x == S("each", Of(p), kids)
    <2>1. /\ todo' = [todo EXCEPT ![p] = <<x>> \o Tail(@)]
          /\ copy' = [copy EXCEPT ![p] = c]
          /\ fresh' = [fresh EXCEPT ![p] = @ \cup kids]
          /\ late' = late \cup {k \in known : Parent[k] = Of(p) /\ \E o \in Procs : creating[o] = k}
          /\ UNCHANGED <<record, index, mid, creating, known, ops, doubt, torn, gone>>
      BY <1>2 DEF Children
    <2>2. kids \subseteq Services /\ kids \subseteq Stored  BY <1>2 DEF FindRaises
    <2>3. \A k \in kids : record[k] \in Relations /\ record[k] # Absent
      BY <2>2, StoredRecords, GraphAssumption DEF GraphAssumption
    <2>4. Of(p) \in Services  BY <1>0, AtStep
    <2> HIDE DEF kids
    <2>5. x \in Steps /\ x.do = "each" /\ x.with = kids  BY <2>2, <2>4 DEF S, Steps
    <2>6. c \in Copies /\ More(copy[p], c) /\ \A k \in kids : c[k] # Absent
      BY <2>2, <2>3, SameAt DEF Copies, More
    <2> HIDE DEF c, x
    <2>7. <<x>> \in Seq(Steps) /\ Provided(<<x>>, c)  BY <2>5, <2>6, OneProvided
    <2>8. mid' = [mid EXCEPT ![p] = None]  BY <1>0, <2>1, SameAt
    <2>9. LocalOK'  BY <1>0, <2>1, <2>6, <2>7, <2>8, GoesOn
    <2>10. SharedOK'  BY <2>1, <2>2 DEF TInv, SharedOK
    <2> QED BY <2>9, <2>10 DEF TInv
  <1> QED BY <1>1, <1>2

\* The writes: what is written is a record of relations.
LEMMA SetTypes ==
  ASSUME GraphAssumption, TInv, NEW p \in Procs, NEW r \in Relations, SetRecord(p, r),
         todo[p] # << >>, todo[p][1].do # "need"
  PROVE  TInv'
  <1> DEFINE c == [copy[p] EXCEPT ![Of(p)] = r]
             m == [do |-> "index", of |-> Of(p)]
  <1>0. Of(p) \in Services /\ Absent \notin Relations  BY AtStep DEF GraphAssumption
  <1>1. c \in Copies /\ More(copy[p], c) /\ c[Of(p)] # Absent /\ copy' = [copy EXCEPT ![p] = c]
    BY <1>0, OneCopy DEF SetRecord
  <1>2. m \in Halves /\ m.of = Of(p) /\ mid' = [mid EXCEPT ![p] = m]
    BY <1>0 DEF Halves, SetRecord
  <1> HIDE DEF c, m
  <1>3. Done(p)  BY DEF SetRecord
  <1>4. LocalOK'  BY <1>1, <1>2, <1>3, GoesOnAfter
  <1>5. SharedOK'  BY <1>0 DEF SetRecord, Written, Doubted, TInv, SharedOK
  <1> QED BY <1>4, <1>5 DEF TInv

LEMMA WriteTypes ==
  ASSUME GraphAssumption, TInv, NEW p \in Procs, Store(p) \/ ProducerAdd(p) \/ ConsumerAdd(p)
  PROVE  TInv'
  <1>0. todo[p] # << >> /\ todo[p][1].do \in {"store", "producer", "consumer"}
    BY DEF Store, ProducerAdd, ConsumerAdd, Ready
  <1>1. Of(p) \in Services /\ With(p) \subseteq Services /\ copy[p][Of(p)] # Absent
    BY <1>0, AtStep DEF Uses
  <1>2. copy[p][Of(p)] \in Relations  BY <1>1, SameAt DEF Copies
  <1>3. /\ [copy[p][Of(p)] EXCEPT !.prods = @ \cup With(p)] \in Relations
        /\ [copy[p][Of(p)] EXCEPT !.cons = @ \cup With(p)] \in Relations
    BY <1>1, <1>2 DEF Relations
  <1>4. PICK r \in Relations : SetRecord(p, r)
    BY <1>2, <1>3 DEF Store, ProducerAdd, ConsumerAdd
  <1> QED BY <1>0, <1>4, SetTypes

\* Index and Erase end the half of an operation that was left.
LEMMA HalfDone ==
  ASSUME TInv, NEW p \in Procs, NEW e \in {creating[p], Nobody},
         UNCHANGED <<copy, todo>>, mid' = [mid EXCEPT ![p] = None],
         creating' = [creating EXCEPT ![p] = e]
  PROVE  LocalOK'
  <1> DEFINE c == copy[p]
             q == todo[p]
  <1>1. /\ copy' = [copy EXCEPT ![p] = c] /\ c \in Copies
        /\ todo' = [todo EXCEPT ![p] = q] /\ q \in Seq(Steps) /\ Provided(q, c)
        /\ e \in Services \cup {Nobody} /\ (e # Nobody => c[e] # Absent)
    BY SameAt
  <1> HIDE DEF c, q
  <1> QED BY <1>1, LocalStep

LEMMA IndexTypes ==
  ASSUME TInv, NEW p \in Procs, Index(p)
  PROVE  TInv'
  <1>1. LocalOK'
    <2>1. creating' = [creating EXCEPT ![p] = Nobody] \/ creating' = [creating EXCEPT ![p] = creating[p]]
      BY SameAt DEF Index
    <2> QED BY <2>1, HalfDone DEF Index
  <1>2. mid[p].of \in Services /\ copy[p][mid[p].of] \in Relations
    <2>1. mid[p] \in Halves  BY SameAt DEF Index
    <2>2. copy[p] \in Copies /\ copy[p][mid[p].of] # Absent  BY SameAt DEF Index
    <2> QED BY <2>1, <2>2 DEF Halves, Copies
  <1>3. Entries(mid[p].of, copy[p][mid[p].of]) \subseteq Services \X (Services \cup {Nobody})
    BY <1>2 DEF Entries, Relations
  <1>4. SharedOK'  BY <1>3 DEF Index, TInv, SharedOK
  <1> QED BY <1>1, <1>4 DEF TInv

LEMMA RemoveTypes ==
  ASSUME TInv, NEW p \in Procs, Remove(p)
  PROVE  TInv'
  <1> DEFINE c == copy[p]
             m == [do |-> "erase", of |-> Of(p)]
  <1>0. todo[p] # << >> /\ todo[p][1].do = "remove" /\ Done(p)  BY DEF Remove, Ready
  <1>1. Of(p) \in Services /\ copy[p][Of(p)] # Absent  BY <1>0, AtStep DEF Uses
  <1>2. m \in Halves /\ mid' = [mid EXCEPT ![p] = m] /\ c[m.of] # Absent
    BY <1>1 DEF Remove, Halves
  <1>3. copy' = [copy EXCEPT ![p] = c] /\ c \in Copies /\ More(copy[p], c)
    BY SameAt DEF Remove, More
  <1> HIDE DEF c, m
  <1>4. LocalOK'  BY <1>0, <1>2, <1>3, GoesOnAfter
  <1>5. index' \subseteq index  BY DEF Remove
  <1>6. SharedOK'  BY <1>5 DEF Remove, TInv, SharedOK
  <1> QED BY <1>4, <1>6 DEF TInv

LEMMA EraseTypes ==
  ASSUME TInv, NEW p \in Procs, Erase(p)
  PROVE  TInv'
  <1>1. creating' = [creating EXCEPT ![p] = creating[p]]  BY SameAt DEF Erase
  <1>2. LocalOK'  BY <1>1, HalfDone DEF Erase
  <1>3. mid[p].of \in Services
    <2>1. mid[p] \in Halves  BY SameAt DEF Erase
    <2> QED BY <2>1 DEF Halves
  <1>4. SharedOK'  BY <1>3 DEF Erase, Doubted, TInv, SharedOK
  <1> QED BY <1>2, <1>4 DEF TInv

LEMMA CrashTypes ==
  ASSUME TInv, NEW p \in Procs, Crash(p)
  PROVE  TInv'
  <1> DEFINE c == [s \in Services |-> Absent]
  <1>1. /\ copy' = [copy EXCEPT ![p] = c] /\ todo' = [todo EXCEPT ![p] = << >>]
        /\ mid' = [mid EXCEPT ![p] = None] /\ creating' = [creating EXCEPT ![p] = Nobody]
    BY DEF Crash
  <1>2. c \in Copies /\ << >> \in Seq(Steps) /\ Provided(<< >>, c)  BY DEF Copies, Provided
  <1> HIDE DEF c
  <1>3. LocalOK'  BY <1>1, <1>2, LocalStep
  <1>4. mid[p] = None \/ mid[p].of \in Services  BY DEF TInv, LocalOK, Halves
  <1>5. SharedOK'  BY <1>4, BusyServices DEF Crash, TInv, SharedOK
  <1> QED BY <1>3, <1>5 DEF TInv

LEMMA InitTypes ==
  ASSUME GraphAssumption, Init
  PROVE  TInv
  <1>0. PICK E \in SUBSET Services : \E links \in SUBSET Consumed : Created(E, links)
    BY DEF Init
  <1>1. PICK links \in SUBSET Consumed : Created(E, links)  BY <1>0
  <1> DEFINE prods(s) == Asked(s) \cup {q \in E : <<s, q>> \in links}
  <1>2. \A s \in E : Asked(s) \subseteq Services /\ prods(s) \subseteq Services
    BY GraphAssumption DEF GraphAssumption, Asked
  <1>3. /\ known = E
        /\ record = [s \in Services |->
                       IF s \in E THEN [prods |-> prods(s), cons |-> {t \in E : s \in prods(t)}]
                       ELSE Absent]
        /\ index = UNION {({s} \X prods(s)) \cup (IF Asked(s) = {} THEN {<<s, Nobody>>} ELSE {}) : s \in E}
    BY <1>1 DEF Created
  <1> HIDE DEF prods
  <1>4. record \in [Services -> Relations \cup {Absent}]  BY <1>2, <1>3 DEF Relations
  <1>5. index \subseteq Services \X (Services \cup {Nobody})
    <2>1. \A s \in E : ({s} \X prods(s)) \cup (IF Asked(s) = {} THEN {<<s, Nobody>>} ELSE {})
                         \subseteq Services \X (Services \cup {Nobody})
      BY <1>2
    <2> QED BY <1>3, <2>1
  <1>6. SharedOK  BY <1>3, <1>4, <1>5, GraphAssumption DEF Init, SharedOK, GraphAssumption
  <1>7. CopyInv  BY DEF Init, CopyInv, Provided
  <1>8. LocalOK  BY <1>7 DEF Init, LocalOK, Copies
  <1> QED BY <1>6, <1>8 DEF TInv

LEMMA TypesNext ==
  ASSUME GraphAssumption, TInv, [Next]_vars
  PROVE  TInv'
  <1>1. ASSUME NEW p \in Procs, Producers(p) \/ Look(p)  PROVE TInv'
    <2>1. todo[p] # << >> /\ todo[p][1].do # "need" /\ \E names : LookAt(p, names)
      BY <1>1 DEF Producers, Look, Ready
    <2> QED BY <2>1, LookTypes
  <1>2. CASE UNCHANGED vars
    BY <1>2 DEF vars, TInv, SharedOK, LocalOK, CopyInv
  <1> QED
    BY <1>1, <1>2, LoadTypes, CreateTypes, ConsumeTypes, DeleteTypes, NeedTypes, ReloadTypes,
       WantsTypes, ParentTypes, EachTypes, ChildrenTypes, WriteTypes, IndexTypes, RemoveTypes, EraseTypes,
       CrashTypes DEF Next, Step

\* The types are right: no operation gets to a step with a copy it never loaded,
\* and no link is stored to what is not a service.
THEOREM GraphTypeCorrect == Spec => []TypeOK
  <1>1. Init => TInv  BY GraphAssumption, InitTypes
  <1>2. TInv /\ [Next]_vars => TInv'  BY GraphAssumption, TypesNext
  <1> QED BY <1>1, <1>2, TInvTypes, PTL DEF Spec
-----------------------------------------------------------------------------
(***************************************************************************)
(* What the steps of an operation have in common.                          *)
(***************************************************************************)

\* The children a process finds of the service its step is about.
Found(p) == {c \in Services : c \in Listed /\ Parent[c] = Of(p) /\ Of(p) \in Listed}

\* A step that writes nothing puts the steps r before the others of its
\* operation, and may load the services of L.
Moves(p, r, L) ==
  /\ mid[p] = None /\ todo[p] # << >>
  /\ todo' = [todo EXCEPT ![p] = r \o Tail(@)]
  /\ copy' = [copy EXCEPT ![p] = [s \in Services |-> IF s \in L THEN record[s] ELSE @[s]]]
  /\ fresh' = [fresh EXCEPT ![p] = @ \cup L]
  /\ todo[p][1].do = "need" => Of(p) \in Stored \cap Listed
  /\ late \subseteq late'
  /\ UNCHANGED <<record, index, mid, creating, known, ops, doubt, torn, gone>>

\* The steps it may put there.
Puts(p, r) ==
  \/ /\ todo[p][1].do \in {"need", "wants", "parent", "producers", "look", "each", "reload"}
     /\ todo[p][1].do = "each" => With(p) = {}
     /\ r = << >>
  \/ /\ todo[p][1].do \in {"wants", "parent"}
     /\ \E q \in Services : \E W \in SUBSET Services : r \in Plans(Of(p), q, W)
  \/ /\ todo[p][1].do = "each"
     /\ \E c \in With(p) : r = DeleteSteps(c) \o <<S("each", Of(p), With(p) \ {c})>>
  \/ /\ todo[p][1].do = "children"
     /\ r = <<S("each", Of(p), Found(p))>>
     /\ {c \in known : Parent[c] = Of(p) /\ \E o \in Procs : creating[o] = c} \subseteq late'

Breaks(p) ==
  /\ mid[p] = None /\ todo[p] # << >> /\ Raise(p)
  /\ todo[p][1].do = "need" => Of(p) \notin Stored \cap Listed

\* A step that writes the record of the service it is about.
Writes(p, r) ==
  /\ mid[p] = None /\ todo[p] # << >> /\ SetRecord(p, r)
  /\ todo[p][1].do \in {"store", "producer", "consumer"}
  /\ r \in Relations /\ copy[p][Of(p)] \in Relations
  /\ r.prods = copy[p][Of(p)].prods \cup (IF todo[p][1].do = "producer" THEN With(p) ELSE {})
  /\ r.cons = copy[p][Of(p)].cons \cup (IF todo[p][1].do = "consumer" THEN With(p) ELSE {})

LEMMA LoadsNothing ==
  ASSUME TInv, NEW p \in Procs
  PROVE  /\ copy = [copy EXCEPT ![p] = [s \in Services |-> IF s \in {} THEN record[s] ELSE @[s]]]
         /\ fresh = [fresh EXCEPT ![p] = @ \cup {}]
         /\ todo[p] # << >> => << >> \o Tail(todo[p]) = Tail(todo[p])
  <1>1. copy \in [Procs -> Copies] /\ todo[p] \in Seq(Steps) /\ fresh \in [Procs -> SUBSET Services]
    BY DEF TInv, LocalOK, SharedOK
  <1>2. copy[p] = [s \in Services |-> IF s \in {} THEN record[s] ELSE copy[p][s]]
    BY <1>1 DEF Copies
  <1> QED BY <1>1, <1>2

LEMMA LoadsOne ==
  ASSUME TInv, NEW p \in Procs, NEW s \in Services
  PROVE  [copy EXCEPT ![p][s] = record[s]] =
           [copy EXCEPT ![p] = [t \in Services |-> IF t \in {s} THEN record[t] ELSE @[t]]]
  <1>1. copy \in [Procs -> Copies]  BY DEF TInv, LocalOK
  <1>2. copy[p] \in Copies  BY <1>1
  <1>3. [copy[p] EXCEPT ![s] = record[s]] = [t \in Services |-> IF t \in {s} THEN record[t] ELSE copy[p][t]]
    BY <1>2 DEF Copies
  <1> QED BY <1>1, <1>3

LEMMA ReadKinds ==
  ASSUME TInv, NEW p \in Procs, Need(p) \/ Reload(p)
  PROVE  Breaks(p) \/ \E r : \E L \in SUBSET Stored : Moves(p, r, L) /\ Puts(p, r)
  <1>0. todo[p] # << >> /\ mid[p] = None /\ todo[p][1].do \in {"need", "reload"}
    BY DEF Need, Reload, Ready
  <1>1. Of(p) \in Services  BY <1>0, AtStep
  <1>2. ASSUME Of(p) \in Stored, todo[p][1].do = "need" => Of(p) \in Listed, Done(p),
               copy' = [copy EXCEPT ![p][Of(p)] = record[Of(p)]],
               fresh' = [fresh EXCEPT ![p] = @ \cup {Of(p)}],
               UNCHANGED <<record, index, mid, known, ops, doubt, torn, gone, late>>
        PROVE  Moves(p, << >>, {Of(p)}) /\ Puts(p, << >>)
    <2>1. todo' = [todo EXCEPT ![p] = << >> \o Tail(@)] /\ creating' = creating
      BY <1>0, <1>2, LoadsNothing DEF Done
    <2>2. copy' = [copy EXCEPT ![p] = [t \in Services |-> IF t \in {Of(p)} THEN record[t] ELSE @[t]]]
      BY <1>1, <1>2, LoadsOne
    <2>3. Moves(p, << >>, {Of(p)})  BY <1>0, <1>2, <2>1, <2>2 DEF Moves
    <2>4. Puts(p, << >>)  BY <1>0 DEF Puts
    <2> QED BY <2>3, <2>4
  <1>3. CASE Need(p)
    <2>1. todo[p][1].do = "need"  BY <1>3 DEF Need, Ready
    <2>2. CASE Of(p) \in Listed \cap Stored
      <3>1. Moves(p, << >>, {Of(p)}) /\ Puts(p, << >>)  BY <1>2, <1>3, <2>2 DEF Need
      <3> QED BY <2>2, <3>1
    <2>3. CASE Of(p) \notin Listed \cap Stored  BY <1>0, <1>3, <2>3 DEF Need, Breaks
    <2> QED BY <2>2, <2>3
  <1>4. CASE Reload(p)
    <2>1. todo[p][1].do = "reload"  BY <1>4 DEF Reload, Ready
    <2>2. CASE Of(p) \in Stored
      <3>1. Moves(p, << >>, {Of(p)}) /\ Puts(p, << >>)  BY <1>2, <1>4, <2>1, <2>2 DEF Reload
      <3> QED BY <2>2, <3>1
    <2>3. CASE Of(p) \notin Stored  BY <1>0, <1>4, <2>1, <2>3 DEF Reload, Breaks
    <2> QED BY <2>2, <2>3
  <1> QED BY <1>3, <1>4

LEMMA PlanKinds ==
  ASSUME TInv, NEW p \in Procs, WantsStep(p) \/ ParentStep(p) \/ Each(p) \/ Producers(p) \/ Look(p)
  PROVE  Breaks(p) \/ \E r : \E L \in SUBSET Stored : Moves(p, r, L) /\ Puts(p, r)
  <1>0. /\ todo[p] # << >> /\ mid[p] = None
        /\ todo[p][1].do \in {"wants", "parent", "each", "producers", "look"}
        /\ Of(p) \in Services /\ With(p) \subseteq Services
    BY AtStep DEF WantsStep, ParentStep, Each, Producers, Look, Ready
  <1>1. ASSUME NEW r, todo' = [todo EXCEPT ![p] = r \o Tail(@)],
               UNCHANGED <<record, index, copy, mid, creating, known, ops, fresh, doubt, torn, gone, late>>
        PROVE  Moves(p, r, {})
    <2>1. copy' = [copy EXCEPT ![p] = [s \in Services |-> IF s \in {} THEN record[s] ELSE @[s]]]
          /\ fresh' = [fresh EXCEPT ![p] = @ \cup {}]
      BY <1>1, LoadsNothing
    <2> QED BY <1>0, <1>1, <2>1 DEF Moves
  <1>2. ASSUME todo' = [todo EXCEPT ![p] = Tail(@)]
        PROVE  todo' = [todo EXCEPT ![p] = << >> \o Tail(@)]
    BY <1>0, <1>2, LoadsNothing
  <1>3. CASE WantsStep(p)
    <2>0. todo[p][1].do = "wants"  BY <1>3 DEF WantsStep, Ready
    <2> DEFINE Kept == UNCHANGED <<record, index, copy, mid, creating, known, ops, fresh, doubt, torn, gone, late>>
    <2>1. CASE todo' = [todo EXCEPT ![p] = Tail(@)] /\ Kept
      <3>1. Moves(p, << >>, {})  BY <1>1, <1>2, <2>1
      <3>2. Puts(p, << >>)  BY <2>0 DEF Puts
      <3> QED BY <3>1, <3>2
    <2>2. ASSUME NEW q \in With(p), NEW r \in WantSteps(Of(p), q, With(p) \ {q}),
                 todo' = [todo EXCEPT ![p] = r \o Tail(@)], Kept
          PROVE  Moves(p, r, {}) /\ Puts(p, r)
      <3>1. Moves(p, r, {})  BY <1>1, <2>2
      <3>2. /\ q \in Services /\ With(p) \ {q} \in SUBSET Services
            /\ r \in Plans(Of(p), q, With(p) \ {q})
        BY <1>0, <2>2 DEF Plans
      <3>3. Puts(p, r)  BY <2>0, <3>2 DEF Puts
      <3> QED BY <3>1, <3>3
    <2>3. CASE Raise(p)  BY <1>0, <2>0, <2>3 DEF Breaks
    <2>4. \/ todo' = [todo EXCEPT ![p] = Tail(@)] /\ Kept
          \/ \E q \in With(p) : \E r \in WantSteps(Of(p), q, With(p) \ {q}) :
                todo' = [todo EXCEPT ![p] = r \o Tail(@)] /\ Kept
          \/ Raise(p)
      BY <1>3 DEF WantsStep
    <2> HIDE DEF Kept
    <2> QED BY <2>1, <2>2, <2>3, <2>4
  <1>6. CASE ParentStep(p)
    <2>0. todo[p][1].do = "parent"  BY <1>6 DEF ParentStep, Ready
    <2> DEFINE q == Parent[Of(p)]
               r == IF q \in Listed THEN ParentSteps(Of(p), q) ELSE << >>
    <2>1. \/ Raise(p)
          \/ /\ todo' = [todo EXCEPT ![p] = r \o Tail(@)]
             /\ UNCHANGED <<record, index, copy, mid, creating, known, ops, fresh, doubt, torn, gone, late>>
      BY <1>6 DEF ParentStep
    <2>2. Puts(p, r)
      <3>1. CASE q \in Listed
        <4>1. q \in Services  BY <3>1 DEF Listed, TInv, SharedOK
        <4>2. r = ParentSteps(Of(p), q)  BY <3>1
        <4> HIDE DEF q, r
        <4>3. {} \in SUBSET Services /\ r \in Plans(Of(p), q, {})  BY <4>2 DEF Plans
        <4> QED BY <2>0, <4>1, <4>3 DEF Puts
      <3>2. CASE q \notin Listed
        <4>1. r = << >>  BY <3>2
        <4> HIDE DEF q, r
        <4> QED BY <2>0, <4>1 DEF Puts
      <3> QED BY <3>1, <3>2
    <2> HIDE DEF q, r
    <2>3. CASE Raise(p)  BY <1>0, <2>0, <2>3 DEF Breaks
    <2> QED BY <1>1, <2>1, <2>2, <2>3
  <1>4. CASE Each(p)
    <2>0. todo[p][1].do = "each"  BY <1>4 DEF Each, Ready
    <2>1. CASE With(p) = {}
      <3>1. Moves(p, << >>, {})  BY <1>1, <1>2, <1>4, <2>1 DEF Each
      <3>2. Puts(p, << >>)  BY <2>0, <2>1 DEF Puts
      <3> QED BY <3>1, <3>2
    <2>2. CASE With(p) # {}
      <3>1. PICK q \in With(p) :
              todo' = [todo EXCEPT ![p] = DeleteSteps(q) \o <<S("each", Of(p), With(p) \ {q})>> \o Tail(@)]
        BY <1>4, <2>2 DEF Each
      <3> DEFINE r == DeleteSteps(q) \o <<S("each", Of(p), With(p) \ {q})>>
      <3>2. todo' = [todo EXCEPT ![p] = r \o Tail(@)]  BY <3>1
      <3>3. Puts(p, r)  BY <2>0 DEF Puts
      <3> HIDE DEF r
      <3>4. Moves(p, r, {})  BY <1>1, <1>4, <3>2 DEF Each
      <3> QED BY <3>3, <3>4
    <2> QED BY <2>1, <2>2
  <1>5. CASE Producers(p) \/ Look(p)
    <2>0. todo[p][1].do \in {"producers", "look"}  BY <1>5 DEF Producers, Look, Ready
    <2>1. PICK names : LookAt(p, names)  BY <1>5 DEF Producers, Look
    <2>2. CASE FindRaises(names)  BY <1>0, <2>0, <2>1, <2>2 DEF LookAt, Breaks
    <2>3. CASE ~ FindRaises(names)
      <3>1. Moves(p, << >>, {})  BY <1>1, <1>2, <2>1, <2>3 DEF LookAt, Done
      <3>2. Puts(p, << >>)  BY <2>0 DEF Puts
      <3> QED BY <3>1, <3>2
    <2> QED BY <2>2, <2>3
  <1> QED BY <1>3, <1>4, <1>5, <1>6

LEMMA ChildrenKinds ==
  ASSUME TInv, NEW p \in Procs, Children(p)
  PROVE  Breaks(p) \/ \E r : \E L \in SUBSET Stored : Moves(p, r, L) /\ Puts(p, r)
  <1>0. todo[p] # << >> /\ mid[p] = None /\ todo[p][1].do = "children"
    BY DEF Children, Ready
  <1>1. CASE FindRaises(Services)  BY <1>0, <1>1 DEF Children, Breaks
  <1>2. CASE ~ FindRaises(Services)
    <2> DEFINE r == <<S("each", Of(p), Found(p))>>
               L == Found(p)
    <2>1. /\ todo' = [todo EXCEPT ![p] = r \o Tail(@)]
          /\ copy' = [copy EXCEPT ![p] = [c \in Services |-> IF c \in L THEN record[c] ELSE @[c]]]
          /\ fresh' = [fresh EXCEPT ![p] = @ \cup L]
          /\ late' = late \cup {c \in known : Parent[c] = Of(p) /\ \E o \in Procs : creating[o] = c}
          /\ UNCHANGED <<record, index, mid, creating, known, ops, doubt, torn, gone>>
      BY <1>2 DEF Children, Found
    <2>2. L \in SUBSET Stored  BY <1>2 DEF FindRaises, Found
    <2>3. Puts(p, r)  BY <1>0, <2>1 DEF Puts
    <2> HIDE DEF r, L
    <2>4. Moves(p, r, L)  BY <1>0, <2>1 DEF Moves
    <2> QED BY <2>2, <2>3, <2>4
  <1> QED BY <1>1, <1>2

LEMMA WriteKinds ==
  ASSUME TInv, GraphAssumption, NEW p \in Procs, Store(p) \/ ProducerAdd(p) \/ ConsumerAdd(p)
  PROVE  \E r : Writes(p, r)
  <1>0. /\ todo[p] # << >> /\ todo[p][1].do \in {"store", "producer", "consumer"}
        /\ mid[p] = None
    BY DEF Store, ProducerAdd, ConsumerAdd, Ready
  <1>1. Of(p) \in Services /\ With(p) \subseteq Services /\ copy[p][Of(p)] # Absent
    BY <1>0, AtStep DEF Uses
  <1>2. copy[p][Of(p)] \in Relations  BY <1>1, SameAt DEF Copies
  <1> DEFINE c == copy[p][Of(p)]
  <1>3. /\ [c EXCEPT !.prods = @ \cup With(p)] \in Relations
        /\ [c EXCEPT !.prods = @ \cup With(p)].prods = c.prods \cup With(p)
        /\ [c EXCEPT !.prods = @ \cup With(p)].cons = c.cons
        /\ [c EXCEPT !.cons = @ \cup With(p)] \in Relations
        /\ [c EXCEPT !.cons = @ \cup With(p)].prods = c.prods
        /\ [c EXCEPT !.cons = @ \cup With(p)].cons = c.cons \cup With(p)
    BY <1>1, <1>2 DEF Relations
  <1>4. CASE Store(p)
    <2>1. todo[p][1].do = "store" /\ SetRecord(p, c)  BY <1>4 DEF Store, Ready
    <2>2. Writes(p, c)  BY <1>0, <1>2, <2>1 DEF Writes
    <2> QED BY <2>2
  <1>5. CASE ProducerAdd(p)
    <2> DEFINE r == [c EXCEPT !.prods = @ \cup With(p)]
    <2>1. todo[p][1].do = "producer" /\ SetRecord(p, r)  BY <1>5 DEF ProducerAdd, Ready
    <2>2. r \in Relations /\ r.prods = c.prods \cup With(p) /\ r.cons = c.cons  BY <1>3
    <2> HIDE DEF r
    <2>3. Writes(p, r)  BY <1>0, <1>2, <2>1, <2>2 DEF Writes
    <2> QED BY <2>3
  <1>6. CASE ConsumerAdd(p)
    <2> DEFINE r == [c EXCEPT !.cons = @ \cup With(p)]
    <2>1. todo[p][1].do = "consumer" /\ SetRecord(p, r)  BY <1>6 DEF ConsumerAdd, Ready
    <2>2. r \in Relations /\ r.prods = c.prods /\ r.cons = c.cons \cup With(p)  BY <1>3
    <2> HIDE DEF r
    <2>3. Writes(p, r)  BY <1>0, <1>2, <2>1, <2>2 DEF Writes
    <2> QED BY <2>3
  <1> QED BY <1>4, <1>5, <1>6

\* Every step is of one of these kinds.
LEMMA Kinds ==
  ASSUME TInv, GraphAssumption, [Next]_vars
  PROVE  \/ UNCHANGED vars
         \/ \E p \in Procs :
              \/ \E s \in Services : Load(p, s) \/ Create(p, s) \/ Delete(p, s)
              \/ \E s, q \in Services : Consume(p, s, q)
              \/ Breaks(p)
              \/ \E r : \E L \in SUBSET Stored : Moves(p, r, L) /\ Puts(p, r)
              \/ \E r : Writes(p, r)
              \/ Index(p) \/ Remove(p) \/ Erase(p) \/ Crash(p)
  BY ReadKinds, PlanKinds, ChildrenKinds, WriteKinds DEF Next, Step

-----------------------------------------------------------------------------
(***************************************************************************)
(* What is never undone: a service that was stored is stored, deleted or   *)
(* in doubt for ever, and so is one end of a relation.                     *)
(***************************************************************************)
\* Was stored, now or before.
Seen == Stored \cup gone \cup doubt

\* The pairs whose first service names, or named, the second as its producer.
Linked ==
  {e \in Services \X Services :
     \/ e[1] \in gone \cup doubt
     \/ e[1] \in Stored /\ e[2] \in record[e[1]].prods}

\* A fresh copy is what is stored, or that of a service never stored yet.
FreshInv ==
  \A p \in Procs : \A s \in fresh[p] :
    copy[p][s] = IF s \in Stored THEN record[s] ELSE [prods |-> {}, cons |-> {}]

\* A service has been stored, or it is being created: so have all copies.
KnownInv ==
  /\ Stored \subseteq known
  /\ \A s \in known : s \in Seen \/ \E p \in Procs : creating[p] = s
  /\ \A p \in Procs : \A s \in Services :
       copy[p][s] # Absent => s \in known /\ (s \in Seen \/ creating[p] = s)
  /\ \A p \in Procs : mid[p] # None /\ mid[p].do = "index" => mid[p].of \in Seen

\* Service.__init__ ends with a save of the service.
CreatingInv ==
  \A p \in Procs :
    creating[p] # Nobody =>
      IF todo[p] = << >> THEN mid[p] = [do |-> "index", of |-> creating[p]]
      ELSE todo[p][Len(todo[p])] = S("store", creating[p], {})

\* What is being created is busy.
LEMMA CreatingBusy ==
  ASSUME TInv, CreatingInv, NEW p \in Procs, creating[p] # Nobody
  PROVE  creating[p] \in Busy(p)
  <1>1. todo[p] \in Seq(Steps)  BY SameAt
  <1>2. CASE todo[p] = << >>
    <2>1. mid[p] = [do |-> "index", of |-> creating[p]]  BY <1>2 DEF CreatingInv
    <2>2. mid[p].do = "index" /\ mid[p].of = creating[p]  BY <2>1
    <2>3. mid[p] # None  BY <2>2 DEF None
    <2> QED BY <2>2, <2>3 DEF Busy
  <1>3. CASE todo[p] # << >>
    <2> DEFINE t == todo[p]
    <2>1. t[Len(t)] = S("store", creating[p], {})  BY <1>3 DEF CreatingInv
    <2>2. t[Len(t)].of = creating[p]  BY <2>1 DEF S
    <2>3. t \in Seq(Steps) /\ t # << >>  BY <1>1, <1>3
    <2> HIDE DEF t
    <2>4. Len(t) \in DOMAIN t  BY <2>3
    <2> QED BY <2>2, <2>4 DEF Busy, StepOn, t
  <1> QED BY <1>2, <1>3

\* A write stores the service, and its copy is what is stored.
LEMMA WriteStores ==
  ASSUME TInv, GraphAssumption, NEW p \in Procs, NEW r, Writes(p, r)
  PROVE  /\ Of(p) \in Services /\ r # Absent
         /\ Stored' = Stored \cup {Of(p)}
         /\ record' = [record EXCEPT ![Of(p)] = r] /\ record'[Of(p)] = r
         /\ copy'[p][Of(p)] = r
         /\ \A s \in Services \ {Of(p)} : record'[s] = record[s] /\ copy'[p][s] = copy[p][s]
         /\ \A o \in Procs \ {p} : copy'[o] = copy[o] /\ todo'[o] = todo[o] /\ mid'[o] = mid[o]
         /\ todo'[p] = Tail(todo[p]) /\ mid'[p] = [do |-> "index", of |-> Of(p)]
         /\ Of(p) \notin fresh[p] => Of(p) \in doubt'
         /\ doubt \subseteq doubt' /\ gone' = gone /\ creating' = creating /\ known' = known
         /\ late' = late /\ index' = index
  <1>1. Of(p) \in Services /\ todo[p] \in Seq(Steps)  BY AtStep DEF Writes
  <1>2. r \in Relations /\ Absent \notin Relations  BY DEF Writes, GraphAssumption
  <1>3. SetRecord(p, r)  BY DEF Writes
  <1>4. /\ record \in [Services -> Relations \cup {Absent}] /\ copy \in [Procs -> Copies]
        /\ todo \in [Procs -> Seq(Steps)] /\ mid \in [Procs -> Halves \cup {None}]
    BY DEF TInv, SharedOK, LocalOK
  <1>5. copy[p] \in Copies  BY <1>4
  <1>6. /\ record' = [record EXCEPT ![Of(p)] = r] /\ copy' = [copy EXCEPT ![p][Of(p)] = r]
        /\ mid' = [mid EXCEPT ![p] = [do |-> "index", of |-> Of(p)]]
        /\ todo' = [todo EXCEPT ![p] = Tail(@)]
        /\ doubt' = doubt \cup (IF Of(p) \in fresh[p] THEN {} ELSE {Of(p)})
        /\ gone' = gone /\ creating' = creating /\ known' = known /\ late' = late /\ index' = index
    BY <1>3 DEF SetRecord, Done, Doubted
  <1>7. Stored' = Stored \cup {Of(p)}  BY <1>1, <1>2, <1>4, <1>6 DEF Stored
  <1>8. copy'[p][Of(p)] = r /\ \A s \in Services \ {Of(p)} : copy'[p][s] = copy[p][s]
    BY <1>1, <1>4, <1>5, <1>6 DEF Copies
  <1>9. r # Absent  BY <1>2
  <1> QED BY <1>1, <1>4, <1>6, <1>7, <1>8, <1>9

LEMMA FreshNext ==
  ASSUME GraphAssumption, TInv, FreshInv, KnownInv, [Next]_vars
  PROVE  FreshInv'
  <1> DEFINE Fresh(p, s) ==
               copy[p][s] = IF s \in Stored THEN record[s] ELSE [prods |-> {}, cons |-> {}]
  <1>0. /\ copy \in [Procs -> Copies] /\ fresh \in [Procs -> SUBSET Services]
        /\ \A o \in Procs : copy[o] \in Copies
    BY DEF TInv, LocalOK, SharedOK
  <1>1. ASSUME NEW p \in Procs, NEW s \in Services, Load(p, s)  PROVE FreshInv'
    BY <1>0, <1>1 DEF Load, FreshInv, Stored, Copies
  <1>2. ASSUME NEW p \in Procs, NEW s \in Services, Create(p, s)  PROVE FreshInv'
    <2>1. s \notin Stored  BY <1>2 DEF Create, KnownInv
    <2> QED BY <1>0, <1>2, <2>1 DEF Create, Begin, FreshInv, Stored, Copies
  <1>3. ASSUME UNCHANGED <<record, copy, fresh>>  PROVE FreshInv'
    BY <1>3 DEF FreshInv, Stored
  <1>4. ASSUME NEW p \in Procs, NEW r, NEW L \in SUBSET Stored, Moves(p, r, L)  PROVE FreshInv'
    <2>1. Stored' = Stored /\ record' = record  BY <1>4 DEF Moves, Stored
    <2>2. \A s \in Services : copy'[p][s] = IF s \in L THEN record[s] ELSE copy[p][s]
      BY <1>0, <1>4 DEF Moves
    <2>3. \A o \in Procs \ {p} : copy'[o] = copy[o] /\ fresh'[o] = fresh[o]
      BY <1>0, <1>4 DEF Moves
    <2>4. fresh'[p] = fresh[p] \cup L /\ fresh'[p] \subseteq Services
      BY <1>0, <1>4 DEF Moves, Stored
    <2> QED BY <2>1, <2>2, <2>3, <2>4 DEF FreshInv
  <1>5. ASSUME NEW p \in Procs, NEW r, Writes(p, r)  PROVE FreshInv'
    <2>1. fresh' = [o \in Procs |-> IF o = p THEN fresh[o] \cup {Of(p)} ELSE fresh[o] \ {Of(p)}]
      BY <1>5 DEF Writes, SetRecord, Written
    <2>2. /\ Of(p) \in Services /\ Stored' = Stored \cup {Of(p)} /\ record'[Of(p)] = r
          /\ copy'[p][Of(p)] = r
          /\ \A s \in Services \ {Of(p)} : record'[s] = record[s] /\ copy'[p][s] = copy[p][s]
          /\ \A o \in Procs \ {p} : copy'[o] = copy[o]
      BY <1>5, WriteStores
    <2>3. ASSUME NEW o \in Procs, NEW s \in fresh'[o]  PROVE Fresh(o, s)'
      <3>1. CASE s = Of(p)
        <4>1. o = p  BY <2>1, <2>3, <3>1
        <4> QED BY <2>2, <3>1, <4>1
      <3>2. CASE s # Of(p)
        <4>1. s \in fresh[o] /\ s \in Services  BY <1>0, <2>1, <2>3, <3>2
        <4>2. copy'[o][s] = copy[o][s] /\ record'[s] = record[s] /\ (s \in Stored' <=> s \in Stored)
          BY <2>2, <3>2, <4>1
        <4> QED BY <4>1, <4>2 DEF FreshInv
      <3> QED BY <3>1, <3>2
    <2> QED BY <2>3 DEF FreshInv
  <1>6. ASSUME NEW p \in Procs, Erase(p)  PROVE FreshInv'
    <2> DEFINE t == mid[p].of
    <2>1. /\ record' = [record EXCEPT ![t] = Absent] /\ copy' = copy
          /\ fresh' = [o \in Procs |-> fresh[o] \ {t}]
      BY <1>6 DEF Erase
    <2>2. DOMAIN record = Services  BY DEF TInv, SharedOK
    <2>3. \A s \in Services \ {t} : record'[s] = record[s] /\ (s \in Stored' <=> s \in Stored)
      BY <2>1, <2>2 DEF Stored
    <2>4. ASSUME NEW o \in Procs, NEW s \in fresh'[o]  PROVE Fresh(o, s)'
      <3>1. s \in fresh[o] /\ s \in Services /\ s # t  BY <1>0, <2>1, <2>4
      <3> QED BY <2>1, <2>3, <3>1 DEF FreshInv
    <2> QED BY <2>4 DEF FreshInv
  <1>7. ASSUME NEW p \in Procs, Crash(p)  PROVE FreshInv'
    BY <1>0, <1>7 DEF Crash, FreshInv, Stored
  <1> QED
    BY <1>1, <1>2, <1>3, <1>4, <1>5, <1>6, <1>7, Kinds
    DEF Consume, Delete, Begin, Breaks, Raise, Index, Remove, Done, vars

\* What was stored, and what was linked.
LEMMA SeenGrows ==
  ASSUME GraphAssumption, TInv, FreshInv, [Next]_vars
  PROVE  /\ known \subseteq known' /\ gone \subseteq gone' /\ doubt \subseteq doubt' /\ late \subseteq late'
         /\ Seen \subseteq Seen' /\ Linked \subseteq Linked'
  <1>0. DOMAIN record = Services /\ gone \subseteq Services /\ doubt \subseteq Services
    BY DEF TInv, SharedOK
  <1>1. /\ known \subseteq known' /\ gone \subseteq gone' /\ doubt \subseteq doubt'
        /\ late \subseteq late'
    BY Kinds
    DEF Load, Create, Consume, Delete, Begin, Breaks, Raise, Moves, Writes, SetRecord, Doubted,
        Index, Remove, Erase, Crash, vars
  <1>2. CASE record' = record
    <2>1. Stored' = Stored  BY <1>2 DEF Stored
    <2> QED BY <1>1, <1>2, <2>1 DEF Seen, Linked
  <1>3. ASSUME NEW p \in Procs, NEW r, Writes(p, r)
        PROVE  Seen \subseteq Seen' /\ Linked \subseteq Linked'
    <2>1. /\ Of(p) \in Services /\ Stored' = Stored \cup {Of(p)} /\ record'[Of(p)] = r
          /\ \A s \in Services \ {Of(p)} : record'[s] = record[s]
          /\ Of(p) \notin fresh[p] => Of(p) \in doubt'
      BY <1>3, WriteStores
    <2>2. Seen \subseteq Seen'  BY <1>1, <2>1 DEF Seen
    <2>3. ASSUME NEW e \in Linked  PROVE e \in Linked'
      <3>1. CASE e[1] = Of(p) /\ e[1] \in Stored /\ Of(p) \in fresh[p]
        <4>1. copy[p][Of(p)] = record[Of(p)]  BY <3>1 DEF FreshInv
        <4>2. record[Of(p)].prods \subseteq r.prods  BY <1>3, <4>1 DEF Writes
        <4> QED BY <1>1, <2>1, <3>1, <4>2 DEF Linked
      <3>2. CASE ~ (e[1] = Of(p) /\ e[1] \in Stored /\ Of(p) \in fresh[p])
        BY <1>1, <2>1, <3>2 DEF Linked
      <3> QED BY <3>1, <3>2
    <2> QED BY <2>2, <2>3
  <1>4. ASSUME NEW p \in Procs, Erase(p)
        PROVE  Seen \subseteq Seen' /\ Linked \subseteq Linked'
    <2>1. record' = [record EXCEPT ![mid[p].of] = Absent] /\ mid[p].of \in gone'
      BY <1>4 DEF Erase
    <2>2. \A s \in Services \ {mid[p].of} : record'[s] = record[s] /\ (s \in Stored' <=> s \in Stored)
      BY <1>0, <2>1 DEF Stored
    <2>3. Seen \subseteq Seen'  BY <1>0, <1>1, <2>1, <2>2 DEF Seen, Stored
    <2>4. Linked \subseteq Linked'  BY <1>1, <2>1, <2>2 DEF Linked
    <2> QED BY <2>3, <2>4
  <1> QED
    BY <1>1, <1>2, <1>3, <1>4, Kinds
    DEF Load, Create, Consume, Delete, Begin, Breaks, Raise, Moves, Index, Remove, Crash, vars

\* A service stays the one that is created until it is stored for the last time
\* or its creation fails.
LEMMA CreatingKept ==
  ASSUME GraphAssumption, TInv, CreatingInv, [Next]_vars, NEW o \in Procs, creating[o] # Nobody
  PROVE  \/ creating'[o] = creating[o]
         \/ creating[o] \in doubt'
         \/ Index(o) /\ mid[o] = [do |-> "index", of |-> creating[o]]
  <1>0. creating \in [Procs -> Services \cup {Nobody}]  BY DEF TInv, LocalOK
  <1>1. ~ Idle(o)
    <2>1. ASSUME Idle(o)  PROVE FALSE
      <3>1. mid[o] = [do |-> "index", of |-> creating[o]]  BY <2>1 DEF CreatingInv, Idle
      <3>2. mid[o].do = "index"  BY <3>1
      <3>3. mid[o].do = "none"  BY <2>1 DEF Idle, None
      <3> QED BY <3>2, <3>3
    <2> QED BY <2>1
  <1>2. creating[o] \in Busy(o)  BY CreatingBusy
  <1>3. ASSUME NEW p \in Procs, NEW s \in Services, Create(p, s)  PROVE creating'[o] = creating[o]
    <2>1. p # o  BY <1>1, <1>3 DEF Create, Begin
    <2> QED BY <1>0, <1>3, <2>1 DEF Create
  <1>4. ASSUME NEW p \in Procs, Breaks(p) \/ Crash(p)
        PROVE  creating'[o] = creating[o] \/ creating[o] \in doubt'
    <2>1. creating' = [creating EXCEPT ![p] = Nobody] /\ doubt' = doubt \cup Busy(p)
      BY <1>4 DEF Breaks, Raise, Crash
    <2>2. CASE p = o  BY <1>2, <2>1, <2>2
    <2>3. CASE p # o  BY <1>0, <2>1, <2>3
    <2> QED BY <2>2, <2>3
  <1>5. ASSUME NEW p \in Procs, Index(p)
        PROVE  \/ creating'[o] = creating[o]
               \/ Index(o) /\ mid[o] = [do |-> "index", of |-> creating[o]]
    <2>1. creating' = IF todo[p] = << >> THEN [creating EXCEPT ![p] = Nobody] ELSE creating
      BY <1>5 DEF Index
    <2>2. CASE p = o /\ todo[p] = << >>  BY <1>5, <2>2 DEF CreatingInv
    <2>3. CASE ~ (p = o /\ todo[p] = << >>)  BY <1>0, <2>1, <2>3
    <2> QED BY <2>2, <2>3
  <1> QED
    BY <1>3, <1>4, <1>5, Kinds
    DEF Load, Consume, Delete, Begin, Moves, Writes, SetRecord, Remove, Erase, Done, vars

LEMMA KnownNext ==
  ASSUME GraphAssumption, TInv, FreshInv, KnownInv, CreatingInv, [Next]_vars
  PROVE  KnownInv'
  <1>0. /\ copy \in [Procs -> Copies] /\ mid \in [Procs -> Halves \cup {None}]
        /\ creating \in [Procs -> Services \cup {Nobody}] /\ todo \in [Procs -> Seq(Steps)]
        /\ \A p \in Procs : copy[p] \in Copies
        /\ Seen \subseteq Seen' /\ known \subseteq known'
        /\ Stored \subseteq Seen /\ doubt' \subseteq Seen'
    BY SeenGrows DEF TInv, LocalOK, Seen
  <1>1. ASSUME NEW o \in Procs, creating[o] # Nobody
        PROVE  creating'[o] = creating[o] \/ creating[o] \in Seen'
    <2>1. CASE mid[o] = [do |-> "index", of |-> creating[o]]
      <3>1. mid[o].do = "index" /\ mid[o].of = creating[o]  BY <2>1
      <3>2. mid[o] # None  BY <3>1 DEF None
      <3> QED BY <1>0, <3>1, <3>2 DEF KnownInv
    <2>2. CASE mid[o] # [do |-> "index", of |-> creating[o]]
      BY <1>0, <1>1, <2>2, CreatingKept
    <2> QED BY <2>1, <2>2
  <1>2. ASSUME NEW p \in Procs, NEW r, Writes(p, r)
        PROVE  Of(p) \in known /\ copy[p][Of(p)] # Absent /\ Stored' = Stored \cup {Of(p)}
    <2>1. Of(p) \in Services /\ Stored' = Stored \cup {Of(p)}  BY <1>2, WriteStores
    <2>2. copy[p][Of(p)] # Absent  BY <1>2, GraphAssumption DEF Writes, GraphAssumption
    <2> QED BY <2>1, <2>2 DEF KnownInv
  <1>3. Stored' \subseteq known'
    <2>1. Stored' \subseteq Stored \/ \E p \in Procs : \E r : Writes(p, r)
      BY Kinds
      DEF Stored, Load, Create, Consume, Delete, Begin, Breaks, Raise, Moves, Index, Remove, Erase,
          Crash, vars, TInv, SharedOK
    <2> QED BY <1>0, <1>2, <2>1 DEF KnownInv
  <1>4. ASSUME NEW s \in known'
        PROVE  s \in Seen' \/ \E p \in Procs : creating'[p] = s
    <2>1. CASE s \in known
      <3>1. CASE s \in Seen  BY <1>0, <3>1
      <3>2. CASE \E p \in Procs : creating[p] = s
        <4>1. s # Nobody  BY <2>1, GraphAssumption DEF GraphAssumption, TInv, SharedOK
        <4> QED BY <1>1, <3>2, <4>1
      <3> QED BY <2>1, <3>1, <3>2 DEF KnownInv
    <2>2. CASE s \notin known
      <3>1. PICK p \in Procs : \E t \in Services : Create(p, t)
        BY <1>4, <2>2, Kinds
        DEF Load, Consume, Delete, Begin, Breaks, Raise, Moves, Writes, SetRecord, Index, Remove,
            Erase, Crash, vars
      <3> QED BY <1>0, <1>4, <2>2, <3>1 DEF Create
    <2> QED BY <2>1, <2>2
  <1>5. ASSUME NEW o \in Procs, NEW s \in Services, copy'[o][s] # Absent
        PROVE  s \in known' /\ (s \in Seen' \/ creating'[o] = s)
    <2>1. CASE copy[o][s] # Absent
      <3>1. s \in known /\ (s \in Seen \/ creating[o] = s)  BY <2>1 DEF KnownInv
      <3>2. s # Nobody  BY GraphAssumption DEF GraphAssumption
      <3> QED BY <1>0, <1>1, <3>1, <3>2
    <2>2. CASE s \in Stored  BY <1>0, <2>2 DEF KnownInv
    <2>3. CASE copy[o][s] = Absent /\ s \notin Stored
      <3>1. ASSUME NEW p \in Procs, NEW t \in Services, Create(p, t)
            PROVE  s \in known' /\ creating'[o] = s
        <4>1. /\ copy' = [copy EXCEPT ![p][t] = [prods |-> {}, cons |-> {}]]
              /\ creating' = [creating EXCEPT ![p] = t] /\ known' = known \cup {t}
          BY <3>1 DEF Create
        <4>2. o = p /\ s = t  BY <1>0, <1>5, <2>3, <4>1 DEF Copies
        <4> QED BY <1>0, <4>1, <4>2
      <3>2. ASSUME NEW p \in Procs, NEW r, Writes(p, r)  PROVE FALSE
        <4>1. /\ \A t \in Services \ {Of(p)} : copy'[p][t] = copy[p][t]
              /\ \A x \in Procs \ {p} : copy'[x] = copy[x]
          BY <3>2, WriteStores
        <4> QED BY <1>2, <1>5, <2>3, <3>2, <4>1
      <3>3. ASSUME NEW p \in Procs, NEW t \in Services, Load(p, t)  PROVE FALSE
        BY <1>0, <1>5, <2>3, <3>3 DEF Load, Copies
      <3>4. ASSUME NEW p \in Procs, NEW r, NEW L \in SUBSET Stored, Moves(p, r, L)  PROVE FALSE
        BY <1>0, <1>5, <2>3, <3>4 DEF Moves, Copies
      <3>5. ASSUME NEW p \in Procs, Crash(p)  PROVE FALSE
        BY <1>0, <1>5, <2>3, <3>5 DEF Crash
      <3>6. ASSUME copy' = copy  PROVE FALSE
        BY <1>5, <2>3, <3>6
      <3> QED
        BY <3>1, <3>2, <3>3, <3>4, <3>5, <3>6, Kinds
        DEF Consume, Delete, Begin, Breaks, Raise, Index, Remove, Erase, vars
    <2> QED BY <2>1, <2>2, <2>3
  <1>6. ASSUME NEW o \in Procs, mid'[o] # None, mid'[o].do = "index"
        PROVE  mid'[o].of \in Seen'
    <2>1. CASE mid'[o] = mid[o]  BY <1>0, <1>6, <2>1 DEF KnownInv
    <2>2. CASE mid'[o] # mid[o]
      <3>1. ASSUME NEW p \in Procs, NEW r, Writes(p, r)  PROVE mid'[o].of \in Seen'
        <4>1. /\ \A x \in Procs \ {p} : mid'[x] = mid[x]
              /\ mid'[p] = [do |-> "index", of |-> Of(p)] /\ Stored' = Stored \cup {Of(p)}
          BY <3>1, WriteStores
        <4> QED BY <2>2, <4>1 DEF Seen
      <3>2. ASSUME NEW p \in Procs, Index(p) \/ Erase(p) \/ Crash(p)  PROVE FALSE
        <4>1. mid' = [mid EXCEPT ![p] = None]  BY <3>2 DEF Index, Erase, Crash
        <4> QED BY <1>0, <1>6, <2>2, <4>1
      <3>3. ASSUME NEW p \in Procs, Remove(p)  PROVE FALSE
        <4>1. mid' = [mid EXCEPT ![p] = [do |-> "erase", of |-> Of(p)]]  BY <3>3 DEF Remove
        <4>2. mid'[o] = [do |-> "erase", of |-> Of(p)]  BY <1>0, <2>2, <4>1
        <4> QED BY <1>6, <4>2
      <3> QED
        BY <2>2, <3>1, <3>2, <3>3, Kinds
        DEF Load, Create, Consume, Delete, Begin, Breaks, Raise, Moves, vars
    <2> QED BY <2>1, <2>2
  <1> QED BY <1>3, <1>4, <1>5, <1>6 DEF KnownInv

LEMMA TailAt ==
  ASSUME NEW q \in Seq(Steps), q # << >>
  PROVE  /\ Tail(q) \in Seq(Steps) /\ Len(Tail(q)) = Len(q) - 1 /\ Len(q) \in Nat \ {0}
         /\ DOMAIN Tail(q) = 1..(Len(q) - 1) /\ DOMAIN q = 1..Len(q)
         /\ \A i \in DOMAIN Tail(q) : i + 1 \in DOMAIN q /\ Tail(q)[i] = q[i + 1]
         /\ << >> \o Tail(q) = Tail(q)
  OBVIOUS

LEMMA PutsSteps ==
  ASSUME GraphAssumption, TInv, NEW p \in Procs, todo[p] # << >>, NEW r, Puts(p, r)
  PROVE  r \in Seq(Steps)
  <1>1. Of(p) \in Services /\ With(p) \subseteq Services /\ todo[p][1] \in Steps  BY AtStep
  <1>2. CASE r = << >>  BY <1>2
  <1>3. ASSUME NEW q \in Services, NEW W \in SUBSET Services, r \in Plans(Of(p), q, W)
        PROVE  r \in Seq(Steps)
    BY <1>1, <1>3, PlansAre DEF PlanLike
  <1>4. ASSUME NEW q \in With(p), r = DeleteSteps(q) \o <<S("each", Of(p), With(p) \ {q})>>
        PROVE  r \in Seq(Steps)
    <2> DEFINE x == S("each", Of(p), With(p) \ {q})
               l == DeleteSteps(q)
    <2>1. x \in Steps  BY <1>1 DEF S, Steps
    <2>2. l \in Seq(Steps)  BY <1>1, <1>4 DEF S, Steps, DeleteSteps
    <2>3. r = l \o <<x>>  BY <1>4
    <2> HIDE DEF x, l
    <2> QED BY <2>1, <2>2, <2>3
  <1>5. ASSUME r = <<S("each", Of(p), Found(p))>>  PROVE r \in Seq(Steps)
    <2> DEFINE x == S("each", Of(p), Found(p))
    <2>1. x \in Steps  BY <1>1 DEF S, Steps, Found
    <2>2. r = <<x>>  BY <1>5
    <2> HIDE DEF x
    <2> QED BY <2>1, <2>2
  <1> QED BY <1>2, <1>3, <1>4, <1>5 DEF Puts

\* The last step stays the last, unless it is the one that is made.
LEMMA LastKept ==
  ASSUME NEW q \in Seq(Steps), q # << >>, NEW r \in Seq(Steps), q[1] # q[Len(q)]
  PROVE  r \o Tail(q) # << >> /\ (r \o Tail(q))[Len(r \o Tail(q))] = q[Len(q)]
  <1> DEFINE t == Tail(q)
             u == r \o t
  <1>1. /\ t \in Seq(Steps) /\ Len(q) \in Nat \ {0} /\ Len(t) = Len(q) - 1
        /\ \A i \in 1..Len(t) : t[i] = q[i + 1]
    OBVIOUS
  <1>2. Len(t) \in Nat \ {0} /\ t[Len(t)] = q[Len(q)]
    <2>1. Len(q) # 1  OBVIOUS
    <2>2. Len(t) \in Nat \ {0} /\ Len(t) \in 1..Len(t) /\ Len(t) + 1 = Len(q)  BY <1>1, <2>1
    <2> QED BY <1>1, <2>2
  <1> HIDE DEF t
  <1>3. /\ u \in Seq(Steps) /\ Len(u) = Len(r) + Len(t) /\ Len(r) \in Nat
        /\ \A i \in 1..Len(t) : u[Len(r) + i] = t[i]
    <2> HIDE DEF u
    <2>1. u = r \o t  BY DEF u
    <2>2. /\ r \o t \in Seq(Steps) /\ Len(r \o t) = Len(r) + Len(t) /\ Len(r) \in Nat
          /\ \A i \in 1..Len(t) : (r \o t)[Len(r) + i] = t[i]
      BY <1>1, ConcatAt
    <2> QED BY <2>1, <2>2
  <1> HIDE DEF u
  <1>4. u # << >> /\ u[Len(u)] = t[Len(t)]
    <2>1. Len(t) \in 1..Len(t) /\ Len(u) # 0  BY <1>2, <1>3
    <2> QED BY <1>3, <2>1
  <1> QED BY <1>2, <1>4 DEF t, u

LEMMA CreateEnds ==
  ASSUME GraphAssumption, NEW s \in Services
  PROVE  CreateSteps(s) # << >> /\ CreateSteps(s)[Len(CreateSteps(s))] = S("store", s, {})
  <1> DEFINE h == IF Parent[s] = Nobody THEN << >> ELSE <<S("need", Parent[s], {})>>
             w == S("wants", s, Wants[s])
             v == S("parent", s, {})
             a == S("store", s, {})
             b == S("reload", s, {})
             e == <<w, v, a, b, a>>
  <1>1. S("need", Parent[s], {}) \in Steps \/ Parent[s] = Nobody
    BY GraphAssumption DEF GraphAssumption, S, Steps
  <1>2. h \in Seq(Steps)  BY <1>1
  <1>3. w \in Steps /\ v \in Steps /\ a \in Steps /\ b \in Steps
    BY GraphAssumption DEF GraphAssumption, S, Steps
  <1>4. CreateSteps(s) = h \o e  BY DEF CreateSteps
  <1> HIDE DEF h, w, v, a, b
  <1>5. e \in Seq(Steps) /\ Len(e) = 5 /\ e[5] = a  BY <1>3
  <1> HIDE DEF e
  <1>6. h \o e # << >> /\ (h \o e)[Len(h \o e)] = a
    <2>1. /\ h \o e \in Seq(Steps) /\ Len(h) \in Nat /\ Len(h \o e) = Len(h) + 5
          /\ \A i \in 1..5 : (h \o e)[Len(h) + i] = e[i]
      <3>1. /\ h \o e \in Seq(Steps) /\ Len(h) \in Nat /\ Len(h \o e) = Len(h) + Len(e)
            /\ \A i \in 1..Len(e) : (h \o e)[Len(h) + i] = e[i]
        BY <1>2, <1>5, ConcatAt
      <3> QED BY <1>5, <3>1
    <2>2. (h \o e)[Len(h) + 5] = e[5] /\ Len(h \o e) # 0  BY <2>1
    <2> QED BY <1>5, <2>1, <2>2
  <1> QED BY <1>4, <1>6 DEF a

LEMMA CreatingNext ==
  ASSUME GraphAssumption, TInv, CreatingInv, [Next]_vars
  PROVE  CreatingInv'
  <1> DEFINE Ends(o, c) ==
               IF todo[o] = << >> THEN mid[o] = [do |-> "index", of |-> c]
               ELSE todo[o][Len(todo[o])] = S("store", c, {})
  <1>0. /\ todo \in [Procs -> Seq(Steps)] /\ mid \in [Procs -> Halves \cup {None}]
        /\ creating \in [Procs -> Services \cup {Nobody}]
        /\ \A o \in Procs : todo[o] \in Seq(Steps)
    BY DEF TInv, LocalOK
  <1>1. SUFFICES ASSUME NEW o \in Procs, creating'[o] # Nobody  PROVE Ends(o, creating[o])'
    BY DEF CreatingInv
  <1>2. ASSUME NEW s \in Services, Create(o, s)  PROVE Ends(o, creating[o])'
    <2>1. todo'[o] = CreateSteps(s) /\ creating'[o] = s  BY <1>0, <1>2 DEF Create, Begin
    <2> QED BY <2>1, CreateEnds
  <1>3. ASSUME creating'[o] = creating[o], todo'[o] = todo[o], mid'[o] = mid[o]
        PROVE  Ends(o, creating[o])'
    BY <1>1, <1>3 DEF CreatingInv
  <1>4. ASSUME Idle(o)  PROVE creating[o] = Nobody
    <2> SUFFICES ASSUME creating[o] # Nobody  PROVE FALSE
      OBVIOUS
    <2>1. mid[o] = [do |-> "index", of |-> creating[o]]  BY <1>4 DEF CreatingInv, Idle
    <2>2. mid[o].do = "index"  BY <2>1
    <2>3. mid[o].do = "none"  BY <1>4 DEF Idle, None
    <2> QED BY <2>2, <2>3
  \* A step that is not the last one.
  <1>5. ASSUME creating'[o] = creating[o], todo[o] # << >>, NEW r \in Seq(Steps),
               todo'[o] = r \o Tail(todo[o]), todo[o][1] # S("store", creating[o], {})
        PROVE  Ends(o, creating[o])'
    <2>1. todo[o][Len(todo[o])] = S("store", creating[o], {})  BY <1>1, <1>5 DEF CreatingInv
    <2>2. todo'[o] # << >> /\ todo'[o][Len(todo'[o])] = S("store", creating[o], {})
      BY <1>0, <1>5, <2>1, LastKept
    <2> QED BY <1>5, <2>2
  <1>6. ASSUME NEW r, NEW L \in SUBSET Stored, Moves(o, r, L), Puts(o, r)
        PROVE  Ends(o, creating[o])'
    <2>1. r \in Seq(Steps)  BY <1>6, PutsSteps DEF Moves
    <2>2. todo[o][1].do # "store"  BY <1>6 DEF Puts
    <2>3. todo[o][1] # S("store", creating[o], {})  BY <2>2 DEF S
    <2> QED BY <1>0, <1>5, <1>6, <2>1, <2>3 DEF Moves
  <1>7. ASSUME NEW r, Writes(o, r)  PROVE Ends(o, creating[o])'
    <2>1. /\ todo'[o] = Tail(todo[o]) /\ mid'[o] = [do |-> "index", of |-> Of(o)]
          /\ creating' = creating /\ todo[o] # << >>
      BY <1>7, WriteStores DEF Writes
    <2>2. << >> \o Tail(todo[o]) = Tail(todo[o]) /\ << >> \in Seq(Steps)  BY <1>0, <2>1, TailAt
    <2>3. CASE todo[o][1] # S("store", creating[o], {})
      <3>1. creating'[o] = creating[o] /\ todo'[o] = << >> \o Tail(todo[o])  BY <2>1, <2>2
      <3> QED BY <1>5, <2>1, <2>2, <2>3, <3>1
    <2>4. CASE todo[o][1] = S("store", creating[o], {})
      <3>1. Of(o) = creating[o]  BY <2>4 DEF Of, S
      <3>2. CASE todo'[o] = << >>  BY <2>1, <3>1, <3>2
      <3>3. CASE todo'[o] # << >>
        <4> DEFINE q == todo[o]
        <4>1. q \in Seq(Steps) /\ q # << >> /\ Tail(q) # << >>  BY <1>0, <2>1, <3>3
        <4>2. q[Len(q)] = S("store", creating[o], {})  BY <1>1, <2>1 DEF CreatingInv
        <4> HIDE DEF q
        <4>3. Tail(q)[Len(Tail(q))] = q[Len(q)]
          <5> DEFINE t == Tail(q)
          <5>1. /\ t \in Seq(Steps) /\ t # << >> /\ Len(t) = Len(q) - 1 /\ Len(q) \in Nat
                /\ \A i \in DOMAIN t : t[i] = q[i + 1]
            BY <4>1, TailAt
          <5> HIDE DEF t
          <5>2. Len(t) \in DOMAIN t  BY <5>1
          <5>3. Len(t) + 1 = Len(q)  BY <5>1
          <5>4. t[Len(t)] = q[Len(q)]  BY <5>1, <5>2, <5>3
          <5> QED BY <5>4 DEF t
        <4> QED BY <2>1, <3>3, <4>2, <4>3 DEF q
      <3> QED BY <3>2, <3>3
    <2> QED BY <2>3, <2>4
  <1>8. ASSUME Index(o)  PROVE Ends(o, creating[o])'
    <2>1. /\ todo' = todo
          /\ creating' = IF todo[o] = << >> THEN [creating EXCEPT ![o] = Nobody] ELSE creating
      BY <1>8 DEF Index
    <2>2. todo[o] # << >> /\ creating' = creating  BY <1>0, <1>1, <2>1
    <2> QED BY <1>1, <2>1, <2>2 DEF CreatingInv
  <1>9. ASSUME Remove(o)  PROVE Ends(o, creating[o])'
    <2>1. todo[o] # << >> /\ todo[o][1].do = "remove" /\ todo'[o] = Tail(todo[o]) /\ creating' = creating
      BY <1>0, <1>9 DEF Remove, Ready, Done
    <2>2. << >> \o Tail(todo[o]) = Tail(todo[o]) /\ << >> \in Seq(Steps)  BY <1>0, <2>1, TailAt
    <2>3. todo[o][1] # S("store", creating[o], {})  BY <2>1 DEF S
    <2>4. creating'[o] = creating[o] /\ todo'[o] = << >> \o Tail(todo[o])  BY <2>1, <2>2
    <2> QED BY <1>5, <2>1, <2>2, <2>3, <2>4
  <1>10. ASSUME Erase(o)  PROVE Ends(o, creating[o])'
    <2>1. todo' = todo /\ creating' = creating /\ mid[o].do = "erase"  BY <1>10 DEF Erase
    <2>2. todo[o] # << >>
      <3>1. mid[o] # [do |-> "index", of |-> creating[o]]  BY <2>1
      <3> QED BY <1>1, <2>1, <3>1 DEF CreatingInv
    <2> QED BY <1>1, <2>1, <2>2 DEF CreatingInv
  <1>11. ASSUME Breaks(o) \/ Crash(o)  PROVE FALSE
    BY <1>0, <1>1, <1>11 DEF Breaks, Raise, Crash
  <1>12. ASSUME (\E s, q \in Services : Consume(o, s, q)) \/ (\E s \in Services : Load(o, s) \/ Delete(o, s))
         PROVE  FALSE
    <2>1. Idle(o) /\ creating' = creating  BY <1>12 DEF Consume, Load, Delete, Begin
    <2> QED BY <1>1, <1>4, <2>1
  <1>13. ASSUME NEW p \in Procs, p # o,
                \/ \E s \in Services : Load(p, s) \/ Create(p, s) \/ Delete(p, s)
                \/ \E s, q \in Services : Consume(p, s, q)
                \/ Breaks(p)
                \/ \E r : \E L \in SUBSET Stored : Moves(p, r, L) /\ Puts(p, r)
                \/ \E r : Writes(p, r)
                \/ Index(p) \/ Remove(p) \/ Erase(p) \/ Crash(p)
         PROVE  creating'[o] = creating[o] /\ todo'[o] = todo[o] /\ mid'[o] = mid[o]
    BY <1>0, <1>13
    DEF Load, Create, Consume, Delete, Begin, Breaks, Raise, Moves, Writes, SetRecord, Done,
        Index, Remove, Erase, Crash
  <1>14. CASE UNCHANGED vars  BY <1>3, <1>14 DEF vars
  <1> QED
    BY <1>2, <1>3, <1>6, <1>7, <1>8, <1>9, <1>10, <1>11, <1>12, <1>13, <1>14, Kinds

-----------------------------------------------------------------------------
(***************************************************************************)
(* Both ends of a relation: what makes one is stored at the service first  *)
(* and then at its producer, whose record exists by then.                  *)
(***************************************************************************)

\* In these steps a producer that is added is loaded before, and told after.
Orderly(steps, seen, linked) ==
  \A i \in DOMAIN steps :
    /\ steps[i].do = "producer" => \A t \in steps[i].with :
         /\ t \in seen \/ \E j \in DOMAIN steps : j < i /\ steps[j].do = "need" /\ steps[j].of = t
         /\ \E j \in DOMAIN steps : /\ j > i /\ steps[j].do = "consumer"
                                    /\ steps[j].of = t /\ steps[i].of \in steps[j].with
    /\ steps[i].do = "consumer" => \A s \in steps[i].with :
         \/ <<s, steps[i].of>> \in linked
         \/ \E j \in DOMAIN steps : /\ j < i /\ steps[j].do = "producer"
                                    /\ steps[j].of = s /\ steps[i].of \in steps[j].with

OrderInv == \A p \in Procs : Orderly(todo[p], Seen, Linked)

\* An operation under way has still to tell q that s consumes it.
Tells(x, s, q) == x.do = "consumer" /\ x.of = q /\ s \in x.with
Pending(s, q) == \E p \in Procs : \E i \in DOMAIN todo[p] : Tells(todo[p][i], s, q)

EndsInv ==
  \A s \in Stored \ doubt :
    /\ \A t \in record[s].cons : <<t, s>> \in Linked
    /\ \A q \in record[s].prods :
         q \in Seen /\ (q \in Stored \ doubt => s \in record[q].cons \/ Pending(s, q))

LEMMA OrderlyMore ==
  ASSUME NEW q, NEW A, NEW B, NEW C, NEW D, Orderly(q, A, B), A \subseteq C, B \subseteq D
  PROVE  Orderly(q, C, D)
  BY DEF Orderly

LEMMA OrderlyConcat ==
  ASSUME NEW q \in Seq(Steps), NEW r \in Seq(Steps), NEW A, NEW B, Orderly(q, A, B), Orderly(r, A, B)
  PROVE  Orderly(q \o r, A, B)
  <1> DEFINE u == q \o r
             n == Len(q)
             m == Len(r)
  <1>1. /\ n \in Nat /\ m \in Nat /\ DOMAIN q = 1..n /\ DOMAIN r = 1..m /\ DOMAIN u = 1..(n + m)
        /\ \A i \in 1..n : u[i] = q[i]
        /\ \A i \in 1..m : u[n + i] = r[i]
    BY ConcatAt
  <1> HIDE DEF u, n, m
  <1>2. ASSUME NEW i \in 1..n
        PROVE  i \in DOMAIN u
    BY <1>1
  <1>3. ASSUME NEW i \in 1..m
        PROVE  n + i \in DOMAIN u
    BY <1>1
  <1>4. ASSUME NEW i \in DOMAIN u, i \notin 1..n
        PROVE  i - n \in 1..m /\ n + (i - n) = i /\ u[i] = r[i - n]
    <2>1. i - n \in 1..m /\ n + (i - n) = i  BY <1>1, <1>4
    <2> QED BY <1>1, <2>1
  <1>5. ASSUME NEW i \in DOMAIN u, u[i].do = "producer", NEW t \in u[i].with
        PROVE  /\ t \in A \/ \E j \in DOMAIN u : j < i /\ u[j].do = "need" /\ u[j].of = t
               /\ \E j \in DOMAIN u : /\ j > i /\ u[j].do = "consumer"
                                      /\ u[j].of = t /\ u[i].of \in u[j].with
    <2>1. CASE i \in 1..n
      <3>1. u[i] = q[i] /\ i \in DOMAIN q  BY <1>1, <2>1
      <3>2. ASSUME t \notin A
            PROVE  \E j \in DOMAIN u : j < i /\ u[j].do = "need" /\ u[j].of = t
        <4>1. PICK j \in DOMAIN q : j < i /\ q[j].do = "need" /\ q[j].of = t
          BY <1>5, <3>1, <3>2 DEF Orderly
        <4> QED BY <1>1, <1>2, <4>1
      <3>3. PICK j \in DOMAIN q : j > i /\ q[j].do = "consumer" /\ q[j].of = t /\ q[i].of \in q[j].with
        BY <1>5, <3>1 DEF Orderly
      <3>4. j \in DOMAIN u /\ u[j] = q[j]  BY <1>1, <1>2
      <3> QED BY <3>1, <3>2, <3>3, <3>4
    <2>2. CASE i \notin 1..n
      <3> DEFINE k == i - n
      <3>1. k \in DOMAIN r /\ n + k = i /\ u[i] = r[k] /\ k \in Nat  BY <1>1, <1>4, <2>2
      <3> HIDE DEF k
      <3>2. ASSUME t \notin A
            PROVE  \E j \in DOMAIN u : j < i /\ u[j].do = "need" /\ u[j].of = t
        <4>1. PICK j \in DOMAIN r : j < k /\ r[j].do = "need" /\ r[j].of = t
          BY <1>5, <3>1, <3>2 DEF Orderly
        <4>2. n + j \in DOMAIN u /\ n + j < i /\ u[n + j] = r[j]  BY <1>1, <1>3, <3>1, <4>1
        <4> QED BY <4>1, <4>2
      <3>3. PICK j \in DOMAIN r : j > k /\ r[j].do = "consumer" /\ r[j].of = t /\ r[k].of \in r[j].with
        BY <1>5, <3>1 DEF Orderly
      <3>4. n + j \in DOMAIN u /\ n + j > i /\ u[n + j] = r[j]  BY <1>1, <1>3, <3>1, <3>3
      <3> QED BY <3>1, <3>2, <3>3, <3>4
    <2> QED BY <2>1, <2>2
  <1>6. ASSUME NEW i \in DOMAIN u, u[i].do = "consumer", NEW s \in u[i].with, <<s, u[i].of>> \notin B
        PROVE  \E j \in DOMAIN u : /\ j < i /\ u[j].do = "producer"
                                   /\ u[j].of = s /\ u[i].of \in u[j].with
    <2>1. CASE i \in 1..n
      <3>1. u[i] = q[i] /\ i \in DOMAIN q  BY <1>1, <2>1
      <3>2. PICK j \in DOMAIN q : j < i /\ q[j].do = "producer" /\ q[j].of = s /\ q[i].of \in q[j].with
        BY <1>6, <3>1 DEF Orderly
      <3> QED BY <1>1, <1>2, <3>1, <3>2
    <2>2. CASE i \notin 1..n
      <3> DEFINE k == i - n
      <3>1. k \in DOMAIN r /\ n + k = i /\ u[i] = r[k] /\ k \in Nat  BY <1>1, <1>4, <2>2
      <3> HIDE DEF k
      <3>2. PICK j \in DOMAIN r : j < k /\ r[j].do = "producer" /\ r[j].of = s /\ r[k].of \in r[j].with
        BY <1>6, <3>1 DEF Orderly
      <3>3. n + j \in DOMAIN u /\ n + j < i /\ u[n + j] = r[j]  BY <1>1, <1>3, <3>1, <3>2
      <3> QED BY <3>1, <3>2, <3>3
    <2> QED BY <2>1, <2>2
  <1>7. Orderly(u, A, B)  BY <1>5, <1>6 DEF Orderly
  <1> QED BY <1>7 DEF u

\* When the first step is made, what it stood for is there.
LEMMA OrderlyTail ==
  ASSUME NEW q \in Seq(Steps), q # << >>, NEW A, NEW B, NEW C, NEW D,
         Orderly(q, A, B), A \subseteq C, B \subseteq D,
         q[1].do = "need" => q[1].of \in C,
         q[1].do = "producer" => \A t \in q[1].with : <<q[1].of, t>> \in D
  PROVE  Orderly(Tail(q), C, D)
  <1> DEFINE u == Tail(q)
             n == Len(q)
  <1>1. /\ n \in Nat \ {0} /\ DOMAIN q = 1..n /\ DOMAIN u = 1..(n - 1)
        /\ \A i \in DOMAIN u : i + 1 \in DOMAIN q /\ u[i] = q[i + 1]
    BY TailAt
  <1> HIDE DEF u, n
  <1>2. ASSUME NEW j \in DOMAIN q, j # 1
        PROVE  j - 1 \in DOMAIN u /\ u[j - 1] = q[j]
    <2>1. j - 1 \in DOMAIN u /\ (j - 1) + 1 = j  BY <1>1, <1>2
    <2> QED BY <1>1, <2>1
  <1>3. ASSUME NEW i \in DOMAIN u, u[i].do = "producer", NEW t \in u[i].with
        PROVE  /\ t \in C \/ \E j \in DOMAIN u : j < i /\ u[j].do = "need" /\ u[j].of = t
               /\ \E j \in DOMAIN u : /\ j > i /\ u[j].do = "consumer"
                                      /\ u[j].of = t /\ u[i].of \in u[j].with
    <2>1. i + 1 \in DOMAIN q /\ u[i] = q[i + 1]  BY <1>1
    <2>2. ASSUME t \notin C
          PROVE  \E j \in DOMAIN u : j < i /\ u[j].do = "need" /\ u[j].of = t
      <3>1. PICK j \in DOMAIN q : j < i + 1 /\ q[j].do = "need" /\ q[j].of = t
        BY <1>3, <2>1, <2>2 DEF Orderly
      <3>2. j # 1  BY <2>2, <3>1
      <3>3. j - 1 < i  BY <1>1, <3>1
      <3> QED BY <1>2, <3>1, <3>2, <3>3
    <2>3. PICK j \in DOMAIN q : j > i + 1 /\ q[j].do = "consumer" /\ q[j].of = t /\ q[i + 1].of \in q[j].with
      BY <1>3, <2>1 DEF Orderly
    <2>4. j # 1 /\ j - 1 > i  BY <1>1, <2>3
    <2> QED BY <1>2, <2>1, <2>2, <2>3, <2>4
  <1>4. ASSUME NEW i \in DOMAIN u, u[i].do = "consumer", NEW s \in u[i].with, <<s, u[i].of>> \notin D
        PROVE  \E j \in DOMAIN u : /\ j < i /\ u[j].do = "producer"
                                   /\ u[j].of = s /\ u[i].of \in u[j].with
    <2>1. i + 1 \in DOMAIN q /\ u[i] = q[i + 1]  BY <1>1
    <2>2. PICK j \in DOMAIN q : j < i + 1 /\ q[j].do = "producer" /\ q[j].of = s /\ q[i + 1].of \in q[j].with
      BY <1>4, <2>1 DEF Orderly
    <2>3. j # 1  BY <1>4, <2>1, <2>2
    <2>4. j - 1 < i  BY <1>1, <2>2
    <2> QED BY <1>2, <2>1, <2>2, <2>3, <2>4
  <1>5. Orderly(u, C, D)  BY <1>3, <1>4 DEF Orderly
  <1> QED BY <1>5 DEF u

LEMMA PartsOrderly ==
  ASSUME NEW s \in Services, NEW A, NEW B
  PROVE  /\ Orderly(<< >>, A, B)
         /\ Orderly(DeleteSteps(s), A, B)
         /\ \A q \in A : Orderly(ConsumeSteps(s, q), A, B)
         /\ \A q \in Services : \A W \in SUBSET Services : \A r \in Plans(s, q, W) : Orderly(r, A, B)
  <1>1. Orderly(<< >>, A, B)  BY DEF Orderly
  <1>2. Orderly(DeleteSteps(s), A, B)  BY DEF Orderly, DeleteSteps, S
  <1>3. ASSUME NEW q \in Services, NEW W \in SUBSET Services, NEW r \in Plans(s, q, W)
        PROVE  Orderly(r, A, B)
    <2> DEFINE a == S("need", q, {})
               x == S("wants", s, W)
               b == S("producer", s, {q})
               e == S("consumer", q, {s})
    <2>1. /\ a.do = "need" /\ a.of = q /\ x.do = "wants"
          /\ b.do = "producer" /\ b.of = s /\ b.with = {q}
          /\ e.do = "consumer" /\ e.of = q /\ e.with = {s}
      BY DEF S
    <2>2. /\ DOMAIN r = {1, 2, 3, 4} /\ r[1] = a
          /\ \/ r[2] = x /\ r[3] = b /\ r[4] = e
             \/ r[2] = b /\ r[3] = e /\ r[4] = x
             \/ r[2] = b /\ r[3] = a /\ r[4] = e
      <3>1. PlanLike(r, s, q, W)  BY PlansAre
      <3> QED BY <3>1 DEF PlanLike
    <2> HIDE DEF a, x, b, e
    <2>3. CASE r[2] = x /\ r[3] = b /\ r[4] = e
      <3>1. \A i \in DOMAIN r : /\ r[i].do = "producer" => i = 3
                                /\ r[i].do = "consumer" => i = 4
        BY <2>1, <2>2, <2>3
      <3>2. {1, 3, 4} \subseteq DOMAIN r /\ 1 < 3 /\ 4 > 3 /\ 3 < 4  BY <2>2
      <3> QED BY <2>1, <2>2, <2>3, <3>1, <3>2 DEF Orderly
    <2>4. CASE r[2] = b /\ r[3] = e /\ r[4] = x
      <3>1. \A i \in DOMAIN r : /\ r[i].do = "producer" => i = 2
                                /\ r[i].do = "consumer" => i = 3
        BY <2>1, <2>2, <2>4
      <3>2. {1, 2, 3} \subseteq DOMAIN r /\ 1 < 2 /\ 3 > 2 /\ 2 < 3  BY <2>2
      <3> QED BY <2>1, <2>2, <2>4, <3>1, <3>2 DEF Orderly
    <2>5. CASE r[2] = b /\ r[3] = a /\ r[4] = e
      <3>1. \A i \in DOMAIN r : /\ r[i].do = "producer" => i = 2
                                /\ r[i].do = "consumer" => i = 4
        BY <2>1, <2>2, <2>5
      <3>2. {1, 2, 4} \subseteq DOMAIN r /\ 1 < 2 /\ 4 > 2 /\ 2 < 4  BY <2>2
      <3> QED BY <2>1, <2>2, <2>5, <3>1, <3>2 DEF Orderly
    <2> QED BY <2>2, <2>3, <2>4, <2>5
  <1>4. ASSUME NEW q \in A  PROVE Orderly(ConsumeSteps(s, q), A, B)
    <2> DEFINE z == ConsumeSteps(s, q)
    <2>1. /\ DOMAIN z = 1..5 /\ z[1].do = "producers" /\ z[4].do = "store" /\ z[5].do = "store"
          /\ z[2] = S("producer", s, {q}) /\ z[3] = S("consumer", q, {s})
      BY DEF ConsumeSteps, S
    <2>2. /\ z[2].do = "producer" /\ z[2].of = s /\ z[2].with = {q}
          /\ z[3].do = "consumer" /\ z[3].of = q /\ z[3].with = {s}
      BY <2>1 DEF S
    <2> HIDE DEF z
    <2>3. \A i \in DOMAIN z : i = 1 \/ i = 2 \/ i = 3 \/ i = 4 \/ i = 5  BY <2>1
    <2>4. 2 \in DOMAIN z /\ 3 \in DOMAIN z /\ 2 < 3 /\ 3 > 2  BY <2>1
    <2>5. Orderly(z, A, B)  BY <2>1, <2>2, <2>3, <2>4 DEF Orderly
    <2> QED BY <2>5 DEF z
  <1> QED BY <1>1, <1>2, <1>3, <1>4

LEMMA OneOrderly ==
  ASSUME NEW x, x.do \notin {"producer", "consumer"}, NEW A, NEW B
  PROVE  Orderly(<<x>>, A, B)
  <1>1. DOMAIN <<x>> = {1} /\ <<x>>[1] = x  OBVIOUS
  <1> QED BY <1>1 DEF Orderly


LEMMA CreateOrderly ==
  ASSUME GraphAssumption, NEW s \in Services, NEW A, NEW B
  PROVE  Orderly(CreateSteps(s), A, B)
  <1> DEFINE h == IF Parent[s] = Nobody THEN << >> ELSE <<S("need", Parent[s], {})>>
             w == S("wants", s, Wants[s])
             v == S("parent", s, {})
             a == S("store", s, {})
             b == S("reload", s, {})
             e == <<w, v, a, b, a>>
  <1>1. h \in Seq(Steps) /\ Orderly(h, A, B)
    <2>1. CASE Parent[s] = Nobody
      <3>1. h = << >> /\ << >> \in Seq(Steps)  BY <2>1
      <3> HIDE DEF h
      <3> QED BY <3>1, PartsOrderly
    <2>2. CASE Parent[s] # Nobody
      <3>1. Parent[s] \in Services  BY <2>2, GraphAssumption DEF GraphAssumption
      <3> DEFINE x == S("need", Parent[s], {})
      <3>2. x \in Steps /\ x.do \notin {"producer", "consumer"}  BY <3>1 DEF S, Steps
      <3>3. h = <<x>>  BY <2>2
      <3> HIDE DEF h, x
      <3>4. <<x>> \in Seq(Steps)  BY <3>2
      <3> QED BY <3>2, <3>3, <3>4, OneOrderly
    <2> QED BY <2>1, <2>2
  <1>2. e \in Seq(Steps) /\ Orderly(e, A, B)
    <2>1. w \in Steps /\ v \in Steps /\ a \in Steps /\ b \in Steps
      BY GraphAssumption DEF S, Steps, GraphAssumption
    <2>2. \A x \in {w, v, a, b} : x.do \notin {"producer", "consumer"}  BY DEF S
    <2> HIDE DEF w, v, a, b
    <2>3. e \in Seq(Steps) /\ \A i \in DOMAIN e : e[i] \in {w, v, a, b}  BY <2>1
    <2> QED BY <2>2, <2>3 DEF Orderly
  <1>3. CreateSteps(s) = h \o e  BY DEF CreateSteps
  <1> HIDE DEF h, e
  <1> QED BY <1>1, <1>2, <1>3, OrderlyConcat

LEMMA PutsOrderly ==
  ASSUME GraphAssumption, TInv, NEW p \in Procs, todo[p] # << >>, NEW r, Puts(p, r), NEW A, NEW B
  PROVE  Orderly(r, A, B)
  <1>1. Of(p) \in Services /\ With(p) \subseteq Services /\ todo[p][1] \in Steps  BY AtStep
  <1>2. CASE r = << >>  BY <1>1, <1>2, PartsOrderly
  <1>3. ASSUME NEW l \in Seq(Steps), NEW x \in Steps, r = l \o <<x>>, Orderly(l, A, B),
               x.do \notin {"producer", "consumer"}
        PROVE  Orderly(r, A, B)
    <2>1. <<x>> \in Seq(Steps) /\ Orderly(<<x>>, A, B)  BY <1>3, OneOrderly
    <2> QED BY <1>3, <2>1, OrderlyConcat
  <1>4. ASSUME NEW q \in Services, NEW W \in SUBSET Services, r \in Plans(Of(p), q, W)
        PROVE  Orderly(r, A, B)
    BY <1>1, <1>4, PartsOrderly
  <1>5. ASSUME NEW q \in With(p), r = DeleteSteps(q) \o <<S("each", Of(p), With(p) \ {q})>>
        PROVE  Orderly(r, A, B)
    <2> DEFINE x == S("each", Of(p), With(p) \ {q})
               l == DeleteSteps(q)
    <2>1. x \in Steps /\ x.do \notin {"producer", "consumer"}  BY <1>1 DEF S, Steps
    <2>2. l \in Seq(Steps)  BY <1>1, <1>5 DEF S, Steps, DeleteSteps
    <2>3. Orderly(l, A, B)  BY <1>1, <1>5, PartsOrderly
    <2>4. r = l \o <<x>>  BY <1>5
    <2> HIDE DEF x, l
    <2> QED BY <1>3, <2>1, <2>2, <2>3, <2>4
  <1>6. ASSUME r = <<S("each", Of(p), Found(p))>>  PROVE Orderly(r, A, B)
    <2> DEFINE x == S("each", Of(p), Found(p))
    <2>1. x.do \notin {"producer", "consumer"} /\ r = <<x>>  BY <1>6 DEF S
    <2> HIDE DEF x
    <2> QED BY <2>1, OneOrderly
  <1> QED BY <1>2, <1>4, <1>5, <1>6 DEF Puts

\* Every step leaves the steps that are left in order.
LEMMA OrderNext ==
  ASSUME GraphAssumption, TInv, FreshInv, KnownInv, CreatingInv, OrderInv, [Next]_vars
  PROVE  OrderInv'
  <1>0. /\ todo \in [Procs -> Seq(Steps)] /\ \A o \in Procs : todo[o] \in Seq(Steps)
        /\ Seen \subseteq Seen' /\ Linked \subseteq Linked'
    BY SeenGrows DEF TInv, LocalOK
  <1>1. SUFFICES ASSUME NEW o \in Procs  PROVE Orderly(todo'[o], Seen', Linked')
    BY DEF OrderInv
  <1>2. Orderly(todo[o], Seen, Linked)  BY DEF OrderInv
  <1>3. ASSUME todo'[o] = todo[o]  PROVE Orderly(todo'[o], Seen', Linked')
    BY <1>0, <1>2, <1>3, OrderlyMore
  <1>4. ASSUME NEW s \in Services, Create(o, s)  PROVE Orderly(todo'[o], Seen', Linked')
    <2>1. todo'[o] = CreateSteps(s)  BY <1>0, <1>4 DEF Create, Begin
    <2> QED BY <2>1, CreateOrderly
  <1>5. ASSUME NEW s \in Services, Delete(o, s)  PROVE Orderly(todo'[o], Seen', Linked')
    <2>1. todo'[o] = DeleteSteps(s)  BY <1>0, <1>5 DEF Delete, Begin
    <2> QED BY <2>1, PartsOrderly
  <1>6. ASSUME NEW s \in Services, NEW q \in Services, Consume(o, s, q)
        PROVE  Orderly(todo'[o], Seen', Linked')
    <2>1. todo'[o] = ConsumeSteps(s, q)  BY <1>0, <1>6 DEF Consume, Begin
    <2>2. creating[o] # q
      <3>1. Idle(o) /\ q # Nobody  BY <1>6, GraphAssumption DEF Consume, Begin, GraphAssumption
      <3>2. ASSUME creating[o] = q  PROVE FALSE
        <4>1. mid[o] = [do |-> "index", of |-> q]  BY <3>1, <3>2 DEF CreatingInv, Idle
        <4>2. mid[o].do = "index" /\ mid[o].do = "none"  BY <3>1, <4>1 DEF Idle, None
        <4> QED BY <4>2
      <3> QED BY <3>2
    <2>3. q \in Seen'  BY <1>0, <1>6, <2>2 DEF Consume, KnownInv
    <2>4. \A x \in Seen' : Orderly(ConsumeSteps(s, x), Seen', Linked')  BY PartsOrderly
    <2> QED BY <2>1, <2>3, <2>4
  <1>7. ASSUME Breaks(o)  PROVE Orderly(todo'[o], Seen', Linked')
    <2>1. todo'[o] = IF creating[o] = Nobody THEN << >> ELSE DeleteSteps(creating[o])
      BY <1>0, <1>7 DEF Breaks, Raise
    <2>2. creating[o] = Nobody => Orderly(<< >>, Seen', Linked')  BY DEF Orderly
    <2>3. creating[o] # Nobody => creating[o] \in Services  BY SameAt
    <2> QED BY <2>1, <2>2, <2>3, PartsOrderly
  <1>8. ASSUME Crash(o)  PROVE Orderly(todo'[o], Seen', Linked')
    <2>1. todo'[o] = << >>  BY <1>0, <1>8 DEF Crash
    <2> QED BY <2>1 DEF Orderly
  <1>9. ASSUME NEW r, NEW L \in SUBSET Stored, Moves(o, r, L), Puts(o, r)
        PROVE  Orderly(todo'[o], Seen', Linked')
    <2>1. /\ todo[o] # << >> /\ todo'[o] = r \o Tail(todo[o])
          /\ todo[o][1].do = "need" => Of(o) \in Stored
      BY <1>0, <1>9 DEF Moves
    <2>2. /\ todo[o][1].do = "need" => todo[o][1].of \in Seen'
          /\ todo[o][1].do # "producer"
      BY <1>0, <1>9, <2>1 DEF Of, Seen, Puts
    <2>3. Orderly(Tail(todo[o]), Seen', Linked') /\ Tail(todo[o]) \in Seq(Steps)
      BY <1>0, <1>2, <2>1, <2>2, OrderlyTail, TailAt
    <2>4. r \in Seq(Steps) /\ Orderly(r, Seen', Linked')  BY <1>9, <2>1, PutsSteps, PutsOrderly
    <2>5. Orderly(r \o Tail(todo[o]), Seen', Linked')  BY <2>3, <2>4, OrderlyConcat
    <2> QED BY <2>1, <2>5
  <1>10. ASSUME NEW r, Writes(o, r)  PROVE Orderly(todo'[o], Seen', Linked')
    <2>1. /\ todo'[o] = Tail(todo[o]) /\ todo[o] # << >> /\ todo[o][1].do # "need"
          /\ record'[Of(o)] = r /\ Stored' = Stored \cup {Of(o)} /\ Of(o) \in Services
      BY <1>10, WriteStores DEF Writes
    <2>2. With(o) \subseteq Services  BY <2>1, AtStep
    <2>3. todo[o][1].do = "producer" => \A t \in todo[o][1].with : <<todo[o][1].of, t>> \in Linked'
      BY <1>10, <2>1, <2>2 DEF Writes, Linked, Of, With
    <2> QED BY <1>0, <1>2, <2>1, <2>3, OrderlyTail
  <1>11. ASSUME Remove(o)  PROVE Orderly(todo'[o], Seen', Linked')
    <2>1. todo'[o] = Tail(todo[o]) /\ todo[o] # << >> /\ todo[o][1].do = "remove"
      BY <1>0, <1>11 DEF Remove, Ready, Done
    <2> QED BY <1>0, <1>2, <2>1, OrderlyTail
  <1>12. ASSUME NEW p \in Procs, p # o,
                \/ \E s \in Services : Load(p, s) \/ Create(p, s) \/ Delete(p, s)
                \/ \E s, q \in Services : Consume(p, s, q)
                \/ Breaks(p)
                \/ \E r : \E L \in SUBSET Stored : Moves(p, r, L) /\ Puts(p, r)
                \/ \E r : Writes(p, r)
                \/ Remove(p) \/ Crash(p)
         PROVE  todo'[o] = todo[o]
    BY <1>0, <1>12
    DEF Load, Create, Consume, Delete, Begin, Breaks, Raise, Moves, Writes, SetRecord, Done,
        Remove, Crash
  <1>13. ASSUME \/ UNCHANGED vars
                \/ \E p \in Procs : Index(p) \/ Erase(p) \/ \E s \in Services : Load(p, s)
         PROVE  todo'[o] = todo[o]
    BY <1>13 DEF Index, Erase, Load, vars
  <1> QED
    BY <1>3, <1>4, <1>5, <1>6, <1>7, <1>8, <1>9, <1>10, <1>11, <1>12, <1>13, Kinds

\* What q has still to be told is told, unless the operation is cut short.
LEMMA PendingKept ==
  ASSUME GraphAssumption, TInv, [Next]_vars, NEW s, NEW q, Pending(s, q), q \notin doubt'
  PROVE  \/ Pending(s, q)'
         \/ \E p \in Procs : \E r : Writes(p, r) /\ Tells(todo[p][1], s, q)
  <1>0. /\ todo \in [Procs -> Seq(Steps)] /\ \A o \in Procs : todo[o] \in Seq(Steps)
    BY DEF TInv, LocalOK
  <1>1. PICK p \in Procs : \E i \in DOMAIN todo[p] : Tells(todo[p][i], s, q)  BY DEF Pending
  <1>2. PICK i \in DOMAIN todo[p] : Tells(todo[p][i], s, q)  BY <1>1
  <1> DEFINE u == todo[p]
  <1>3. u \in Seq(Steps) /\ u # << >> /\ i \in DOMAIN u /\ Tells(u[i], s, q)  BY <1>0, <1>2
  <1>4. ASSUME todo'[p] = todo[p]  PROVE Pending(s, q)'
    BY <1>2, <1>4 DEF Pending, Tells
  \* A step that is not the one that tells q.
  <1>5. ASSUME NEW r \in Seq(Steps), todo'[p] = r \o Tail(u), i # 1
        PROVE  Pending(s, q)'
    <2> DEFINE t == Tail(u)
    <2> HIDE DEF u
    <2>1. t \in Seq(Steps) /\ i - 1 \in DOMAIN t /\ t[i - 1] = u[i] /\ DOMAIN t = 1..Len(t)
      <3>1. /\ t \in Seq(Steps) /\ DOMAIN t = 1..(Len(u) - 1) /\ DOMAIN u = 1..Len(u)
            /\ Len(u) \in Nat \ {0} /\ Len(t) = Len(u) - 1
            /\ \A k \in DOMAIN t : t[k] = u[k + 1]
        BY <1>3, TailAt
      <3>2. i - 1 \in DOMAIN t /\ (i - 1) + 1 = i  BY <1>3, <1>5, <3>1
      <3> QED BY <3>1, <3>2
    <2> HIDE DEF t
    <2>2. Len(r) + (i - 1) \in DOMAIN (r \o t) /\ (r \o t)[Len(r) + (i - 1)] = t[i - 1]
      <3>1. /\ Len(r) \in Nat /\ Len(t) \in Nat /\ DOMAIN (r \o t) = 1..(Len(r) + Len(t))
            /\ \A k \in 1..Len(t) : (r \o t)[Len(r) + k] = t[k]
        BY <1>5, <2>1, ConcatAt
      <3> QED BY <2>1, <3>1
    <2>3. \E k \in DOMAIN todo'[p] : Tells(todo'[p][k], s, q)
      <3>1. todo'[p] = r \o t  BY <1>5 DEF t
      <3> QED BY <1>3, <2>1, <2>2, <3>1
    <2> QED BY <2>3 DEF Pending, Tells
  <1>6. ASSUME NEW r, NEW L \in SUBSET Stored, Moves(p, r, L), Puts(p, r)
        PROVE  Pending(s, q)'
    <2>1. r \in Seq(Steps) /\ todo'[p] = r \o Tail(u)  BY <1>0, <1>3, <1>6, PutsSteps DEF Moves
    <2>2. todo[p][1].do # "consumer"  BY <1>6 DEF Puts
    <2>3. i # 1  BY <1>2, <2>2 DEF Tells
    <2> QED BY <1>5, <2>1, <2>3
  <1>7. ASSUME todo'[p] = Tail(u), i # 1  PROVE Pending(s, q)'
    <2>1. << >> \in Seq(Steps) /\ << >> \o Tail(u) = Tail(u)  BY <1>3, TailAt
    <2>2. todo'[p] = << >> \o Tail(u)  BY <1>7, <2>1
    <2> QED BY <1>5, <1>7, <2>1, <2>2
  <1>8. ASSUME NEW r, Writes(p, r)
        PROVE  Pending(s, q)' \/ (Writes(p, r) /\ Tells(todo[p][1], s, q))
    <2>1. todo'[p] = Tail(u)  BY <1>8, WriteStores
    <2>2. CASE i = 1  BY <1>2, <1>8, <2>2
    <2>3. CASE i # 1  BY <1>7, <2>1, <2>3
    <2> QED BY <2>2, <2>3
  <1>9. ASSUME Remove(p)  PROVE Pending(s, q)'
    <2>1. todo'[p] = Tail(u) /\ todo[p][1].do = "remove"  BY <1>0, <1>9 DEF Remove, Ready, Done
    <2>2. i # 1  BY <1>2, <2>1 DEF Tells
    <2> QED BY <1>7, <2>1, <2>2
  <1>10. ASSUME Breaks(p) \/ Crash(p)  PROVE FALSE
    <2>1. Busy(p) \subseteq doubt'  BY <1>10 DEF Breaks, Raise, Crash
    <2>2. q \in Busy(p)  BY <1>2 DEF Busy, StepOn, Tells
    <2> QED BY <2>1, <2>2
  <1>11. ASSUME \/ \E t \in Services : Create(p, t) \/ Delete(p, t)
                \/ \E t, v \in Services : Consume(p, t, v)
         PROVE  FALSE
    BY <1>3, <1>11 DEF Create, Delete, Consume, Begin, Idle
  <1>12. ASSUME NEW o \in Procs, p # o,
                \/ \E t \in Services : Load(o, t) \/ Create(o, t) \/ Delete(o, t)
                \/ \E t, v \in Services : Consume(o, t, v)
                \/ Breaks(o)
                \/ \E r : \E L \in SUBSET Stored : Moves(o, r, L) /\ Puts(o, r)
                \/ \E r : Writes(o, r)
                \/ Remove(o) \/ Crash(o)
         PROVE  todo'[p] = todo[p]
    BY <1>0, <1>12
    DEF Load, Create, Consume, Delete, Begin, Breaks, Raise, Moves, Writes, SetRecord, Done,
        Remove, Crash
  <1>13. ASSUME \/ UNCHANGED vars
                \/ \E o \in Procs : Index(o) \/ Erase(o) \/ \E t \in Services : Load(o, t)
         PROVE  todo'[p] = todo[p]
    BY <1>13 DEF Index, Erase, Load, vars
  <1> QED
    BY <1>4, <1>6, <1>8, <1>9, <1>10, <1>11, <1>12, <1>13, Kinds

\* A record that is changed and stays is written.
LEMMA OnlyWrites ==
  ASSUME GraphAssumption, TInv, [Next]_vars, NEW s \in Stored', record'[s] # record[s]
  PROVE  \E p \in Procs : \E r : Writes(p, r) /\ Of(p) = s
  <1>0. DOMAIN record = Services /\ s \in Services  BY DEF TInv, SharedOK, Stored
  <1>1. ASSUME NEW p \in Procs, Erase(p)  PROVE FALSE
    <2>1. record' = [record EXCEPT ![mid[p].of] = Absent]  BY <1>1 DEF Erase
    <2>2. s = mid[p].of => record'[s] = Absent  BY <1>0, <2>1
    <2>3. s # mid[p].of => record'[s] = record[s]  BY <1>0, <2>1
    <2>4. record'[s] # Absent  BY DEF Stored
    <2> QED BY <2>2, <2>3, <2>4
  <1>2. ASSUME NEW p \in Procs, NEW r, Writes(p, r)  PROVE Of(p) = s
    <2>1. \A t \in Services \ {Of(p)} : record'[t] = record[t]  BY <1>2, WriteStores
    <2> QED BY <1>0, <2>1
  <1> QED
    BY <1>1, <1>2, Kinds
    DEF Load, Create, Consume, Delete, Begin, Breaks, Raise, Moves, Index, Remove, Crash, vars

\* A write that leaves no doubt is made with what was stored, if anything was,
\* and only of a service that was not deleted.
LEMMA Undoubted ==
  ASSUME GraphAssumption, TInv, FreshInv, GoneInv, NEW p \in Procs, NEW r, Writes(p, r),
         Of(p) \notin doubt'
  PROVE  /\ copy[p][Of(p)] = IF Of(p) \in Stored THEN record[Of(p)] ELSE [prods |-> {}, cons |-> {}]
         /\ Of(p) \notin gone \/ Of(p) \in Stored
  <1>1. Of(p) \in fresh[p] /\ Of(p) \notin doubt  BY WriteStores
  <1> QED BY <1>1 DEF FreshInv, GoneInv

LEMMA EndsNext ==
  ASSUME GraphAssumption, TInv, FreshInv, GoneInv, OrderInv, EndsInv, [Next]_vars
  PROVE  EndsInv'
  <1>0. Seen \subseteq Seen' /\ Linked \subseteq Linked' /\ doubt \subseteq doubt'  BY SeenGrows
  <1> DEFINE Told(s, q) == s \in record[q].cons \/ Pending(s, q)
  <1>1. ASSUME NEW s \in Stored \ doubt, NEW q \in record[s].prods, q \in Stored' \ doubt'
        PROVE  Told(s, q)'
    <2>1. q \in Seen /\ (q \in Stored \ doubt => Told(s, q)) /\ q \notin doubt
      BY <1>0, <1>1 DEF EndsInv
    <2>2. q \in Stored
      <3> SUFFICES ASSUME q \notin Stored  PROVE FALSE
        OBVIOUS
      <3>1. q \in gone  BY <2>1 DEF Seen
      <3>2. record'[q] # record[q]  BY <1>1 DEF Stored
      <3>3. PICK p \in Procs : \E r : Writes(p, r) /\ Of(p) = q  BY <1>1, <3>2, OnlyWrites
      <3> QED BY <1>1, <3>1, <3>3, Undoubted
    <2>3. Told(s, q)  BY <2>1, <2>2
    <2>4. CASE s \in record[q].cons
      <3>1. CASE record'[q] = record[q]  BY <2>4, <3>1
      <3>2. CASE record'[q] # record[q]
        <4>1. PICK p \in Procs : \E r : Writes(p, r) /\ Of(p) = q  BY <1>1, <3>2, OnlyWrites
        <4>2. PICK r : Writes(p, r) /\ Of(p) = q  BY <4>1
        <4>3. Of(p) = q /\ record'[Of(p)] = r  BY <4>2, WriteStores
        <4>5. copy[p][q] = record[q]  BY <1>1, <2>2, <4>2, <4>3, Undoubted
        <4>4. s \in r.cons  BY <2>4, <4>2, <4>3, <4>5 DEF Writes
        <4> QED BY <4>3, <4>4
      <3> QED BY <3>1, <3>2
    <2>5. CASE Pending(s, q)
      <3>1. ASSUME NEW p \in Procs, NEW r, Writes(p, r), Tells(todo[p][1], s, q)
            PROVE  s \in record'[q].cons
        <4>1. Of(p) = q /\ todo[p][1].do = "consumer" /\ s \in With(p)
          BY <3>1 DEF Tells, Of, With
        <4>2. record'[q] = r  BY <3>1, <4>1, WriteStores
        <4> QED BY <3>1, <4>1, <4>2 DEF Writes
      <3>2. \/ Pending(s, q)'
            \/ \E p \in Procs : \E r : Writes(p, r) /\ Tells(todo[p][1], s, q)
        BY <1>1, <2>5, PendingKept
      <3> QED BY <3>1, <3>2
    <2> QED BY <2>3, <2>4, <2>5
  <1>2. SUFFICES ASSUME NEW s \in Stored' \ doubt'
                 PROVE  /\ \A t \in record'[s].cons : <<t, s>> \in Linked'
                        /\ \A q \in record'[s].prods :
                             q \in Seen' /\ (q \in Stored' \ doubt' => Told(s, q)')
    BY DEF EndsInv
  <1>3. CASE record'[s] = record[s]
    <2>1. s \in Stored \ doubt  BY <1>0, <1>2, <1>3 DEF Stored
    <2> QED BY <1>0, <1>1, <1>3, <2>1 DEF EndsInv
  <1>4. CASE record'[s] # record[s]
    <2>1. PICK p \in Procs : \E r : Writes(p, r) /\ Of(p) = s  BY <1>2, <1>4, OnlyWrites
    <2>2. PICK r : Writes(p, r) /\ Of(p) = s  BY <2>1
    <2> DEFINE c == copy[p][s]
               u == todo[p]
    <2>3. /\ record'[s] = r /\ u # << >>
          /\ c = IF s \in Stored THEN record[s] ELSE [prods |-> {}, cons |-> {}]
          /\ r.prods = c.prods \cup (IF u[1].do = "producer" THEN u[1].with ELSE {})
          /\ r.cons = c.cons \cup (IF u[1].do = "consumer" THEN u[1].with ELSE {})
          /\ u[1].of = s
      <3>1. record'[Of(p)] = r /\ Of(p) = s  BY <2>2, WriteStores
      <3>2. c = IF s \in Stored THEN record[s] ELSE [prods |-> {}, cons |-> {}]
        BY <1>2, <2>2, Undoubted
      <3> QED BY <2>2, <3>1, <3>2 DEF Writes, Of, With
    <2>4. u \in Seq(Steps) /\ todo'[p] = Tail(u)  BY <2>2, SameAt, WriteStores
    <2>5. Orderly(u, Seen, Linked)  BY DEF OrderInv
    <2> HIDE DEF u, c
    <2>6. 1 \in DOMAIN u /\ DOMAIN u \subseteq Nat \ {0}  BY <2>3, <2>4
    <2>7. s \notin doubt  BY <1>0, <1>2
    <2>8. ASSUME NEW t \in record'[s].cons  PROVE <<t, s>> \in Linked'
      <3>1. CASE t \in c.cons
        <4>1. s \in Stored /\ t \in record[s].cons  BY <2>3, <3>1
        <4> QED BY <1>0, <2>7, <4>1 DEF EndsInv
      <3>2. CASE t \notin c.cons
        <4>1. u[1].do = "consumer" /\ t \in u[1].with  BY <2>3, <2>8, <3>2
        <4>2. <<t, s>> \in Linked \/ \E j \in DOMAIN u : j < 1
          BY <2>3, <2>5, <2>6, <4>1 DEF Orderly
        <4> QED BY <1>0, <2>6, <4>2
      <3> QED BY <3>1, <3>2
    <2>9. ASSUME NEW q \in record'[s].prods
          PROVE  q \in Seen' /\ (q \in Stored' \ doubt' => Told(s, q)')
      <3>1. CASE q \in c.prods
        <4>1. s \in Stored \ doubt /\ q \in record[s].prods  BY <2>3, <2>7, <3>1
        <4> QED BY <1>0, <1>1, <4>1 DEF EndsInv
      <3>2. CASE q \notin c.prods
        <4>1. u[1].do = "producer" /\ q \in u[1].with  BY <2>3, <2>9, <3>2
        <4>2. q \in Seen \/ \E j \in DOMAIN u : j < 1
          BY <2>5, <2>6, <4>1 DEF Orderly
        <4>3. q \in Seen'  BY <1>0, <2>6, <4>2
        <4>4. PICK j \in DOMAIN u : j > 1 /\ Tells(u[j], s, q)
          BY <2>3, <2>5, <2>6, <4>1 DEF Orderly, Tells
        <4>5. j - 1 \in DOMAIN Tail(u) /\ Tail(u)[j - 1] = u[j]
          <5>1. /\ DOMAIN Tail(u) = 1..(Len(u) - 1) /\ DOMAIN u = 1..Len(u) /\ Len(u) \in Nat \ {0}
                /\ \A k \in DOMAIN Tail(u) : Tail(u)[k] = u[k + 1]
            BY <2>3, <2>4, TailAt
          <5>2. j - 1 \in 1..(Len(u) - 1) /\ (j - 1) + 1 = j  BY <4>4, <5>1
          <5> QED BY <5>1, <5>2
        <4>6. \E k \in DOMAIN todo'[p] : Tells(todo'[p][k], s, q)  BY <2>4, <4>4, <4>5
        <4>7. Pending(s, q)'  BY <4>6 DEF Pending, Tells
        <4> QED BY <4>3, <4>7
      <3> QED BY <3>1, <3>2
    <2> QED BY <2>8, <2>9
  <1> QED BY <1>3, <1>4

\* What the agreement of the ends rests on.
LinkInv == TInv /\ GoneInv /\ FreshInv /\ KnownInv /\ CreatingInv /\ OrderInv /\ EndsInv

LEMMA InitLinks ==
  ASSUME GraphAssumption, Init
  PROVE  LinkInv
  <1>0. PICK E \in SUBSET Services :
              /\ \A s \in E : Asked(s) \subseteq E
              /\ \E links \in SUBSET Consumed : Created(E, links)
    BY DEF Init
  <1>1. PICK links \in SUBSET Consumed : Created(E, links)  BY <1>0
  <1> DEFINE prods(s) == Asked(s) \cup {q \in E : <<s, q>> \in links}
  <1>2. \A s \in E : prods(s) \subseteq E  BY <1>0
  <1>3. /\ known = E /\ DOMAIN record = Services
        /\ \A s \in Services : record[s] = IF s \in E THEN [prods |-> prods(s), cons |-> {t \in E : s \in prods(t)}]
                                           ELSE Absent
    BY <1>1 DEF Created
  <1> HIDE DEF prods
  <1>4. /\ todo = [p \in Procs |-> << >>] /\ mid = [p \in Procs |-> None]
        /\ creating = [p \in Procs |-> Nobody] /\ copy = [p \in Procs |-> [s \in Services |-> Absent]]
        /\ fresh = [p \in Procs |-> {}] /\ gone = {}
    BY DEF Init
  <1>5. TInv  BY InitTypes
  <1>6. Stored = E
    <2>1. ASSUME NEW s \in E  PROVE record[s] # Absent
      <3>1. s \in Services /\ prods(s) \subseteq Services  BY <1>2, <2>1
      <3>2. record[s] \in Relations  BY <1>3, <2>1, <3>1 DEF Relations
      <3> QED BY <3>2, GraphAssumption DEF GraphAssumption
    <2> QED BY <1>3, <2>1 DEF Stored
  <1>7. GoneInv  BY <1>4 DEF GoneInv
  <1>8. FreshInv  BY <1>4 DEF FreshInv
  <1>9. KnownInv  BY <1>3, <1>4, <1>6 DEF KnownInv, Seen
  <1>10. CreatingInv  BY <1>4 DEF CreatingInv
  <1>11. OrderInv
    <2>1. \A p \in Procs : todo[p] = << >>  BY <1>4
    <2> QED BY <2>1 DEF OrderInv, Orderly
  <1>12. EndsInv
    <2>1. ASSUME NEW s \in E, NEW t \in record[s].cons  PROVE <<t, s>> \in Linked
      <3>1. t \in E /\ s \in prods(t)  BY <1>3, <2>1
      <3>2. s \in record[t].prods  BY <1>3, <3>1
      <3> QED BY <1>6, <2>1, <3>1, <3>2 DEF Linked
    <2>2. ASSUME NEW s \in E, NEW q \in record[s].prods  PROVE q \in E /\ s \in record[q].cons
      <3>1. q \in prods(s) /\ q \in E  BY <1>2, <1>3, <2>2
      <3> QED BY <1>3, <2>2, <3>1
    <2> QED BY <1>6, <2>1, <2>2 DEF EndsInv, Seen
  <1> QED BY <1>5, <1>7, <1>8, <1>9, <1>10, <1>11, <1>12 DEF LinkInv

LEMMA LinksNext ==
  ASSUME GraphAssumption, LinkInv, [Next]_vars
  PROVE  LinkInv'
  <1>1. DomainInv  BY DEF LinkInv, TInv, SharedOK, LocalOK, DomainInv
  <1>2. GoneInv'  BY <1>1, GoneNext DEF LinkInv
  <1> QED BY <1>2, TypesNext, FreshNext, KnownNext, CreatingNext, OrderNext, EndsNext DEF LinkInv

LEMMA LinksInvariant == Spec => []LinkInv
  <1>1. Init => LinkInv  BY GraphAssumption, InitLinks
  <1>2. LinkInv /\ [Next]_vars => LinkInv'  BY GraphAssumption, LinksNext
  <1> QED BY <1>1, <1>2, PTL DEF Spec

\* Once the operations that concern them are over, a service names another as
\* its producer exactly when that one names it as a consumer.
THEOREM BothEndsAgree == Spec => []EndsAgree
  <1>1. ASSUME LinkInv  PROVE EndsAgree
    <2>1. SUFFICES ASSUME NEW s \in Stored \ doubt, NEW q \in Stored \ doubt, AtRest(q)
                   PROVE  q \in record[s].prods <=> s \in record[q].cons
      BY DEF EndsAgree
    <2>2. EndsInv /\ s \notin gone  BY <1>1 DEF LinkInv, GoneInv
    <2>3. ASSUME q \in record[s].prods  PROVE s \in record[q].cons
      <3>1. ~ Pending(s, q)  BY <2>1 DEF AtRest, Busy, StepOn, Pending, Tells
      <3> QED BY <2>2, <2>3, <3>1 DEF EndsInv
    <2>4. ASSUME s \in record[q].cons  PROVE q \in record[s].prods
      <3>1. <<s, q>> \in Linked  BY <2>2, <2>4 DEF EndsInv
      <3> QED BY <2>2, <3>1 DEF Linked
    <2> QED BY <2>3, <2>4
  <1> QED BY <1>1, LinksInvariant, PTL

-----------------------------------------------------------------------------
(***************************************************************************)
(* The names in a record, and in every copy that may become one, are those *)
(* of services that were stored.                                           *)
(***************************************************************************)
Names(r) == r.prods \cup r.cons

NamesInv ==
  /\ \A s \in Stored : Names(record[s]) \subseteq Seen
  /\ \A p \in Procs : \A s \in Services : copy[p][s] # Absent => Names(copy[p][s]) \subseteq Seen

\* A write names what its copy does and what its step adds, which was stored.
LEMMA WriteNames ==
  ASSUME TInv, OrderInv, NamesInv, NEW p \in Procs, NEW r, Writes(p, r)
  PROVE  Names(r) \subseteq Seen
  <1>1. todo[p] \in Seq(Steps) /\ todo[p] # << >> /\ Of(p) \in Services /\ With(p) \subseteq Services
        /\ copy[p][Of(p)] # Absent
    BY AtStep DEF Writes, Uses
  <1>2. 1 \in DOMAIN todo[p] /\ ~ \E j \in DOMAIN todo[p] : j < 1  BY <1>1
  <1>3. Names(copy[p][Of(p)]) \subseteq Seen  BY <1>1 DEF NamesInv
  <1>4. ASSUME todo[p][1].do \in {"producer", "consumer"}  PROVE With(p) \subseteq Seen
    <2>1. Orderly(todo[p], Seen, Linked)  BY DEF OrderInv
    <2>2. CASE todo[p][1].do = "producer"
      BY <1>2, <2>1, <2>2 DEF Orderly, With
    <2>3. CASE todo[p][1].do = "consumer"
      <3>1. \A t \in With(p) : <<t, Of(p)>> \in Linked
        BY <1>2, <2>1, <2>3 DEF Orderly, With, Of
      <3> QED BY <3>1 DEF Linked, Seen
    <2> QED BY <1>4, <2>2, <2>3
  <1> QED BY <1>3, <1>4 DEF Writes, Names

LEMMA NamesNext ==
  ASSUME GraphAssumption, TInv, FreshInv, OrderInv, NamesInv, [Next]_vars
  PROVE  NamesInv'
  <1> DEFINE Good(r) == Names(r) \subseteq Seen'
  <1>0. /\ Seen \subseteq Seen' /\ copy \in [Procs -> Copies] /\ \A o \in Procs : copy[o] \in Copies
    BY SeenGrows DEF TInv, LocalOK
  <1>1. /\ \A s \in Stored : Good(record[s])
        /\ \A o \in Procs : \A s \in Services : copy[o][s] # Absent => Good(copy[o][s])
    BY <1>0 DEF NamesInv
  <1>2. ASSUME NEW s \in Stored'  PROVE Good(record'[s])
    <2>1. CASE record'[s] = record[s]
      <3>1. s \in Stored  BY <1>2, <2>1 DEF Stored
      <3> QED BY <1>1, <2>1, <3>1
    <2>2. CASE record'[s] # record[s]
      <3>1. PICK p \in Procs : \E r : Writes(p, r) /\ Of(p) = s  BY <1>2, <2>2, OnlyWrites
      <3>2. PICK r : Writes(p, r) /\ Of(p) = s  BY <3>1
      <3>3. record'[s] = r  BY <3>2, WriteStores
      <3>4. Names(r) \subseteq Seen  BY <3>2, WriteNames
      <3> QED BY <1>0, <3>3, <3>4
    <2> QED BY <2>1, <2>2
  <1> DEFINE Copied(o, s) == copy'[o][s] # Absent => Good(copy'[o][s])
  <1>3. ASSUME NEW o \in Procs, NEW s \in Services, copy'[o][s] = copy[o][s]  PROVE Copied(o, s)
    BY <1>1, <1>3
  <1>4. ASSUME NEW p \in Procs, NEW t \in Services, Load(p, t), NEW o \in Procs, NEW s \in Services
        PROVE  Copied(o, s)
    <2>1. t \in Stored /\ copy' = [copy EXCEPT ![p][t] = record[t]]  BY <1>4 DEF Load
    <2>2. CASE o = p /\ s = t
      <3>1. copy'[o][s] = record[t]  BY <1>0, <2>1, <2>2 DEF Copies
      <3> QED BY <1>1, <2>1, <3>1
    <2>3. CASE ~ (o = p /\ s = t)
      <3>1. copy'[o][s] = copy[o][s]  BY <1>0, <2>1, <2>3 DEF Copies
      <3> QED BY <1>3, <3>1
    <2> QED BY <2>2, <2>3
  <1>5. ASSUME NEW p \in Procs, NEW t \in Services, Create(p, t), NEW o \in Procs, NEW s \in Services
        PROVE  Copied(o, s)
    <2> DEFINE new == [prods |-> {}, cons |-> {}]
    <2>1. copy' = [copy EXCEPT ![p][t] = new]  BY <1>5 DEF Create
    <2>2. Good(new)  BY DEF Names
    <2> HIDE DEF new
    <2>3. CASE o = p /\ s = t
      <3>1. copy'[o][s] = new  BY <1>0, <2>1, <2>3 DEF Copies
      <3> QED BY <2>2, <3>1
    <2>4. CASE ~ (o = p /\ s = t)
      <3>1. copy'[o][s] = copy[o][s]  BY <1>0, <2>1, <2>4 DEF Copies
      <3> QED BY <1>3, <3>1
    <2> QED BY <2>3, <2>4
  <1>6. ASSUME NEW p \in Procs, NEW r, NEW L \in SUBSET Stored, Moves(p, r, L),
               NEW o \in Procs, NEW s \in Services
        PROVE  Copied(o, s)
    <2>1. copy' = [copy EXCEPT ![p] = [c \in Services |-> IF c \in L THEN record[c] ELSE @[c]]]
      BY <1>6 DEF Moves
    <2>2. CASE o = p /\ s \in L
      <3>1. copy'[o][s] = record[s] /\ s \in Stored  BY <1>0, <2>1, <2>2
      <3> QED BY <1>1, <3>1
    <2>3. CASE ~ (o = p /\ s \in L)
      <3>1. copy'[o][s] = copy[o][s]  BY <1>0, <2>1, <2>3
      <3> QED BY <1>3, <3>1
    <2> QED BY <2>2, <2>3
  <1>7. ASSUME NEW p \in Procs, NEW r, Writes(p, r), NEW o \in Procs, NEW s \in Services
        PROVE  Copied(o, s)
    <2>1. /\ copy'[p][Of(p)] = r
          /\ \A u \in Services \ {Of(p)} : copy'[p][u] = copy[p][u]
          /\ \A q \in Procs \ {p} : copy'[q] = copy[q]
      BY <1>7, WriteStores
    <2>2. CASE o = p /\ s = Of(p)
      <3>1. Names(r) \subseteq Seen  BY <1>7, WriteNames
      <3> QED BY <1>0, <2>1, <2>2, <3>1
    <2>3. CASE ~ (o = p /\ s = Of(p))
      <3>1. copy'[o][s] = copy[o][s]  BY <2>1, <2>3
      <3> QED BY <1>3, <3>1
    <2> QED BY <2>2, <2>3
  <1>8. ASSUME NEW p \in Procs, Crash(p), NEW o \in Procs, NEW s \in Services
        PROVE  Copied(o, s)
    <2>1. copy' = [copy EXCEPT ![p] = [t \in Services |-> Absent]]  BY <1>8 DEF Crash
    <2>2. CASE o = p  BY <1>0, <2>1, <2>2
    <2>3. CASE o # p
      <3>1. copy'[o][s] = copy[o][s]  BY <1>0, <2>1, <2>3
      <3> QED BY <1>3, <3>1
    <2> QED BY <2>2, <2>3
  <1>9. ASSUME copy' = copy, NEW o \in Procs, NEW s \in Services  PROVE Copied(o, s)
    BY <1>3, <1>9
  <1>10. \A o \in Procs : \A s \in Services : Copied(o, s)
    BY <1>4, <1>5, <1>6, <1>7, <1>8, <1>9, Kinds
    DEF Delete, Consume, Breaks, Raise, Index, Remove, Erase, vars
  <1> QED BY <1>2, <1>10 DEF NamesInv

LEMMA InitNames ==
  ASSUME GraphAssumption, Init
  PROVE  NamesInv
  <1>0. PICK E \in SUBSET Services :
              /\ \A s \in E : Asked(s) \subseteq E
              /\ \E links \in SUBSET Consumed : Created(E, links)
    BY DEF Init
  <1>1. PICK links \in SUBSET Consumed : Created(E, links)  BY <1>0
  <1> DEFINE prods(s) == Asked(s) \cup {q \in E : <<s, q>> \in links}
  <1>2. \A s \in E : prods(s) \subseteq E  BY <1>0
  <1>3. \A s \in Services : record[s] = IF s \in E THEN [prods |-> prods(s), cons |-> {t \in E : s \in prods(t)}]
                                         ELSE Absent
    BY <1>1 DEF Created
  <1> HIDE DEF prods
  <1>4. ASSUME NEW s \in E  PROVE Names(record[s]) \subseteq E
    <2>1. /\ record[s] = [prods |-> prods(s), cons |-> {t \in E : s \in prods(t)}]
          /\ prods(s) \subseteq E
      BY <1>2, <1>3, <1>4
    <2> QED BY <2>1 DEF Names
  <1>5. E = Stored
    <2>1. ASSUME NEW s \in E  PROVE record[s] # Absent
      <3> DEFINE consumers == {t \in E : s \in prods(t)}
      <3>1. /\ prods(s) \in SUBSET Services /\ consumers \in SUBSET Services
            /\ record[s] = [prods |-> prods(s), cons |-> consumers]
        BY <1>2, <1>3, <2>1
      <3> HIDE DEF consumers
      <3>2. record[s] \in Relations  BY <3>1 DEF Relations
      <3> QED BY <3>2, GraphAssumption DEF GraphAssumption
    <2> QED BY <1>3, <2>1 DEF Stored
  <1>6. \A p \in Procs : \A s \in Services : copy[p][s] = Absent  BY DEF Init
  <1> QED BY <1>4, <1>5, <1>6 DEF NamesInv, Seen

\* No record names a service that was never stored, whoever is interrupted
\* where; a creation that was cut short is the only way to be missing.
THEOREM NamesAreKnown == Spec => []NamesWereStored
  <1>1. Init => NamesInv  BY GraphAssumption, InitNames
  <1>2. LinkInv /\ NamesInv /\ [Next]_vars => NamesInv'
    BY GraphAssumption, NamesNext DEF LinkInv
  <1>3. NamesInv => NamesWereStored  BY DEF NamesInv, Names, Seen, NamesWereStored
  <1> QED BY <1>1, <1>2, <1>3, LinksInvariant, PTL DEF Spec

-----------------------------------------------------------------------------
(***************************************************************************)
(* Children go with their parent: before a service is removed, each of its *)
(* children is removed, or accounted for in another way.                   *)
(***************************************************************************)
\* The services whose record is about to be erased.
Doomed == {s \in Services : \E p \in Procs : mid[p] = [do |-> "erase", of |-> s]}
Settled == gone \cup late \cup doubt \cup Doomed
\* The services that no deletion has reached.
Rest == known \ Settled

\* A service that is stored can be found until something is done about it.
ListInv ==
  \A s \in Stored : s \in Listed \cup gone \cup doubt \cup Doomed \/ \E p \in Procs : creating[p] = s

\* The step x will remove c.
Covers(x, c) ==
  \/ x.do = "each" /\ c \in x.with
  \/ x.do = "remove" /\ x.of = c

\* Before these steps remove a service they look for its children, or else they
\* remove those that are left.
Swept(steps, rest) ==
  \A i \in DOMAIN steps : steps[i].do = "remove" =>
    \/ \E j \in DOMAIN steps : j < i /\ steps[j].do = "children" /\ steps[j].of = steps[i].of
    \/ \A c \in rest : Parent[c] = steps[i].of =>
         \E j \in DOMAIN steps : j < i /\ Covers(steps[j], c)

SweptInv ==
  /\ \A p \in Procs : Swept(todo[p], Rest)
  /\ \A c \in Rest : Parent[c] \notin Doomed

\* The parent of a service that no deletion has reached is there, or is about to
\* be looked for.
ParentInv ==
  \A c \in Rest : Parent[c] \notin {Nobody} \cup (Stored \cap Listed) =>
    \E p \in Procs : /\ creating[p] = c
                     /\ todo[p] # << >> /\ todo[p][1] = S("need", Parent[c], {})

LEMMA SettledGrows ==
  ASSUME GraphAssumption, TInv, FreshInv, [Next]_vars
  PROVE  /\ Doomed \subseteq Doomed' \cup gone' \cup doubt'
         /\ Settled \subseteq Settled'
  <1>0. /\ mid \in [Procs -> Halves \cup {None}]
        /\ known \subseteq known' /\ gone \subseteq gone' /\ doubt \subseteq doubt' /\ late \subseteq late'
    BY SeenGrows DEF TInv, LocalOK
  <1>1. ASSUME NEW s \in Doomed  PROVE s \in Doomed' \cup gone' \cup doubt'
    <2>1. PICK p \in Procs : mid[p] = [do |-> "erase", of |-> s]  BY DEF Doomed
    <2>2. mid[p].do = "erase" /\ mid[p].of = s /\ s \in Services  BY <2>1 DEF Doomed
    <2>3. mid[p] # None  BY <2>2 DEF None
    <2>4. CASE mid'[p] = mid[p]  BY <2>1, <2>2, <2>4 DEF Doomed
    <2>5. ASSUME Erase(p)  PROVE s \in gone'  BY <2>2, <2>5 DEF Erase
    <2>6. ASSUME Crash(p)  PROVE s \in doubt'
      <3>1. s \in Busy(p)  BY <2>2, <2>3 DEF Busy
      <3> QED BY <2>6, <3>1 DEF Crash
    <2>7. ASSUME Index(p) \/ Remove(p) \/ \E r : Writes(p, r)  PROVE FALSE
      BY <2>2, <2>3, <2>7 DEF Index, Remove, Ready, Writes
    <2>8. ASSUME NEW o \in Procs, o # p,
                 Index(o) \/ Remove(o) \/ Erase(o) \/ Crash(o) \/ \E r : Writes(o, r)
          PROVE  mid'[p] = mid[p]
      BY <1>0, <2>8 DEF Index, Remove, Erase, Crash, Writes, SetRecord
    <2> QED
      BY <2>4, <2>5, <2>6, <2>7, <2>8, Kinds
      DEF Load, Create, Consume, Delete, Begin, Breaks, Raise, Moves, vars
  <1> QED BY <1>0, <1>1 DEF Settled

\* A service joins the rest when its creation begins, and then its parent is not
\* being deleted.
LEMMA RestNext ==
  ASSUME GraphAssumption, TInv, FreshInv, [Next]_vars, NEW c \in Rest'
  PROVE  c \in Rest \/ /\ \E p \in Procs : Create(p, c)
                       /\ Parent[c] # Nobody => ~ Deleting(Parent[c])
  <1>1. c \in known' /\ c \notin Settled  BY SettledGrows DEF Rest
  <1>2. CASE c \in known  BY <1>1, <1>2 DEF Rest
  <1>3. CASE c \notin known
    <2>1. PICK p \in Procs : \E s \in Services : Create(p, s)
      BY <1>1, <1>3, Kinds
      DEF Load, Consume, Delete, Begin, Breaks, Raise, Moves, Writes, SetRecord, Index, Remove,
          Erase, Crash, vars
    <2>2. Create(p, c)  BY <1>1, <1>3, <2>1 DEF Create
    <2>3. c \notin late'  BY DEF Rest, Settled
    <2> QED BY <2>2, <2>3 DEF Create
  <1> QED BY <1>2, <1>3

LEMMA ListNext ==
  ASSUME GraphAssumption, TInv, FreshInv, KnownInv, CreatingInv, ListInv, [Next]_vars
  PROVE  ListInv'
  <1> DEFINE There(s) == s \in Listed \cup gone \cup doubt \cup Doomed \/ \E p \in Procs : creating[p] = s
  <1>0. /\ mid \in [Procs -> Halves \cup {None}]
        /\ gone \subseteq gone' /\ doubt \subseteq doubt' /\ Doomed \subseteq Doomed' \cup gone' \cup doubt'
    BY SeenGrows, SettledGrows DEF TInv, LocalOK
  <1>1. SUFFICES ASSUME NEW s \in Stored'  PROVE There(s)'
    BY DEF ListInv
  <1>2. s \in Services /\ s # Nobody  BY GraphAssumption DEF Stored, GraphAssumption
  <1>3. CASE s \in gone \cup doubt \cup Doomed  BY <1>0, <1>3
  <1>4. ASSUME NEW o \in Procs, creating[o] = s  PROVE There(s)'
    <2>1. CASE creating'[o] = s \/ s \in doubt'  BY <2>1
    <2>2. CASE Index(o) /\ mid[o] = [do |-> "index", of |-> s]
      <3>1. mid[o].of = s  BY <2>2
      <3>2. PICK e \in Entries(s, copy[o][s]) : e[1] = s  BY EntriesExist
      <3>3. e \in index'  BY <2>2, <3>1, <3>2 DEF Index
      <3>4. s \in Listed'  BY <3>2, <3>3 DEF Listed
      <3> QED BY <3>4
    <2> QED BY <1>2, <1>4, <2>1, <2>2, CreatingKept
  <1>5. CASE s \in Listed
    <2>1. CASE s \in Listed'  BY <2>1
    <2>2. CASE s \notin Listed'
      <3>0. PICK e \in index : e[1] = s  BY <1>5 DEF Listed
      <3>1. e \notin index'  BY <2>2, <3>0 DEF Listed
      <3>2. PICK p \in Procs : Remove(p)
        BY <3>1, Kinds
        DEF Load, Create, Consume, Delete, Begin, Breaks, Raise, Moves, Writes, SetRecord, Index,
            Erase, Crash, vars
      <3>3. Of(p) = s  BY <3>0, <3>1, <3>2 DEF Remove
      <3>4. mid'[p] = [do |-> "erase", of |-> s]  BY <1>0, <3>2, <3>3 DEF Remove
      <3>5. s \in Doomed'  BY <1>2, <3>4 DEF Doomed
      <3> QED BY <3>5
    <2> QED BY <2>1, <2>2
  <1>6. CASE s \notin Stored
    <2>1. record'[s] # record[s]  BY <1>2, <1>6 DEF Stored
    <2>2. PICK p \in Procs : \E r : Writes(p, r) /\ Of(p) = s  BY <2>1, OnlyWrites
    <2>3. copy[p][s] # Absent /\ creating' = creating
      BY <2>2, GraphAssumption DEF Writes, SetRecord, Done, GraphAssumption
    <2>4. s \in Seen \/ creating[p] = s  BY <1>2, <2>3 DEF KnownInv
    <2> QED BY <1>0, <1>6, <2>3, <2>4 DEF Seen
  <1> QED BY <1>3, <1>4, <1>5, <1>6 DEF ListInv

LEMMA SweptMore ==
  ASSUME NEW q, NEW A, NEW B, Swept(q, A),
         \A i \in DOMAIN q : q[i].do = "remove" => \A c \in B : Parent[c] = q[i].of => c \in A
  PROVE  Swept(q, B)
  BY DEF Swept

\* The first step is made, and puts the steps r before the others.
LEMMA SweptStep ==
  ASSUME NEW q \in Seq(Steps), q # << >>, NEW r \in Seq(Steps), NEW A, NEW B \in SUBSET A,
         Swept(q, A), Swept(r, B),
         q[1].do = "remove" => q[1].of \notin B,
         q[1].do = "each" => \A c \in q[1].with : \E j \in DOMAIN r : Covers(r[j], c),
         q[1].do = "children" =>
           \A c \in B : Parent[c] = q[1].of => \E j \in DOMAIN r : Covers(r[j], c)
  PROVE  Swept(r \o Tail(q), B)
  <1> DEFINE t == Tail(q)
             u == r \o t
             n == Len(r)
             m == Len(t)
  <1>1. /\ t \in Seq(Steps) /\ m \in Nat /\ DOMAIN t = 1..m /\ DOMAIN q = 1..(m + 1)
        /\ \A i \in 1..m : t[i] = q[i + 1]
    <2>1. /\ Len(q) \in Nat \ {0} /\ Len(t) = Len(q) - 1 /\ DOMAIN q = 1..Len(q)
          /\ t \in Seq(Steps) /\ DOMAIN t = 1..(Len(q) - 1)
          /\ \A i \in DOMAIN t : t[i] = q[i + 1]
      BY TailAt
    <2> QED BY <2>1
  <1> HIDE DEF t
  <1>2. /\ n \in Nat /\ DOMAIN r = 1..n /\ DOMAIN u = 1..(n + m)
        /\ \A i \in 1..n : u[i] = r[i]
        /\ \A i \in 1..m : u[n + i] = t[i]
    BY <1>1, ConcatAt
  <1> HIDE DEF u, n, m
  <1>3. ASSUME NEW j \in DOMAIN q, j # 1
        PROVE  n + (j - 1) \in DOMAIN u /\ u[n + (j - 1)] = q[j]
    <2>1. j - 1 \in 1..m /\ (j - 1) + 1 = j  BY <1>1, <1>3
    <2>2. n + (j - 1) \in 1..(n + m)  BY <1>1, <1>2, <2>1
    <2> QED BY <1>1, <1>2, <2>1, <2>2
  <1>4. ASSUME NEW i \in DOMAIN u, u[i].do = "remove"
        PROVE  \/ \E j \in DOMAIN u : j < i /\ u[j].do = "children" /\ u[j].of = u[i].of
               \/ \A c \in B : Parent[c] = u[i].of => \E j \in DOMAIN u : j < i /\ Covers(u[j], c)
    <2>1. CASE i \in 1..n
      <3>1. u[i] = r[i] /\ i \in DOMAIN r  BY <1>2, <2>1
      <3>2. \A j \in DOMAIN r : j \in DOMAIN u /\ u[j] = r[j]  BY <1>1, <1>2
      <3> QED BY <1>4, <3>1, <3>2 DEF Swept
    <2>2. CASE i \notin 1..n
      <3> DEFINE k == (i - n) + 1
      <3>1. k \in DOMAIN q /\ k # 1 /\ u[i] = q[k] /\ i = n + (k - 1)
        <4>1. i - n \in 1..m /\ n + (i - n) = i  BY <1>1, <1>2, <2>2
        <4>2. k \in DOMAIN q /\ k # 1 /\ k - 1 = i - n  BY <1>1, <4>1
        <4> QED BY <1>3, <4>1, <4>2
      <3> HIDE DEF k
      <3>2. \A j \in DOMAIN r : j \in DOMAIN u /\ u[j] = r[j] /\ j < i
        BY <1>1, <1>2, <2>2
      <3>3. ASSUME NEW j \in DOMAIN q, j < k, j # 1
            PROVE  n + (j - 1) \in DOMAIN u /\ u[n + (j - 1)] = q[j] /\ n + (j - 1) < i
        <4>1. n + (j - 1) < n + (k - 1)  BY <1>1, <1>2, <3>1, <3>3
        <4> QED BY <1>3, <3>1, <3>3, <4>1
      <3>4. ASSUME NEW j \in DOMAIN q, j < k, q[j].do = "children", q[j].of = q[k].of
            PROVE  \/ \E h \in DOMAIN u : h < i /\ u[h].do = "children" /\ u[h].of = u[i].of
                   \/ \A c \in B : Parent[c] = u[i].of => \E h \in DOMAIN u : h < i /\ Covers(u[h], c)
        <4>1. CASE j = 1
          <5>1. \A c \in B : Parent[c] = u[i].of => \E h \in DOMAIN r : Covers(r[h], c)
            BY <3>1, <3>4, <4>1
          <5> QED BY <3>2, <5>1
        <4>2. CASE j # 1  BY <3>1, <3>3, <3>4, <4>2
        <4> QED BY <4>1, <4>2
      <3>5. ASSUME \A c \in A : Parent[c] = q[k].of => \E j \in DOMAIN q : j < k /\ Covers(q[j], c),
                   NEW c \in B, Parent[c] = u[i].of
            PROVE  \E h \in DOMAIN u : h < i /\ Covers(u[h], c)
        <4>1. PICK j \in DOMAIN q : j < k /\ Covers(q[j], c)  BY <3>1, <3>5
        <4>2. CASE j = 1
          <5>1. q[1].do = "each" /\ c \in q[1].with  BY <3>5, <4>1, <4>2 DEF Covers
          <5> QED BY <3>2, <5>1
        <4>3. CASE j # 1  BY <3>3, <4>1, <4>3
        <4> QED BY <4>2, <4>3
      <3>6. \/ \E j \in DOMAIN q : j < k /\ q[j].do = "children" /\ q[j].of = q[k].of
            \/ \A c \in A : Parent[c] = q[k].of => \E j \in DOMAIN q : j < k /\ Covers(q[j], c)
        BY <1>4, <3>1 DEF Swept
      <3> QED BY <3>4, <3>5, <3>6
    <2> QED BY <2>1, <2>2
  <1>5. Swept(u, B)  BY <1>4 DEF Swept
  <1> QED BY <1>5 DEF u, t

\* Steps that remove nothing.
LEMMA NothingRemoved ==
  ASSUME NEW q, NEW B, \A i \in DOMAIN q : q[i].do # "remove"
  PROVE  Swept(q, B)
  BY DEF Swept

LEMMA PartsSwept ==
  ASSUME GraphAssumption, NEW s \in Services, NEW B
  PROVE  /\ Swept(DeleteSteps(s), B) /\ Swept(<< >>, B)
         /\ Swept(CreateSteps(s), B)
         /\ \A q \in Services : Swept(ConsumeSteps(s, q), B)
  <1>1. Swept(DeleteSteps(s), B)
    <2> DEFINE z == DeleteSteps(s)
    <2>1. /\ DOMAIN z = 1..3 /\ z[1].do = "look" /\ z[2].do = "children" /\ z[2].of = s
          /\ z[3].do = "remove" /\ z[3].of = s
      BY DEF DeleteSteps, S
    <2> HIDE DEF z
    <2>2. \A i \in DOMAIN z : i = 1 \/ i = 2 \/ i = 3  BY <2>1
    <2>3. 2 \in DOMAIN z /\ 2 < 3  BY <2>1
    <2>4. Swept(z, B)  BY <2>1, <2>2, <2>3 DEF Swept
    <2> QED BY <2>4 DEF z
  <1>2. Swept(<< >>, B)  BY DEF Swept
  <1>3. ASSUME NEW q \in Services  PROVE Swept(ConsumeSteps(s, q), B)
    <2> DEFINE z == ConsumeSteps(s, q)
    <2>1. DOMAIN z = 1..5 /\ \A i \in 1..5 : z[i].do # "remove"
      <3>1. /\ z[1].do # "remove" /\ z[2].do # "remove" /\ z[3].do # "remove"
            /\ z[4].do # "remove" /\ z[5].do # "remove"
            /\ DOMAIN z = 1..5
        BY DEF ConsumeSteps, S
      <3> HIDE DEF z
      <3> QED BY <3>1
    <2> HIDE DEF z
    <2>2. Swept(z, B)  BY <2>1, NothingRemoved
    <2> QED BY <2>2 DEF z
  <1>4. Swept(CreateSteps(s), B)
    <2> DEFINE h == IF Parent[s] = Nobody THEN << >> ELSE <<S("need", Parent[s], {})>>
               w == S("wants", s, Wants[s])
               v == S("parent", s, {})
               a == S("store", s, {})
               b == S("reload", s, {})
               e == <<w, v, a, b, a>>
    <2>1. h \in Seq(Steps) /\ \A i \in DOMAIN h : h[i].do # "remove"
      <3>1. CASE Parent[s] = Nobody  BY <3>1
      <3>2. CASE Parent[s] # Nobody
        <4>1. Parent[s] \in Services  BY <3>2, GraphAssumption DEF GraphAssumption
        <4> DEFINE x == S("need", Parent[s], {})
        <4>2. x \in Steps /\ x.do # "remove" /\ h = <<x>>  BY <3>2, <4>1 DEF S, Steps
        <4> HIDE DEF h, x
        <4> QED BY <4>2
      <3> QED BY <3>1, <3>2
    <2>2. e \in Seq(Steps) /\ \A i \in DOMAIN e : e[i].do # "remove"
      <3>1. /\ w \in Steps /\ v \in Steps /\ a \in Steps /\ b \in Steps
            /\ w.do # "remove" /\ v.do # "remove" /\ a.do # "remove" /\ b.do # "remove"
        BY GraphAssumption DEF GraphAssumption, S, Steps
      <3> HIDE DEF w, v, a, b
      <3> QED BY <3>1
    <2>3. CreateSteps(s) = h \o e  BY DEF CreateSteps
    <2> HIDE DEF h, e
    <2>4. ASSUME NEW i \in DOMAIN (h \o e)  PROVE (h \o e)[i].do # "remove"
      <3>1. /\ Len(h) \in Nat /\ Len(e) \in Nat /\ DOMAIN (h \o e) = 1..(Len(h) + Len(e))
            /\ DOMAIN h = 1..Len(h) /\ DOMAIN e = 1..Len(e)
            /\ \A k \in 1..Len(h) : (h \o e)[k] = h[k]
            /\ \A k \in 1..Len(e) : (h \o e)[Len(h) + k] = e[k]
        BY <2>1, <2>2, ConcatAt
      <3>2. CASE i \in 1..Len(h)  BY <2>1, <3>1, <3>2
      <3>3. CASE i \notin 1..Len(h)
        <4>1. i - Len(h) \in 1..Len(e) /\ Len(h) + (i - Len(h)) = i  BY <2>4, <3>1, <3>3
        <4> QED BY <2>2, <3>1, <4>1
      <3> QED BY <3>2, <3>3
    <2> QED BY <2>3, <2>4, NothingRemoved
  <1> QED BY <1>1, <1>2, <1>3, <1>4

\* The steps that are put before the others see to the children of the step that
\* is made.
LEMMA PutsSwept ==
  ASSUME GraphAssumption, TInv, FreshInv, KnownInv, ListInv, ParentInv, [Next]_vars,
         NEW p \in Procs, NEW r, NEW L \in SUBSET Stored, Moves(p, r, L), Puts(p, r)
  PROVE  /\ Swept(r, Rest')
         /\ todo[p][1].do = "each" => \A c \in With(p) : \E j \in DOMAIN r : Covers(r[j], c)
         /\ todo[p][1].do = "children" =>
              \A c \in Rest' : Parent[c] = Of(p) => \E j \in DOMAIN r : Covers(r[j], c)
  <1>1. /\ todo[p] # << >> /\ Of(p) \in Services /\ With(p) \subseteq Services
        /\ known' = known /\ late \subseteq late'
    BY AtStep DEF Moves
  <1>2. CASE /\ todo[p][1].do \in {"need", "wants", "parent", "producers", "look", "each", "reload"}
             /\ todo[p][1].do = "each" => With(p) = {}
             /\ r = << >>
    BY <1>1, <1>2, PartsSwept
  <1>3. ASSUME todo[p][1].do \in {"wants", "parent"}, NEW q \in Services,
               NEW W \in SUBSET Services, r \in Plans(Of(p), q, W)
        PROVE  Swept(r, Rest')
    <2>1. \A i \in DOMAIN r : r[i].do # "remove"
      <3>1. PlanLike(r, Of(p), q, W)  BY <1>1, <1>3, PlansAre
      <3>2. \A i \in {1, 2, 3, 4} : r[i].do # "remove"  BY <3>1 DEF PlanLike, S
      <3> QED BY <3>1, <3>2 DEF PlanLike
    <2> QED BY <2>1, NothingRemoved
  <1>4. ASSUME todo[p][1].do = "each", NEW q \in With(p),
               r = DeleteSteps(q) \o <<S("each", Of(p), With(p) \ {q})>>
        PROVE  /\ Swept(r, Rest')
               /\ \A c \in With(p) : \E j \in DOMAIN r : Covers(r[j], c)
    <2> DEFINE x == S("each", Of(p), With(p) \ {q})
               a == S("look", q, {})
               b == S("children", q, {})
               e == S("remove", q, {})
    <2>1. /\ a \in Steps /\ b \in Steps /\ e \in Steps /\ x \in Steps
          /\ a.do # "remove" /\ x.do # "remove"
          /\ b.do = "children" /\ b.of = q /\ e.do = "remove" /\ e.of = q
          /\ x.do = "each" /\ x.with = With(p) \ {q}
      BY <1>1, <1>4 DEF S, Steps
    <2>2. r = <<a, b, e>> \o <<x>>  BY <1>4 DEF DeleteSteps
    <2> HIDE DEF a, b, e, x
    <2>3. DOMAIN r = {1, 2, 3, 4} /\ r[1] = a /\ r[2] = b /\ r[3] = e /\ r[4] = x
      BY <2>1, <2>2, FourSteps
    <2>4. Swept(r, Rest')
      <3>1. \A i \in DOMAIN r : r[i].do = "remove" => i = 3  BY <2>1, <2>3
      <3>2. 2 \in DOMAIN r /\ 2 < 3  BY <2>3
      <3> QED BY <2>1, <2>3, <3>1, <3>2 DEF Swept
    <2>5. ASSUME NEW c \in With(p)  PROVE \E j \in DOMAIN r : Covers(r[j], c)
      <3>1. CASE c = q  BY <2>1, <2>3, <3>1 DEF Covers
      <3>2. CASE c # q  BY <2>1, <2>3, <3>2 DEF Covers
      <3> QED BY <3>1, <3>2
    <2> QED BY <2>4, <2>5
  <1>5. ASSUME todo[p][1].do = "children", r = <<S("each", Of(p), Found(p))>>,
               {c \in known : Parent[c] = Of(p) /\ \E o \in Procs : creating[o] = c} \subseteq late'
        PROVE  /\ Swept(r, Rest')
               /\ \A c \in Rest' : Parent[c] = Of(p) => \E j \in DOMAIN r : Covers(r[j], c)
    <2> DEFINE x == S("each", Of(p), Found(p))
    <2>1. x.do = "each" /\ x.with = Found(p) /\ r = <<x>>  BY <1>5 DEF S
    <2> HIDE DEF x
    <2>2. DOMAIN r = {1} /\ r[1] = x  BY <2>1
    <2>3. Swept(r, Rest')  BY <2>1, <2>2, NothingRemoved
    <2>4. ASSUME NEW c \in Rest', Parent[c] = Of(p)  PROVE c \in Found(p)
      <3>1. c \in known /\ c \notin late' /\ c \notin Settled  BY <1>1, SettledGrows DEF Rest, Settled
      <3>2. c \in Services /\ Of(p) # Nobody  BY <1>1, <3>1, GraphAssumption DEF GraphAssumption, TInv, SharedOK
      <3>3. ~ \E o \in Procs : creating[o] = c  BY <1>5, <2>4, <3>1
      <3>4. c \in Stored  BY <3>1, <3>3 DEF KnownInv, Seen, Settled
      <3>5. c \in Listed  BY <3>1, <3>3, <3>4 DEF ListInv, Settled
      <3>6. c \in Rest  BY <3>1 DEF Rest
      <3>7. Parent[c] \in Stored \cap Listed  BY <2>4, <3>2, <3>3, <3>6 DEF ParentInv
      <3> QED BY <2>4, <3>2, <3>5, <3>7 DEF Found
    <2> QED BY <2>1, <2>2, <2>3, <2>4 DEF Covers
  <1> QED BY <1>2, <1>3, <1>4, <1>5 DEF Puts

LEMMA SweptNext ==
  ASSUME GraphAssumption, TInv, FreshInv, KnownInv, ListInv, SweptInv, ParentInv, [Next]_vars
  PROVE  SweptInv'
  <1>0. /\ todo \in [Procs -> Seq(Steps)] /\ \A o \in Procs : todo[o] \in Seq(Steps)
        /\ mid \in [Procs -> Halves \cup {None}]
        /\ \A s \in Services : s # Nobody
        /\ Settled \subseteq Settled' /\ known \subseteq Services
    BY SettledGrows, GraphAssumption DEF TInv, LocalOK, SharedOK, GraphAssumption
  <1>1. ASSUME known' = known  PROVE Rest' \subseteq Rest
    BY <1>0, <1>1 DEF Rest
  <1>2. ASSUME NEW o \in Procs, todo'[o] = todo[o]  PROVE Swept(todo'[o], Rest')
    <2>1. Swept(todo[o], Rest)  BY DEF SweptInv
    <2>2. ASSUME NEW i \in DOMAIN todo[o], todo[o][i].do = "remove", NEW c \in Rest',
                 Parent[c] = todo[o][i].of
          PROVE  c \in Rest
      <3>1. todo[o][i] \in Steps  BY <1>0
      <3>2. Parent[c] \in Services  BY <2>2, <3>1 DEF Steps
      <3>3. Deleting(Parent[c])  BY <2>2 DEF Deleting
      <3> QED BY <1>0, <3>2, <3>3, RestNext
    <2>3. Swept(todo[o], Rest')  BY <2>1, <2>2, SweptMore
    <2> QED BY <1>2, <2>3
  <1>3. ASSUME NEW o \in Procs, NEW s \in Services, Create(o, s) \/ Delete(o, s)
        PROVE  Swept(todo'[o], Rest')
    <2>1. todo'[o] = CreateSteps(s) \/ todo'[o] = DeleteSteps(s)
      BY <1>0, <1>3 DEF Create, Delete, Begin
    <2> QED BY <2>1, PartsSwept
  <1>4. ASSUME NEW o \in Procs, NEW s \in Services, NEW q \in Services, Consume(o, s, q)
        PROVE  Swept(todo'[o], Rest')
    <2>1. todo'[o] = ConsumeSteps(s, q)  BY <1>0, <1>4 DEF Consume, Begin
    <2>2. \A t \in Services : Swept(ConsumeSteps(s, t), Rest')  BY PartsSwept
    <2> QED BY <1>4, <2>1, <2>2
  <1>5. ASSUME NEW o \in Procs, Breaks(o) \/ Crash(o)  PROVE Swept(todo'[o], Rest')
    <2>1. \/ todo'[o] = << >>
          \/ creating[o] # Nobody /\ todo'[o] = DeleteSteps(creating[o])
      BY <1>0, <1>5 DEF Breaks, Raise, Crash
    <2>2. creating[o] # Nobody => creating[o] \in Services  BY SameAt
    <2>3. Swept(<< >>, Rest')  BY DEF Swept
    <2> QED BY <2>1, <2>2, <2>3, PartsSwept
  <1>6. ASSUME NEW o \in Procs, NEW r, NEW L \in SUBSET Stored, Moves(o, r, L), Puts(o, r)
        PROVE  Swept(todo'[o], Rest')
    <2> DEFINE q == todo[o]
    <2>1. q \in Seq(Steps) /\ q # << >> /\ Swept(q, Rest) /\ todo'[o] = r \o Tail(q)
      BY <1>0, <1>6 DEF Moves, SweptInv
    <2>2. Rest' \subseteq Rest  BY <1>1, <1>6 DEF Moves
    <2>3. /\ Swept(r, Rest') /\ r \in Seq(Steps)
          /\ q[1].do = "each" => \A c \in q[1].with : \E j \in DOMAIN r : Covers(r[j], c)
          /\ q[1].do = "children" =>
               \A c \in Rest' : Parent[c] = q[1].of => \E j \in DOMAIN r : Covers(r[j], c)
      BY <1>6, <2>1, PutsSwept, PutsSteps DEF Of, With
    <2>4. q[1].do # "remove"  BY <1>6 DEF Puts
    <2> HIDE DEF q
    <2>5. Swept(r \o Tail(q), Rest')  BY <2>1, <2>2, <2>3, <2>4, SweptStep
    <2> QED BY <2>1, <2>5
  <1>7. ASSUME NEW o \in Procs, todo[o] # << >>, todo'[o] = Tail(todo[o]), known' = known,
               todo[o][1].do \notin {"each", "children"},
               todo[o][1].do = "remove" => todo[o][1].of \notin Rest'
        PROVE  Swept(todo'[o], Rest')
    <2> DEFINE q == todo[o]
    <2>1. q \in Seq(Steps) /\ q # << >> /\ Swept(q, Rest) /\ Rest' \subseteq Rest
      BY <1>0, <1>1, <1>7 DEF SweptInv
    <2>2. /\ q[1].do # "each" /\ q[1].do # "children"
          /\ q[1].do = "remove" => q[1].of \notin Rest'
      BY <1>7
    <2> HIDE DEF q
    <2>3. << >> \in Seq(Steps) /\ << >> \o Tail(q) = Tail(q)  BY <2>1, TailAt
    <2>4. Swept(<< >>, Rest')  BY DEF Swept
    <2>5. Swept(<< >> \o Tail(q), Rest')  BY <2>1, <2>2, <2>3, <2>4, SweptStep
    <2> QED BY <1>7, <2>3, <2>5 DEF q
  <1>8. ASSUME NEW o \in Procs, NEW r, Writes(o, r)  PROVE Swept(todo'[o], Rest')
    <2>1. todo'[o] = Tail(todo[o]) /\ known' = known  BY <1>8, WriteStores
    <2>2. todo[o] # << >> /\ todo[o][1].do \notin {"each", "children", "remove"}  BY <1>8 DEF Writes
    <2> QED BY <1>7, <2>1, <2>2
  <1>9. ASSUME NEW o \in Procs, Remove(o)
        PROVE  /\ todo[o] # << >> /\ todo'[o] = Tail(todo[o]) /\ known' = known
               /\ todo[o][1].do = "remove" /\ Of(o) \in Services
               /\ mid'[o] = [do |-> "erase", of |-> Of(o)] /\ Of(o) \in Doomed'
    <2>1. /\ todo[o] # << >> /\ todo'[o] = Tail(todo[o]) /\ known' = known
          /\ todo[o][1].do = "remove" /\ mid'[o] = [do |-> "erase", of |-> Of(o)]
      BY <1>0, <1>9 DEF Remove, Ready, Done
    <2>2. Of(o) \in Services  BY <2>1, AtStep
    <2> QED BY <2>1, <2>2 DEF Doomed
  <1>10. ASSUME NEW o \in Procs, Remove(o)  PROVE Swept(todo'[o], Rest')
    <2>1. Of(o) \notin Rest'  BY <1>9, <1>10 DEF Rest, Settled
    <2> QED BY <1>7, <1>9, <1>10, <2>1 DEF Of
  <1>11. ASSUME NEW o \in Procs  PROVE Swept(todo'[o], Rest')
    <2>1. ASSUME NEW p \in Procs, p # o,
                 \/ \E s \in Services : Load(p, s) \/ Create(p, s) \/ Delete(p, s)
                 \/ \E s, q \in Services : Consume(p, s, q)
                 \/ Breaks(p)
                 \/ \E r : \E L \in SUBSET Stored : Moves(p, r, L) /\ Puts(p, r)
                 \/ \E r : Writes(p, r)
                 \/ Remove(p) \/ Crash(p)
          PROVE  todo'[o] = todo[o]
      BY <1>0, <2>1
      DEF Load, Create, Consume, Delete, Begin, Breaks, Raise, Moves, Writes, SetRecord, Done,
          Remove, Crash
    <2>2. ASSUME \/ UNCHANGED vars
                 \/ \E p \in Procs : Index(p) \/ Erase(p) \/ \E s \in Services : Load(p, s)
          PROVE  todo'[o] = todo[o]
      BY <2>2 DEF Index, Erase, Load, vars
    <2> QED
      BY <1>2, <1>3, <1>4, <1>5, <1>6, <1>8, <1>10, <2>1, <2>2, Kinds
  <1>12. ASSUME NEW c \in Rest', Parent[c] \in Doomed'  PROVE FALSE
    <2> DEFINE s == Parent[c]
    <2>1. s \in Services /\ s # Nobody  BY <1>0, <1>12 DEF Doomed
    <2>2. CASE s \in Doomed
      <3>1. Deleting(s)  BY <2>2 DEF Doomed, Deleting
      <3>2. c \in Rest  BY <2>1, <3>1, RestNext
      <3> QED BY <2>2, <3>2 DEF SweptInv
    <2>3. CASE s \notin Doomed
      <3>1. PICK p \in Procs : mid'[p] = [do |-> "erase", of |-> s]  BY <1>12 DEF Doomed
      <3>2. mid[p] # [do |-> "erase", of |-> s]  BY <2>1, <2>3 DEF Doomed
      <3>3. mid'[p] # mid[p] /\ mid'[p].do = "erase"  BY <3>1, <3>2
      <3>4. ASSUME NEW o \in Procs, \E r : Writes(o, r)  PROVE mid'[p] = mid[p] \/ mid'[p].do = "index"
        <4>1. /\ \A x \in Procs \ {o} : mid'[x] = mid[x]
              /\ mid'[o] = [do |-> "index", of |-> Of(o)]
          BY <3>4, WriteStores
        <4> QED BY <4>1
      <3>5. ASSUME NEW o \in Procs, Index(o) \/ Erase(o) \/ Crash(o)  PROVE mid'[p] = mid[p] \/ mid'[p].do = "none"
        <4>1. mid' = [mid EXCEPT ![o] = None]  BY <3>5 DEF Index, Erase, Crash
        <4> QED BY <1>0, <4>1 DEF None
      <3>6. ASSUME NEW o \in Procs, Remove(o), o # p  PROVE mid'[p] = mid[p]
        BY <1>0, <3>6 DEF Remove
      <3>7. Remove(p)
        BY <3>3, <3>4, <3>5, <3>6, Kinds
        DEF Load, Create, Consume, Delete, Begin, Breaks, Raise, Moves, vars
      <3>8. Of(p) = s /\ todo[p] # << >> /\ todo[p][1].do = "remove" /\ known' = known
        <4>1. [do |-> "erase", of |-> Of(p)].of = [do |-> "erase", of |-> s].of  BY <1>9, <3>1, <3>7
        <4> QED BY <1>9, <3>7, <4>1
      <3>9. c \in Rest  BY <1>1, <3>8
      <3>10. Swept(todo[p], Rest) /\ todo[p] \in Seq(Steps)  BY <1>0 DEF SweptInv
      <3>11. 1 \in DOMAIN todo[p] /\ ~ \E j \in DOMAIN todo[p] : j < 1  BY <3>8, <3>10
      <3> QED BY <3>8, <3>9, <3>10, <3>11 DEF Swept, Of
    <2> QED BY <2>2, <2>3
  <1> QED BY <1>11, <1>12 DEF SweptInv

\* Service.__init__ looks for the parent first.
LEMMA CreateNeeds ==
  ASSUME GraphAssumption, NEW s \in Services, Parent[s] # Nobody
  PROVE  CreateSteps(s) # << >> /\ CreateSteps(s)[1] = S("need", Parent[s], {})
  <1> DEFINE x == S("need", Parent[s], {})
             w == S("wants", s, Wants[s])
             v == S("parent", s, {})
             a == S("store", s, {})
             b == S("reload", s, {})
             e == <<w, v, a, b, a>>
  <1>1. x \in Steps /\ w \in Steps /\ v \in Steps /\ a \in Steps /\ b \in Steps
    BY GraphAssumption DEF GraphAssumption, S, Steps
  <1>2. CreateSteps(s) = <<x>> \o e  BY DEF CreateSteps
  <1> HIDE DEF x, w, v, a, b
  <1>3. e \in Seq(Steps) /\ <<x>> \in Seq(Steps) /\ Len(<<x>>) = 1 /\ <<x>>[1] = x  BY <1>1
  <1> HIDE DEF e
  <1>4. <<x>> \o e # << >> /\ (<<x>> \o e)[1] = x
    <2>1. /\ Len(<<x>> \o e) = 1 + Len(e) /\ Len(e) \in Nat
          /\ (<<x>> \o e)[1] = <<x>>[1]
      BY <1>3, ConcatAt
    <2> QED BY <1>3, <2>1
  <1> QED BY <1>2, <1>4 DEF x

LEMMA ParentNext ==
  ASSUME GraphAssumption, TInv, FreshInv, CreatingInv, SweptInv, SweptInv', ParentInv, [Next]_vars
  PROVE  ParentInv'
  <1>0. /\ todo \in [Procs -> Seq(Steps)] /\ mid \in [Procs -> Halves \cup {None}]
        /\ creating \in [Procs -> Services \cup {Nobody}] /\ DOMAIN record = Services
        /\ known \subseteq Services /\ \A s \in Services : s # Nobody
    BY GraphAssumption DEF TInv, LocalOK, SharedOK, GraphAssumption
  <1> DEFINE Soon(p, c) == /\ creating[p] = c
                           /\ todo[p] # << >> /\ todo[p][1] = S("need", Parent[c], {})
  <1>1. SUFFICES ASSUME NEW c \in Rest', Parent[c] \notin {Nobody} \cup (Stored \cap Listed)'
                 PROVE  \E p \in Procs : Soon(p, c)'
    BY DEF ParentInv
  <1>2. ASSUME NEW p \in Procs, Create(p, c)  PROVE Soon(p, c)'
    <2>1. todo'[p] = CreateSteps(c) /\ creating'[p] = c  BY <1>0, <1>2 DEF Create, Begin
    <2>2. c \in Services /\ Parent[c] # Nobody  BY <1>1, TypesNext DEF Rest, TInv, SharedOK
    <2>3. CreateSteps(c) # << >> /\ CreateSteps(c)[1] = S("need", Parent[c], {})
      BY <2>2, CreateNeeds
    <2> QED BY <2>1, <2>3
  <1>3. ASSUME c \in Rest, Parent[c] \in Stored \cap Listed  PROVE FALSE
    <2>1. CASE Parent[c] \notin Stored'
      <3>1. Parent[c] \in Services /\ record'[Parent[c]] = Absent /\ record[Parent[c]] # Absent
        BY <1>3, <2>1 DEF Stored
      <3>2. ASSUME NEW p \in Procs, NEW r, Writes(p, r)  PROVE FALSE
        BY <1>3, <2>1, <3>2, WriteStores
      <3>3. PICK p \in Procs : Erase(p)
        BY <3>1, <3>2, Kinds
        DEF Load, Create, Consume, Delete, Begin, Breaks, Raise, Moves, Index, Remove, Crash, vars
      <3>4. mid[p] # None /\ mid[p].do = "erase" /\ mid[p].of = Parent[c]
        BY <1>0, <3>1, <3>3 DEF Erase
      <3>5. mid[p] = [do |-> "erase", of |-> Parent[c]]  BY <1>0, <3>4 DEF Halves
      <3>6. Parent[c] \in Doomed  BY <3>1, <3>5 DEF Doomed
      <3> QED BY <1>3, <3>6 DEF SweptInv
    <2>2. CASE Parent[c] \notin Listed'
      <3>0. PICK e \in index : e[1] = Parent[c]  BY <1>3 DEF Listed
      <3>1. e \notin index'  BY <2>2, <3>0 DEF Listed
      <3>2. PICK p \in Procs : Remove(p)
        BY <3>1, Kinds
        DEF Load, Create, Consume, Delete, Begin, Breaks, Raise, Moves, Writes, SetRecord, Index,
            Erase, Crash, vars
      <3>3. Of(p) = Parent[c]  BY <3>0, <3>1, <3>2 DEF Remove
      <3>4. mid'[p] = [do |-> "erase", of |-> Parent[c]]  BY <1>0, <3>2, <3>3 DEF Remove
      <3>5. Parent[c] \in Doomed'  BY <1>3, <3>4 DEF Doomed, Stored
      <3> QED BY <3>5 DEF SweptInv
    <2> QED BY <1>1, <2>1, <2>2
  <1>4. ASSUME NEW p \in Procs, Soon(p, c)  PROVE Soon(p, c)'
    <2>1. todo[p] # << >> /\ todo[p][1].do = "need" /\ Of(p) = Parent[c]  BY <1>4 DEF S, Of
    <2>2. creating[p] # Nobody
      <3>1. c \in Services  BY <1>1, TypesNext DEF Rest, TInv, SharedOK
      <3> QED BY <1>0, <1>4, <3>1
    <2>3. ASSUME Breaks(p) \/ Crash(p)  PROVE FALSE
      <3>1. c \in Busy(p)  BY <1>4, <2>2, CreatingBusy
      <3>2. c \in doubt'  BY <2>3, <3>1 DEF Breaks, Raise, Crash
      <3> QED BY <1>1, <3>2 DEF Rest, Settled
    <2>4. ASSUME NEW r, NEW L \in SUBSET Stored, Moves(p, r, L)  PROVE FALSE
      <3>1. Parent[c] \in Stored \cap Listed /\ record' = record /\ index' = index
        BY <2>1, <2>4 DEF Moves
      <3> QED BY <1>1, <3>1 DEF Stored, Listed
    <2>5. ASSUME Remove(p) \/ \E r : Writes(p, r)  PROVE FALSE
      BY <2>1, <2>5 DEF Remove, Ready, Writes
    <2>6. ASSUME Index(p) \/ Erase(p)  PROVE todo' = todo /\ creating' = creating
      BY <2>1, <2>6 DEF Index, Erase
    <2>7. ASSUME \/ \E t \in Services : Load(p, t)
                 \/ UNCHANGED vars
          PROVE  todo' = todo /\ creating' = creating
      BY <2>7 DEF Load, vars
    <2>8. ASSUME \/ \E t \in Services : Create(p, t) \/ Delete(p, t)
                 \/ \E t, v \in Services : Consume(p, t, v)
          PROVE  FALSE
      BY <2>1, <2>8 DEF Create, Delete, Consume, Begin, Idle
    <2>9. ASSUME NEW o \in Procs, p # o,
                 \/ \E t \in Services : Load(o, t) \/ Create(o, t) \/ Delete(o, t)
                 \/ \E t, v \in Services : Consume(o, t, v)
                 \/ Breaks(o)
                 \/ \E r : \E L \in SUBSET Stored : Moves(o, r, L) /\ Puts(o, r)
                 \/ \E r : Writes(o, r)
                 \/ Index(o) \/ Remove(o) \/ Erase(o) \/ Crash(o)
          PROVE  todo'[p] = todo[p] /\ creating'[p] = creating[p]
      BY <1>0, <2>9
      DEF Load, Create, Consume, Delete, Begin, Breaks, Raise, Moves, Writes, SetRecord, Done,
          Index, Remove, Erase, Crash
    <2>10. todo'[p] = todo[p] /\ creating'[p] = creating[p]
      BY <2>3, <2>4, <2>5, <2>6, <2>7, <2>8, <2>9, Kinds
    <2> QED BY <1>4, <2>10
  <1>5. CASE c \in Rest
    <2>1. PICK p \in Procs : Soon(p, c)  BY <1>1, <1>3, <1>5 DEF ParentInv
    <2> QED BY <1>4, <2>1
  <1>6. CASE c \notin Rest
    <2>1. PICK p \in Procs : Create(p, c)  BY <1>6, RestNext
    <2> QED BY <1>2, <2>1
  <1> QED BY <1>5, <1>6

\* What the deletion of children rests on.
DeleteInv == LinkInv /\ ListInv /\ SweptInv /\ ParentInv

LEMMA InitDeletes ==
  ASSUME GraphAssumption, Init
  PROVE  DeleteInv
  <1>0. PICK E \in SUBSET Services :
              /\ \A s \in E : Asked(s) \subseteq E
              /\ \E links \in SUBSET Consumed : Created(E, links)
    BY DEF Init
  <1>1. LinkInv /\ StoredIsListed  BY InitLinks, InitInv DEF IInv
  <1>2. /\ todo = [p \in Procs |-> << >>] /\ mid = [p \in Procs |-> None]
        /\ creating = [p \in Procs |-> Nobody]
        /\ torn = {} /\ gone = {} /\ doubt = {} /\ known = E
    BY <1>0 DEF Init, Created
  <1>3. Stored \subseteq Listed  BY <1>1, <1>2 DEF StoredIsListed
  <1>4. E \subseteq Stored
    <2>1. \A p \in Procs : \A s \in Services : creating[p] = Nobody /\ s # Nobody
      BY <1>2, GraphAssumption DEF GraphAssumption
    <2>2. known \subseteq Services  BY <1>2
    <2>3. \A s \in known : s \in Seen  BY <1>1, <2>1, <2>2 DEF LinkInv, KnownInv
    <2> QED BY <1>2, <2>3 DEF Seen
  <1>5. ListInv  BY <1>3 DEF ListInv
  <1>6. Doomed = {}
    <2>1. ASSUME NEW s, NEW p \in Procs, mid[p] = [do |-> "erase", of |-> s]  PROVE FALSE
      <3>1. mid[p].do = "erase" /\ mid[p].do = "none"  BY <1>2, <2>1 DEF None
      <3> QED BY <3>1
    <2> QED BY <2>1 DEF Doomed
  <1>7. SweptInv
    <2>1. \A p \in Procs : todo[p] = << >>  BY <1>2
    <2>2. Swept(<< >>, Rest)  BY DEF Swept
    <2> QED BY <1>6, <2>1, <2>2 DEF SweptInv
  <1>8. ParentInv
    <2>1. ASSUME NEW c \in E, Parent[c] # Nobody  PROVE Parent[c] \in Stored \cap Listed
      <3>1. Parent[c] \in Asked(c)  BY <2>1 DEF Asked
      <3> QED BY <1>0, <1>3, <1>4, <3>1
    <2> QED BY <1>2, <2>1 DEF ParentInv, Rest
  <1> QED BY <1>1, <1>5, <1>7, <1>8 DEF DeleteInv

LEMMA DeletesNext ==
  ASSUME GraphAssumption, DeleteInv, [Next]_vars
  PROVE  DeleteInv'
  <1>1. LinkInv'  BY LinksNext DEF DeleteInv
  <1>2. SweptInv'  BY SweptNext DEF DeleteInv, LinkInv
  <1>3. ListInv' /\ ParentInv'  BY <1>2, ListNext, ParentNext DEF DeleteInv, LinkInv
  <1> QED BY <1>1, <1>2, <1>3 DEF DeleteInv

\* When the parent is deleted and its children are at rest, none of them is
\* left that was there to be deleted.
THEOREM ChildrenAreDeleted == Spec => []ChildrenGoWithParent
  <1>1. ASSUME DeleteInv  PROVE ChildrenGoWithParent
    <2>1. SUFFICES ASSUME NEW c \in Stored, Parent[c] \in gone \ Stored, AtRest(c),
                          c \notin gone \cup late \cup doubt
                   PROVE  FALSE
      BY DEF ChildrenGoWithParent
    <2>2. TInv /\ KnownInv /\ CreatingInv /\ ParentInv  BY <1>1 DEF DeleteInv, LinkInv
    <2>3. c \notin Doomed
      <3>1. ASSUME NEW p \in Procs, mid[p] = [do |-> "erase", of |-> c]  PROVE c \in Busy(p)
        <4>1. mid[p].do = "erase" /\ mid[p].of = c  BY <3>1
        <4> QED BY <4>1 DEF Busy, None
      <3> QED BY <2>1, <3>1 DEF Doomed, AtRest
    <2>4. c \in Rest  BY <2>1, <2>2, <2>3 DEF KnownInv, Rest, Settled
    <2>5. Parent[c] # Nobody /\ c # Nobody
      <3>1. gone \subseteq Services /\ c \in Services  BY <2>2 DEF TInv, SharedOK, Stored
      <3> QED BY <2>1, <3>1, GraphAssumption DEF GraphAssumption
    <2>6. PICK p \in Procs : creating[p] = c  BY <2>1, <2>4, <2>5, <2>2 DEF ParentInv
    <2>7. c \in Busy(p)  BY <2>2, <2>5, <2>6, CreatingBusy
    <2> QED BY <2>1, <2>7 DEF AtRest
  <1>2. Init => DeleteInv  BY GraphAssumption, InitDeletes
  <1>3. DeleteInv /\ [Next]_vars => DeleteInv'  BY GraphAssumption, DeletesNext
  <1> QED BY <1>1, <1>2, <1>3, PTL DEF Spec
=============================================================================
