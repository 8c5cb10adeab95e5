------------------------ MODULE ServiceActionsProofs ------------------------
(***************************************************************************)
(* Proofs about ServiceActions: type correctness, StatesHaveCause and      *)
(* NothingLost, for every set of actions and of tasks and however the      *)
(* tasks are spread over processes.                                        *)
(***************************************************************************)
EXTENDS ServiceActions, TLAPS

\* A method has a result once it ended, and none before; an earlier result is
\* that of a job that is executed again.
ResultInv ==
  \A t \in Tasks :
    /\ pc[t] \in {"idle", "loaded", "again", "marking", "running"} => result[t] = "none"
    /\ pc[t] \in {"ended", "storing", "stored", "restoring"} => result[t] # "none"
    /\ earlier[t] # "none" => t \in again

\* Where a task of a kind can be.
PlaceInv ==
  \A t \in Tasks :
    /\ Kind[t] \in Edits => pc[t] \in {"idle", "loaded", "done", "dead"}
    /\ Kind[t] = "job" => pc[t] \notin {"loaded", "closing"}
    /\ home[t] = None => pc[t] = "idle"

Cause(a, s) ==
  \/ s = first[a]
  \/ \E t \in Tasks : ActionOf[t] = a /\ s \in {result[t], earlier[t]}
  \/ s = "ok" /\ \E t \in Tasks : ActionOf[t] = a /\ Kind[t] = "set" /\ pc[t] = "done"

Explained(r) == \A a \in Actions : r[a] \in {"ok", "error"} => Cause(a, r[a])

\* What is in a copy may be saved at any time, so it needs a cause as well.
CauseInv ==
  /\ Explained(stored)
  /\ \A t \in Tasks : Explained(copy[t]) /\ Explained(outer[t])

Undisturbed == Alone /\ stray = {} /\ \A t \in Tasks : pc[t] \notin {"dead", "orphan"}

\* While a call works on its copy, and while a job is stored, no other task
\* of the process does anything.
PhaseInv ==
  \A t, u \in Tasks :
    t # u =>
      /\ pc[t] = "loaded" => pc[u] \in {"idle", "done"}
      /\ pc[t] \in {"storing", "stored", "restoring"} => pc[u] \in {"idle", "ended", "done"}

UnderWay == {"again", "marking", "running", "ended", "storing", "stored", "restoring"}

\* The places of the tasks that will save their copy.
InUse == {"loaded", "marking", "running", "storing", "restoring"}

\* A job that will set the state of a is under way.
Pending(a) ==
  \E t \in Tasks : Kind[t] = "job" /\ ActionOf[t] = a /\ pc[t] \in UnderWay

Current(r) == \A a \in Actions : r[a] # meant[a] => Pending(a)

\* What the store and the copies in use have missed will be set again.
CurrentInv ==
  /\ Current(stored)
  /\ \A t \in Tasks : pc[t] \in InUse => Current(copy[t])

IInv ==
  /\ TypeOK
  /\ ResultInv
  /\ PlaceInv
  /\ CauseInv
  /\ Undisturbed => PhaseInv /\ CurrentInv

-----------------------------------------------------------------------------
LEMMA InitInv == Init => IInv
  <1> SUFFICES ASSUME Init  PROVE IInv
    OBVIOUS
  <1>1. stored \in Records  BY ActionsAssumption DEF Init
  <1>2. TypeOK  BY <1>1 DEF Init, TypeOK, Places, Endings
  <1>3. ResultInv
    <2>1. \A t \in Tasks : pc[t] = "idle" /\ result[t] = "none" /\ earlier[t] = "none"
      BY DEF Init
    <2> QED BY <2>1 DEF ResultInv
  <1>4. PlaceInv  BY DEF Init, PlaceInv
  <1>5. CauseInv  BY DEF Init, CauseInv, Explained, Cause
  <1>6. PhaseInv /\ CurrentInv
    BY DEF Init, PhaseInv, CurrentInv, Current, InUse
  <1> QED BY <1>2, <1>3, <1>4, <1>5, <1>6 DEF IInv

LEMMA TypeNext ==
  ASSUME TypeOK, ResultInv, [Next]_vars
  PROVE  TypeOK'
  <1> USE DEF TypeOK, Goto, Places, tries
  <1>1. ASSUME NEW t \in Tasks, Task(t)  PROVE TypeOK'
    <2>1. ASSUME NEW s \in ActionStates, SaveState(t, s),
                 UNCHANGED <<first, outer, result, tries, home>>,
                 pc' \in [Tasks -> Places]
          PROVE  TypeOK'
      <3>1. ActionOf[t] \in Actions  BY ActionsAssumption
      <3>2. stored' \in Records /\ meant' \in Records
        BY <2>1, <3>1 DEF SaveState, Records
      <3> QED BY <2>1, <3>2 DEF SaveState
    <2>2. CASE StartEdit(t)  BY <2>2 DEF StartEdit, Load
    <2>3. CASE Schedule(t)
      <3>1. copy[t][ActionOf[t]] \in ActionStates  BY ActionsAssumption DEF Records
      <3>2. pc' \in [Tasks -> Places]  BY <2>3 DEF Schedule
      <3>3. PICK force \in BOOLEAN :
              SaveState(t, IF copy[t][ActionOf[t]] = "ok" /\ ~ force
                             THEN copy[t][ActionOf[t]] ELSE "scheduled")
        BY <2>3 DEF Schedule
      <3> QED BY <2>1, <2>3, <3>1, <3>2, <3>3 DEF Schedule, ActionStates
    <2>4. CASE Change(t)  BY <2>1, <2>4 DEF Change, ActionStates
    <2>5. CASE SetState(t)
      <3>1. PICK s \in {"ok", "new", "scheduled"} : SaveState(t, s)  BY <2>5 DEF SetState
      <3>2. pc' \in [Tasks -> Places]  BY <2>5 DEF SetState
      <3> QED BY <2>1, <2>5, <3>1, <3>2 DEF SetState, ActionStates
    <2>6. CASE Plan(t)  BY <2>6 DEF Plan
    <2>7. CASE EditEnds(t)  BY <2>7 DEF EditEnds
    <2>8. CASE Execute(t)  BY <2>8 DEF Execute, Load
    <2>9. CASE Mark(t)  BY <2>1, <2>9 DEF Mark, ActionStates
    <2>10. CASE RunAction(t)  BY <2>10 DEF RunAction, Load
    <2>11. CASE MethodSaves(t)  BY <2>11 DEF MethodSaves
    <2>12. CASE MethodEnds(t)  BY <2>12 DEF MethodEnds, Endings
    <2>13. CASE Reload(t)  BY <2>13 DEF Reload, Load
    <2>14. CASE Store(t)
      <3>1. StateOf(result[t]) \in ActionStates
        BY <2>14 DEF Store, StateOf, ResultInv, ActionStates, Endings
      <3>2. pc' \in [Tasks -> Places]  BY <2>14 DEF Store
      <3> QED BY <2>1, <2>14, <3>1, <3>2 DEF Store
    <2>15. CASE DirectOk(t)
      <3>1. meant' \in Records
        BY <2>15, ActionsAssumption DEF DirectOk, Records, ActionStates
      <3> QED BY <2>15, <3>1 DEF DirectOk
    <2>16. CASE Close(t)  BY <2>16 DEF Close
    <2>17. CASE StraySaves(t)  BY <2>17 DEF StraySaves
    <2> QED BY <1>1, <2>2, <2>3, <2>4, <2>5, <2>6, <2>7, <2>8, <2>9, <2>10, <2>11,
               <2>12, <2>13, <2>14, <2>15, <2>16, <2>17 DEF Task
  <1>2. ASSUME NEW p, Crash(p)  PROVE TypeOK'
    BY <1>2 DEF Crash
  <1>3. ASSUME NEW p, Retry(p)  PROVE TypeOK'
    <2>1. stray' \subseteq Tasks /\ again' \subseteq Tasks  BY <1>3 DEF Retry
    <2>2. outer' \in [Tasks -> Records]  BY <1>3 DEF Retry
    <2>3. result' \in [Tasks -> Endings] /\ earlier' \in [Tasks -> Endings]
      BY <1>3 DEF Retry, Endings
    <2> QED BY <1>3, <2>1, <2>2, <2>3 DEF Retry
  <1>4. CASE UNCHANGED vars  BY <1>4 DEF vars
  <1> QED BY <1>1, <1>2, <1>3, <1>4 DEF Next

LEMMA ResultNext ==
  ASSUME TypeOK, ResultInv, [Next]_vars
  PROVE  ResultInv'
  <1> USE DEF TypeOK, Goto, ResultInv, tries
  <1>1. ASSUME NEW t \in Tasks, Task(t)  PROVE ResultInv'
    <2>1. CASE MethodEnds(t)
      <3>1. PICK r \in {"ok", "error", "killed"} : result' = [result EXCEPT ![t] = r]
        BY <2>1 DEF MethodEnds
      <3> QED BY <2>1, <3>1 DEF MethodEnds
    <2>2. CASE StartEdit(t) \/ Execute(t) \/ RunAction(t) \/ Mark(t)
      BY <2>2 DEF StartEdit, Execute, RunAction, Mark
    <2>3. CASE Schedule(t) \/ Change(t) \/ SetState(t) \/ Plan(t) \/ EditEnds(t)
      BY <2>3 DEF Schedule, Change, SetState, Plan, EditEnds
    <2>4. CASE Reload(t)  BY <2>4 DEF Reload, Collects
    <2>5. CASE MethodSaves(t) \/ StraySaves(t) \/ Store(t) \/ DirectOk(t) \/ Close(t)
      BY <2>5 DEF MethodSaves, StraySaves, Store, DirectOk, Close
    <2> QED BY <1>1, <2>1, <2>2, <2>3, <2>4, <2>5 DEF Task
  <1>2. ASSUME NEW p, Crash(p)  PROVE ResultInv'
    BY <1>2 DEF Crash
  <1>3. ASSUME NEW p, Retry(p)  PROVE ResultInv'
    BY <1>3 DEF Retry
  <1>4. CASE UNCHANGED vars  BY <1>4 DEF vars
  <1> QED BY <1>1, <1>2, <1>3, <1>4 DEF Next

LEMMA PlaceNext ==
  ASSUME TypeOK, PlaceInv, [Next]_vars
  PROVE  PlaceInv'
  <1> USE DEF TypeOK, Goto, PlaceInv
  <1>1. ASSUME NEW t \in Tasks, Task(t)  PROVE PlaceInv'
    <2>1. CASE StartEdit(t) \/ Execute(t) \/ RunAction(t)
      BY <2>1 DEF StartEdit, Execute, RunAction, Free, Edits
    <2>2. CASE Schedule(t) \/ Change(t) \/ SetState(t) \/ Plan(t) \/ EditEnds(t)
      BY <2>2 DEF Schedule, Change, SetState, Plan, EditEnds
    <2>3. CASE Mark(t) \/ MethodSaves(t) \/ StraySaves(t) \/ MethodEnds(t)
      BY <2>3 DEF Mark, MethodSaves, StraySaves, MethodEnds
    <2>4. CASE Reload(t)  BY <2>4 DEF Reload, Collects
    <2>5. CASE Store(t) \/ DirectOk(t) \/ Close(t)
      BY <2>5 DEF Store, DirectOk, Close
    <2> QED BY <1>1, <2>1, <2>2, <2>3, <2>4, <2>5 DEF Task
  <1>2. ASSUME NEW p, Crash(p)  PROVE PlaceInv'
    BY <1>2 DEF Crash, Edits
  <1>3. ASSUME NEW p, Retry(p)  PROVE PlaceInv'
    BY <1>3 DEF Retry, Edits
  <1>4. CASE UNCHANGED vars  BY <1>4 DEF vars
  <1> QED BY <1>1, <1>2, <1>3, <1>4 DEF Next

-----------------------------------------------------------------------------
\* A cause stays one.
LEMMA CauseStays ==
  ASSUME TypeOK, ResultInv, [Next]_vars,
         NEW a \in Actions, NEW s \in {"ok", "error"}, Cause(a, s)
  PROVE  Cause(a, s)'
  <1>1. first' = first
    BY DEF Next, Task, vars, StartEdit, Schedule, Change, SetState, Plan, EditEnds, Execute,
           Mark, RunAction, MethodSaves, StraySaves, MethodEnds, Reload, Store, DirectOk,
           Close, Retry, Crash
  <1>2. ASSUME NEW t \in Tasks, s \in {result[t], earlier[t]}
        PROVE  s \in {result'[t], earlier'[t]}
    <2>1. ASSUME NEW u \in Tasks, MethodEnds(u)  PROVE s \in {result'[t], earlier'[t]}
      BY <1>2, <2>1 DEF MethodEnds, TypeOK, ResultInv, tries
    <2>2. ASSUME NEW p, Retry(p)  PROVE s \in {result'[t], earlier'[t]}
      BY <1>2, <2>2 DEF Retry, TypeOK, ResultInv
    <2>3. CASE UNCHANGED <<result, earlier>>  BY <1>2, <2>3
    <2>4. \/ UNCHANGED <<result, earlier>>
          \/ \E u \in Tasks : MethodEnds(u)
          \/ \E p : Retry(p)
      BY DEF Next, Task, vars, tries, StartEdit, Schedule, Change, SetState, Plan, EditEnds,
             Execute, Mark, RunAction, MethodSaves, StraySaves, Reload, Store, DirectOk,
             Close, Crash
    <2> QED BY <2>1, <2>2, <2>3, <2>4
  <1>3. ASSUME NEW t \in Tasks, Kind[t] = "set", pc[t] = "done"  PROVE pc'[t] = "done"
    BY <1>3 DEF Next, Task, vars, StartEdit, Schedule, Change, SetState, Plan, EditEnds,
           Execute, Mark, RunAction, MethodSaves, StraySaves, MethodEnds, Reload, Collects,
           Store, DirectOk, Close, Retry, Crash, Goto, TypeOK
  <1> QED BY <1>1, <1>2, <1>3 DEF Cause

\* What a record says after a step: r is any value, also one of a variable.
LEMMA ExplainedStays ==
  ASSUME TypeOK, ResultInv, [Next]_vars
  PROVE  \A r : Explained(r) =>
           \A a \in Actions : r[a] \in {"ok", "error"} =>
             \/ r[a] = first'[a]
             \/ \E t \in Tasks : ActionOf[t] = a /\ r[a] \in {result'[t], earlier'[t]}
             \/ r[a] = "ok" /\ \E t \in Tasks : ActionOf[t] = a /\ Kind[t] = "set" /\ pc'[t] = "done"
  BY CauseStays DEF Explained, Cause

LEMMA CauseNext ==
  ASSUME TypeOK, ResultInv, CauseInv, [Next]_vars
  PROVE  CauseInv'
  <1> DEFINE Has(a, s) == \/ s = first'[a]
                          \/ \E t \in Tasks : ActionOf[t] = a /\ s \in {result'[t], earlier'[t]}
                          \/ s = "ok" /\ \E t \in Tasks : ActionOf[t] = a /\ Kind[t] = "set" /\ pc'[t] = "done"
             Told(r) == \A a \in Actions : r[a] \in {"ok", "error"} => Has(a, r[a])
  <1>1. /\ Told(stored)
        /\ \A t \in Tasks : Told(copy[t]) /\ Told(outer[t])
    BY ExplainedStays DEF CauseInv
  <1>2. SUFFICES Told(stored') /\ \A t \in Tasks : Told(copy'[t]) /\ Told(outer'[t])
    BY DEF CauseInv, Explained, Cause
  <1>3. ASSUME NEW t \in Tasks, NEW s, SaveState(t, s), outer' = outer,
               s \in {"ok", "error"} => Has(ActionOf[t], s)
        PROVE  Told(stored') /\ \A u \in Tasks : Told(copy'[u]) /\ Told(outer'[u])
    <2>1. Told(stored')
      <3>1. \A a \in Actions : stored'[a] = IF a = ActionOf[t] THEN s ELSE copy[t][a]
        BY <1>3, ActionsAssumption DEF SaveState, TypeOK, Records
      <3>2. Told(copy[t])  BY <1>1
      <3> SUFFICES ASSUME NEW a \in Actions, stored'[a] \in {"ok", "error"}
                   PROVE  Has(a, stored'[a])
        OBVIOUS
      <3> HIDE DEF Has
      <3>3. CASE a = ActionOf[t]  BY <3>1, <3>3, <1>3
      <3>4. CASE a # ActionOf[t]  BY <3>1, <3>2, <3>4
      <3> QED BY <3>3, <3>4
    <2> HIDE DEF Told
    <2> QED BY <1>1, <1>3, <2>1 DEF SaveState, TypeOK
  <1>4. ASSUME NEW t \in Tasks, Task(t)
        PROVE  Told(stored') /\ \A u \in Tasks : Told(copy'[u]) /\ Told(outer'[u])
    <2>1. CASE StartEdit(t) \/ Execute(t) \/ RunAction(t) \/ Reload(t)
      <3> HIDE DEF Told
      <3> QED BY <2>1, <1>1 DEF StartEdit, Execute, RunAction, Reload, Load, TypeOK
    <2>2. CASE \/ Plan(t) \/ EditEnds(t) \/ MethodSaves(t) \/ StraySaves(t) \/ MethodEnds(t)
               \/ DirectOk(t) \/ Close(t)
      <3> HIDE DEF Told
      <3> QED BY <2>2, <1>1 DEF Plan, EditEnds, MethodSaves, StraySaves, MethodEnds, DirectOk,
                                Close
    <2>3. CASE Schedule(t)
      <3>1. PICK force \in BOOLEAN :
              SaveState(t, IF copy[t][ActionOf[t]] = "ok" /\ ~ force
                             THEN copy[t][ActionOf[t]] ELSE "scheduled")
        BY <2>3 DEF Schedule
      <3>2. copy[t][ActionOf[t]] = "ok" => Has(ActionOf[t], "ok")
        BY <1>1, ActionsAssumption
      <3> HIDE DEF Told, Has
      <3>3. outer' = outer  BY <2>3 DEF Schedule
      <3> QED BY <3>1, <3>2, <3>3, <1>3
    <2>4. CASE Change(t) \/ Mark(t)
      <3>1. \E s \in {"changed", "running"} : SaveState(t, s)  BY <2>4 DEF Change, Mark
      <3>2. outer' = outer  BY <2>4 DEF Change, Mark
      <3> HIDE DEF Told, Has
      <3> QED BY <3>1, <3>2, <1>3
    <2>5. CASE SetState(t)
      <3>1. PICK s \in {"ok", "new", "scheduled"} : SaveState(t, s)  BY <2>5 DEF SetState
      <3>2. Kind[t] = "set" /\ pc'[t] = "done" /\ outer' = outer
        BY <2>5 DEF SetState, Goto, TypeOK
      <3>3. Has(ActionOf[t], "ok")  BY <3>2
      <3> HIDE DEF Told, Has
      <3> QED BY <3>1, <3>2, <3>3, <1>3
    <2>6. CASE Store(t)
      <3>1. SaveState(t, StateOf(result[t])) /\ outer' = outer /\ result' = result
        BY <2>6 DEF Store
      <3>2. StateOf(result[t]) \in {"ok", "error"} => Has(ActionOf[t], StateOf(result[t]))
        BY <3>1 DEF StateOf
      <3> HIDE DEF Told, Has
      <3> QED BY <3>1, <3>2, <1>3
    <2> QED BY <1>4, <2>1, <2>2, <2>3, <2>4, <2>5, <2>6 DEF Task
  <1> HIDE DEF Told
  <1>5. ASSUME NEW p, Crash(p)
        PROVE  Told(stored') /\ \A t \in Tasks : Told(copy'[t]) /\ Told(outer'[t])
    BY <1>1, <1>5 DEF Crash
  <1>6. ASSUME NEW p, Retry(p)
        PROVE  Told(stored') /\ \A t \in Tasks : Told(copy'[t]) /\ Told(outer'[t])
    BY <1>1, <1>6 DEF Retry, TypeOK
  <1>7. CASE UNCHANGED vars  BY <1>1, <1>7 DEF vars
  <1> QED BY <1>4, <1>5, <1>6, <1>7 DEF Next

-----------------------------------------------------------------------------
\* In one process: Free and Collects speak of all other tasks.
LEMMA OneProcess ==
  ASSUME TypeOK, PlaceInv, Undisturbed
  PROVE  /\ \A t \in Tasks : pc[t] # "idle" => Kind[t] \in Edits \cup {"job"}
         /\ \A t, u \in Tasks : t # u /\ home[t] # None => u \in Others(t) \/ pc[u] = "idle"
  BY DEF Undisturbed, Alone, PlaceInv, Others

LEMMA UndisturbedBefore ==
  ASSUME TypeOK, [Next]_vars, Undisturbed'
  PROVE  Undisturbed /\ ~ \E p : Crash(p)
  <1>1. home' = home /\ stray \subseteq stray'
    BY DEF Next, Task, vars, tries, StartEdit, Schedule, Change, SetState, Plan, EditEnds,
           Execute, Mark, RunAction, MethodSaves, StraySaves, MethodEnds, Reload, Store,
           DirectOk, Close, Retry, Crash
  <1>2. Alone /\ stray = {}  BY <1>1 DEF Undisturbed, Alone
  <1>3. ASSUME NEW p, Crash(p)  PROVE FALSE
    BY <1>3 DEF Crash, TypeOK, Undisturbed
  <1>4. ASSUME NEW t \in Tasks, pc[t] \in {"dead", "orphan"}  PROVE FALSE
    <2>1. pc'[t] = pc[t]
      BY <1>3, <1>4 DEF Next, Task, vars, StartEdit, Schedule, Change, SetState, Plan, EditEnds,
             Execute, Mark, RunAction, MethodSaves, StraySaves, MethodEnds, Reload, Collects,
             Store, DirectOk, Close, Retry, Goto, TypeOK
    <2> QED BY <1>4, <2>1 DEF Undisturbed
  <1> QED BY <1>2, <1>3, <1>4 DEF Undisturbed

\* After an aborted attempt every task of the process is at its beginning or
\* at its end.
LEMMA RetryAlone ==
  ASSUME TypeOK, PlaceInv, Undisturbed, NEW p, Retry(p)
  PROVE  /\ \A t \in Tasks : pc'[t] \in {"idle", "again", "done"}
         /\ \A t \in Tasks : home[t] = p /\ Kind[t] = "job" => pc'[t] = "again"
  <1>1. PICK q : \A t \in Tasks : home[t] # None => home[t] = q /\ Kind[t] \in Edits \cup {"job"}
    BY DEF Undisturbed, Alone
  <1>2. PICK t \in Tasks : home[t] = p  BY DEF Retry
  <1>3. p = q  BY <1>1, <1>2 DEF Retry
  <1> QED BY <1>1, <1>3 DEF Retry, PlaceInv, TypeOK

LEMMA PhaseNext ==
  ASSUME TypeOK, PlaceInv, Undisturbed, PhaseInv, [Next]_vars, Undisturbed'
  PROVE  PhaseInv'
  <1> USE DEF TypeOK, Goto, PhaseInv
  <1>1. ASSUME NEW t \in Tasks, Task(t)  PROVE PhaseInv'
    <2>1. CASE StartEdit(t)
      <3>1. \A u \in Tasks \ {t} : pc[u] \in {"idle", "done"}
        BY <2>1, OneProcess DEF StartEdit, Free, Edits
      <3> QED BY <2>1, <3>1 DEF StartEdit
    <2>2. CASE Execute(t)
      <3>1. \A u \in Tasks \ {t} : pc[u] \in {"idle", "again", "running", "ended", "done"}
        BY <2>2, OneProcess DEF Execute, Free
      <3> QED BY <2>2, <3>1 DEF Execute
    <2>3. CASE RunAction(t)
      <3>1. \A u \in Tasks \ {t} : pc[u] \in {"idle", "done"}
        BY <2>3, OneProcess DEF RunAction, Free
      <3> QED BY <2>3, <3>1 DEF RunAction
    <2>4. CASE Schedule(t) \/ Change(t) \/ SetState(t) \/ Plan(t) \/ EditEnds(t)
      BY <2>4 DEF Schedule, Change, SetState, Plan, EditEnds
    <2>5. CASE Mark(t) \/ MethodSaves(t) \/ StraySaves(t) \/ MethodEnds(t)
      BY <2>5 DEF Mark, MethodSaves, StraySaves, MethodEnds
    <2>6. CASE Reload(t)
      <3>1. pc[t] \in {"ended", "stored"} /\ Kind[t] = "job"
        BY <2>6, OneProcess DEF Reload, Collects, PlaceInv
      <3>2. \A u \in Tasks \ {t} : pc[u] \in {"idle", "ended", "done"}
        BY <2>6, <3>1, OneProcess DEF Reload, Collects, PlaceInv, Undisturbed
      <3> QED BY <2>6, <3>1, <3>2 DEF Reload
    <2>7. CASE Store(t) \/ DirectOk(t) \/ Close(t)
      BY <2>7 DEF Store, DirectOk, Close
    <2> QED BY <1>1, <2>1, <2>2, <2>3, <2>4, <2>5, <2>6, <2>7 DEF Task
  <1>2. ~ \E p : Crash(p)  BY UndisturbedBefore
  <1>3. ASSUME NEW p, Retry(p)  PROVE PhaseInv'
    <2>1. \A t \in Tasks : pc'[t] \in {"idle", "again", "done"}
      BY <1>3, RetryAlone
    <2> QED BY <2>1
  <1>4. CASE UNCHANGED vars  BY <1>4 DEF vars
  <1> QED BY <1>1, <1>2, <1>3, <1>4 DEF Next

LEMMA CurrentNext ==
  ASSUME TypeOK, PlaceInv, Undisturbed, PhaseInv, CurrentInv, [Next]_vars, Undisturbed'
  PROVE  CurrentInv'
  <1> USE DEF TypeOK, Goto, UnderWay, InUse
  <1> DEFINE Awaited(a) == \E u \in Tasks : /\ Kind[u] = "job" /\ ActionOf[u] = a
                                           /\ pc'[u] \in UnderWay
             Fits(r) == \A a \in Actions : r[a] # meant'[a] => Awaited(a)
  <1>1. SUFFICES /\ Fits(stored')
                 /\ \A u \in Tasks : pc'[u] \in InUse => Fits(copy'[u])
    BY DEF CurrentInv, Current, Pending
  <1>2. ASSUME meant' = meant, \A a \in Actions : Pending(a) => Awaited(a)
        PROVE  \A r : Current(r) => Fits(r)
    <2> HIDE DEF Awaited
    <2> QED BY <1>2 DEF Current
  <1>3. ASSUME NEW t \in Tasks, Task(t)
        PROVE  /\ Fits(stored')
               /\ \A u \in Tasks : pc'[u] \in InUse => Fits(copy'[u])
    <2>1. CASE StartEdit(t) \/ Execute(t) \/ Reload(t)
      <3>1. meant' = meant /\ stored' = stored /\ copy' = [copy EXCEPT ![t] = stored]
        BY <2>1 DEF StartEdit, Execute, Reload, Load
      <3>2. \A u \in Tasks \ {t} : pc'[u] = pc[u]
        BY <2>1 DEF StartEdit, Execute, Reload
      <3>3. \A a \in Actions : Pending(a) => Awaited(a)
        BY <2>1 DEF StartEdit, Execute, Reload, Collects, Pending
      <3>4. \A r : Current(r) => Fits(r)  BY <3>1, <3>3, <1>2
      <3> HIDE DEF Fits
      <3> QED BY <3>1, <3>2, <3>4 DEF CurrentInv
    <2>2. CASE Schedule(t) \/ Change(t) \/ SetState(t)
      <3>1. PICK s : SaveState(t, s)
        BY <2>2 DEF Schedule, Change, SetState
      <3>2. pc[t] = "loaded" /\ pc' = [pc EXCEPT ![t] = "done"]
        BY <2>2 DEF Schedule, Change, SetState
      <3>3. \A u \in Tasks : pc'[u] \in {"idle", "done"}
        BY <3>2 DEF PhaseInv
      <3>4. \A a \in Actions : copy[t][a] = meant[a]
        BY <3>2 DEF CurrentInv, Current, Pending, PhaseInv
      <3>5. \A a \in Actions : stored'[a] = meant'[a]
        BY <3>1, <3>4, ActionsAssumption DEF SaveState, Records
      <3> QED BY <3>3, <3>5
    <2>3. CASE Plan(t) \/ MethodSaves(t)
      <3>1. /\ meant' = meant /\ stored' = copy[t] /\ copy' = copy
            /\ pc[t] \in {"loaded", "running"}
        BY <2>3 DEF Plan, MethodSaves, Undisturbed
      <3>2. \A u \in Tasks : pc'[u] \in InUse => pc[u] \in InUse
        BY <2>3 DEF Plan, MethodSaves
      <3>3. \A a \in Actions : Pending(a) => Awaited(a)
        BY <2>3 DEF Plan, MethodSaves, Pending
      <3>4. \A r : Current(r) => Fits(r)  BY <3>1, <3>3, <1>2
      <3> HIDE DEF Fits
      <3> QED BY <3>1, <3>2, <3>4 DEF CurrentInv
    <2>4. CASE EditEnds(t) \/ MethodEnds(t)
      <3>1. meant' = meant /\ stored' = stored /\ copy' = copy
        BY <2>4 DEF EditEnds, MethodEnds
      <3>2. \A u \in Tasks : pc'[u] \in InUse => pc[u] \in InUse
        BY <2>4 DEF EditEnds, MethodEnds
      <3>3. \A a \in Actions : Pending(a) => Awaited(a)
        BY <2>4 DEF EditEnds, MethodEnds, Pending
      <3>4. \A r : Current(r) => Fits(r)  BY <3>1, <3>3, <1>2
      <3> HIDE DEF Fits
      <3> QED BY <3>1, <3>2, <3>4 DEF CurrentInv
    <2>5. CASE Mark(t)
      <3>1. Kind[t] = "job" /\ pc[t] = "marking" /\ pc' = [pc EXCEPT ![t] = "running"]
        BY <2>5, OneProcess DEF Mark, PlaceInv
      <3>2. Awaited(ActionOf[t])  BY <3>1
      <3>3. \A a \in Actions : Pending(a) => Awaited(a)  BY <3>1 DEF Pending
      <3>4. SaveState(t, "running")  BY <2>5 DEF Mark
      <3>5. \A a \in Actions : a # ActionOf[t] => meant'[a] = meant[a]
        BY <3>4 DEF SaveState, Records
      <3>6. \A r : Current(r) => Fits(r)
        <4> HIDE DEF Awaited
        <4> QED BY <3>2, <3>3, <3>5 DEF Current
      <3>7. Fits(stored')
        <4>1. \A a \in Actions : stored'[a] = IF a = ActionOf[t] THEN "running" ELSE copy[t][a]
          BY <3>4 DEF SaveState, Records
        <4>2. Fits(copy[t])  BY <3>1, <3>6 DEF CurrentInv
        <4> HIDE DEF Awaited
        <4> QED BY <4>1, <4>2, <3>2
      <3>8. copy' = [copy EXCEPT ![t] = stored']  BY <3>4 DEF SaveState
      <3> HIDE DEF Fits
      <3> QED BY <3>1, <3>6, <3>7, <3>8 DEF CurrentInv
    <2>6. CASE Store(t)
      <3>1. /\ Kind[t] = "job" /\ pc[t] \in {"storing", "restoring"}
            /\ pc' = [pc EXCEPT ![t] = "stored"] \/ pc' = [pc EXCEPT ![t] = "done"]
        BY <2>6, OneProcess DEF Store, PlaceInv, Edits
      <3>2. \A u \in Tasks : pc'[u] \notin InUse
        BY <3>1 DEF PhaseInv
      <3>3. PICK s : SaveState(t, s)  BY <2>6 DEF Store
      <3>4. \A a \in Actions : stored'[a] # meant'[a] => a # ActionOf[t] /\ copy[t][a] # meant[a]
        BY <3>3, ActionsAssumption DEF SaveState, Records
      <3>5. \A a \in Actions : a # ActionOf[t] /\ Pending(a) => Awaited(a)
        BY <3>1 DEF Pending
      <3>6. Current(copy[t])  BY <3>1 DEF CurrentInv
      <3>7. Fits(stored')
        <4> HIDE DEF Awaited
        <4> QED BY <3>4, <3>5, <3>6 DEF Current
      <3> QED BY <3>2, <3>7
    <2>7. CASE RunAction(t) \/ DirectOk(t) \/ Close(t)
      <3>1. home[t] # None  BY <2>7 DEF RunAction, DirectOk, Close, Free, PlaceInv
      <3>2. Kind[t] \in Edits \cup {"job"}  BY <3>1 DEF Undisturbed, Alone
      <3> QED BY <2>7, <3>2 DEF RunAction, DirectOk, Close, PlaceInv, Edits
    <2>8. ~ StraySaves(t)  BY DEF StraySaves, Undisturbed
    <2> QED BY <1>3, <2>1, <2>2, <2>3, <2>4, <2>5, <2>6, <2>7, <2>8 DEF Task
  <1>4. ~ \E p : Crash(p)  BY UndisturbedBefore
  <1>5. ASSUME NEW p, Retry(p)
        PROVE  /\ Fits(stored')
               /\ \A u \in Tasks : pc'[u] \in InUse => Fits(copy'[u])
    <2>1. meant' = meant /\ stored' = stored  BY <1>5 DEF Retry
    <2>2. \A u \in Tasks : pc'[u] \notin InUse  BY <1>5, RetryAlone
    <2>3. \A a \in Actions : Pending(a) => Awaited(a)
      <3>1. \A u \in Tasks : pc[u] \in UnderWay => pc'[u] \in UnderWay
        BY <1>5 DEF Retry
      <3> QED BY <3>1 DEF Pending
    <2> QED BY <2>1, <2>2, <2>3, <1>2 DEF CurrentInv
  <1>6. CASE UNCHANGED vars
    <2>1. meant' = meant /\ pc' = pc /\ stored' = stored /\ copy' = copy  BY <1>6 DEF vars
    <2>2. \A r : Current(r) => Fits(r)  BY <2>1 DEF Current, Pending
    <2> HIDE DEF Fits
    <2> QED BY <2>1, <2>2 DEF CurrentInv
  <1> HIDE DEF Fits
  <1> QED BY <1>3, <1>4, <1>5, <1>6 DEF Next

-----------------------------------------------------------------------------
LEMMA Inductive == IInv /\ [Next]_vars => IInv'
  <1> SUFFICES ASSUME IInv, [Next]_vars  PROVE IInv'
    OBVIOUS
  <1>1. TypeOK /\ ResultInv /\ PlaceInv /\ CauseInv  BY DEF IInv
  <1>2. TypeOK' /\ ResultInv' /\ PlaceInv' /\ CauseInv'
    BY <1>1, TypeNext, ResultNext, PlaceNext, CauseNext
  <1>3. ASSUME Undisturbed'  PROVE PhaseInv' /\ CurrentInv'
    <2>1. Undisturbed  BY <1>1, <1>3, UndisturbedBefore
    <2>2. PhaseInv /\ CurrentInv  BY <2>1 DEF IInv
    <2> QED BY <1>1, <1>3, <2>1, <2>2, PhaseNext, CurrentNext
  <1> QED BY <1>2, <1>3 DEF IInv

\* IInv is an invariant.
THEOREM Invariant == Spec => []IInv
  BY InitInv, Inductive, PTL DEF Spec

\* Type correctness of the record, of all its copies and of the tasks.
THEOREM TypeCorrect == Spec => []TypeOK
  <1>1. IInv => TypeOK  BY DEF IInv
  <1> QED BY <1>1, Invariant, PTL

\* For every set of processes that work on a service without a lock, with
\* stale copies and crashes, a stored "ok" or "error" has a cause.
THEOREM CausesExist == Spec => []StatesHaveCause
  <1>1. IInv => StatesHaveCause  BY DEF IInv, CauseInv, Explained, Cause, StatesHaveCause
  <1> QED BY <1>1, Invariant, PTL

\* For every set of actions and every step of parallel jobs, at its first or its
\* second attempt: when one process works on a service, and no child of an
\* aborted attempt goes on beside it, no state of an action is lost.
THEOREM NothingIsLost == Spec => []NothingLost
  <1>1. ASSUME IInv, Alone, stray = {}, Quiet  PROVE stored = meant
    <2>1. Undisturbed  BY <1>1 DEF Undisturbed, Quiet
    <2>2. Current(stored)  BY <1>1, <2>1 DEF IInv, CurrentInv
    <2>3. \A a \in Actions : stored[a] = meant[a]
      BY <1>1, <2>2 DEF Current, Pending, UnderWay, Quiet
    <2> QED BY <1>1, <2>3 DEF IInv, TypeOK, Records
  <1>2. IInv => NothingLost  BY <1>1 DEF NothingLost
  <1> QED BY <1>2, Invariant, PTL
=============================================================================
