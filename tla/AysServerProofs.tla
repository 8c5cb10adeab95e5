--------------------------- MODULE AysServerProofs ---------------------------
(***************************************************************************)
(* Proofs about AysServer: type correctness, NothingDropped, StoppedIsIdle *)
(* and that the daemon implements CommandQueue, for every set of commands  *)
(* and of recurring actions and whatever the bounds are.                   *)
(***************************************************************************)
EXTENDS AysServer, SequenceTheorems, TLAPS

\* The main thread has a command in hand while it dispatches, and only then.
HandInv == hand # None <=> pc = "dispatch"

\* The list holds the last commands put; the one in hand is the one before them.
QueueInv ==
  /\ Len(queue) <= Len(put)
  /\ \A i \in 1..Len(queue) : queue[i] = put[Len(put) - Len(queue) + i]
  /\ hand # None => Len(queue) < Len(put) /\ hand = put[Len(put) - Len(queue)]

\* From the join of the pool on, its tasks only get fewer.
StopInv ==
  /\ stopPc \in {"join", "stopped"} => pool = "closed"
  /\ stopPc = "stopped" => tasks = {}

CrashInv == pc = "crashed" => crashes > 0

IInv == TypeOK /\ HandInv /\ QueueInv /\ StopInv /\ CrashInv /\ NothingDropped

-----------------------------------------------------------------------------
LEMMA InitInv == Init => IInv
  <1> SUFFICES ASSUME Init  PROVE IInv
    OBVIOUS
  <1>a. /\ MaxPut \in Nat /\ MaxPending \in Nat /\ MaxCrashes \in Nat
        /\ 0 \in 0..MaxPending /\ 0 \in 0..MaxCrashes
    BY ServerAssumption
  <1>b. put \in Seq(Commands) /\ queue \in Seq(Commands) /\ handed \in Seq(Commands)
    BY DEF Init
  <1>c. pending \in [Recurring -> 0..MaxPending]
    BY <1>a DEF Init
  <1>1. TypeOK  BY <1>a, <1>b, <1>c DEF Init, TypeOK
  <1>2. HandInv /\ StopInv /\ CrashInv  BY DEF Init, HandInv, StopInv, CrashInv
  <1>3. QueueInv  BY DEF Init, QueueInv
  <1>4. NothingDropped  BY DEF Init, NothingDropped, Elements
  <1> QED BY <1>1, <1>2, <1>3, <1>4 DEF IInv

LEMMA ElementsAppend ==
  ASSUME NEW s \in Seq(Commands), NEW c \in Commands
  PROVE  Elements(Append(s, c)) = Elements(s) \cup {c}
  <1>1. DOMAIN Append(s, c) = 1..(Len(s) + 1) /\ DOMAIN s = 1..Len(s) /\ Len(s) \in Nat
    OBVIOUS
  <1>2. \A i \in 1..Len(s) : Append(s, c)[i] = s[i]
    OBVIOUS
  <1>3. Append(s, c)[Len(s) + 1] = c
    OBVIOUS
  <1> QED BY <1>1, <1>2, <1>3 DEF Elements

LEMMA ElementsTail ==
  ASSUME NEW s \in Seq(Commands), s # <<>>
  PROVE  Elements(s) \subseteq Elements(Tail(s)) \cup {s[1]}
  <1> SUFFICES ASSUME NEW i \in 1..Len(s), i # 1  PROVE s[i] \in Elements(Tail(s))
    BY DEF Elements
  <1>1. Tail(s) \in Seq(Commands) /\ Len(Tail(s)) = Len(s) - 1
    OBVIOUS
  <1>2. i - 1 \in DOMAIN Tail(s)  BY <1>1
  <1>3. Tail(s)[i - 1] = s[i]
    OBVIOUS
  <1> QED BY <1>2, <1>3 DEF Elements

LEMMA ElementsType ==
  ASSUME NEW s \in Seq(Commands)
  PROVE  Elements(s) \subseteq Commands
  BY DEF Elements

LEMMA TypeNext ==
  ASSUME TypeOK, HandInv, [Next]_vars
  PROVE  TypeOK'
  <1> USE ServerAssumption DEF TypeOK, mainVars, loopVars
  <1>1. ASSUME NEW c \in Commands, Put(c)  PROVE TypeOK'
    BY <1>1 DEF Put
  <1>2. ASSUME NEW c \in Commands, TaskEnds(c)  PROVE TypeOK'
    BY <1>2 DEF TaskEnds
  <1>3. ASSUME NEW r \in Recurring, ActionEnds(r)  PROVE TypeOK'
    BY <1>3 DEF ActionEnds
  <1>4. ASSUME NEW r \in Recurring, PeriodPasses(r)  PROVE TypeOK'
    BY <1>4 DEF PeriodPasses
  <1>5. ASSUME NEW r \in Recurring, Visit(r)  PROVE TypeOK'
    BY <1>5 DEF Visit
  <1>6. CASE Start
    BY <1>6 DEF Start
  <1>7. CASE Started
    BY <1>7 DEF Started
  <1>8. CASE LoopTest
    BY <1>8 DEF LoopTest
  <1>9. CASE Get
    <2>1. queue[1] \in Commands /\ Tail(queue) \in Seq(Commands)
      BY <1>9 DEF Get
    <2> QED BY <1>9, <2>1 DEF Get
  <1>10. CASE GetTimesOut
    BY <1>10 DEF GetTimesOut
  <1>11. CASE Execute
    <2>1. hand \in Commands  BY <1>11 DEF Execute, HandInv
    <2>2. CASE HandOver
      <3>1. handed' \in Seq(Commands)  BY <2>1, <2>2 DEF HandOver
      <3>2. tasks' \subseteq Commands /\ pc' = "head"  BY <2>1, <2>2 DEF HandOver
      <3> QED BY <1>11, <3>1, <3>2 DEF Execute
    <2>3. CASE Refused  BY <1>11, <2>1, <2>3 DEF Execute, Refused, HandOver
    <2> QED BY <1>11, <2>2, <2>3 DEF Execute
  <1>12. CASE DoRun
    <2>1. hand \in Commands  BY <1>12 DEF DoRun, HandInv
    <2>2. CASE HandOver
      <3>1. handed' \in Seq(Commands)  BY <2>1, <2>2 DEF HandOver
      <3>2. tasks' \subseteq Commands /\ pc' = "head"  BY <2>1, <2>2 DEF HandOver
      <3> QED BY <1>12, <3>1, <3>2 DEF DoRun
    <2>3. CASE Refused  BY <1>12, <2>1, <2>3 DEF DoRun, Refused, HandOver
    <2> QED BY <1>12, <2>2, <2>3 DEF DoRun
  <1>13. CASE PropagateEvent
    BY <1>13 DEF PropagateEvent
  <1>14. CASE Ignore
    BY <1>14 DEF Ignore
  <1>15. CASE StartAgain
    BY <1>15 DEF StartAgain
  <1>16. CASE StopLoop
    BY <1>16 DEF StopLoop
  <1>17. CASE StopServer
    BY <1>17 DEF StopServer
  <1>18. CASE ClosePool
    BY <1>18 DEF ClosePool
  <1>19. CASE JoinPool
    BY <1>19 DEF JoinPool
  <1>20. CASE LoopBegins
    BY <1>20 DEF LoopBegins
  <1>21. CASE LoopEnds
    BY <1>21 DEF LoopEnds
  <1>22. CASE RoundBegins
    BY <1>22 DEF RoundBegins
  <1>23. CASE CleanupRaises
    BY <1>23 DEF CleanupRaises
  <1>24. CASE CleanedUp
    BY <1>24 DEF CleanedUp
  <1>25. CASE WalkRaises
    BY <1>25 DEF WalkRaises
  <1>26. CASE Wake
    BY <1>26 DEF Wake
  <1>27. CASE Crash
    BY <1>27 DEF Crash
  <1>28. CASE Restart
    <2>1. 0 \in 0..MaxPending
      OBVIOUS
    <2>2. pending' \in [Recurring -> 0..MaxPending]
      BY <1>28, <2>1 DEF Restart
    <2> QED BY <1>28, <2>2 DEF Restart
  <1>29. CASE UNCHANGED vars
    BY <1>29 DEF vars, mainVars, loopVars
  <1> QED
    BY <1>1, <1>2, <1>3, <1>4, <1>5, <1>6, <1>7, <1>8, <1>9, <1>10, <1>11, <1>12, <1>13, <1>14, <1>15, <1>16, <1>17, <1>18, <1>19, <1>20, <1>21, <1>22, <1>23, <1>24, <1>25, <1>26, <1>27, <1>28, <1>29 DEF Next, Main, Stopping, Loop

LEMMA HandNext ==
  ASSUME TypeOK, HandInv, [Next]_vars
  PROVE  HandInv'
  <1> USE DEF HandInv, mainVars, Alive
  <1>1. ASSUME NEW c \in Commands, Put(c)  PROVE HandInv'
    BY <1>1 DEF Put
  <1>2. ASSUME NEW c \in Commands, TaskEnds(c)  PROVE HandInv'
    BY <1>2 DEF TaskEnds
  <1>3. ASSUME NEW r \in Recurring, ActionEnds(r)  PROVE HandInv'
    BY <1>3 DEF ActionEnds
  <1>4. ASSUME NEW r \in Recurring, PeriodPasses(r)  PROVE HandInv'
    BY <1>4 DEF PeriodPasses
  <1>5. ASSUME NEW r \in Recurring, Visit(r)  PROVE HandInv'
    BY <1>5 DEF Visit
  <1>6. CASE Start
    BY <1>6 DEF Start
  <1>7. CASE Started
    BY <1>7 DEF Started
  <1>8. CASE LoopTest
    BY <1>8 DEF LoopTest
  <1>9. CASE Get
    <2>1. queue[1] \in Commands  BY <1>9 DEF Get, TypeOK
    <2> QED BY <1>9, <2>1, ServerAssumption DEF Get
  <1>10. CASE GetTimesOut
    BY <1>10 DEF GetTimesOut
  <1>11. CASE Execute
    BY <1>11 DEF Execute, HandOver, Refused
  <1>12. CASE DoRun
    BY <1>12 DEF DoRun, HandOver, Refused
  <1>13. CASE PropagateEvent
    BY <1>13 DEF PropagateEvent
  <1>14. CASE Ignore
    BY <1>14 DEF Ignore
  <1>15. CASE StartAgain
    BY <1>15 DEF StartAgain
  <1>16. CASE StopLoop
    BY <1>16 DEF StopLoop
  <1>17. CASE StopServer
    BY <1>17 DEF StopServer
  <1>18. CASE ClosePool
    BY <1>18 DEF ClosePool
  <1>19. CASE JoinPool
    BY <1>19 DEF JoinPool
  <1>20. CASE LoopBegins
    BY <1>20 DEF LoopBegins
  <1>21. CASE LoopEnds
    BY <1>21 DEF LoopEnds
  <1>22. CASE RoundBegins
    BY <1>22 DEF RoundBegins
  <1>23. CASE CleanupRaises
    BY <1>23 DEF CleanupRaises
  <1>24. CASE CleanedUp
    BY <1>24 DEF CleanedUp
  <1>25. CASE WalkRaises
    BY <1>25 DEF WalkRaises
  <1>26. CASE Wake
    BY <1>26 DEF Wake
  <1>27. CASE Crash
    BY <1>27 DEF Crash
  <1>28. CASE Restart
    BY <1>28 DEF Restart
  <1>29. CASE UNCHANGED vars
    BY <1>29 DEF vars, mainVars, loopVars
  <1> QED
    BY <1>1, <1>2, <1>3, <1>4, <1>5, <1>6, <1>7, <1>8, <1>9, <1>10, <1>11, <1>12, <1>13, <1>14, <1>15, <1>16, <1>17, <1>18, <1>19, <1>20, <1>21, <1>22, <1>23, <1>24, <1>25, <1>26, <1>27, <1>28, <1>29 DEF Next, Main, Stopping, Loop

LEMMA StopNext ==
  ASSUME StopInv, [Next]_vars
  PROVE  StopInv'
  <1> USE DEF StopInv, mainVars, loopVars
  <1>1. ASSUME NEW c \in Commands, Put(c)  PROVE StopInv'
    BY <1>1 DEF Put
  <1>2. ASSUME NEW c \in Commands, TaskEnds(c)  PROVE StopInv'
    BY <1>2 DEF TaskEnds
  <1>3. ASSUME NEW r \in Recurring, ActionEnds(r)  PROVE StopInv'
    BY <1>3 DEF ActionEnds
  <1>4. ASSUME NEW r \in Recurring, PeriodPasses(r)  PROVE StopInv'
    BY <1>4 DEF PeriodPasses
  <1>5. ASSUME NEW r \in Recurring, Visit(r)  PROVE StopInv'
    BY <1>5 DEF Visit
  <1>6. CASE Start
    BY <1>6 DEF Start
  <1>7. CASE Started
    BY <1>7 DEF Started
  <1>8. CASE LoopTest
    BY <1>8 DEF LoopTest
  <1>9. CASE Get
    BY <1>9 DEF Get
  <1>10. CASE GetTimesOut
    BY <1>10 DEF GetTimesOut
  <1>11. CASE Execute
    BY <1>11 DEF Execute, HandOver, Refused
  <1>12. CASE DoRun
    BY <1>12 DEF DoRun, HandOver, Refused
  <1>13. CASE PropagateEvent
    BY <1>13 DEF PropagateEvent
  <1>14. CASE Ignore
    BY <1>14 DEF Ignore
  <1>15. CASE StartAgain
    BY <1>15 DEF StartAgain
  <1>16. CASE StopLoop
    BY <1>16 DEF StopLoop
  <1>17. CASE StopServer
    BY <1>17 DEF StopServer
  <1>18. CASE ClosePool
    BY <1>18 DEF ClosePool
  <1>19. CASE JoinPool
    BY <1>19 DEF JoinPool
  <1>20. CASE LoopBegins
    BY <1>20 DEF LoopBegins
  <1>21. CASE LoopEnds
    BY <1>21 DEF LoopEnds
  <1>22. CASE RoundBegins
    BY <1>22 DEF RoundBegins
  <1>23. CASE CleanupRaises
    BY <1>23 DEF CleanupRaises
  <1>24. CASE CleanedUp
    BY <1>24 DEF CleanedUp
  <1>25. CASE WalkRaises
    BY <1>25 DEF WalkRaises
  <1>26. CASE Wake
    BY <1>26 DEF Wake
  <1>27. CASE Crash
    BY <1>27 DEF Crash
  <1>28. CASE Restart
    BY <1>28 DEF Restart
  <1>29. CASE UNCHANGED vars
    BY <1>29 DEF vars, mainVars, loopVars
  <1> QED
    BY <1>1, <1>2, <1>3, <1>4, <1>5, <1>6, <1>7, <1>8, <1>9, <1>10, <1>11, <1>12, <1>13, <1>14, <1>15, <1>16, <1>17, <1>18, <1>19, <1>20, <1>21, <1>22, <1>23, <1>24, <1>25, <1>26, <1>27, <1>28, <1>29 DEF Next, Main, Stopping, Loop

LEMMA CrashNext ==
  ASSUME TypeOK, CrashInv, [Next]_vars
  PROVE  CrashInv'
  <1> USE DEF CrashInv, mainVars, loopVars
  <1>1. ASSUME NEW c \in Commands, Put(c)  PROVE CrashInv'
    BY <1>1 DEF Put
  <1>2. ASSUME NEW c \in Commands, TaskEnds(c)  PROVE CrashInv'
    BY <1>2 DEF TaskEnds
  <1>3. ASSUME NEW r \in Recurring, ActionEnds(r)  PROVE CrashInv'
    BY <1>3 DEF ActionEnds
  <1>4. ASSUME NEW r \in Recurring, PeriodPasses(r)  PROVE CrashInv'
    BY <1>4 DEF PeriodPasses
  <1>5. ASSUME NEW r \in Recurring, Visit(r)  PROVE CrashInv'
    BY <1>5 DEF Visit
  <1>6. CASE Start
    BY <1>6 DEF Start
  <1>7. CASE Started
    BY <1>7 DEF Started
  <1>8. CASE LoopTest
    BY <1>8 DEF LoopTest
  <1>9. CASE Get
    BY <1>9 DEF Get
  <1>10. CASE GetTimesOut
    BY <1>10 DEF GetTimesOut
  <1>11. CASE Execute
    BY <1>11 DEF Execute, HandOver, Refused
  <1>12. CASE DoRun
    BY <1>12 DEF DoRun, HandOver, Refused
  <1>13. CASE PropagateEvent
    BY <1>13 DEF PropagateEvent
  <1>14. CASE Ignore
    BY <1>14 DEF Ignore
  <1>15. CASE StartAgain
    BY <1>15 DEF StartAgain
  <1>16. CASE StopLoop
    BY <1>16 DEF StopLoop
  <1>17. CASE StopServer
    BY <1>17 DEF StopServer
  <1>18. CASE ClosePool
    BY <1>18 DEF ClosePool
  <1>19. CASE JoinPool
    BY <1>19 DEF JoinPool
  <1>20. CASE LoopBegins
    BY <1>20 DEF LoopBegins
  <1>21. CASE LoopEnds
    BY <1>21 DEF LoopEnds
  <1>22. CASE RoundBegins
    BY <1>22 DEF RoundBegins
  <1>23. CASE CleanupRaises
    BY <1>23 DEF CleanupRaises
  <1>24. CASE CleanedUp
    BY <1>24 DEF CleanedUp
  <1>25. CASE WalkRaises
    BY <1>25 DEF WalkRaises
  <1>26. CASE Wake
    BY <1>26 DEF Wake
  <1>27. CASE Crash
    BY <1>27 DEF Crash, TypeOK
  <1>28. CASE Restart
    BY <1>28 DEF Restart
  <1>29. CASE UNCHANGED vars
    BY <1>29 DEF vars, mainVars, loopVars
  <1> QED
    BY <1>1, <1>2, <1>3, <1>4, <1>5, <1>6, <1>7, <1>8, <1>9, <1>10, <1>11, <1>12, <1>13, <1>14, <1>15, <1>16, <1>17, <1>18, <1>19, <1>20, <1>21, <1>22, <1>23, <1>24, <1>25, <1>26, <1>27, <1>28, <1>29 DEF Next, Main, Stopping, Loop

LEMMA QueueNext ==
  ASSUME TypeOK, HandInv, QueueInv, [Next]_vars
  PROVE  QueueInv'
  <1> USE DEF QueueInv, mainVars, loopVars
  <1>1. ASSUME NEW c \in Commands, Put(c)  PROVE QueueInv'
    <2>1. put \in Seq(Commands) /\ queue \in Seq(Commands)  BY DEF TypeOK
    <2>2. PICK d \in Commands : put' = Append(put, d) /\ queue' = Append(queue, d)  BY <1>1 DEF Put
    <2>3. Len(put') = Len(put) + 1 /\ Len(queue') = Len(queue) + 1  BY <2>1, <2>2
    <2>4. ASSUME NEW i \in 1..Len(queue')  PROVE queue'[i] = put'[Len(put') - Len(queue') + i]
      <3>1. CASE i = Len(queue')  BY <2>1, <2>2, <2>3, <3>1
      <3>2. CASE i # Len(queue')
        <4>1. i \in 1..Len(queue) /\ Len(put) - Len(queue) + i \in 1..Len(put)
          BY <2>1, <2>3, <3>2
        <4> QED BY <2>1, <2>2, <2>3, <4>1
      <3> QED BY <3>1, <3>2
    <2>5. hand' = hand  BY <1>1 DEF Put
    <2>6. ASSUME hand # None  PROVE hand = put'[Len(put') - Len(queue')] /\ Len(queue') < Len(put')
      <3>1. Len(put) - Len(queue) \in 1..Len(put)  BY <2>1, <2>6
      <3> QED BY <2>1, <2>2, <2>3, <2>6, <3>1
    <2>7. Len(queue') <= Len(put')  BY <2>1, <2>3
    <2> QED BY <2>4, <2>5, <2>6, <2>7
  <1>2. ASSUME NEW c \in Commands, TaskEnds(c)  PROVE QueueInv'
    BY <1>2 DEF TaskEnds
  <1>3. ASSUME NEW r \in Recurring, ActionEnds(r)  PROVE QueueInv'
    BY <1>3 DEF ActionEnds
  <1>4. ASSUME NEW r \in Recurring, PeriodPasses(r)  PROVE QueueInv'
    BY <1>4 DEF PeriodPasses
  <1>5. ASSUME NEW r \in Recurring, Visit(r)  PROVE QueueInv'
    BY <1>5 DEF Visit
  <1>6. CASE Start
    BY <1>6 DEF Start
  <1>7. CASE Started
    BY <1>7 DEF Started
  <1>8. CASE LoopTest
    BY <1>8 DEF LoopTest
  <1>9. CASE Get
    <2>1. put \in Seq(Commands) /\ queue \in Seq(Commands)  BY DEF TypeOK
    <2> QED BY <1>9, <2>1 DEF Get
  <1>10. CASE GetTimesOut
    BY <1>10 DEF GetTimesOut
  <1>11. CASE Execute
    BY <1>11 DEF Execute, HandOver, Refused
  <1>12. CASE DoRun
    BY <1>12 DEF DoRun, HandOver, Refused
  <1>13. CASE PropagateEvent
    BY <1>13 DEF PropagateEvent
  <1>14. CASE Ignore
    BY <1>14 DEF Ignore
  <1>15. CASE StartAgain
    BY <1>15 DEF StartAgain
  <1>16. CASE StopLoop
    BY <1>16 DEF StopLoop
  <1>17. CASE StopServer
    BY <1>17 DEF StopServer
  <1>18. CASE ClosePool
    BY <1>18 DEF ClosePool
  <1>19. CASE JoinPool
    BY <1>19 DEF JoinPool
  <1>20. CASE LoopBegins
    BY <1>20 DEF LoopBegins
  <1>21. CASE LoopEnds
    BY <1>21 DEF LoopEnds
  <1>22. CASE RoundBegins
    BY <1>22 DEF RoundBegins
  <1>23. CASE CleanupRaises
    BY <1>23 DEF CleanupRaises
  <1>24. CASE CleanedUp
    BY <1>24 DEF CleanedUp
  <1>25. CASE WalkRaises
    BY <1>25 DEF WalkRaises
  <1>26. CASE Wake
    BY <1>26 DEF Wake
  <1>27. CASE Crash
    BY <1>27 DEF Crash
  <1>28. CASE Restart
    BY <1>28 DEF Restart
  <1>29. CASE UNCHANGED vars
    BY <1>29 DEF vars, mainVars, loopVars
  <1> QED
    BY <1>1, <1>2, <1>3, <1>4, <1>5, <1>6, <1>7, <1>8, <1>9, <1>10, <1>11, <1>12, <1>13, <1>14, <1>15, <1>16, <1>17, <1>18, <1>19, <1>20, <1>21, <1>22, <1>23, <1>24, <1>25, <1>26, <1>27, <1>28, <1>29 DEF Next, Main, Stopping, Loop

LEMMA DroppedNext ==
  ASSUME TypeOK, HandInv, CrashInv, NothingDropped, [Next]_vars
  PROVE  NothingDropped'
  <1> USE DEF NothingDropped, mainVars, loopVars
  <1>1. ASSUME NEW c \in Commands, Put(c)  PROVE NothingDropped'
    <2>1. put \in Seq(Commands) /\ queue \in Seq(Commands)  BY DEF TypeOK
    <2>2. Elements(put') = Elements(put) \cup {c} /\ Elements(queue') = Elements(queue) \cup {c}
      BY <1>1, <2>1, ElementsAppend DEF Put
    <2> QED BY <1>1, <2>2 DEF Put
  <1>2. ASSUME NEW c \in Commands, TaskEnds(c)  PROVE NothingDropped'
    BY <1>2 DEF TaskEnds
  <1>3. ASSUME NEW r \in Recurring, ActionEnds(r)  PROVE NothingDropped'
    BY <1>3 DEF ActionEnds
  <1>4. ASSUME NEW r \in Recurring, PeriodPasses(r)  PROVE NothingDropped'
    BY <1>4 DEF PeriodPasses
  <1>5. ASSUME NEW r \in Recurring, Visit(r)  PROVE NothingDropped'
    BY <1>5 DEF Visit
  <1>6. CASE Start
    BY <1>6 DEF Start
  <1>7. CASE Started
    BY <1>7 DEF Started
  <1>8. CASE LoopTest
    BY <1>8 DEF LoopTest
  <1>9. CASE Get
    <2>1. queue \in Seq(Commands) /\ queue # <<>> /\ hand = None
      BY <1>9 DEF Get, TypeOK, HandInv
    <2>2. Elements(queue) \subseteq Elements(queue') \cup {hand'}  BY <1>9, <2>1, ElementsTail DEF Get
    <2>3. Elements(put) \subseteq Commands  BY ElementsType DEF TypeOK
    <2> QED BY <1>9, <2>1, <2>2, <2>3, ServerAssumption DEF Get
  <1>10. CASE GetTimesOut
    BY <1>10 DEF GetTimesOut
  <1>11. CASE Execute
    <2>1. handed \in Seq(Commands) /\ hand \in Commands  BY <1>11 DEF Execute, HandInv, TypeOK
    <2>2. CASE HandOver
      <3>1. Elements(handed') = Elements(handed) \cup {hand}  BY <2>1, <2>2, ElementsAppend DEF HandOver
      <3> QED BY <1>11, <3>1 DEF Execute
    <2>3. CASE Refused  BY <1>11, <2>3 DEF Execute, Refused
    <2> QED BY <1>11, <2>2, <2>3 DEF Execute
  <1>12. CASE DoRun
    <2>1. handed \in Seq(Commands) /\ hand \in Commands  BY <1>12 DEF DoRun, HandInv, TypeOK
    <2>2. CASE HandOver
      <3>1. Elements(handed') = Elements(handed) \cup {hand}  BY <2>1, <2>2, ElementsAppend DEF HandOver
      <3> QED BY <1>12, <3>1 DEF DoRun
    <2>3. CASE Refused  BY <1>12, <2>3 DEF DoRun, Refused
    <2> QED BY <1>12, <2>2, <2>3 DEF DoRun
  <1>13. CASE PropagateEvent
    BY <1>13 DEF PropagateEvent
  <1>14. CASE Ignore
    BY <1>14 DEF Ignore
  <1>15. CASE StartAgain
    BY <1>15 DEF StartAgain
  <1>16. CASE StopLoop
    BY <1>16 DEF StopLoop
  <1>17. CASE StopServer
    BY <1>17 DEF StopServer
  <1>18. CASE ClosePool
    BY <1>18 DEF ClosePool
  <1>19. CASE JoinPool
    BY <1>19 DEF JoinPool
  <1>20. CASE LoopBegins
    BY <1>20 DEF LoopBegins
  <1>21. CASE LoopEnds
    BY <1>21 DEF LoopEnds
  <1>22. CASE RoundBegins
    BY <1>22 DEF RoundBegins
  <1>23. CASE CleanupRaises
    BY <1>23 DEF CleanupRaises
  <1>24. CASE CleanedUp
    BY <1>24 DEF CleanedUp
  <1>25. CASE WalkRaises
    BY <1>25 DEF WalkRaises
  <1>26. CASE Wake
    BY <1>26 DEF Wake
  <1>27. CASE Crash
    <2>1. crashes' > 0  BY <1>27 DEF Crash, TypeOK
    <2> QED BY <2>1
  <1>28. CASE Restart
    <2>1. crashes' > 0  BY <1>28 DEF Restart, CrashInv
    <2> QED BY <2>1
  <1>29. CASE UNCHANGED vars
    BY <1>29 DEF vars, mainVars, loopVars
  <1> QED
    BY <1>1, <1>2, <1>3, <1>4, <1>5, <1>6, <1>7, <1>8, <1>9, <1>10, <1>11, <1>12, <1>13, <1>14, <1>15, <1>16, <1>17, <1>18, <1>19, <1>20, <1>21, <1>22, <1>23, <1>24, <1>25, <1>26, <1>27, <1>28, <1>29 DEF Next, Main, Stopping, Loop

LEMMA QueueStep ==
  ASSUME IInv, IInv', [Next]_vars
  PROVE  [Queue!Next]_(Queue!vars)
  <1> USE DEF IInv, mainVars, loopVars
  <1>1. ASSUME NEW c \in Commands, Put(c)  PROVE [Queue!Next]_(Queue!vars)
    <2>1. Queue!Put(c)  BY <1>1 DEF Put, Queue!Put
    <2> QED BY <2>1 DEF Queue!Next
  <1>2. ASSUME NEW c \in Commands, TaskEnds(c)  PROVE [Queue!Next]_(Queue!vars)
    BY <1>2 DEF TaskEnds, Queue!vars
  <1>3. ASSUME NEW r \in Recurring, ActionEnds(r)  PROVE [Queue!Next]_(Queue!vars)
    BY <1>3 DEF ActionEnds, Queue!vars
  <1>4. ASSUME NEW r \in Recurring, PeriodPasses(r)  PROVE [Queue!Next]_(Queue!vars)
    BY <1>4 DEF PeriodPasses, Queue!vars
  <1>5. ASSUME NEW r \in Recurring, Visit(r)  PROVE [Queue!Next]_(Queue!vars)
    BY <1>5 DEF Visit, Queue!vars
  <1>6. CASE Start
    BY <1>6 DEF Start, Queue!vars
  <1>7. CASE Started
    BY <1>7 DEF Started, Queue!vars
  <1>8. CASE LoopTest
    BY <1>8 DEF LoopTest, Queue!vars
  <1>9. CASE Get
    <2>1. Len(queue') = Len(queue) - 1 /\ put' = put /\ hand' \in Commands
      BY <1>9 DEF Get, TypeOK
    <2>2. Len(put) - Len(queue') = (Len(put) - Len(queue)) + 1 /\ Len(put) - Len(queue) < Len(put)
      BY <1>9, <2>1 DEF Get, TypeOK
    <2>3. hand = None /\ hand' # None  BY <1>9, <2>1, ServerAssumption DEF Get, HandInv
    <2>4. Queue!Take  BY <1>9, <2>1, <2>2, <2>3 DEF Get, Queue!Take
    <2> QED BY <2>4 DEF Queue!Next
  <1>10. CASE GetTimesOut
    BY <1>10 DEF GetTimesOut, Queue!vars
  <1>11. CASE Execute
    <2> USE <1>11 DEF Execute
    <2>1. hand # None /\ hand' = None /\ hand = put[Len(put) - Len(queue)]  BY DEF HandInv, QueueInv
    <2>2. CASE HandOver
      <3>1. Queue!Give  BY <2>1, <2>2 DEF HandOver, Queue!Give
      <3> QED BY <3>1 DEF Queue!Next
    <2>3. CASE Refused
      <3>1. Queue!Lose  BY <2>1, <2>3 DEF Refused, Queue!Lose
      <3> QED BY <3>1 DEF Queue!Next
    <2> QED BY <2>2, <2>3
  <1>12. CASE DoRun
    <2> USE <1>12 DEF DoRun
    <2>1. hand # None /\ hand' = None /\ hand = put[Len(put) - Len(queue)]  BY DEF HandInv, QueueInv
    <2>2. CASE HandOver
      <3>1. Queue!Give  BY <2>1, <2>2 DEF HandOver, Queue!Give
      <3> QED BY <3>1 DEF Queue!Next
    <2>3. CASE Refused
      <3>1. Queue!Lose  BY <2>1, <2>3 DEF Refused, Queue!Lose
      <3> QED BY <3>1 DEF Queue!Next
    <2> QED BY <2>2, <2>3
  <1>13. CASE PropagateEvent
    <2>1. Queue!Lose  BY <1>13 DEF PropagateEvent, HandInv, Queue!Lose
    <2> QED BY <2>1 DEF Queue!Next
  <1>14. CASE Ignore
    <2>1. Queue!Lose  BY <1>14 DEF Ignore, HandInv, Queue!Lose
    <2> QED BY <2>1 DEF Queue!Next
  <1>15. CASE StartAgain
    BY <1>15 DEF StartAgain, Queue!vars
  <1>16. CASE StopLoop
    BY <1>16 DEF StopLoop, Queue!vars
  <1>17. CASE StopServer
    BY <1>17 DEF StopServer, Queue!vars
  <1>18. CASE ClosePool
    <2>1. Queue!Close  BY <1>18 DEF ClosePool, Queue!Close
    <2> QED BY <2>1 DEF Queue!Next
  <1>19. CASE JoinPool
    BY <1>19 DEF JoinPool, Queue!vars
  <1>20. CASE LoopBegins
    BY <1>20 DEF LoopBegins, Queue!vars
  <1>21. CASE LoopEnds
    BY <1>21 DEF LoopEnds, Queue!vars
  <1>22. CASE RoundBegins
    BY <1>22 DEF RoundBegins, Queue!vars
  <1>23. CASE CleanupRaises
    BY <1>23 DEF CleanupRaises, Queue!vars
  <1>24. CASE CleanedUp
    BY <1>24 DEF CleanedUp, Queue!vars
  <1>25. CASE WalkRaises
    BY <1>25 DEF WalkRaises, Queue!vars
  <1>26. CASE Wake
    BY <1>26 DEF Wake, Queue!vars
  <1>27. CASE Crash
    <2>1. CASE hand = None  BY <1>27, <2>1 DEF Crash, Queue!vars
    <2>2. CASE hand # None
      <3>1. Queue!Lose  BY <1>27, <2>2 DEF Crash, Queue!Lose
      <3> QED BY <3>1 DEF Queue!Next
    <2> QED BY <2>1, <2>2
  <1>28. CASE Restart
    <2>1. Queue!Restart  BY <1>28 DEF Restart, Queue!Restart
    <2> QED BY <2>1 DEF Queue!Next
  <1>29. CASE UNCHANGED vars
    BY <1>29 DEF vars, mainVars, loopVars, Queue!vars
  <1> QED
    BY <1>1, <1>2, <1>3, <1>4, <1>5, <1>6, <1>7, <1>8, <1>9, <1>10, <1>11, <1>12, <1>13, <1>14, <1>15, <1>16, <1>17, <1>18, <1>19, <1>20, <1>21, <1>22, <1>23, <1>24, <1>25, <1>26, <1>27, <1>28, <1>29 DEF Next, Main, Stopping, Loop

LEMMA InvNext == IInv /\ [Next]_vars => IInv'
  BY TypeNext, HandNext, StopNext, CrashNext, QueueNext, DroppedNext DEF IInv

LEMMA Invariant == Spec => []IInv
  <1>1. Init => IInv  BY InitInv
  <1>2. IInv /\ [Next]_vars => IInv'  BY InvNext
  <1> QED BY <1>1, <1>2, PTL DEF Spec

-----------------------------------------------------------------------------
\* Type correctness of the daemon, for every set of commands.
THEOREM TypeCorrect == Spec => []TypeOK
  <1>1. IInv => TypeOK  BY DEF IInv
  <1> QED BY <1>1, Invariant, PTL

\* No command to execute or to run is dropped but by a crash or a closed pool.
THEOREM DroppedNever == Spec => []NothingDropped
  <1>1. IInv => NothingDropped  BY DEF IInv
  <1> QED BY <1>1, Invariant, PTL

\* A daemon whose stop() has returned has no command at work.
THEOREM IdleWhenStopped == Spec => []StoppedIsIdle
  <1>1. IInv => StoppedIsIdle  BY DEF IInv, StopInv, StoppedIsIdle
  <1> QED BY <1>1, Invariant, PTL

\* The daemon is a queue that hands each command over at most once and in order.
THEOREM DaemonIsQueue == Spec => ImplementsQueue
  <1>1. Init => Queue!Init
    BY DEF Init, Queue!Init
  <1>2. IInv /\ IInv' /\ [Next]_vars => [Queue!Next]_(Queue!vars)
    BY QueueStep
  <1> QED BY <1>1, <1>2, Invariant, PTL DEF Spec, ImplementsQueue, Queue!Spec

=============================================================================
