---------------------------- MODULE MCRunPlanning ----------------------------
(* Default: three services, every order of producers among them, the       *)
(* consumers as consume() stores them or lost, one or two scheduled        *)
(* actions, and a circle of producers.  Custom: two services whose         *)
(* templates branch, require themselves, or require what does not exist.   *)
EXTENDS RunPlanning, FiniteSets, FiniteSetsExt, TLC
CONSTANTS s1, s2, s3

MCServices == {s1, s2, s3}
MCActions == {"install", "start", "stop"}
\* s2 has no stop action: the recursion of addConsumerEdges ends there.
MCActionsOf == [s \in MCServices |-> IF s = s2 THEN {"install", "start"} ELSE MCActions]
MCRequires == [s \in MCServices |-> [x \in MCActions |-> IF x = "start" THEN <<"install">> ELSE << >>]]

Orders ==
  {[s \in MCServices |-> CASE s = s1 -> {} [] s = s2 -> B [] s = s3 -> C] :
     B \in SUBSET {s1}, C \in SUBSET {s1, s2}}
Circle == [s \in MCServices |-> CASE s = s1 -> {s2} [] s = s2 -> {s1} [] s = s3 -> {s2}]
Inverted(R, S) == [s \in S |-> {t \in S : s \in R[t]}]

MCNodes == {n \in MCServices \X MCActions : n[2] \in MCActionsOf[n[1]]}
\* Which actions are scheduled, and which are ok: none, one, or all others.
MCStates ==
  UNION {{[n \in MCNodes |-> IF n \in S THEN "scheduled" ELSE IF n \in K THEN "ok" ELSE "new"] :
            K \in kSubset(0, MCNodes) \cup kSubset(1, MCNodes) \cup {MCNodes}} :
         S \in kSubset(1, MCNodes) \cup kSubset(2, MCNodes)}
MCRepos ==
  {[producers |-> R, consumers |-> C, state |-> T] :
     R \in Orders, C \in {[s \in MCServices |-> {}]}, T \in MCStates}
  \cup
  {[producers |-> R, consumers |-> Inverted(R, MCServices), state |-> T] :
     R \in Orders \cup {Circle}, T \in MCStates}

TwoServices == {s1, s2}
CustomActions == {"install", "start", "test"}
CustomActionsOf == [s \in TwoServices |-> IF s = s1 THEN CustomActions ELSE {"install", "start"}]
CustomRequires ==
  [s \in TwoServices |->
     IF s = s1
       THEN [install |-> << >>, start |-> <<"install">>, test |-> <<"install", "start">>]
       ELSE [install |-> <<"test">>, start |-> <<"start">>, test |-> << >>]]
CustomNodes == {n \in TwoServices \X CustomActions : n[2] \in CustomActionsOf[n[1]]}
CustomRepos ==
  {[producers |-> R, consumers |-> Inverted(R, TwoServices), state |-> T] :
     R \in {[s \in TwoServices |-> {}], [s \in TwoServices |-> IF s = s1 THEN {s2} ELSE {}]},
     T \in [CustomNodes -> {"scheduled", "new", "ok"}]}
=============================================================================
