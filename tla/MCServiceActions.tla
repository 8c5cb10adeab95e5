-------------------------- MODULE MCServiceActions --------------------------
(* Two actions and eight tasks.  The layouts: a step of two jobs with a    *)
(* call of its process or beside one of another process, and any two of    *)
(* the tasks in a process each.                                            *)
EXTENDS ServiceActions, FiniteSets, FiniteSetsExt, TLC

MCActions == {"install", "start"}
MCKind ==
  [sch |-> "schedule", chg |-> "change", pln |-> "plan", set |-> "set",
   job1 |-> "job", job2 |-> "job", dir |-> "direct", rec |-> "recurring"]
MCTasks == DOMAIN MCKind
MCActionOf == [t \in MCTasks |-> IF t \in {"sch", "job1", "dir"} THEN "install" ELSE "start"]
MCInitial ==
  {[install |-> "ok", start |-> "scheduled"], [install |-> "disabled", start |-> "ok"]}

Step == {"job1", "job2"}
Layout(P, Q) == [t \in MCTasks |-> IF t \in P THEN 1 ELSE IF t \in Q THEN 2 ELSE 0]
Beside(p) == LET t == CHOOSE v \in p : TRUE IN Layout({t}, p \ {t})
MCHomes ==
  {Layout(Step \cup {"set"}, {}), Layout(Step \cup {"chg"}, {}), Layout(Step, {"pln"})}
  \cup {Beside(p) : p \in kSubset(2, MCTasks \ {"job2"})}

RecurringHomes == {Layout({"rec"}, {})}
=============================================================================
