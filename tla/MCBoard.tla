------------------------------ MODULE MCBoard ------------------------------
(***************************************************************************)
(* Board with two tasks in one column, room for a third, and a second      *)
(* column: three moves are what it takes for a task to leave, another to   *)
(* enter below it, and the first to come back.                             *)
(***************************************************************************)
EXTENDS Board

MCStart == [t \in 1 .. 2 |-> "Backlog"]
Ask(task, column, after) == [task |-> task, column |-> column, after |-> after]
\* To the top; a task that has yet to come, after one that may have left.
MCReorders == {Ask(2, "Backlog", None), Ask(3, "Backlog", 1)}
MCTargets == {"Doing", "Backlog"}
============================================================================
