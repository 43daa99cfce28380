----------------------------- MODULE MCSprints -----------------------------
(***************************************************************************)
(* Sprints with an active and two planned sprints of project web, a task   *)
(* of web in the active one, a task of project ops and an id of no task.   *)
(***************************************************************************)
EXTENDS Sprints

Row(project, status, version) == [project |-> project, status |-> status, version |-> version]
MCStart == [s \in {"now", "next", "later"} |->
              IF s = "now" THEN Row("web", "active", 2) ELSE Row("web", "planning", 1)]
MCMembers == {<<"now", "card">>}
MCHome == [t \in {"card", "probe"} |-> IF t = "card" THEN "web" ELSE "ops"]

Create(op, project) == [verb |-> "create", op |-> op, sprint |-> None, task |-> None,
                        project |-> project, if_match |-> 0]
Transition(verb, op, s, v) == [verb |-> verb, op |-> op, sprint |-> s, task |-> None,
                               project |-> None, if_match |-> v]
Move(verb, s, t) == [verb |-> verb, op |-> None, sprint |-> s, task |-> t,
                     project |-> None, if_match |-> 0]

\* A request and its retry, c1 and c2, with moves and activations beside them.
MCRequests == [c \in {"c1", "c2", "c3", "c4"} |->
    CASE c \in {"c1", "c2"} -> {Transition("close", "o1", "now", 2), Create("o1", "web")}
      [] c = "c3" -> {Move("remove", "now", "card"), Move("assign", "next", "card"),
                      Transition("activate", "o2", "next", 1)}
      [] c = "c4" -> {Move("assign", "now", "card"), Move("assign", "later", "card"),
                      Transition("activate", "o3", "later", 1),
                      Transition("activate", "o3", "next", 1),
                      Move("assign", "next", "probe"), Move("assign", "c1", "nobody")}]
============================================================================
