---------------------------- MODULE MCTaskGraph ----------------------------
(***************************************************************************)
(* TaskGraph on four tasks, just enough for a chain one level too deep and *)
(* a cycle of three dependencies, and one nobody has created: two clients  *)
(* edit the graphs beside one that moves a task.  t2 waits for t3 from     *)
(* the start.                                                              *)
(***************************************************************************)
EXTENDS TaskGraph, TLC

CONSTANTS t1, t2, t3, t4, fresh

MCColumns == {"Backlog"}
MCMapsTo == [x \in MCColumns |-> "todo"]
NoEdges == {}
NoRules == {}
MCBlockers == {<<t2, t3>>}
NoParents == [t \in Tasks |-> None]

Ask(verb, task, to) == [verb |-> verb, task |-> task, to |-> to]
MCMoves == {Ask("status", t1, "doing"), Ask("status", t2, "done")}
MCRequests == [c \in Calls |-> Ops \X MCMoves]

Edit(verb, task, other) == [verb |-> verb, task |-> task, other |-> other]
MCEdits ==
    {Edit("setParent", t1, t2), Edit("setParent", t2, t3), Edit("setParent", t3, t4),
     Edit("setParent", t3, t1), Edit("setParent", t2, t1), Edit("setParent", t1, t1),
     Edit("setParent", t2, None),
     Edit("addDependency", t1, t2), Edit("addDependency", t2, t1), Edit("addDependency", t3, t1),
     Edit("removeDependency", t1, t2), Edit("removeDependency", t2, t3),
     Edit("setParent", t4, fresh), Edit("addDependency", t4, fresh)}

Perms == Permutations(GraphCalls)
============================================================================
