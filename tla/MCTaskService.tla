--------------------------- MODULE MCTaskService ---------------------------
(***************************************************************************)
(* TaskService on a small instance: t2 waits for t1 and has a child t3,    *)
(* and there is room for two more tasks.  Of the three calls, two carry    *)
(* one operation_id and the third another.                                 *)
(***************************************************************************)
EXTENDS TaskService

CONSTANTS t1, t2, t3, fresh, ana, ghost, o1, o2, original, retry, rival

MCColumns == {"Backlog", "Doing", "Done"}
MCMapsTo == [x \in MCColumns |-> CASE x = "Backlog" -> "todo"
                                   [] x = "Doing" -> "doing"
                                   [] x = "Done" -> "done"]
MCEdges == {<<"Backlog", "Doing">>, <<"Doing", "Done">>, <<"Done", "Doing">>}
MCBlockers == {<<t2, t1>>}

Ask(verb, task, to) == [verb |-> verb, task |-> task, to |-> to]
\* What the client of o1 asks, what it sends under o1 again, the same or something
\* else, and what another one asks meanwhile, every way to be refused among it.
\* Nobody has task fresh at the start.
MCFirst == {Ask("create", None, None), Ask("status", t1, "done"), Ask("update", t1, ana)}
MCAgain == {Ask("create", None, None), Ask("status", t1, "done")}
MCRival == {Ask("status", t1, "blocked"), Ask("status", t2, "done"), Ask("transition", t1, "Doing"),
            Ask("transition", t1, "Done"), Ask("transition", t1, None),
            Ask("update", t1, ghost), Ask("points", t1, Keep), Ask("status", fresh, "todo")}
MCBodies == MCFirst \cup MCAgain \cup MCRival
MCRequests == [c \in Calls |-> IF c = original THEN {o1} \X MCFirst
                               ELSE IF c = retry THEN {o1} \X MCAgain ELSE {o2} \X MCRival]
MCFamily == [t \in Tasks |-> IF t = t3 THEN t2 ELSE None]

Rule(field, value, action, arg) ==
    [field |-> field, value |-> value, action |-> action, arg |-> arg]
\* Two rules that answer each other, one of which comes and goes, and one that
\* names nobody.
MCManaged == {Rule("status", "doing", "assignee", ana)}
MCConfigured == {Rule("assignee", None, "status", "doing"),
                 Rule("status", "blocked", "assignee", ghost)}
MCRules == MCManaged \cup MCConfigured
============================================================================
