----------------------------- MODULE TaskGraph -----------------------------
(***************************************************************************)
(* The hierarchy and the dependencies of tasks (setParent, addDependency   *)
(* and removeDependency in service/tasks.ts) beside the task verbs of      *)
(* TaskService: both write the same rows and the same event log.           *)
(*                                                                         *)
(* A graph verb carries no operation_id and no if_match, so it is neither  *)
(* replayed nor refused for a stale version.  setParent reads without a    *)
(* lock and writes in one transaction; addDependency has no transaction,   *)
(* each of its statements commits by itself; removeDependency locks the    *)
(* task it unblocks.  A statement waits while another transaction has      *)
(* FOR UPDATE on a row it updates or refers to with a foreign key.         *)
(***************************************************************************)
EXTENDS TaskService

CONSTANTS
    GraphCalls,   \* clients that send graph verbs, each one at a time
    Edits,        \* what they may ask
    MaxDepth,     \* MAX_TASK_HIERARCHY_DEPTH: levels from root to leaf
    MaxEdits      \* bound: how many edits the clients ask for together

ParentEdit == [verb : {"setParent"}, task : Tasks, other : Tasks \cup {None}]
EdgeEdit == [verb : {"addDependency"}, task : Tasks, other : Tasks]
RemovalEdit == [verb : {"removeDependency"}, task : Tasks, other : Tasks]
EditShape == ParentEdit \cup EdgeEdit \cup RemovalEdit

ASSUME GraphAssumption ==
    /\ IsFiniteSet(Tasks)
    /\ Edits \subseteq EditShape
    /\ MaxDepth \in Nat \ {0}
    /\ MaxEdits \in Nat
    /\ GraphCalls \cap (Calls \cup {None}) = {}

VARIABLES
    gpc,     \* per graph call: where its handler stands
    edit,    \* per graph call: what it asks
    found,   \* per graph call: the task's row as it read it
    edits,   \* how many edits were asked for
    overtaken, \* history: calls, since whose arrival another has written the
               \* graph that they walk
    crossed,   \* history: verbs that have written for an overtaken call, or have
               \* put a task under itself
    untold     \* history: edges that a crash or a removal found between their
               \* insert and their event

history == <<overtaken, crossed, untold>>
gvars == <<gpc, edit, found, edits, history>>
callVars == <<pc, req, txn, answer>>

\* context_updated events of the graph verbs, told apart by their field.
GraphKinds == {"parent_task_id", "dependency_added", "dependency_removed"}

NoEdit == [verb |-> "none"]

GraphInit ==
    /\ Init
    /\ gpc = [g \in GraphCalls |-> "idle"]
    /\ edit = [g \in GraphCalls |-> NoEdit]
    /\ found = [g \in GraphCalls |-> NoRow]
    /\ edits = 0
    /\ overtaken = {} /\ crossed = {} /\ untold = {}

Pending(g) == gpc[g] # "idle"
Unlocked(t) == rowLock[t] = None

\* What no write of a graph verb touches.
KeepsRest == UNCHANGED <<ops, rules, clock, callVars, edits>>

\* The others that walk the graph which g writes.
Rivals(g) == {h \in GraphCalls \ {g} : Pending(h) /\ edit[h].verb = edit[g].verb}
\* g writes on what its walk has found; unsafe if that may no longer be so.
Cross(g, unsafe) ==
    /\ overtaken' = overtaken \cup Rivals(g)
    /\ crossed' = IF unsafe THEN crossed \cup {edit[g].verb} ELSE crossed

\* The calls between the insert of edge e and its event.
Loggers(e) == {g \in GraphCalls : gpc[g] \in {"block", "log"} /\ <<edit[g].task, edit[g].other>> = e}

\* Their created_at is left out: no property here looks at it.
GraphEvent(kind, from, to) ==
    [kind |-> kind, op |-> External, at |-> 0, from |-> from, to |-> to]

(***************************************************************************)
(* The walks over the graph.  Each is several SELECTs in the code and one  *)
(* step here; a write of the graph between two of them is one that has     *)
(* overtaken the call, which counts from its arrival.                      *)
(***************************************************************************)
Steps == 0 .. Cardinality(Tasks)

\* walkAncestors: the tasks it visits on its way up from t, each one once.
Visited(t) ==
    LET up[i \in Steps] ==
          IF i = 0 THEN {t}
          ELSE LET met == up[i - 1] IN met \cup ({rows[x].parent : x \in met} \ {None})
    IN  up[Cardinality(Tasks)]
Ancestors(t) == {rows[x].parent : x \in Visited(t)} \ {None}
AncestorCount(t) == Cardinality({x \in Visited(t) : rows[x].parent # None})

\* walkDescendants: generation by generation down from t.  It keeps no visited
\* set, so below a cycle of parents it does not end.
Generations(t) ==
    LET down[i \in Steps] ==
          IF i = 0 THEN {t}
          ELSE LET above == down[i - 1] IN {x \in Tasks : Exists(x) /\ rows[x].parent \in above}
    IN  down
DescendantsEnd(t) == Generations(t)[Cardinality(Tasks)] = {}
Height(t) == Cardinality({i \in Steps \ {0} : Generations(t)[i] # {}})

\* isReachableInDependencies
Reaches(from, target) ==
    LET bfs[i \in Steps] ==
          IF i = 0 THEN {from}
          ELSE LET met == bfs[i - 1]
               IN  met \cup {e[2] : e \in {f \in deps : f[1] \in met}}
    IN  target \in bfs[Cardinality(Tasks)]

(***************************************************************************)
(* A graph verb arrives at its handler.                                    *)
(***************************************************************************)
GraphSubmit(g, e) ==
    /\ gpc[g] = "idle"
    /\ edits < MaxEdits
    /\ edits' = edits + 1
    /\ gpc' = [gpc EXCEPT ![g] = e.verb]
    /\ edit' = [edit EXCEPT ![g] = e]
    /\ overtaken' = overtaken \ {g}
    /\ UNCHANGED <<tables, rowLock, clock, callVars, found, crossed, untold>>

\* Mutant: addDependency does not look the tasks up.
Missing_Unchecked(g) ==
    /\ edit[g].verb = "setParent"
    /\ ~Exists(edit[g].task) \/ (edit[g].other # None /\ ~Exists(edit[g].other))
\* A task the edit names has no row.
Missing(g) ==
    \/ ~Exists(edit[g].task)
    \/ edit[g].other # None /\ ~Exists(edit[g].other)

GraphAnswer(g) ==
    /\ gpc' = [gpc EXCEPT ![g] = "idle"]
    /\ edit' = [edit EXCEPT ![g] = NoEdit]
    /\ found' = [found EXCEPT ![g] = NoRow]

\* A task that is not there, or what the verb holds against the edit.
GraphRefused(g, objection) ==
    /\ objection
    /\ GraphAnswer(g)
    /\ UNCHANGED <<tables, rowLock, clock, callVars, edits, history>>

\* The handler goes on with the row as it has read it.
GraphRead(g, next) ==
    /\ gpc' = [gpc EXCEPT ![g] = next]
    /\ found' = [found EXCEPT ![g] = rows[edit[g].task]]
    /\ UNCHANGED <<tables, clock, callVars, edit, edits, history>>

(***************************************************************************)
(* setParent                                                               *)
(***************************************************************************)

\* Mutant: the descendants of the task that moves are not counted.
ParentObjection_IgnoresDescendants(t, p) ==
    /\ p # None
    /\ t \in Ancestors(p) \/ AncestorCount(p) + 1 >= MaxDepth
ParentObjection(t, p) ==
    /\ p # None
    /\ t \in Ancestors(p) \/ AncestorCount(p) + 1 + Height(t) >= MaxDepth

CheckParent(g) ==
    /\ gpc[g] = "setParent"
    /\ LET t == edit[g].task
           p == edit[g].other
       IN  \/ GraphRefused(g, Missing(g))
           \/ /\ ~Missing(g)
              /\ p # None /\ t \notin Ancestors(p) => DescendantsEnd(t)
              /\ \/ GraphRefused(g, ParentObjection(t, p))
                 \/ ~ParentObjection(t, p) /\ GraphRead(g, "reparent") /\ UNCHANGED rowLock

\* UPDATE, event and COMMIT, once nobody has either row locked FOR UPDATE.
WriteParent(g) ==
    LET t == edit[g].task
        p == edit[g].other
    IN  /\ gpc[g] = "reparent"
        /\ Unlocked(t) /\ (p # None => Unlocked(p))
        /\ rows' = [rows EXCEPT ![t].parent = p]
        /\ log' = [log EXCEPT ![t] =
                     Append(@, GraphEvent("parent_task_id", found[g].parent, p))]
        /\ Cross(g, p # None /\ (g \in overtaken \/ p = t))
        /\ GraphAnswer(g)
        /\ UNCHANGED <<deps, rowLock, untold>> /\ KeepsRest

(***************************************************************************)
(* addDependency: four statements, each committed by itself                *)
(***************************************************************************)
CheckEdge(g) ==
    /\ gpc[g] = "addDependency"
    /\ LET t == edit[g].task
           d == edit[g].other
           objection == Missing(g) \/ Reaches(d, t)
       IN  \/ GraphRefused(g, objection)
           \/ ~objection /\ GraphRead(g, "insert") /\ UNCHANGED rowLock

\* INSERT ... ON CONFLICT DO NOTHING
InsertEdge(g) ==
    /\ gpc[g] = "insert"
    /\ Unlocked(edit[g].task) /\ Unlocked(edit[g].other)
    /\ deps' = deps \cup {<<edit[g].task, edit[g].other>>}
    /\ gpc' = [gpc EXCEPT ![g] = IF found[g].status \in {"todo", "doing"}
                                 THEN "block" ELSE "log"]
    /\ Cross(g, g \in overtaken)
    /\ UNCHANGED <<rows, log, rowLock, edit, found, untold>> /\ KeepsRest

\* The status is set whatever it has become since it was read; the version stays.
BlockTask(g) ==
    /\ gpc[g] = "block"
    /\ Unlocked(edit[g].task)
    /\ rows' = [rows EXCEPT ![edit[g].task].status = "blocked"]
    /\ gpc' = [gpc EXCEPT ![g] = "log"]
    /\ UNCHANGED <<log, deps, rowLock, edit, found, history>> /\ KeepsRest

LogEdge(g) ==
    /\ gpc[g] = "log"
    /\ Unlocked(edit[g].task)
    /\ log' = [log EXCEPT ![edit[g].task] =
                 Append(@, GraphEvent("dependency_added", None, edit[g].other))]
    /\ GraphAnswer(g)
    /\ UNCHANGED <<rows, deps, rowLock, history>> /\ KeepsRest

(***************************************************************************)
(* removeDependency                                                        *)
(***************************************************************************)

\* Mutant: the row is read without FOR UPDATE.
LockDependent_PlainSelect(g) ==
    /\ gpc[g] = "removeDependency"
    /\ \/ GraphRefused(g, ~Exists(edit[g].task))
       \/ Exists(edit[g].task) /\ GraphRead(g, "unblock") /\ UNCHANGED rowLock
LockDependent(g) ==
    /\ gpc[g] = "removeDependency"
    /\ \/ GraphRefused(g, ~Exists(edit[g].task))
       \/ /\ Exists(edit[g].task)
          /\ Unlocked(edit[g].task)
          /\ rowLock' = [rowLock EXCEPT ![edit[g].task] = g]
          /\ GraphRead(g, "unblock")

\* The SELECT that finds what still blocks the task, the edge already deleted.
CheckUnblocked(g) ==
    /\ gpc[g] = "unblock"
    /\ gpc' = [gpc EXCEPT ![g] = IF /\ found[g].status = "blocked"
                                    /\ Unresolved(edit[g].task) \subseteq {edit[g].other}
                                 THEN "todo" ELSE "remove"]
    /\ UNCHANGED <<tables, rowLock, clock, callVars, edit, found, edits, history>>

Unblocking(g) ==
    <<GraphEvent("status_changed", "blocked", "todo"),
      GraphEvent("dependency_removed", None, edit[g].other)>>

CommitRemoval(g) ==
    LET t == edit[g].task
    IN  /\ gpc[g] \in {"todo", "remove"}
        /\ deps' = deps \ {<<t, edit[g].other>>}
        /\ IF gpc[g] = "todo"
           THEN /\ rows' = [rows EXCEPT ![t].status = "todo",
                                        ![t].version = found[g].version + 1]
                /\ log' = [log EXCEPT ![t] = @ \o Unblocking(g)]
           ELSE /\ log' = [log EXCEPT ![t] = Append(@,
                             GraphEvent("dependency_removed", None, edit[g].other))]
                /\ UNCHANGED rows
        /\ rowLock' = Released({g})
        /\ untold' = untold \cup {e \in {<<t, edit[g].other>>} : Loggers(e) # {}}
        /\ GraphAnswer(g)
        /\ UNCHANGED <<overtaken, crossed>> /\ KeepsRest

(***************************************************************************)
(* The system                                                              *)
(***************************************************************************)
GraphHandle(g) ==
    \/ CheckParent(g) \/ WriteParent(g)
    \/ CheckEdge(g) \/ InsertEdge(g) \/ BlockTask(g) \/ LogEdge(g)
    \/ LockDependent(g) \/ CheckUnblocked(g) \/ CommitRemoval(g)

\* The server dies under graph verbs and task verbs alike.
GraphCrash ==
    /\ (\E c \in Calls : InFlight(c)) \/ (\E g \in GraphCalls : Pending(g))
    /\ Interrupted
    /\ gpc' = [g \in GraphCalls |-> "idle"]
    /\ edit' = [g \in GraphCalls |-> NoEdit]
    /\ found' = [g \in GraphCalls |-> NoRow]
    /\ untold' = untold \cup {e \in Tasks \X Tasks : Loggers(e) # {}}
    /\ UNCHANGED <<edits, overtaken, crossed>>

TaskVerbs ==
    \/ \E c \in Calls, o \in Ops, b \in Bodies : \E v \in KnownVersions(b.task) : Submit(c, o, b, v)
    \/ \E c \in Calls : Handle(c)

GraphNext ==
    \/ \E g \in GraphCalls, e \in Edits : GraphSubmit(g, e)
    \/ \E g \in GraphCalls : GraphHandle(g)
    \/ GraphCrash
    \/ TaskVerbs /\ UNCHANGED gvars

GraphSpec == GraphInit /\ [][GraphNext]_<<vars, gvars>>

(***************************************************************************)
(* What is promised                                                        *)
(***************************************************************************)
\* Every variable has its type; edges join tasks that exist, and a row lock is
\* held by a call of either sort.
GraphTypeOK ==
    /\ rows \in [Tasks -> Row \cup {NoRow}]
    /\ \A t \in Tasks : Exists(t) /\ rows[t].parent # None => Exists(rows[t].parent)
    /\ \A e \in deps : Exists(e[1]) /\ Exists(e[2])
    /\ rowLock \in [Tasks -> Calls \cup GraphCalls \cup {None}]
    /\ gpc \in [GraphCalls -> {"idle", "setParent", "reparent", "addDependency", "insert",
                               "block", "log", "removeDependency", "unblock", "todo",
                               "remove"}]
    /\ edit \in [GraphCalls -> Edits \cup {NoEdit}]
    /\ edits \in 0 .. MaxEdits
    /\ overtaken \subseteq GraphCalls
    /\ crossed \subseteq {"setParent", "addDependency"}
    /\ untold \subseteq Tasks \X Tasks
    /\ found \in [GraphCalls -> Row \cup {NoRow}]

\* The walk in addDependency keeps the blocked-by graph free of cycles, so that
\* some task can always go on (d3 specification, "reject if reachable").
DependenciesAcyclic ==
    \A S \in SUBSET Tasks \ {{}} : \E t \in S : \A u \in S : <<t, u>> \notin deps

\* The walks in setParent keep the tasks a forest of at most MaxDepth levels.
HierarchyIsAForest ==
    \A t \in Tasks : Exists(t) => t \notin Ancestors(t) /\ AncestorCount(t) < MaxDepth

\* Neither graph goes round in circles, whoever edits them, while nobody has
\* written one after another write of it overtook the walk, or put a task
\* under itself: the walk is enough for a call that has the graph to itself.
GraphsAreSound ==
    /\ "addDependency" \notin crossed => DependenciesAcyclic
    /\ "setParent" \notin crossed => HierarchyIsAForest

\* tasks.version counts the events that are not a graph verb's note: no removal
\* of a dependency and no task verb writes over the other's version.
VersionCountsVersioned ==
    \A t \in Tasks : Exists(t) =>
        rows[t].version = Cardinality({i \in DOMAIN log[t] : log[t][i].kind \notin GraphKinds})

EdgeEvents(t, d) ==
    {i \in DOMAIN log[t] : log[t][i].kind \in {"dependency_added", "dependency_removed"}
                           /\ log[t][i].to = d}
\* What replaying the events about an edge yields.
EdgeOf(t, d) ==
    IF EdgeEvents(t, d) = {} THEN <<t, d>> \in Blockers
    ELSE \E i \in EdgeEvents(t, d) : /\ log[t][i].kind = "dependency_added"
                                     /\ \A j \in EdgeEvents(t, d) : j <= i

\* task_dependencies is what replaying the dependency events of each task
\* yields, but for edges between their insert and their event, and those that a
\* crash or a removal found there.
EdgesAreReplayed ==
    \A t, d \in Tasks :
        <<t, d>> \notin untold /\ Loggers(<<t, d>>) = {} => (<<t, d>> \in deps <=> EdgeOf(t, d))

\* The log accounts for the versions and the edges.
LogTellsTheGraph == VersionCountsVersioned /\ EdgesAreReplayed

\* "Replaying the event log in created_at order MUST yield the same
\* materialized state" (TECHNICAL.md): no status without its event, once the
\* graph verbs are answered.  addDependency blocks a task without one.
ReplayYieldsTheState ==
    (\A g \in GraphCalls : ~Pending(g)) =>
        \A t \in Tasks : Exists(t) => rows[t].status = StatusOf(log[t])
============================================================================
