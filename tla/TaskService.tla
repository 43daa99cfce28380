---------------------------- MODULE TaskService ----------------------------
(***************************************************************************)
(* The task verbs of Sprino's server (service/tasks.ts) with idempotency   *)
(* (service/idempotency.ts) and the automation engine                      *)
(* (service/automation.ts), as calls that interleave over one Postgres     *)
(* database at READ COMMITTED.                                             *)
(*                                                                         *)
(* A call is one arrival of an HTTP or MCP request at a handler.  A client *)
(* that times out sends the same operation_id again, so several calls may  *)
(* carry one operation.  Every verb has the same skeleton: look the        *)
(* operation up, open a transaction, lock the task row, compare if_match,  *)
(* validate, write event, row and operation, run the automation rules,     *)
(* commit; when anything throws, look the operation up again and answer    *)
(* its recorded response if another call won the race.                     *)
(*                                                                         *)
(* What a running transaction wrote is in txn[c] and nobody sees it before *)
(* Commit.  Each step below is one statement, or several statements that   *)
(* no step of another call can tell apart.                                 *)
(***************************************************************************)
EXTENDS Integers, Sequences, FiniteSets

CONSTANTS
    Tasks,          \* task ids (a new task takes one nobody has)
    Seeded,         \* the tasks that exist at the start, just created
    Ops,            \* operation ids that clients hold
    Calls,          \* arrivals of a request at a handler
    Bodies,         \* what a client may ask, but for operation_id and if_match
    Requests,       \* per call: the operation ids and bodies it may carry
    Actors,         \* actor ids a client or a rule may name as an assignee
    Registered,     \* those with a row in actors
    Columns,        \* workflow columns of the project
    DefaultColumn,  \* the column with is_default
    MapsTo,         \* workflow_columns.maps_to_status
    Edges,          \* workflow_transitions
    Rules,          \* automation rules of the project
    Configured,     \* those that are active at the start
    Managed,        \* those that somebody creates and deletes meanwhile
    Blockers,       \* task_dependencies at the start: <<a, b>>, a waits for b
    ParentOf,       \* tasks.parent_task_id at the start
    None,           \* SQL NULL
    Keep,           \* a field the request leaves out
    External        \* the operation_id of a write no client holds

Status == {"todo", "doing", "done", "blocked"}
Verbs  == {"create", "status", "update", "transition", "points"}
Kinds  == {"created", "status_changed", "assigned", "context_updated",
           "workflow_transitioned"}

\* Shapes of what a client may ask.
CreateBody     == [verb : {"create"}, task : {None}, to : Actors \cup {None}]
StatusBody     == [verb : {"status"}, task : Tasks, to : Status]
UpdateBody     == [verb : {"update"}, task : Tasks, to : Actors \cup {None, Keep}]
TransitionBody == [verb : {"transition"}, task : Tasks, to : Columns \cup {None}]
PointsBody     == [verb : {"points"}, task : Tasks, to : {Keep}]
BodyShape == CreateBody \cup StatusBody \cup UpdateBody \cup TransitionBody \cup PointsBody

\* A rule's trigger value None stands for "any change of the field"; an
\* action value is free text, so it may name no status and no actor at all.
RuleShape ==
    [field : {"status", "assignee"}, value : Status \cup Actors \cup {None},
     action : {"status", "assignee"}, arg : Status \cup Actors \cup {None}]

ASSUME ConstantsAssumption ==
    /\ Seeded \subseteq Tasks
    /\ Registered \subseteq Actors
    /\ Bodies \subseteq BodyShape
    /\ Requests \in [Calls -> SUBSET (Ops \X Bodies)]
    /\ Rules \subseteq RuleShape
    /\ Configured \subseteq Rules /\ Managed \subseteq Rules
    /\ IsFiniteSet(Rules)
    /\ DefaultColumn \in Columns \cup {None}
    /\ MapsTo \in [Columns -> Status]
    /\ Edges \subseteq Columns \X Columns
    /\ Blockers \subseteq Seeded \X Seeded
    /\ ParentOf \in [Tasks -> Seeded \cup {None}]
    /\ None \notin Tasks \cup Columns \cup Actors \cup Status \cup Calls \cup {"status", "assignee"}
    /\ Keep \notin Actors \cup {None}
    /\ External \notin Ops

VARIABLES
    rows,       \* the committed tasks table
    log,        \* the committed events table, per task in commit order
    ops,        \* the committed operations table
    deps,       \* the task_dependencies table
    rules,      \* the active automation_rules of the project
    rowLock,    \* per task row: the call whose transaction locks it
    clock,      \* numbers the Dates the server takes (their milliseconds may tie)
    pc,         \* per call: where its handler stands
    req,        \* per call: the request
    txn,        \* per call: the state of its handler and transaction
    answer      \* per call: what the client was told

vars == <<rows, log, ops, deps, rules, rowLock, clock, pc, req, txn, answer>>
tables == <<rows, log, ops, deps, rules>>

Assignee == Actors \cup {None}
Row == [status : Status, assignee : Assignee, column : Columns \cup {None},
        parent : Tasks \cup {None}, version : Nat \ {0}]
NoRow == [status |-> None]
Values == Status \cup Columns \cup Actors \cup {None, Keep}
Event == [kind : Kinds, op : Ops \cup {External}, at : Nat, from : Values, to : Values]
Response == [task : Tasks, row : Row]
NoResponse == [task |-> None]
BodyOf(q) == [verb |-> q.verb, task |-> q.task, to |-> q.to]
Request == {q \in [op : Ops, verb : Verbs, task : Tasks \cup {None}, to : Values, ifMatch : Nat] :
              BodyOf(q) \in BodyShape}
NoRequest == [op |-> None]
Receipt == [req : Request, res : Response, expired : BOOLEAN]
NoReceipt == [req |-> NoRequest]
Firing == [rule : Rules, depth : Nat]
Errors == {"notFound", "versionMismatch", "dependencyNotResolved", "childrenNotDone",
           "columnNotFound", "transitionForbidden", "actorNotFound",
           "operationExists", "ruleFailed"}
Outcomes == Errors \cup {"none", "ok", "operationExpired", "idempotencyConflict", "lost"}

Txn == [task : Tasks \cup {None}, row : Row \cup {NoRow}, res : Response \cup {NoResponse},
        pend : Seq(Event), agenda : Seq(Firing), now : Nat, err : Errors \cup {"none"}]
NoTxn == [task |-> None, row |-> NoRow, res |-> NoResponse,
          pend |-> <<>>, agenda |-> <<>>, now |-> 0, err |-> "none"]

Exists(t) == rows[t] # NoRow
InFlight(c) == pc[c] \notin {"idle", "answered"}
\* The calls whose transaction has the target row locked (or just inserted).
Holding == {"deps", "children", "write", "automate"}

\* Mutant: a task is created without its first version.
NewRow_Unversioned(who) == [status |-> "todo", assignee |-> who, column |-> DefaultColumn,
                            parent |-> None, version |-> 0]
NewRow(who) == [status |-> "todo", assignee |-> who, column |-> DefaultColumn,
                parent |-> None, version |-> 1]
CreatedEvent(op, now) ==
    [kind |-> "created", op |-> op, at |-> now, from |-> None, to |-> "todo"]

Init ==
    /\ rows = [t \in Tasks |-> IF t \in Seeded
                               THEN [NewRow(None) EXCEPT !.parent = ParentOf[t]]
                               ELSE NoRow]
    /\ log = [t \in Tasks |-> IF t \in Seeded THEN <<CreatedEvent(External, 0)>> ELSE <<>>]
    /\ ops = [o \in Ops |-> NoReceipt]
    /\ deps = Blockers
    /\ rules = Configured
    /\ rowLock = [t \in Tasks |-> None]
    /\ clock = 0
    /\ pc = [c \in Calls |-> "idle"]
    /\ req = [c \in Calls |-> NoRequest]
    /\ txn = [c \in Calls |-> NoTxn]
    /\ answer = [c \in Calls |-> [outcome |-> "none", res |-> NoResponse]]

(***************************************************************************)
(* Answers and aborted transactions                                        *)
(***************************************************************************)

Answer(c, outcome, res) ==
    /\ pc' = [pc EXCEPT ![c] = "answered"]
    /\ answer' = [answer EXCEPT ![c] = [outcome |-> outcome, res |-> res]]
    /\ txn' = [txn EXCEPT ![c] = NoTxn]

\* The row locks when the calls in S no longer hold any.
Released(S) == [t \in Tasks |-> IF rowLock[t] \in S THEN None ELSE rowLock[t]]

\* Mutant: the transaction is left open, its lock with it.
Abort_LeavesOpen(c, err) ==
    /\ pc' = [pc EXCEPT ![c] = "recheck"]
    /\ txn' = [txn EXCEPT ![c] = [NoTxn EXCEPT !.err = err]]
    /\ UNCHANGED <<tables, rowLock, clock, req, answer>>

\* A throw inside the transaction: rollback, then on to the handler's catch.
Abort(c, err) ==
    /\ pc' = [pc EXCEPT ![c] = "recheck"]
    /\ txn' = [txn EXCEPT ![c] = [NoTxn EXCEPT !.err = err]]
    /\ rowLock' = Released({c})
    /\ UNCHANGED <<tables, clock, req, answer>>

(***************************************************************************)
(* A request arrives.  The if_match a client sends is a version it was     *)
(* told, so never one the task has not reached.                            *)
(***************************************************************************)
KnownVersions(t) ==
    IF t = None THEN {0} ELSE IF Exists(t) THEN 1 .. rows[t].version ELSE {1}

Submit(c, o, b, v) ==
    /\ pc[c] = "idle"
    /\ <<o, b>> \in Requests[c]
    /\ v \in KnownVersions(b.task)
    /\ pc' = [pc EXCEPT ![c] = "check"]
    /\ req' = [req EXCEPT ![c] = [op |-> o, verb |-> b.verb, task |-> b.task,
                                  to |-> b.to, ifMatch |-> v]]
    /\ UNCHANGED <<tables, rowLock, clock, txn, answer>>

(***************************************************************************)
(* checkIdempotency: what looking the operation up tells a call, before    *)
(* its transaction and again in its catch.                                 *)
(***************************************************************************)
Seen(c) == ops[req[c].op] # NoReceipt
Gone(c) == Seen(c) /\ ops[req[c].op].expired
Reused(c) == Seen(c) /\ ~Gone(c) /\ ops[req[c].op].req # req[c]
Replayed(c) == Seen(c) /\ ~Gone(c) /\ ~Reused(c)

AnswerFromReceipt(c) ==
    /\ \/ Gone(c) /\ Answer(c, "operationExpired", NoResponse)
       \/ Reused(c) /\ Answer(c, "idempotencyConflict", ops[req[c].op].res)
       \/ Replayed(c) /\ Answer(c, "ok", ops[req[c].op].res)
    /\ UNCHANGED <<tables, rowLock, clock, req>>

CheckHit(c) == pc[c] = "check" /\ AnswerFromReceipt(c)

\* A first call: the handler takes its timestamp before its transaction.
CheckMiss(c) ==
    /\ pc[c] = "check"
    /\ ~Seen(c)
    /\ clock' = clock + 1
    /\ txn' = [txn EXCEPT ![c].now = clock']
    /\ pc' = [pc EXCEPT ![c] = IF req[c].verb = "create" THEN "write" ELSE "lock"]
    /\ UNCHANGED <<tables, rowLock, req, answer>>

RecheckHit(c) == pc[c] = "recheck" /\ AnswerFromReceipt(c)

RecheckMiss(c) ==
    /\ pc[c] = "recheck"
    /\ ~Seen(c)
    /\ Answer(c, txn[c].err, NoResponse)
    /\ UNCHANGED <<tables, rowLock, clock, req>>

(***************************************************************************)
(* SELECT ... FOR UPDATE and the checks on the row it returns              *)
(***************************************************************************)

\* The status the verb would give the task; None if it sets none.
TargetStatus(q) ==
    CASE q.verb = "status" -> q.to
      [] q.verb = "transition" -> MapsTo[q.to]
      [] OTHER -> None

LockMissing(c) ==
    /\ pc[c] = "lock"
    /\ ~Exists(req[c].task)
    /\ Abort(c, "notFound")

\* Mutant: last write wins, if_match is ignored.
RowObjection_LastWriteWins(q, row) ==
    IF q.verb = "transition" /\ q.to \notin Columns THEN "columnNotFound" ELSE "none"
\* What the handler holds against the row it has just locked.
RowObjection(q, row) ==
    IF row.version # q.ifMatch THEN "versionMismatch"
    ELSE IF q.verb = "transition" /\ q.to \notin Columns THEN "columnNotFound"
    ELSE "none"

LockRefused(c) ==
    /\ pc[c] = "lock"
    /\ Exists(req[c].task)
    /\ rowLock[req[c].task] = None
    /\ RowObjection(req[c], rows[req[c].task]) # "none"
    /\ Abort(c, RowObjection(req[c], rows[req[c].task]))

\* Mutant: a plain SELECT, no FOR UPDATE.
LockTask_PlainSelect(c) ==
    /\ pc[c] = "lock"
    /\ Exists(req[c].task)
    /\ RowObjection(req[c], rows[req[c].task]) = "none"
    /\ txn' = [txn EXCEPT ![c].task = req[c].task, ![c].row = rows[req[c].task]]
    /\ pc' = [pc EXCEPT ![c] = IF TargetStatus(req[c]) \in {"doing", "done"}
                               THEN "deps" ELSE "write"]
    /\ UNCHANGED <<tables, rowLock, clock, req, answer>>

LockTask(c) ==
    /\ pc[c] = "lock"
    /\ Exists(req[c].task)
    /\ rowLock[req[c].task] = None
    /\ RowObjection(req[c], rows[req[c].task]) = "none"
    /\ rowLock' = [rowLock EXCEPT ![req[c].task] = c]
    /\ txn' = [txn EXCEPT ![c].task = req[c].task, ![c].row = rows[req[c].task]]
    /\ pc' = [pc EXCEPT ![c] = IF TargetStatus(req[c]) \in {"doing", "done"}
                               THEN "deps" ELSE "write"]
    /\ UNCHANGED <<tables, clock, req, answer>>

(***************************************************************************)
(* validateStatusTransition: two plain SELECTs, each on what is committed  *)
(* when it runs; neither locks the rows it reads.                          *)
(***************************************************************************)
Unresolved(t) == {d \in Tasks : <<t, d>> \in deps /\ rows[d].status # "done"}
Children(t) == {d \in Tasks : Exists(d) /\ rows[d].parent = t}
UndoneChildren(t) == {d \in Children(t) : rows[d].status # "done"}

CheckDependencies(c) ==
    /\ pc[c] = "deps"
    /\ \/ /\ Unresolved(req[c].task) # {}
          /\ Abort(c, "dependencyNotResolved")
       \/ /\ Unresolved(req[c].task) = {}
          /\ pc' = [pc EXCEPT ![c] = IF TargetStatus(req[c]) = "done"
                                     THEN "children" ELSE "write"]
          /\ UNCHANGED <<tables, rowLock, clock, req, txn, answer>>

CheckChildren(c) ==
    /\ pc[c] = "children"
    /\ \/ /\ UndoneChildren(req[c].task) # {}
          /\ Abort(c, "childrenNotDone")
       \/ /\ UndoneChildren(req[c].task) = {}
          /\ pc' = [pc EXCEPT ![c] = "write"]
          /\ UNCHANGED <<tables, rowLock, clock, req, txn, answer>>

(***************************************************************************)
(* The writes.  An effect is the new row, the event's kind and payload, and *)
(* the field whose change triggers automation rules (None if none does).   *)
(* Titles, descriptions and points are not told apart: a change of them is *)
(* an event and a version.                                                 *)
(***************************************************************************)
Bumped(row) == [row EXCEPT !.version = @ + 1]

UpdateTaskStatus(row, to) ==
    [row |-> [Bumped(row) EXCEPT !.status = to], kind |-> "status_changed",
     from |-> row.status, to |-> to, field |-> "status", value |-> to]

UpdateTask(row, to) ==
    [row |-> [Bumped(row) EXCEPT !.assignee = IF to = Keep THEN @ ELSE to],
     kind |-> "context_updated", from |-> IF to = Keep THEN Keep ELSE row.assignee,
     to |-> to, field |-> IF to \in {Keep, row.assignee} THEN None ELSE "assignee",
     value |-> IF to = Keep THEN None ELSE to]

TransitionTaskWorkflow(row, to) ==
    [row |-> [Bumped(row) EXCEPT !.column = to, !.status = MapsTo[to]],
     kind |-> "workflow_transitioned", from |-> row.column, to |-> to,
     field |-> "status", value |-> MapsTo[to]]

UpdateTaskPoints(row) ==
    [row |-> Bumped(row), kind |-> "context_updated", from |-> Keep, to |-> Keep,
     field |-> None, value |-> None]

Effect(q, row) ==
    CASE q.verb = "status" -> UpdateTaskStatus(row, q.to)
      [] q.verb = "update" -> UpdateTask(row, q.to)
      [] q.verb = "transition" -> TransitionTaskWorkflow(row, q.to)
      [] OTHER -> UpdateTaskPoints(row)

\* What still stops the writes: an edge the workflow lacks, an assignee with no
\* row in actors (a lookup in updateTask, the foreign key in createTask).
WriteObjection(q, row) ==
    IF /\ q.verb = "transition"
       /\ row.column # None
       /\ <<row.column, q.to>> \notin Edges
    THEN "transitionForbidden"
    ELSE IF q.verb \in {"create", "update"} /\ q.to \in Actors \ Registered
    THEN "actorNotFound"
    ELSE "none"

(***************************************************************************)
(* recordOperation inserts a row whose primary key is the operation id.    *)
(* Postgres makes a second insert of the key wait for the transaction of   *)
(* the first, and refuses it once that has committed.                      *)
(***************************************************************************)
Recorded(o) == ops[o] # NoReceipt
BeingRecorded(o) == \E d \in Calls : pc[d] = "automate" /\ req[d].op = o

RefuseWrite(c) ==
    /\ pc[c] = "write"
    /\ \/ /\ WriteObjection(req[c], txn[c].row) # "none"
          /\ Abort(c, WriteObjection(req[c], txn[c].row))
       \/ /\ WriteObjection(req[c], txn[c].row) = "none"
          /\ ~BeingRecorded(req[c].op)
          /\ Recorded(req[c].op)
          /\ Abort(c, "operationExists")

MayWrite(c) ==
    /\ pc[c] = "write"
    /\ WriteObjection(req[c], txn[c].row) = "none"
    /\ ~BeingRecorded(req[c].op)
    /\ ~Recorded(req[c].op)

\* Every order the database may return the selected rules in.
Orders(S) == {f \in [1 .. Cardinality(S) -> S] : \A i, j \in DOMAIN f : f[i] = f[j] => i = j}

\* applyAutomationRules at a depth: the rules its SELECT returns, to be fired one
\* after the other, without those that would set no status; depth 2 selects none.
Triggered(field, value) ==
    {r \in rules : /\ r.field = field /\ r.value \in {None, value}
                   /\ ~(r.action = "status" /\ r.arg = None)}
\* Mutant: one round of chaining too many.
Firings_Deeper(field, value, depth) ==
    IF depth > 2 THEN {<<>>}
    ELSE {[i \in DOMAIN f |-> [rule |-> f[i], depth |-> depth]] :
             f \in Orders(Triggered(field, value))}
Firings(field, value, depth) ==
    IF depth >= 2 THEN {<<>>}
    ELSE {[i \in DOMAIN f |-> [rule |-> f[i], depth |-> depth]] :
             f \in Orders(Triggered(field, value))}

\* uuidv7() makes an id that nobody has and nobody has asked for.
Unheard(t) == ~Exists(t) /\ rowLock[t] = None /\ \A d \in Calls : InFlight(d) => req[d].task # t

CreateTask(c, t) ==
    /\ MayWrite(c)
    /\ req[c].verb = "create"
    /\ Unheard(t)
    /\ rowLock' = [rowLock EXCEPT ![t] = c]
    /\ txn' = [txn EXCEPT ![c] =
                 [@ EXCEPT !.task = t,
                           !.row = NewRow(req[c].to),
                           !.res = [task |-> t, row |-> NewRow(req[c].to)],
                           !.pend = <<CreatedEvent(req[c].op, txn[c].now)>>]]
    /\ pc' = [pc EXCEPT ![c] = "automate"]
    /\ UNCHANGED <<tables, clock, req, answer>>

WriteTask(c) ==
    /\ MayWrite(c)
    /\ req[c].verb # "create"
    /\ LET e == Effect(req[c], txn[c].row)
       IN  \E agenda \in Firings(e.field, e.value, 0) :
             txn' = [txn EXCEPT ![c] =
                       [@ EXCEPT !.row = e.row,
                                 !.res = [task |-> req[c].task, row |-> e.row],
                                 !.pend = <<[kind |-> e.kind, op |-> req[c].op,
                                             at |-> txn[c].now,
                                             from |-> e.from, to |-> e.to]>>,
                                 !.agenda = agenda]]
    /\ pc' = [pc EXCEPT ![c] = "automate"]
    /\ UNCHANGED <<tables, rowLock, clock, req, answer>>

(***************************************************************************)
(* applyAutomationRules.  The recursion is an agenda: firing a rule puts   *)
(* the rules its own write triggers before the ones still to fire.         *)
(***************************************************************************)

\* An action value that is no status, or no known actor, makes Postgres refuse the UPDATE.
BadRule(r) ==
    \/ r.action = "status" /\ r.arg \notin Status
    \/ r.action = "assignee" /\ r.arg \notin Registered \cup {None}

NextRule(c) == Head(txn[c].agenda).rule
FiringRule(c) == pc[c] = "automate" /\ txn[c].agenda # <<>>

\* The UPDATE and INSERT of one firing, then the rules they trigger in turn.
RuleWrites(c, kind, from, row) ==
    /\ clock' = clock + 1
    /\ \E fired \in Firings(NextRule(c).action, NextRule(c).arg, Head(txn[c].agenda).depth + 1) :
         txn' = [txn EXCEPT ![c] =
                   [@ EXCEPT !.row = row,
                             !.pend = Append(txn[c].pend,
                                             [kind |-> kind, op |-> External, at |-> clock',
                                              from |-> from, to |-> NextRule(c).arg]),
                             !.agenda = fired \o Tail(txn[c].agenda)]]
    /\ UNCHANGED <<tables, rowLock, pc, req, answer>>

\* Mutant: the event names the status from before the transaction.
FireStatusRule_StaleFrom(c) ==
    /\ FiringRule(c) /\ ~BadRule(NextRule(c))
    /\ NextRule(c).action = "status"
    /\ RuleWrites(c, "status_changed", rows[txn[c].task].status,
                  [Bumped(txn[c].row) EXCEPT !.status = NextRule(c).arg])

FireStatusRule(c) ==
    /\ FiringRule(c) /\ ~BadRule(NextRule(c))
    /\ NextRule(c).action = "status"
    /\ RuleWrites(c, "status_changed", txn[c].row.status,
                  [Bumped(txn[c].row) EXCEPT !.status = NextRule(c).arg])

FireAssigneeRule(c) ==
    /\ FiringRule(c) /\ ~BadRule(NextRule(c))
    /\ NextRule(c).action = "assignee"
    /\ RuleWrites(c, "assigned", txn[c].row.assignee,
                  [Bumped(txn[c].row) EXCEPT !.assignee = NextRule(c).arg])

RuleFails(c) == FiringRule(c) /\ BadRule(NextRule(c)) /\ Abort(c, "ruleFailed")

\* COMMIT: row, events and operation appear together and the lock is released.
Commit(c) ==
    /\ pc[c] = "automate"
    /\ txn[c].agenda = <<>>
    /\ rows' = [rows EXCEPT ![txn[c].task] = txn[c].row]
    /\ log' = [log EXCEPT ![txn[c].task] = @ \o txn[c].pend]
    /\ ops' = [ops EXCEPT ![req[c].op] =
                 [req |-> req[c], res |-> txn[c].res, expired |-> FALSE]]
    /\ rowLock' = Released({c})
    /\ Answer(c, "ok", txn[c].res)
    /\ UNCHANGED <<deps, rules, clock, req>>

(***************************************************************************)
(* The environment                                                         *)
(***************************************************************************)

\* The server dies: Postgres rolls its transactions back, no call is answered.
Interrupted ==
    /\ pc' = [c \in Calls |-> IF InFlight(c) THEN "answered" ELSE pc[c]]
    /\ answer' = [c \in Calls |-> IF InFlight(c)
                                  THEN [outcome |-> "lost", res |-> NoResponse]
                                  ELSE answer[c]]
    /\ txn' = [c \in Calls |-> NoTxn]
    /\ rowLock' = [t \in Tasks |-> None]
    /\ UNCHANGED <<tables, clock, req>>
Crash == (\E c \in Calls : InFlight(c)) /\ Interrupted

\* Thirty days pass.  No handler runs that long, so none is in flight for it.
Expire(o) ==
    /\ Recorded(o) /\ ~ops[o].expired
    /\ \A c \in Calls : InFlight(c) => req[c].op # o
    /\ ops' = [ops EXCEPT ![o].expired = TRUE]
    /\ UNCHANGED <<rows, log, deps, rules, rowLock, clock, pc, req, txn, answer>>

\* Mutant: the cron deletes every operation.
Purge_Everything ==
    /\ \E o \in Ops : Recorded(o)
    /\ ops' = [o \in Ops |-> NoReceipt]
    /\ UNCHANGED <<rows, log, deps, rules, rowLock, clock, pc, req, txn, answer>>

\* The daily cron deletes every expired operation in one statement.
Purge ==
    /\ \E o \in Ops : Recorded(o) /\ ops[o].expired
    /\ ops' = [o \in Ops |-> IF Recorded(o) /\ ops[o].expired THEN NoReceipt ELSE ops[o]]
    /\ UNCHANGED <<rows, log, deps, rules, rowLock, clock, pc, req, txn, answer>>

CreateAutomationRule(r) ==
    /\ r \in Managed \ rules
    /\ rules' = rules \cup {r}
    /\ UNCHANGED <<rows, log, ops, deps, rowLock, clock, pc, req, txn, answer>>

DeleteAutomationRule(r) ==
    /\ r \in Managed \cap rules
    /\ rules' = rules \ {r}
    /\ UNCHANGED <<rows, log, ops, deps, rowLock, clock, pc, req, txn, answer>>

\* What the server does by itself for a call it has accepted.
Handle(c) ==
    \/ CheckHit(c) \/ CheckMiss(c)
    \/ LockMissing(c) \/ LockRefused(c) \/ LockTask(c)
    \/ CheckDependencies(c) \/ CheckChildren(c)
    \/ RefuseWrite(c) \/ (\E t \in Tasks : CreateTask(c, t)) \/ WriteTask(c)
    \/ FireStatusRule(c) \/ FireAssigneeRule(c) \/ RuleFails(c)
    \/ Commit(c)
    \/ RecheckHit(c) \/ RecheckMiss(c)

Next ==
    \/ \E c \in Calls, o \in Ops, b \in Bodies : \E v \in KnownVersions(b.task) : Submit(c, o, b, v)
    \/ \E c \in Calls : Handle(c)
    \/ Crash
    \/ \E o \in Ops : Expire(o)
    \/ Purge
    \/ \E r \in Rules : CreateAutomationRule(r) \/ DeleteAutomationRule(r)

Spec == Init /\ [][Next]_vars

\* A handler that can go on does: the event loop and the database keep serving
\* it.  Nothing makes a client submit, a server crash or a cron job run.
FairSpec == Spec /\ \A c \in Calls : WF_vars(Handle(c))

(***************************************************************************)
(* What is promised                                                        *)
(***************************************************************************)

\* Every variable has its type.
TypeOK ==
    /\ rows \in [Tasks -> Row \cup {NoRow}]
    /\ log \in [Tasks -> Seq(Event)]
    /\ ops \in [Ops -> Receipt \cup {NoReceipt}]
    /\ deps \subseteq Tasks \X Tasks
    /\ rules \subseteq Rules
    /\ rowLock \in [Tasks -> Calls \cup {None}]
    /\ clock \in Nat
    /\ pc \in [Calls -> {"idle", "check", "lock", "deps", "children", "write",
                         "automate", "recheck", "answered"}]
    /\ req \in [Calls -> Request \cup {NoRequest}]
    /\ txn \in [Calls -> Txn]
    /\ answer \in [Calls -> [outcome : Outcomes, res : Response \cup {NoResponse}]]

\* tasks.version counts the events of the task, so that no write of a verb or
\* of a rule is lost and none happens without its event.
VersionCountsEvents ==
    \A t \in Tasks : IF Exists(t) THEN rows[t].version = Len(log[t]) ELSE log[t] = <<>>

StatusKinds == {"created", "status_changed", "workflow_transitioned"}
StatusEvents(l) == {i \in DOMAIN l : l[i].kind \in StatusKinds}
StatusGiven(e) == IF e.kind = "workflow_transitioned" THEN MapsTo[e.to] ELSE e.to
\* The status that replaying the events of l yields.
StatusOf(l) == StatusGiven(l[CHOOSE i \in StatusEvents(l) : \A j \in StatusEvents(l) : j <= i])

\* tasks.status is the projection of the task's events, and every change of
\* status, a rule's too, starts from the status that replaying the events
\* before it yields (TECHNICAL.md, "Event sourcing").
StatusIsReplayed ==
    \A t \in Tasks : Exists(t) =>
        /\ rows[t].status = StatusOf(log[t])
        /\ \A i \in DOMAIN log[t] :
             log[t][i].kind = "status_changed" =>
                log[t][i].from = StatusOf(SubSeq(log[t], 1, i - 1))

\* Events commit in the order of their created_at although a handler takes its
\* timestamp before it waits for the lock: a replay in created_at order can
\* confuse two events only if both fell into one millisecond.
EventsInTimeOrder ==
    \A t \in Tasks : \A i, j \in DOMAIN log[t] : i < j => log[t][i].at <= log[t][j].at

\* Where an operation took effect, and whether its clients only ever retried it.
Effects(o) == UNION {{<<t, i>> : i \in {j \in DOMAIN log[t] : log[t][j].op = o}} : t \in Tasks}
OnlyRetried(o) ==
    \A c, d \in Calls : req[c].op = o /\ req[d].op = o => req[c] = req[d]

\* However often a client retries, and even once the operation has expired and
\* is purged, a verb that carries if_match takes effect at most once; only a
\* creation, which carries none, can happen again.
RetriesApplyOnce ==
    \A c \in Calls :
        /\ req[c] # NoRequest /\ req[c].verb # "create"
        /\ OnlyRetried(req[c].op)
        => \A x, y \in Effects(req[c].op) : x = y

\* A response is true of the log, the first call's and a replay's alike: the
\* event that gave the task the version it reports is this operation's own, does
\* what this request asked, follows the version this client had seen, and yields
\* the status it reports.
KindOf(verb) ==
    CASE verb = "create" -> "created"
      [] verb = "status" -> "status_changed"
      [] verb = "transition" -> "workflow_transitioned"
      [] OTHER -> "context_updated"
TrueOf(q, res) ==
    LET i == res.row.version
    IN  /\ i = q.ifMatch + 1
        /\ i \in DOMAIN log[res.task]
        /\ log[res.task][i].op = q.op
        /\ log[res.task][i].kind = KindOf(q.verb)
        /\ IF q.verb = "create" THEN res.row.assignee = q.to
           ELSE res.task = q.task /\ log[res.task][i].to = q.to
        /\ res.row.status = StatusOf(SubSeq(log[res.task], 1, i))
AnswersAreTrue ==
    \A c \in Calls : answer[c].outcome = "ok" => TrueOf(req[c], answer[c].res)

\* Of the operations that saw one version of a task, at most one succeeds
\* (concurrency.test.ts, "selects exactly one winner").
OneWinnerPerVersion ==
    \A c, d \in Calls :
        /\ answer[c].outcome = "ok" /\ answer[d].outcome = "ok"
        /\ req[c].verb # "create"
        /\ req[c].task = req[d].task /\ req[c].ifMatch = req[d].ifMatch
        => req[c].op = req[d].op /\ answer[c].res = answer[d].res

\* The verbs take effect one after the other, however their calls race, retry
\* and reuse operation ids, and what each was told is what happened.
OperationsAreSerial ==
    EventsInTimeOrder /\ RetriesApplyOnce /\ AnswersAreTrue /\ OneWinnerPerVersion

\* The rules that a change may set off, each with those that it sets off in turn.
Matching(field, value) == {r \in Rules : r.field = field /\ r.value \in {None, value}}
Chains(field, value) ==
    UNION {{<<r>>} \cup {<<r, q>> : q \in Matching(r.action, r.arg)} : r \in Matching(field, value)}
MaySetOff(e) ==
    Cardinality(IF e.kind \in StatusKinds THEN Chains("status", StatusGiven(e))
                ELSE Chains("assignee", e.to))

\* One write of a client sets off at most one round of rules, and each of those
\* one more: rules that answer each other cannot run away.
ChainingIsBounded ==
    \A t \in Tasks : \A i \in DOMAIN log[t] :
        log[t][i].op # External =>
            \A k \in DOMAIN log[t] :
                k > i + MaySetOff(log[t][i]) => \E j \in i + 1 .. k : log[t][j].op # External

\* What TaskLedger sees of the tables and of the answers.
Place(res) == <<res.task, res.row.version>>
History == [t \in Tasks |-> [i \in DOMAIN log[t] |-> log[t][i].op]]
Versions == [t \in Tasks |-> IF Exists(t) THEN rows[t].version ELSE 0]
Receipts == [o \in Ops |-> IF Recorded(o)
                           THEN [place |-> Place(ops[o].res), live |-> ~ops[o].expired]
                           ELSE NoReceipt]
Successes == {<<req[c].op, Place(answer[c].res)>> : c \in {d \in Calls : answer[d].outcome = "ok"}}
Ledger == INSTANCE TaskLedger WITH history <- History, version <- Versions,
             receipt <- Receipts, told <- Successes, None <- NoReceipt

\* An operation and its receipt appear together, a receipt goes only by the
\* purge after its expiry, and every success a client is told of names the place
\* where its own operation took effect.
ImplementsLedger == Ledger!Spec

\* Every request that reaches a handler is answered, whoever holds the lock it
\* waits for.
EveryCallIsAnswered == \A c \in Calls : pc[c] = "check" ~> pc[c] = "answered"
============================================================================
