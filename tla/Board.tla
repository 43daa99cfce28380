------------------------------- MODULE Board -------------------------------
(***************************************************************************)
(* The order of the tasks in a workflow column (tasks.rank): reorderTask,  *)
(* which renumbers a column, beside createTask and transitionTaskWorkflow, *)
(* which put a task at its bottom.                                         *)
(*                                                                         *)
(* SELECT ... ORDER BY rank FOR UPDATE sorts the rows its snapshot shows   *)
(* and then locks them one by one, waiting where it must.  A row that was  *)
(* updated meanwhile is taken as it has become, or left out if it has left *)
(* the column, but keeps its place in the sorted list.  Calls that wait    *)
(* for each other are found by Postgres, which ends one with an error.     *)
(*                                                                         *)
(* Of a created or moved task only the column and the rank are kept; what  *)
(* else its verb does, and why it may refuse, is TaskService, and so is    *)
(* the expiry of operations.                                               *)
(***************************************************************************)
EXTENDS Integers, Sequences, FiniteSets

CONSTANTS
    Tasks,          \* task ids: numbers, as ids are UUIDv7 and compare by age
    Columns,        \* workflow columns
    DefaultColumn,  \* the column a new task enters, None if there is none
    Start,          \* the column of each task that exists at the start
    Ops,            \* operation ids
    Calls,          \* arrivals of a reorder request at the handler
    Reorders,       \* what a reorder request may ask
    Movers,         \* clients that create or move tasks, each one at a time
    Targets,        \* the columns they move tasks to
    MaxMoves,       \* bound: how often they do, together
    None            \* SQL NULL

Reorder == [task : Tasks, column : Columns, after : Tasks \cup {None}]

ASSUME BoardAssumption ==
    /\ Tasks \subseteq Nat /\ IsFiniteSet(Tasks)
    /\ DefaultColumn \in Columns \cup {None}
    /\ DOMAIN Start \subseteq Tasks /\ \A t \in DOMAIN Start : Start[t] \in Columns
    /\ Reorders \subseteq Reorder
    /\ Targets \subseteq Columns
    /\ MaxMoves \in Nat
    /\ None \notin Tasks /\ None \notin Columns /\ None \notin Calls \cup Movers
    /\ Calls \cap Movers = {}

VARIABLES
    rows,     \* the committed tasks table: column and rank
    receipts, \* the committed operations table: request and response
    rowLock,  \* per task row: the call or mover whose transaction locks it
    pc,       \* per reorder call: where its handler stands
    req,      \* per reorder call: its operation id and what it asks
    todo,     \* per reorder call: the sorted rows its SELECT has yet to lock
    got,      \* per reorder call: the rows it has locked and returns
    answer,   \* per reorder call: what the client was told
    mpc,      \* per mover: where its transaction stands
    move,     \* per mover: the task and the column it enters
    bottom,   \* per mover: the rank it has read for it
    moves,    \* how many moves were begun
    raced,    \* columns that were entered in one of the two ways that can
              \* give two tasks the same rank: at once, or in a return
    history   \* the committed reorders, with the column before and after

callState == <<pc, req, todo, got, answer>>
moverState == <<mpc, move, bottom, moves, raced>>
vars == <<rows, receipts, rowLock, callState, moverState, history>>

NoRow == [column |-> None, rank |-> 0]
NoReceipt == [req |-> None]
NoRequest == [op |-> None]
NoMove == [task |-> None]
NoAnswer == [outcome |-> "none", order |-> <<>>]

Exists(t) == rows[t].rank # 0
InColumn(col) == {t \in Tasks : Exists(t) /\ rows[t].column = col}

\* ORDER BY rank, id
Precedes(t, u) == rows[t].rank < rows[u].rank \/ (rows[t].rank = rows[u].rank /\ t < u)
Order(col) ==
    LET S == InColumn(col)
    IN  [i \in 1 .. Cardinality(S) |->
            CHOOSE t \in S : Cardinality({u \in S : Precedes(u, t)}) = i - 1]

\* Mutant: the rank is how many tasks there are, not the highest rank.
NextRank_Counts(col) == IF col = None THEN 1 ELSE Cardinality(InColumn(col)) + 1
\* COALESCE(MAX(rank), 0) + 1
NextRank(col) ==
    IF col = None THEN 1
    ELSE (CHOOSE r \in {0} \cup {rows[t].rank : t \in InColumn(col)} :
            \A t \in InColumn(col) : rows[t].rank <= r) + 1

Init ==
    /\ rows = [t \in Tasks |->
                 IF t \notin DOMAIN Start THEN NoRow
                 ELSE [column |-> Start[t],
                       rank |-> Cardinality({u \in DOMAIN Start : Start[u] = Start[t] /\ u <= t})]]
    /\ receipts = [o \in Ops |-> NoReceipt]
    /\ rowLock = [t \in Tasks |-> None]
    /\ pc = [c \in Calls |-> "idle"]
    /\ req = [c \in Calls |-> NoRequest]
    /\ todo = [c \in Calls |-> <<>>]
    /\ got = [c \in Calls |-> <<>>]
    /\ answer = [c \in Calls |-> NoAnswer]
    /\ mpc = [k \in Movers |-> "idle"]
    /\ move = [k \in Movers |-> NoMove]
    /\ bottom = [k \in Movers |-> 0]
    /\ moves = 0
    /\ raced = {}
    /\ history = <<>>

\* The row locks when x no longer holds any.
Released(x) == [t \in Tasks |-> IF rowLock[t] = x THEN None ELSE rowLock[t]]

(***************************************************************************)
(* reorderTask: the lookup of the operation, and the answer                *)
(***************************************************************************)
Submit(c, o, q) ==
    /\ pc[c] = "idle"
    /\ pc' = [pc EXCEPT ![c] = "check"]
    /\ req' = [req EXCEPT ![c] = [op |-> o, task |-> q.task, column |-> q.column,
                                  after |-> q.after]]
    /\ UNCHANGED <<rows, receipts, rowLock, todo, got, answer, moverState, history>>

Asked(c) == [task |-> req[c].task, column |-> req[c].column, after |-> req[c].after]
Seen(c) == receipts[req[c].op] # NoReceipt

Answer(c, outcome, order) ==
    /\ pc' = [pc EXCEPT ![c] = "answered"]
    /\ answer' = [answer EXCEPT ![c] = [outcome |-> outcome, order |-> order]]
    /\ todo' = [todo EXCEPT ![c] = <<>>]
    /\ got' = [got EXCEPT ![c] = <<>>]

AnswerFromReceipt(c) ==
    LET r == receipts[req[c].op]
    IN  /\ Seen(c)
        /\ Answer(c, IF r.req = Asked(c) THEN "ok" ELSE "idempotencyConflict", r.order)
        /\ UNCHANGED <<rows, receipts, rowLock, req, moverState, history>>

CheckHit(c) == pc[c] = "check" /\ AnswerFromReceipt(c)

CheckMiss(c) ==
    /\ pc[c] = "check"
    /\ ~Seen(c)
    /\ pc' = [pc EXCEPT ![c] = "target"]
    /\ UNCHANGED <<rows, receipts, rowLock, req, todo, got, answer, moverState, history>>

\* Mutant: the transaction is left open, its locks with it.
Abort_LeavesOpen(c, err) ==
    /\ pc' = [pc EXCEPT ![c] = "recheck"]
    /\ answer' = [answer EXCEPT ![c].outcome = err]
    /\ UNCHANGED <<rows, receipts, rowLock, req, todo, got, moverState, history>>
\* A throw inside the transaction; what was thrown is kept in the answer to be.
Abort(c, err) ==
    /\ pc' = [pc EXCEPT ![c] = "recheck"]
    /\ answer' = [answer EXCEPT ![c].outcome = err]
    /\ rowLock' = Released(c)
    /\ UNCHANGED <<rows, receipts, req, todo, got, moverState, history>>

Recheck(c) ==
    /\ pc[c] = "recheck"
    /\ \/ AnswerFromReceipt(c)
       \/ /\ ~Seen(c)
          /\ Answer(c, answer[c].outcome, <<>>)
          /\ UNCHANGED <<rows, receipts, rowLock, req, moverState, history>>

(***************************************************************************)
(* reorderTask: the locks, the new order and the commit                    *)
(***************************************************************************)
LockTarget(c) ==
    LET t == req[c].task
    IN  /\ pc[c] = "target"
        /\ \/ ~Exists(t) /\ Abort(c, "notFound")
           \/ /\ Exists(t) /\ rowLock[t] = None
              /\ rows[t].column # req[c].column
              /\ Abort(c, "notInColumn")
           \/ /\ Exists(t) /\ rowLock[t] = None
              /\ rows[t].column = req[c].column
              /\ rowLock' = [rowLock EXCEPT ![t] = c]
              /\ pc' = [pc EXCEPT ![c] = "select"]
              /\ UNCHANGED <<rows, receipts, req, todo, got, answer, moverState, history>>

SelectColumn(c) ==
    /\ pc[c] = "select"
    /\ todo' = [todo EXCEPT ![c] = Order(req[c].column)]
    /\ pc' = [pc EXCEPT ![c] = "column"]
    /\ UNCHANGED <<rows, receipts, rowLock, req, got, answer, moverState, history>>

\* Mutant: a plain SELECT, no FOR UPDATE.
LockRow_PlainSelect(c) ==
    /\ pc[c] = "column" /\ todo[c] # <<>>
    /\ got' = [got EXCEPT ![c] = Append(@, Head(todo[c]))]
    /\ todo' = [todo EXCEPT ![c] = Tail(@)]
    /\ UNCHANGED <<rows, receipts, rowLock, pc, req, answer, moverState, history>>
LockRow(c) ==
    /\ pc[c] = "column" /\ todo[c] # <<>>
    /\ LET t == Head(todo[c])
       IN  /\ rowLock[t] \in {None, c}
           /\ rowLock' = [rowLock EXCEPT ![t] = c]
           /\ got' = [got EXCEPT ![c] = IF rows[t].column = req[c].column
                                        THEN Append(@, t) ELSE @]
    /\ todo' = [todo EXCEPT ![c] = Tail(@)]
    /\ UNCHANGED <<rows, receipts, pc, req, answer, moverState, history>>

Position(s, t) == CHOOSE i \in DOMAIN s : s[i] = t
Without(s, t) ==
    SubSeq(s, 1, Position(s, t) - 1) \o SubSeq(s, Position(s, t) + 1, Len(s))
\* Mutant: the task is put before its anchor.
Placed_BeforeAnchor(s, t, after) ==
    LET others == Without(s, t)
        i == IF after = None THEN 0 ELSE Position(others, after) - 1
    IN  SubSeq(others, 1, i) \o <<t>> \o SubSeq(others, i + 1, Len(others))
\* s with t right after its anchor, or first if it has none.
Placed(s, t, after) ==
    LET others == Without(s, t)
        i == IF after = None THEN 0 ELSE Position(others, after)
    IN  SubSeq(others, 1, i) \o <<t>> \o SubSeq(others, i + 1, Len(others))

Elements(s) == {s[i] : i \in DOMAIN s}
\* The anchor has to be another task of the column.
Anchored(c) ==
    req[c].after = None \/ req[c].after \in Elements(got[c]) \ {req[c].task}

RefuseRenumber(c) ==
    /\ pc[c] = "column" /\ todo[c] = <<>>
    /\ \/ ~Anchored(c) /\ Abort(c, "notInColumn")
       \/ Anchored(c) /\ Seen(c) /\ Abort(c, "operationExists")

\* recordOperation goes through: nobody has recorded the operation.
MayRenumber(c) == pc[c] = "column" /\ todo[c] = <<>> /\ Anchored(c) /\ ~Seen(c)

\* The UPDATE of every rank, the response, the operation and COMMIT.
Renumber(c) ==
    LET new == Placed(got[c], req[c].task, req[c].after)
    IN  /\ MayRenumber(c)
        /\ UNCHANGED <<req, moverState>>
        /\ rows' = [t \in Tasks |-> IF t \in Elements(new)
                                    THEN [rows[t] EXCEPT !.rank = Position(new, t)]
                                    ELSE rows[t]]
        /\ receipts' = [receipts EXCEPT ![req[c].op] =
                          [req |-> Asked(c), order |-> Order(req[c].column)']]
        /\ history' = Append(history, [op |-> req[c].op, req |-> Asked(c),
                                       was |-> Order(req[c].column),
                                       now |-> Order(req[c].column)'])
        /\ rowLock' = Released(c)
        /\ Answer(c, "ok", Order(req[c].column)')

(***************************************************************************)
(* createTask and transitionTaskWorkflow                                   *)
(***************************************************************************)
\* The tasks that a mover is about to create.
Claimed == {move[k].task : k \in {j \in Movers : mpc[j] # "idle"}}

BeginCreate(k, t) ==
    /\ mpc[k] = "idle" /\ moves < MaxMoves
    /\ ~Exists(t) /\ t \notin Claimed
    /\ move' = [move EXCEPT ![k] = [task |-> t, to |-> DefaultColumn]]
    /\ mpc' = [mpc EXCEPT ![k] = "rank"]
    /\ moves' = moves + 1
    /\ UNCHANGED <<rows, receipts, rowLock, callState, bottom, raced, history>>

BeginTransition(k, t, col) ==
    /\ mpc[k] = "idle" /\ moves < MaxMoves
    /\ Exists(t) /\ rowLock[t] = None
    /\ rowLock' = [rowLock EXCEPT ![t] = k]
    /\ move' = [move EXCEPT ![k] = [task |-> t, to |-> col]]
    /\ mpc' = [mpc EXCEPT ![k] = "rank"]
    /\ moves' = moves + 1
    /\ UNCHANGED <<rows, receipts, callState, bottom, raced, history>>

ReadRank(k) ==
    /\ mpc[k] = "rank"
    /\ bottom' = [bottom EXCEPT ![k] = NextRank(move[k].to)]
    /\ raced' = raced \cup {move[j].to : j \in {i \in Movers : /\ mpc[i] = "enter"
                                                                /\ move[i].to = move[k].to}}
    /\ mpc' = [mpc EXCEPT ![k] = "enter"]
    /\ UNCHANGED <<rows, receipts, rowLock, callState, move, moves, history>>

Idle(k) ==
    /\ mpc' = [mpc EXCEPT ![k] = "idle"]
    /\ move' = [move EXCEPT ![k] = NoMove]
    /\ bottom' = [bottom EXCEPT ![k] = 0]
    /\ rowLock' = Released(k)

\* The task comes back to a column while a reorder of it that has seen it there
\* still waits for its row.
Returns(k) ==
    \E c \in Calls : /\ pc[c] = "column" /\ req[c].column = move[k].to
                     /\ move[k].task \in Elements(todo[c])
                     /\ rows[move[k].task].column # move[k].to

\* The writes and COMMIT.
Enter(k) ==
    /\ mpc[k] = "enter"
    /\ rows' = [rows EXCEPT ![move[k].task] = [column |-> move[k].to, rank |-> bottom[k]]]
    /\ raced' = raced \cup {to \in {move[k].to} : Returns(k)}
    /\ Idle(k)
    /\ UNCHANGED <<receipts, callState, moves, history>>

\* The verb refuses after its lock, for one of the reasons in TaskService.
Refuse(k) ==
    /\ mpc[k] \in {"rank", "enter"}
    /\ Idle(k)
    /\ UNCHANGED <<rows, receipts, callState, moves, raced, history>>

(***************************************************************************)
(* The environment                                                         *)
(***************************************************************************)

\* Who holds the row lock that c waits for; None if c waits for none.
WaitsFor(c) ==
    LET wanted == IF pc[c] = "target" THEN {req[c].task}
                  ELSE IF pc[c] = "column" /\ todo[c] # <<>> THEN {Head(todo[c])} ELSE {}
        holders == {rowLock[t] : t \in wanted} \ {None, c}
    IN  IF holders = {} THEN None ELSE CHOOSE x \in holders : TRUE

\* c waits for calls that wait, in the end, for c.
Deadlocked(c) ==
    \E S \in SUBSET Calls :
        /\ c \in S
        /\ \A x \in S : WaitsFor(x) \in S
        /\ \A x \in S : \E y \in S : WaitsFor(y) = x

\* deadlock_timeout passes and Postgres ends one of them.
BreakDeadlock(c) == Deadlocked(c) /\ Abort(c, "deadlock")

InFlight(c) == pc[c] \notin {"idle", "answered"}
\* The server dies: Postgres rolls everything back, no call is answered.
Crash ==
    /\ (\E c \in Calls : InFlight(c)) \/ (\E k \in Movers : mpc[k] # "idle")
    /\ pc' = [c \in Calls |-> IF InFlight(c) THEN "answered" ELSE pc[c]]
    /\ answer' = [c \in Calls |-> IF InFlight(c)
                                  THEN [outcome |-> "lost", order |-> <<>>] ELSE answer[c]]
    /\ todo' = [c \in Calls |-> <<>>]
    /\ got' = [c \in Calls |-> <<>>]
    /\ mpc' = [k \in Movers |-> "idle"]
    /\ move' = [k \in Movers |-> NoMove]
    /\ bottom' = [k \in Movers |-> 0]
    /\ rowLock' = [t \in Tasks |-> None]
    /\ UNCHANGED <<rows, receipts, req, moves, raced, history>>

Handle(c) ==
    \/ CheckHit(c) \/ CheckMiss(c) \/ LockTarget(c) \/ SelectColumn(c) \/ LockRow(c)
    \/ RefuseRenumber(c) \/ Renumber(c) \/ Recheck(c) \/ BreakDeadlock(c)

Finish(k) == ReadRank(k) \/ Enter(k) \/ Refuse(k)

Next ==
    \/ \E c \in Calls, o \in Ops, q \in Reorders : Submit(c, o, q)
    \/ \E c \in Calls : Handle(c)
    \/ \E k \in Movers, t \in Tasks : BeginCreate(k, t)
    \/ \E k \in Movers, t \in Tasks, col \in Targets : BeginTransition(k, t, col)
    \/ \E k \in Movers : Finish(k)
    \/ Crash

Spec == Init /\ [][Next]_vars

\* A handler that can go on does, and Postgres looks for deadlocks.
FairSpec ==
    /\ Spec
    /\ \A c \in Calls : WF_vars(Handle(c))
    /\ \A k \in Movers : WF_vars(Finish(k))

(***************************************************************************)
(* What is promised                                                        *)
(***************************************************************************)

\* Every variable has its type; a task of the board has a rank from 1 up.
BoardTypeOK ==
    /\ rows \in [Tasks -> [column : Columns \cup {None}, rank : Nat]]
    /\ \A t \in Tasks : rows[t].rank = 0 => rows[t] = NoRow
    /\ rowLock \in [Tasks -> Calls \cup Movers \cup {None}]
    /\ \A c \in Calls : req[c] = NoRequest \/ (req[c].op \in Ops /\ Asked(c) \in Reorders)
    /\ pc \in [Calls -> {"idle", "check", "target", "select", "column", "recheck", "answered"}]
    /\ \A c \in Calls : Elements(todo[c]) \cup Elements(got[c]) \subseteq Tasks
    /\ mpc \in [Movers -> {"idle", "rank", "enter"}]
    /\ moves \in 0 .. MaxMoves /\ raced \subseteq Columns \cup {None}

\* The tasks of a column have distinct ranks, whatever reorders run beside the
\* moves, with two exceptions.  Two tasks have entered the column at the same
\* time: MAX(rank) is read without a lock.  A task has left and come back while
\* a reorder that had seen it waited for its row: the reorder numbers it too,
\* and hands out a rank more than there were when others entered below it.
RanksAreDistinct ==
    \A col \in Columns \ raced : \A t, u \in InColumn(col) :
        rows[t].rank = rows[u].rank => t = u

\* The board is a total order of typed rows.
BoardIsSound == BoardTypeOK /\ RanksAreDistinct

\* A task's rank changes only by its own move and by a reorder of the column it
\* is in, never by one that saw it there before it left.
KeepsItsColumn ==
    \A t \in Tasks :
        rows'[t].rank # rows[t].rank /\ Exists(t) =>
            \/ \E k \in Movers : move[k].task = t /\ mpc[k] = "enter" /\ mpc'[k] = "idle"
            \/ \E c \in Calls : /\ pc[c] = "column" /\ pc'[c] = "answered"
                                /\ req[c].column = rows[t].column
OnlyItsColumn == [][KeepsItsColumn]_vars

\* A reorder leaves its task right after its anchor, or at the top, in the
\* column as everybody sees it then, tasks included that have entered since the
\* reorder read the column.
AnchorIsRespected ==
    \A i \in DOMAIN history :
        LET h == history[i]
            p == Position(h.now, h.req.task)
        IN  h.req.column \notin raced =>
               IF h.req.after = None THEN p = 1 ELSE p > 1 /\ h.now[p - 1] = h.req.after

\* However often a client retries a reorder, which carries no if_match, it
\* takes effect once, and everybody who is told of success is told that order.
ReordersApplyOnce ==
    /\ \A i, j \in DOMAIN history : history[i].op = history[j].op => i = j
    /\ \A c \in Calls : answer[c].outcome = "ok" =>
         \E i \in DOMAIN history : /\ history[i].op = req[c].op
                                   /\ history[i].req = Asked(c)
                                   /\ history[i].now = answer[c].order

\* A reorder that succeeds does what it was asked to do, once.
ReordersAreHonoured == AnchorIsRespected /\ ReordersApplyOnce

\* Every reorder is answered: reorders that lock the rows of a column in
\* different orders wait for each other only until Postgres ends one.
EveryReorderIsAnswered == \A c \in Calls : pc[c] = "check" ~> pc[c] = "answered"
============================================================================
