------------------------- MODULE TaskServiceProofs -------------------------
(***************************************************************************)
(* Theorems about TaskService and TaskGraph, for every set of tasks,       *)
(* operations, calls, edits, columns and rules.  The first part is about   *)
(* the tables: their types, and that tasks.version counts the events of    *)
(* the task.  The second is about what is written and answered: the log    *)
(* replays to the row, operations are serial, and the verbs implement      *)
(* TaskLedger.  The third is about the graph verbs beside the task verbs:  *)
(* types, versions, that both graphs stay sound, and what the logs tell of *)
(* them.                                                                   *)
(***************************************************************************)
EXTENDS TaskGraph, TLAPS, FiniteSetTheorems, SequenceTheorems, WellFoundedInduction

(***************************************************************************)
(* What the task verbs keep, whatever else writes the tables beside them.  *)
(* Version and log of a task move together only because the row a handler  *)
(* writes is the row it locked: what a transaction holds of the committed  *)
(* tables has to be said for every call between its lock and its commit.   *)
(* The notes of the graph verbs are events that no version counts.         *)
(***************************************************************************)
Note == [kind : GraphKinds, op : {External}, at : Nat, from : Tasks \cup {None},
         to : Tasks \cup {None}]
Versioned(l) == {i \in DOMAIN l : l[i].kind \notin GraphKinds}
Count(l) == Cardinality(Versioned(l))

BaseTypes ==
    /\ rows \in [Tasks -> Row \cup {NoRow}]
    /\ log \in [Tasks -> Seq(Event \cup Note)]
    /\ ops \in [Ops -> Receipt \cup {NoReceipt}]
    /\ deps \subseteq Tasks \X Tasks
    /\ rules \subseteq Rules
    /\ rowLock \in [Tasks -> Calls \cup GraphCalls \cup {None}]
    /\ clock \in Nat
    /\ pc \in [Calls -> {"idle", "check", "lock", "deps", "children", "write",
                         "automate", "recheck", "answered"}]
    /\ req \in [Calls -> Request \cup {NoRequest}]
    /\ txn \in [Calls -> Txn]
    /\ answer \in [Calls -> [outcome : Outcomes, res : Response \cup {NoResponse}]]

VersionsCount ==
    \A t \in Tasks : IF Exists(t) THEN rows[t].version = Count(log[t]) ELSE log[t] = <<>>

\* A handler that has read the row of its task holds the lock and an up-to-date copy.
Snapshot(c) ==
    /\ txn[c].task = req[c].task
    /\ Exists(req[c].task)
    /\ rowLock[req[c].task] = c
    /\ txn[c].row = rows[req[c].task]
    /\ req[c].verb = "transition" => req[c].to \in Columns

\* A handler that has written its row holds the lock, and its uncommitted row
\* and events continue the committed ones; the parent is none of its business.
Parent(t) == IF Exists(t) THEN rows[t].parent ELSE None
BaseDraft(c) ==
    /\ txn[c].task \in Tasks
    /\ rowLock[txn[c].task] = c
    /\ txn[c].row \in Row
    /\ txn[c].res \in Response
    /\ txn[c].row.version = Count(log[txn[c].task]) + Len(txn[c].pend)
    /\ txn[c].row.parent = Parent(txn[c].task)

BaseCall(c) ==
    /\ pc[c] # "idle" => req[c] \in Request
    /\ pc[c] \in {"lock", "deps", "children"} => req[c].verb # "create"
    /\ pc[c] \in {"deps", "children"} => Snapshot(c)
    /\ pc[c] = "write" /\ req[c].verb # "create" => Snapshot(c)
    /\ pc[c] = "automate" => BaseDraft(c)

BaseInv == BaseTypes /\ VersionsCount /\ \A c \in Calls : BaseCall(c)

(***************************************************************************)
(* The inductive invariant of TaskService: no verb of another kind writes. *)
(***************************************************************************)
Draft(c) == BaseDraft(c) /\ txn[c].row.version = Len(log[txn[c].task]) + Len(txn[c].pend)

CallInv(c) == BaseCall(c) /\ (pc[c] = "automate" => Draft(c))

IInv == TypeOK /\ VersionCountsEvents /\ \A c \in Calls : CallInv(c)

(***************************************************************************)
(* Facts about the shapes                                                  *)
(***************************************************************************)

LEMMA RowIsNotNoRow == \A r \in Row : r # NoRow
  BY ConstantsAssumption DEF Row, NoRow, Status

LEMMA ReceiptIsNotNoReceipt == \A r \in Receipt : r # NoReceipt
  <1> SUFFICES ASSUME NEW r \in Receipt, r = NoReceipt PROVE FALSE
    OBVIOUS
  <1>1. r.expired \in BOOLEAN /\ DOMAIN r = {"req", "res", "expired"}
    BY DEF Receipt
  <1>2. DOMAIN NoReceipt = {"req"}
    BY DEF NoReceipt
  <1> QED BY <1>1, <1>2

\* What a request asks for has the types of its verb.
LEMMA RequestShape ==
  ASSUME NEW q \in Request
  PROVE  /\ q.op \in Ops /\ q.verb \in Verbs /\ q.ifMatch \in Nat /\ q.to \in Values
         /\ q.verb # "create" => q.task \in Tasks
         /\ q.verb = "create" => q.to \in Assignee
         /\ q.verb = "status" => q.to \in Status
         /\ q.verb = "update" => q.to \in Assignee \cup {Keep}
         /\ q.verb = "transition" => q.to \in Columns \cup {None}
  BY DEF Request, BodyOf, BodyShape, CreateBody, StatusBody, UpdateBody, TransitionBody,
         PointsBody, Assignee, Verbs

LEMMA BodyIsRequest ==
  ASSUME NEW b \in Bodies, NEW o \in Ops, NEW v \in Nat
  PROVE  [op |-> o, verb |-> b.verb, task |-> b.task, to |-> b.to, ifMatch |-> v] \in Request
  BY ConstantsAssumption
     DEF Request, BodyOf, BodyShape, CreateBody, StatusBody, UpdateBody, TransitionBody,
         PointsBody, Verbs, Values

\* Whatever order the rules come in, the agenda is a sequence of firings.
LEMMA FiringsAreAgendas ==
  ASSUME NEW f, NEW v, NEW d \in Nat, rules \subseteq Rules, NEW a \in Firings(f, v, d)
  PROVE  a \in Seq(Firing)
  <1>1. CASE d >= 2
    BY <1>1 DEF Firings
  <1>2. CASE ~(d >= 2)
    <2>1. IsFiniteSet(Triggered(f, v)) /\ Triggered(f, v) \subseteq Rules
      BY ConstantsAssumption, FS_Subset DEF Triggered
    <2>2. Cardinality(Triggered(f, v)) \in Nat
      BY <2>1, FS_CardinalityType
    <2>3. PICK g \in Orders(Triggered(f, v)) :
             a = [i \in DOMAIN g |-> [rule |-> g[i], depth |-> d]]
      BY <1>2 DEF Firings
    <2>4. g \in [1 .. Cardinality(Triggered(f, v)) -> Rules]
      BY <2>1 DEF Orders, Triggered
    <2>5. a \in [1 .. Cardinality(Triggered(f, v)) -> Firing]
      BY <2>3, <2>4 DEF Firing
    <2> QED BY <2>2, <2>5
  <1> QED BY <1>1, <1>2

(***************************************************************************)
(* What a version counts                                                   *)
(***************************************************************************)

LEMMA CountEmpty == Count(<<>>) = 0
  <1>1. Versioned(<<>>) = {}
    BY DEF Versioned
  <1> QED BY <1>1, FS_EmptySet DEF Count

LEMMA EventsAreVersioned == \A e \in Event : e.kind \notin GraphKinds
  BY DEF Event, Kinds, GraphKinds

LEMMA CountIsNat ==
  ASSUME NEW l \in Seq(Event \cup Note)
  PROVE  IsFiniteSet(Versioned(l)) /\ Count(l) \in Nat /\ Versioned(l) \subseteq 1 .. Len(l)
  <1>1. DOMAIN l = 1 .. Len(l) /\ Len(l) \in Nat
    OBVIOUS
  <1>2. 1 \in Int /\ Len(l) \in Int
    BY <1>1
  <1>3. IsFiniteSet(1 .. Len(l))
    BY <1>2, FS_Interval
  <1>4. Versioned(l) \subseteq 1 .. Len(l)
    BY <1>1 DEF Versioned
  <1>5. IsFiniteSet(Versioned(l))
    BY <1>3, <1>4, FS_Subset
  <1> QED BY <1>4, <1>5, FS_CardinalityType DEF Count

\* Every event of a verb counts.
LEMMA CountOfEvents ==
  ASSUME NEW l \in Seq(Event)
  PROVE  Count(l) = Len(l)
  <1>1. DOMAIN l = 1 .. Len(l) /\ Len(l) \in Nat /\ \A i \in 1 .. Len(l) : l[i] \in Event
    OBVIOUS
  <1>2. Versioned(l) = 1 .. Len(l)
    BY <1>1, EventsAreVersioned DEF Versioned
  <1>3. 1 \in Int /\ Len(l) \in Int
    BY <1>1
  <1>4. Cardinality(1 .. Len(l)) = IF 1 > Len(l) THEN 0 ELSE Len(l) - 1 + 1
    BY <1>3, FS_Interval
  <1> QED BY <1>1, <1>2, <1>4 DEF Count

LEMMA CountConcat ==
  ASSUME NEW l \in Seq(Event \cup Note), NEW p \in Seq(Event)
  PROVE  /\ l \o p \in Seq(Event \cup Note) /\ Len(l \o p) = Len(l) + Len(p)
         /\ Count(l \o p) = Count(l) + Len(p)
  <1>1. PICK m \in Nat, n \in Nat : m = Len(l) /\ n = Len(p)
    OBVIOUS
  <1>2. /\ DOMAIN l = 1 .. m /\ DOMAIN p = 1 .. n /\ DOMAIN (l \o p) = 1 .. m + n
        /\ \A i \in 1 .. m : (l \o p)[i] = l[i]
        /\ \A i \in m + 1 .. m + n : (l \o p)[i] = p[i - m] /\ i - m \in 1 .. n
        /\ \A i \in 1 .. n : p[i] \in Event
    BY <1>1
  <1>3. PICK q : q = l \o p
    OBVIOUS
  <1>4. /\ DOMAIN q = 1 .. m + n
        /\ \A i \in 1 .. m : q[i] = l[i]
        /\ \A i \in m + 1 .. m + n : q[i] \in Event
    BY <1>2, <1>3
  <1>5. Versioned(q) = Versioned(l) \cup (m + 1 .. m + n)
    <2>1. \A i \in m + 1 .. m + n : q[i].kind \notin GraphKinds
      BY <1>4, EventsAreVersioned
    <2> QED BY <1>2, <1>4, <2>1 DEF Versioned
  <1>6. IsFiniteSet(Versioned(l)) /\ Count(l) \in Nat /\ Versioned(l) \subseteq 1 .. m
    BY <1>1, CountIsNat
  <1>7. IsFiniteSet(m + 1 .. m + n) /\ Cardinality(m + 1 .. m + n) = n
    <2>1. m + 1 \in Int /\ m + n \in Int
      OBVIOUS
    <2>2. /\ IsFiniteSet(m + 1 .. m + n)
          /\ Cardinality(m + 1 .. m + n) = IF m + 1 > m + n THEN 0 ELSE (m + n) - (m + 1) + 1
      BY <2>1, FS_Interval
    <2> QED BY <2>2
  <1>8. Versioned(l) \cap (m + 1 .. m + n) = {}
    BY <1>6
  <1>9. Cardinality(Versioned(l) \cap (m + 1 .. m + n)) = 0
    BY <1>8, FS_EmptySet
  <1>10. Cardinality(Versioned(q))
            = Cardinality(Versioned(l)) + Cardinality(m + 1 .. m + n)
              - Cardinality(Versioned(l) \cap (m + 1 .. m + n))
    BY <1>5, <1>6, <1>7, FS_Union
  <1>11. Cardinality(Versioned(q)) = Count(l) + n
    BY <1>6, <1>7, <1>9, <1>10 DEF Count
  <1>12. l \o p \in Seq(Event \cup Note) /\ Len(l \o p) = Len(l) + Len(p)
    OBVIOUS
  <1> QED BY <1>1, <1>3, <1>11, <1>12 DEF Count

\* A note does not.
LEMMA CountNote ==
  ASSUME NEW l \in Seq(Event \cup Note), NEW n \in Note
  PROVE  Append(l, n) \in Seq(Event \cup Note) /\ Count(Append(l, n)) = Count(l)
  <1>1. PICK q : q = Append(l, n)
    OBVIOUS
  <1>2. /\ q \in Seq(Event \cup Note) /\ DOMAIN l = 1 .. Len(l) /\ Len(l) \in Nat
        /\ DOMAIN q = 1 .. Len(l) + 1 /\ q[Len(l) + 1] = n
        /\ \A i \in 1 .. Len(l) : q[i] = l[i]
    BY <1>1
  <1>3. n.kind \in GraphKinds
    BY DEF Note
  <1>4. Versioned(q) = Versioned(l)
    BY <1>2, <1>3 DEF Versioned
  <1> QED BY <1>1, <1>2, <1>4 DEF Count

(***************************************************************************)
(* The initial state                                                       *)
(***************************************************************************)

LEMMA NewRowIsRow == \A who \in Assignee : NewRow(who) \in Row
  BY ConstantsAssumption DEF NewRow, Row, Status, Assignee

LEMMA CreatedEventIsEvent ==
  \A o \in Ops \cup {External}, now \in Nat : CreatedEvent(o, now) \in Event
  BY DEF CreatedEvent, Event, Kinds, Values, Status

LEMMA InitEstablishesIInv == Init => IInv
  <1> SUFFICES ASSUME Init PROVE IInv
    OBVIOUS
  <1> USE DEF Init
  <1>1. \A t \in Seeded : rows[t] \in Row /\ rows[t] # NoRow /\ rows[t].version = 1
    <2> SUFFICES ASSUME NEW t \in Seeded
                 PROVE rows[t] \in Row /\ rows[t] # NoRow /\ rows[t].version = 1
      OBVIOUS
    <2>1. t \in Tasks /\ ParentOf[t] \in Tasks \cup {None}
      BY ConstantsAssumption
    <2>2. NewRow(None) \in Row /\ NewRow(None).version = 1
      BY NewRowIsRow DEF Assignee, NewRow
    <2>3. rows[t] = [NewRow(None) EXCEPT !.parent = ParentOf[t]]
      BY <2>1
    <2>4. rows[t] \in Row /\ rows[t].version = 1
      BY <2>1, <2>2, <2>3 DEF Row
    <2> QED BY <2>4, RowIsNotNoRow
  <1>2. \A t \in Tasks \ Seeded : rows[t] = NoRow
    OBVIOUS
  <1>3. log \in [Tasks -> Seq(Event)]
    <2>1. CreatedEvent(External, 0) \in Event
      BY CreatedEventIsEvent
    <2> QED BY <2>1
  <1>4. VersionCountsEvents
    BY <1>1, <1>2 DEF VersionCountsEvents, Exists
  <1>5. rows \in [Tasks -> Row \cup {NoRow}]
    BY <1>1, <1>2
  <1>6. txn \in [Calls -> Txn]
    BY DEF Txn, NoTxn
  <1>7. TypeOK
    BY <1>3, <1>5, <1>6, ConstantsAssumption DEF TypeOK, Outcomes
  <1>8. \A c \in Calls : CallInv(c)
    BY DEF CallInv, BaseCall
  <1> QED BY <1>4, <1>7, <1>8 DEF IInv

(***************************************************************************)
(* What a step of one call leaves alone                                    *)
(***************************************************************************)

\* A call whose own state, lock and locked row a step keeps still satisfies BaseCall.
LEMMA OtherCallsKeepBaseCall ==
  ASSUME NEW d \in Calls, BaseCall(d),
         pc'[d] = pc[d], req'[d] = req[d], txn'[d] = txn[d],
         \A t \in Tasks : rowLock[t] = d =>
            /\ rowLock'[t] = d
            /\ rows'[t] = rows[t]
            /\ log'[t] = log[t]
  PROVE  BaseCall(d)'
  <1>1. pc[d] \in {"deps", "children"} \/ (pc[d] = "write" /\ req[d].verb # "create")
        => Snapshot(d)'
    <2> SUFFICES ASSUME pc[d] \in {"deps", "children"}
                          \/ (pc[d] = "write" /\ req[d].verb # "create")
                 PROVE Snapshot(d)'
      OBVIOUS
    <2>1. Snapshot(d) /\ req[d].task \in Tasks
      BY RequestShape DEF BaseCall
    <2> QED BY <2>1 DEF Snapshot, Exists
  <1>2. pc[d] = "automate" => BaseDraft(d)'
    BY DEF BaseCall, BaseDraft, Parent, Exists
  <1> QED BY <1>1, <1>2 DEF BaseCall

\* Giving up the locks of c takes no lock from another call.
LEMMA ReleasedKeepsOthers ==
  ASSUME NEW c \in Calls, NEW d \in Calls, c # d,
         NEW t \in Tasks, rowLock[t] = d, rowLock' = Released({c})
  PROVE  rowLock'[t] = d
  BY DEF Released

LEMMA NoTxnIsTxn == \A e \in Errors \cup {"none"} : [NoTxn EXCEPT !.err = e] \in Txn
  <1> SUFFICES ASSUME NEW e \in Errors \cup {"none"} PROVE [NoTxn EXCEPT !.err = e] \in Txn
    OBVIOUS
  <1>1. NoTxn \in Txn
    BY DEF NoTxn, Txn
  <1> QED BY <1>1 DEF Txn

\* A step of call c keeps the invariant if it does for c, and leaves the other
\* calls and the rows they lock as they are.
LEMMA StepOfOneCall ==
  ASSUME BaseInv, NEW c \in Calls,
         BaseTypes', VersionsCount', BaseCall(c)',
         \A d \in Calls \ {c} :
            /\ pc'[d] = pc[d] /\ req'[d] = req[d] /\ txn'[d] = txn[d]
            /\ \A t \in Tasks : rowLock[t] = d =>
                  rowLock'[t] = d /\ rows'[t] = rows[t] /\ log'[t] = log[t]
  PROVE  BaseInv'
  <1>1. ASSUME NEW d \in Calls \ {c} PROVE BaseCall(d)'
    BY OtherCallsKeepBaseCall DEF BaseInv
  <1> QED BY <1>1 DEF BaseInv

LEMMA TablesKeepVersions ==
  ASSUME VersionsCount, rows' = rows, log' = log PROVE VersionsCount'
  BY DEF VersionsCount, Exists

(***************************************************************************)
(* Answers and aborted transactions                                        *)
(***************************************************************************)

LEMMA AbortKeepsBaseInv ==
  ASSUME BaseInv, NEW c \in Calls, pc[c] # "idle", NEW e \in Errors, Abort(c, e)
  PROVE  BaseInv'
  <1> USE DEF BaseInv
  <1>1. BaseTypes'
    BY NoTxnIsTxn DEF BaseTypes, Abort, tables, Released
  <1>2. VersionsCount'
    BY TablesKeepVersions DEF Abort, tables
  <1>3. BaseCall(c)'
    <2>1. pc'[c] = "recheck" /\ req'[c] = req[c]
      BY DEF Abort, BaseTypes
    <2>2. req[c] \in Request
      BY DEF BaseCall
    <2> QED BY <2>1, <2>2 DEF BaseCall
  <1>4. ASSUME NEW d \in Calls \ {c}
        PROVE  /\ pc'[d] = pc[d] /\ req'[d] = req[d] /\ txn'[d] = txn[d]
               /\ \A t \in Tasks : rowLock[t] = d =>
                     rowLock'[t] = d /\ rows'[t] = rows[t] /\ log'[t] = log[t]
    BY ReleasedKeepsOthers DEF Abort, BaseTypes, tables
  <1> QED BY <1>1, <1>2, <1>3, <1>4, StepOfOneCall

\* A call answered without a write: the tables and the locks stay.
LEMMA AnswerKeepsBaseInv ==
  ASSUME BaseInv, NEW c \in Calls, pc[c] # "idle",
         NEW o \in Outcomes, NEW r \in Response \cup {NoResponse}, Answer(c, o, r),
         UNCHANGED <<tables, rowLock, clock, req>>
  PROVE  BaseInv'
  <1> USE DEF BaseInv
  <1>1. BaseTypes'
    <2>1. NoTxn \in Txn
      BY NoTxnIsTxn DEF NoTxn
    <2> QED BY <2>1 DEF BaseTypes, Answer, tables
  <1>2. VersionsCount'
    BY TablesKeepVersions DEF tables
  <1>3. BaseCall(c)'
    <2>1. pc'[c] = "answered" /\ req'[c] = req[c]
      BY DEF Answer, BaseTypes
    <2>2. req[c] \in Request
      BY DEF BaseCall
    <2> QED BY <2>1, <2>2 DEF BaseCall
  <1>4. ASSUME NEW d \in Calls \ {c}
        PROVE  /\ pc'[d] = pc[d] /\ req'[d] = req[d] /\ txn'[d] = txn[d]
               /\ \A t \in Tasks : rowLock[t] = d =>
                     rowLock'[t] = d /\ rows'[t] = rows[t] /\ log'[t] = log[t]
    BY DEF Answer, BaseTypes, tables
  <1> QED BY <1>1, <1>2, <1>3, <1>4, StepOfOneCall

LEMMA ReceiptStepKeepsBaseInv ==
  ASSUME BaseInv, NEW c \in Calls, pc[c] # "idle", AnswerFromReceipt(c)
  PROVE  BaseInv'
  <1>1. req[c].op \in Ops
    BY RequestShape DEF BaseInv, BaseCall
  <1>2. ops[req[c].op] \in Receipt \cup {NoReceipt}
    BY <1>1 DEF BaseInv, BaseTypes
  <1>3. Seen(c) => ops[req[c].op].res \in Response
    BY <1>2 DEF Seen, Receipt
  <1>4. {"operationExpired", "idempotencyConflict", "ok"} \subseteq Outcomes
    BY DEF Outcomes
  <1>5. CASE Answer(c, "operationExpired", NoResponse)
    BY <1>4, <1>5, AnswerKeepsBaseInv DEF AnswerFromReceipt
  <1>6. CASE Seen(c) /\ Answer(c, "idempotencyConflict", ops[req[c].op].res)
    BY <1>3, <1>4, <1>6, AnswerKeepsBaseInv DEF AnswerFromReceipt
  <1>7. CASE Seen(c) /\ Answer(c, "ok", ops[req[c].op].res)
    BY <1>3, <1>4, <1>7, AnswerKeepsBaseInv DEF AnswerFromReceipt
  <1> QED BY <1>5, <1>6, <1>7 DEF AnswerFromReceipt, Gone, Reused, Replayed

(***************************************************************************)
(* The steps before the writes                                             *)
(***************************************************************************)

LEMMA SubmitKeepsBaseInv ==
  ASSUME BaseInv, NEW c \in Calls, NEW o \in Ops, NEW b \in Bodies,
         NEW v \in KnownVersions(b.task), Submit(c, o, b, v)
  PROVE  BaseInv'
  <1> USE DEF BaseInv
  <1>1. v \in Nat
    <2>1. b.task \in Tasks \cup {None}
      BY ConstantsAssumption
         DEF BodyShape, CreateBody, StatusBody, UpdateBody, TransitionBody, PointsBody
    <2>2. b.task # None /\ Exists(b.task) => rows[b.task].version \in Nat
      BY <2>1 DEF Exists, BaseTypes, Row
    <2> QED BY <2>2 DEF KnownVersions
  <1> DEFINE q == [op |-> o, verb |-> b.verb, task |-> b.task, to |-> b.to, ifMatch |-> v]
  <1>2. q \in Request
    BY <1>1, BodyIsRequest
  <1> HIDE DEF q
  <1>3. req' = [req EXCEPT ![c] = q] /\ pc' = [pc EXCEPT ![c] = "check"]
    BY DEF Submit, q
  <1>4. BaseTypes'
    BY <1>2, <1>3 DEF BaseTypes, Submit, tables
  <1>5. VersionsCount'
    BY TablesKeepVersions DEF Submit, tables
  <1>6. BaseCall(c)'
    <2>1. pc'[c] = "check" /\ req'[c] = q
      BY <1>3 DEF BaseTypes
    <2> QED BY <2>1, <1>2 DEF BaseCall
  <1>7. ASSUME NEW d \in Calls \ {c}
        PROVE  /\ pc'[d] = pc[d] /\ req'[d] = req[d] /\ txn'[d] = txn[d]
               /\ \A t \in Tasks : rowLock[t] = d =>
                     rowLock'[t] = d /\ rows'[t] = rows[t] /\ log'[t] = log[t]
    BY <1>3 DEF BaseTypes, Submit, tables
  <1> QED BY <1>4, <1>5, <1>6, <1>7, StepOfOneCall

LEMMA CheckMissKeepsBaseInv ==
  ASSUME BaseInv, NEW c \in Calls, CheckMiss(c)
  PROVE  BaseInv'
  <1> USE DEF BaseInv
  <1>1. req[c] \in Request /\ pc'[c] \in {"write", "lock"} /\ req'[c] = req[c]
        /\ (pc'[c] = "write" <=> req[c].verb = "create")
    BY DEF CheckMiss, BaseCall, BaseTypes
  <1>2. txn' \in [Calls -> Txn]
    <2>1. txn[c] \in Txn /\ clock' \in Nat
      BY DEF BaseTypes, CheckMiss
    <2>2. [txn[c] EXCEPT !.now = clock'] \in Txn
      BY <2>1 DEF Txn
    <2>3. txn' = [txn EXCEPT ![c] = [txn[c] EXCEPT !.now = clock']]
      BY DEF CheckMiss, BaseTypes
    <2> QED BY <2>2, <2>3 DEF BaseTypes
  <1>3. BaseTypes'
    BY <1>2 DEF BaseTypes, CheckMiss, tables
  <1>4. VersionsCount'
    BY TablesKeepVersions DEF CheckMiss, tables
  <1>5. BaseCall(c)'
    BY <1>1 DEF BaseCall
  <1>6. ASSUME NEW d \in Calls \ {c}
        PROVE  /\ pc'[d] = pc[d] /\ req'[d] = req[d] /\ txn'[d] = txn[d]
               /\ \A t \in Tasks : rowLock[t] = d =>
                     rowLock'[t] = d /\ rows'[t] = rows[t] /\ log'[t] = log[t]
    BY DEF BaseTypes, CheckMiss, tables
  <1> QED BY <1>3, <1>4, <1>5, <1>6, StepOfOneCall

LEMMA RecheckMissKeepsBaseInv ==
  ASSUME BaseInv, NEW c \in Calls, RecheckMiss(c)
  PROVE  BaseInv'
  <1>1. txn[c].err \in Outcomes
    BY DEF BaseInv, BaseTypes, Txn, Outcomes
  <1> QED BY <1>1, AnswerKeepsBaseInv DEF RecheckMiss

LEMMA LockTaskKeepsBaseInv ==
  ASSUME BaseInv, NEW c \in Calls, LockTask(c)
  PROVE  BaseInv'
  <1> USE DEF BaseInv
  <1> DEFINE t == req[c].task
  <1>1. /\ req[c] \in Request /\ req[c].verb # "create" /\ t \in Tasks
        /\ rows[t] \in Row /\ rowLock[t] = None
    <2>1. req[c] \in Request /\ req[c].verb # "create"
      BY DEF LockTask, BaseCall
    <2> QED BY <2>1, RequestShape DEF BaseTypes, LockTask, Exists
  <1>2. req[c].verb = "transition" => req[c].to \in Columns
    BY DEF LockTask, RowObjection
  <1>3. txn' \in [Calls -> Txn] /\ txn'[c].task = t /\ txn'[c].row = rows[t]
    <2>1. txn[c] \in Txn
      BY DEF BaseTypes
    <2>2. [txn[c] EXCEPT !.task = t, !.row = rows[t]] \in Txn
      BY <2>1, <1>1 DEF Txn
    <2>3. txn' = [txn EXCEPT ![c] = [txn[c] EXCEPT !.task = t, !.row = rows[t]]]
      BY DEF LockTask, BaseTypes
    <2> QED BY <2>1, <2>2, <2>3 DEF BaseTypes, Txn
  <1>4. pc'[c] \in {"deps", "write"} /\ req' = req /\ rows' = rows /\ rowLock'[t] = c
    BY <1>1 DEF LockTask, BaseTypes, tables
  <1>5. BaseTypes'
    BY <1>3 DEF BaseTypes, LockTask, tables
  <1>6. VersionsCount'
    BY TablesKeepVersions DEF LockTask, tables
  <1>7. BaseCall(c)'
    <2>1. Snapshot(c)'
      BY <1>1, <1>2, <1>3, <1>4, RowIsNotNoRow DEF Snapshot, Exists
    <2> QED BY <2>1, <1>1, <1>4 DEF BaseCall
  <1>8. ASSUME NEW d \in Calls \ {c}
        PROVE  /\ pc'[d] = pc[d] /\ req'[d] = req[d] /\ txn'[d] = txn[d]
               /\ \A u \in Tasks : rowLock[u] = d =>
                     rowLock'[u] = d /\ rows'[u] = rows[u] /\ log'[u] = log[u]
    BY <1>1, ConstantsAssumption DEF BaseTypes, LockTask, tables
  <1> QED BY <1>5, <1>6, <1>7, <1>8, StepOfOneCall

\* A check that passes only moves the handler on.
LEMMA PassedCheckKeepsBaseInv ==
  ASSUME BaseInv, NEW c \in Calls, pc[c] \in {"deps", "children"},
         NEW p \in {"children", "write"}, pc' = [pc EXCEPT ![c] = p],
         UNCHANGED <<tables, rowLock, clock, req, txn, answer>>
  PROVE  BaseInv'
  <1> USE DEF BaseInv
  <1>1. BaseTypes'
    BY DEF BaseTypes, tables
  <1>2. VersionsCount'
    BY TablesKeepVersions DEF tables
  <1>3. BaseCall(c)'
    <2>1. Snapshot(c) /\ req[c] \in Request /\ req[c].verb # "create"
      BY DEF BaseCall
    <2>2. Snapshot(c)'
      BY <2>1 DEF Snapshot, Exists, tables
    <2>3. pc'[c] = p /\ req'[c] = req[c]
      BY DEF BaseTypes
    <2> QED BY <2>1, <2>2, <2>3 DEF BaseCall
  <1>4. ASSUME NEW d \in Calls \ {c}
        PROVE  /\ pc'[d] = pc[d] /\ req'[d] = req[d] /\ txn'[d] = txn[d]
               /\ \A t \in Tasks : rowLock[t] = d =>
                     rowLock'[t] = d /\ rows'[t] = rows[t] /\ log'[t] = log[t]
    BY DEF BaseTypes, tables
  <1> QED BY <1>1, <1>2, <1>3, <1>4, StepOfOneCall

(***************************************************************************)
(* The writes                                                              *)
(***************************************************************************)

\* A call that holds the lock of its task and has drafted its writes: nothing is
\* committed yet, so all that changes is what the transaction carries.
LEMMA DraftingKeepsBaseInv ==
  ASSUME BaseInv, NEW c \in Calls, pc[c] # "idle",
         NEW x \in Txn, txn' = [txn EXCEPT ![c] = x],
         NEW t \in Tasks, x.task = t, x.row \in Row, x.res \in Response,
         x.row.version = Count(log[t]) + Len(x.pend), x.row.parent = Parent(t),
         rowLock[t] \in {None, c}, rowLock' = [rowLock EXCEPT ![t] = c],
         clock' \in Nat, pc' = [pc EXCEPT ![c] = "automate"],
         UNCHANGED <<tables, req, answer>>
  PROVE  BaseInv'
  <1> USE DEF BaseInv
  <1>1. BaseTypes'
    BY DEF BaseTypes, tables
  <1>2. VersionsCount'
    BY TablesKeepVersions DEF tables
  <1>3. BaseCall(c)'
    <2>1. pc'[c] = "automate" /\ req'[c] = req[c] /\ txn'[c] = x /\ rowLock'[t] = c
          /\ req[c] \in Request /\ log' = log /\ Parent(t)' = Parent(t)
      BY DEF BaseTypes, BaseCall, tables, Parent, Exists
    <2>2. BaseDraft(c)'
      BY <2>1 DEF BaseDraft
    <2> QED BY <2>1, <2>2 DEF BaseCall
  <1>4. ASSUME NEW d \in Calls \ {c}
        PROVE  /\ pc'[d] = pc[d] /\ req'[d] = req[d] /\ txn'[d] = txn[d]
               /\ \A u \in Tasks : rowLock[u] = d =>
                     rowLock'[u] = d /\ rows'[u] = rows[u] /\ log'[u] = log[u]
    BY ConstantsAssumption DEF BaseTypes, tables
  <1> QED BY <1>1, <1>2, <1>3, <1>4, StepOfOneCall

LEMMA CreateTaskKeepsBaseInv ==
  ASSUME BaseInv, NEW c \in Calls, NEW t \in Tasks, CreateTask(c, t)
  PROVE  BaseInv'
  <1> USE DEF BaseInv
  <1>1. req[c] \in Request /\ req[c].to \in Assignee /\ req[c].op \in Ops /\ txn[c] \in Txn
    BY RequestShape DEF CreateTask, MayWrite, BaseCall, BaseTypes
  <1>2. NewRow(req[c].to) \in Row /\ NewRow(req[c].to).version = 1 /\ NewRow(req[c].to).parent = None
    BY <1>1, NewRowIsRow DEF NewRow
  <1>3. CreatedEvent(req[c].op, txn[c].now) \in Event
    BY <1>1, CreatedEventIsEvent DEF Txn
  <1> DEFINE x == [txn[c] EXCEPT !.task = t,
                     !.row = NewRow(req[c].to),
                     !.res = [task |-> t, row |-> NewRow(req[c].to)],
                     !.pend = <<CreatedEvent(req[c].op, txn[c].now)>>]
  <1>4. <<CreatedEvent(req[c].op, txn[c].now)>> \in Seq(Event)
    BY <1>3
  <1>5. [task |-> t, row |-> NewRow(req[c].to)] \in Response
    BY <1>2 DEF Response
  <1>6. /\ x \in Txn /\ x.task = t /\ x.row = NewRow(req[c].to)
        /\ x.res = [task |-> t, row |-> NewRow(req[c].to)]
        /\ x.pend = <<CreatedEvent(req[c].op, txn[c].now)>>
    BY <1>1, <1>2, <1>4, <1>5 DEF Txn
  <1>7. txn' = [txn EXCEPT ![c] = x]
    BY DEF CreateTask
  <1> HIDE DEF x
  <1>8. log[t] = <<>> /\ Parent(t) = None
    BY DEF CreateTask, Unheard, VersionsCount, Parent
  <1>9. x.row.version = Count(log[t]) + Len(x.pend) /\ x.row.parent = Parent(t)
    BY <1>2, <1>6, <1>8, CountEmpty
  <1>10. clock' \in Nat
    BY DEF CreateTask, BaseTypes
  <1>11. /\ pc[c] # "idle" /\ rowLock[t] = None /\ rowLock' = [rowLock EXCEPT ![t] = c]
         /\ pc' = [pc EXCEPT ![c] = "automate"] /\ UNCHANGED <<tables, req, answer>>
    BY DEF CreateTask, MayWrite, Unheard
  <1>12. x.row \in Row /\ x.res \in Response
    BY <1>2, <1>5, <1>6
  <1> QED BY <1>6, <1>7, <1>9, <1>10, <1>11, <1>12, DraftingKeepsBaseInv

\* Whatever a verb does to the row, it adds one version.
LEMMA EffectIsOneVersion ==
  ASSUME NEW q \in Request, q.verb # "create", NEW row \in Row,
         q.verb = "transition" => q.to \in Columns
  PROVE  /\ Effect(q, row).row \in Row
         /\ Effect(q, row).row.version = row.version + 1
         /\ Effect(q, row).row.parent = row.parent
         /\ Effect(q, row).kind \in Kinds
         /\ Effect(q, row).from \in Values /\ Effect(q, row).to \in Values
  <1> USE RequestShape DEF Effect, Bumped, Values, Kinds
  <1>1. Bumped(row) \in Row /\ Bumped(row).version = row.version + 1 /\ Bumped(row).parent = row.parent
    BY DEF Row
  <1>2. CASE q.verb = "status"
    BY <1>1, <1>2 DEF UpdateTaskStatus, Row
  <1>3. CASE q.verb = "update"
    BY <1>1, <1>3 DEF UpdateTask, Row, Assignee
  <1>4. CASE q.verb = "transition"
    <2>1. MapsTo[q.to] \in Status
      BY <1>4, ConstantsAssumption
    <2> QED BY <2>1, <1>1, <1>4 DEF TransitionTaskWorkflow, Row
  <1>5. CASE q.verb = "points"
    BY <1>1, <1>5 DEF UpdateTaskPoints
  <1> QED BY <1>2, <1>3, <1>4, <1>5 DEF Verbs

LEMMA WriteTaskKeepsBaseInv ==
  ASSUME BaseInv, NEW c \in Calls, WriteTask(c)
  PROVE  BaseInv'
  <1> USE DEF BaseInv
  <1> DEFINE t == req[c].task
             e == Effect(req[c], txn[c].row)
             ev == [kind |-> e.kind, op |-> req[c].op, at |-> txn[c].now,
                    from |-> e.from, to |-> e.to]
  <1>1. /\ req[c] \in Request /\ req[c].verb # "create" /\ txn[c] \in Txn
        /\ pc[c] = "write" /\ Snapshot(c)
    BY DEF WriteTask, MayWrite, BaseCall, BaseTypes
  <1>2. t \in Tasks /\ req[c].op \in Ops
    BY <1>1, RequestShape
  <1>3. /\ txn[c].row \in Row /\ txn[c].task = t /\ txn[c].row.version = Count(log[t])
        /\ txn[c].row.parent = Parent(t)
    BY <1>1, <1>2 DEF Snapshot, BaseTypes, Exists, VersionsCount, Parent
  <1>4. /\ e.row \in Row /\ e.row.version = Count(log[t]) + 1 /\ e.kind \in Kinds
        /\ e.from \in Values /\ e.to \in Values /\ e.row.parent = Parent(t)
    BY <1>1, <1>3, EffectIsOneVersion DEF Snapshot
  <1>5. ev \in Event
    BY <1>1, <1>2, <1>4 DEF Event, Txn
  <1>6. PICK agenda \in Firings(e.field, e.value, 0) :
           txn' = [txn EXCEPT ![c] =
                     [@ EXCEPT !.row = e.row, !.res = [task |-> t, row |-> e.row],
                               !.pend = <<ev>>, !.agenda = agenda]]
    BY DEF WriteTask
  <1>7. agenda \in Seq(Firing)
    BY FiringsAreAgendas DEF BaseTypes
  <1> DEFINE x == [txn[c] EXCEPT !.row = e.row, !.res = [task |-> t, row |-> e.row],
                                 !.pend = <<ev>>, !.agenda = agenda]
  <1>8. txn' = [txn EXCEPT ![c] = x]
    BY <1>6
  <1> HIDE DEF e, ev
  <1>9. [task |-> t, row |-> e.row] \in Response
    BY <1>2, <1>4 DEF Response
  <1>10. x \in Txn /\ x.task = t /\ x.row = e.row
         /\ x.res = [task |-> t, row |-> e.row] /\ x.pend = <<ev>>
    <2>1. <<ev>> \in Seq(Event)
      BY <1>5
    <2> QED BY <2>1, <1>1, <1>3, <1>4, <1>7, <1>9 DEF Txn
  <1> HIDE DEF x
  <1>11. x.row.version = Count(log[t]) + Len(x.pend) /\ x.row.parent = Parent(t)
    <2>1. Len(<<ev>>) = 1
      OBVIOUS
    <2> QED BY <1>4, <1>10, <2>1
  <1>12. rowLock[t] = c /\ rowLock' = [rowLock EXCEPT ![t] = c]
    BY <1>1, <1>2 DEF Snapshot, WriteTask, BaseTypes
  <1>13. clock' \in Nat
    BY DEF WriteTask, BaseTypes
  <1>14. /\ pc[c] # "idle" /\ pc' = [pc EXCEPT ![c] = "automate"]
         /\ UNCHANGED <<tables, req, answer>>
    BY <1>1 DEF WriteTask
  <1>15. x.row \in Row /\ x.res \in Response
    BY <1>4, <1>9, <1>10
  <1> QED BY <1>2, <1>8, <1>10, <1>11, <1>12, <1>13, <1>14, <1>15, DraftingKeepsBaseInv

(***************************************************************************)
(* Automation                                                              *)
(***************************************************************************)

\* The rule about to fire: its action value is one the database accepts.
LEMMA NextRuleShape ==
  ASSUME NEW c \in Calls, txn[c] \in Txn, FiringRule(c)
  PROVE  /\ Head(txn[c].agenda) \in Firing /\ Tail(txn[c].agenda) \in Seq(Firing)
         /\ NextRule(c).arg \in Values
         /\ NextRule(c).action = "status" /\ ~BadRule(NextRule(c)) => NextRule(c).arg \in Status
         /\ NextRule(c).action = "assignee" /\ ~BadRule(NextRule(c)) =>
               NextRule(c).arg \in Assignee
  <1>1. txn[c].agenda \in Seq(Firing) /\ txn[c].agenda # <<>>
    BY DEF Txn, FiringRule
  <1>2. Head(txn[c].agenda) \in Firing /\ Tail(txn[c].agenda) \in Seq(Firing)
    BY <1>1, HeadTailProperties
  <1>3. NextRule(c) \in RuleShape
    BY <1>2, ConstantsAssumption DEF NextRule, Firing
  <1>4. NextRule(c).arg \in Status \cup Actors \cup {None}
    BY <1>3 DEF RuleShape
  <1> QED BY <1>2, <1>4, ConstantsAssumption DEF BadRule, Assignee, Values

LEMMA RuleWritesKeepsBaseInv ==
  ASSUME BaseInv, NEW c \in Calls, FiringRule(c),
         NEW kind \in Kinds, NEW from \in Values, NEW row \in Row,
         row.version = txn[c].row.version + 1, row.parent = txn[c].row.parent,
         RuleWrites(c, kind, from, row)
  PROVE  BaseInv'
  <1> USE DEF BaseInv
  <1> DEFINE t == txn[c].task
             ev == [kind |-> kind, op |-> External, at |-> clock',
                    from |-> from, to |-> NextRule(c).arg]
  <1>1. txn[c] \in Txn /\ BaseDraft(c) /\ t \in Tasks
    BY DEF FiringRule, BaseCall, BaseTypes, BaseDraft
  <1>2. clock' \in Nat
    BY DEF RuleWrites, BaseTypes
  <1>3. ev \in Event
    BY <1>2, <1>1, NextRuleShape DEF Event
  <1>4. Head(txn[c].agenda).depth + 1 \in Nat
    BY <1>1, NextRuleShape DEF Firing
  <1>5. PICK fired \in Firings(NextRule(c).action, NextRule(c).arg,
                               Head(txn[c].agenda).depth + 1) :
           txn' = [txn EXCEPT ![c] =
                     [txn[c] EXCEPT !.row = row, !.pend = Append(txn[c].pend, ev),
                                    !.agenda = fired \o Tail(txn[c].agenda)]]
    BY DEF RuleWrites
  <1>6. fired \in Seq(Firing)
    BY <1>4, FiringsAreAgendas DEF BaseTypes
  <1>7. fired \o Tail(txn[c].agenda) \in Seq(Firing)
    BY <1>6, <1>1, NextRuleShape, ConcatProperties
  <1>8. txn[c].pend \in Seq(Event)
    BY <1>1 DEF Txn
  <1>9. /\ Append(txn[c].pend, ev) \in Seq(Event)
        /\ Len(Append(txn[c].pend, ev)) = Len(txn[c].pend) + 1
    BY <1>3, <1>8, AppendProperties
  <1> DEFINE x == [txn[c] EXCEPT !.row = row, !.pend = Append(txn[c].pend, ev),
                                 !.agenda = fired \o Tail(txn[c].agenda)]
  <1> HIDE DEF ev
  <1>10. txn' = [txn EXCEPT ![c] = x]
    BY <1>5
  <1>11. /\ x \in Txn /\ x.task = t /\ x.row = row /\ x.res = txn[c].res
         /\ Len(x.pend) = Len(txn[c].pend) + 1
    <2> DEFINE p == Append(txn[c].pend, ev)
               a == fired \o Tail(txn[c].agenda)
    <2>1. p \in Seq(Event) /\ Len(p) = Len(txn[c].pend) + 1 /\ a \in Seq(Firing)
      BY <1>7, <1>9
    <2>2. x = [txn[c] EXCEPT !.row = row, !.pend = p, !.agenda = a]
      OBVIOUS
    <2> HIDE DEF x, p, a
    <2> QED BY <2>1, <2>2, <1>1 DEF Txn
  <1> HIDE DEF x
  <1>12. Count(log[t]) \in Nat /\ Len(txn[c].pend) \in Nat
    BY <1>1, <1>8, LenProperties, CountIsNat DEF BaseTypes
  <1>13. x.row.version = Count(log[t]) + Len(x.pend)
    <2> DEFINE l == Count(log[t])
               p == Len(txn[c].pend)
               p2 == Len(x.pend)
    <2>1. x.row.version = txn[c].row.version + 1
      BY <1>11
    <2>2. txn[c].row.version = l + p
      BY <1>1 DEF BaseDraft
    <2>3. l \in Nat /\ p \in Nat /\ p2 = p + 1
      BY <1>11, <1>12
    <2> HIDE DEF l, p, p2
    <2>4. x.row.version = l + p2
      BY <2>1, <2>2, <2>3
    <2> QED BY <2>4 DEF l, p2
  <1>14. rowLock[t] = c /\ rowLock' = [rowLock EXCEPT ![t] = c]
    BY <1>1 DEF BaseDraft, RuleWrites, BaseTypes
  <1>15. /\ pc[c] # "idle" /\ pc' = [pc EXCEPT ![c] = "automate"]
         /\ UNCHANGED <<tables, req, answer>>
    BY DEF FiringRule, RuleWrites, BaseTypes
  <1>16. x.row \in Row /\ x.res \in Response /\ x.row.parent = Parent(t)
    BY <1>1, <1>11 DEF BaseDraft
  <1> QED BY <1>1, <1>2, <1>10, <1>11, <1>13, <1>14, <1>15, <1>16, DraftingKeepsBaseInv

LEMMA BumpedRow ==
  ASSUME NEW row \in Row
  PROVE  /\ \A s \in Status : [Bumped(row) EXCEPT !.status = s] \in Row
                              /\ [Bumped(row) EXCEPT !.status = s].version = row.version + 1
                              /\ [Bumped(row) EXCEPT !.status = s].parent = row.parent
         /\ \A w \in Assignee : [Bumped(row) EXCEPT !.assignee = w] \in Row
                                /\ [Bumped(row) EXCEPT !.assignee = w].version = row.version + 1
                                /\ [Bumped(row) EXCEPT !.assignee = w].parent = row.parent
  <1>1. Bumped(row) \in Row /\ Bumped(row).version = row.version + 1 /\ Bumped(row).parent = row.parent
    BY DEF Row, Bumped
  <1>2. ASSUME NEW s \in Status
        PROVE  [Bumped(row) EXCEPT !.status = s] \in Row
               /\ [Bumped(row) EXCEPT !.status = s].version = row.version + 1
               /\ [Bumped(row) EXCEPT !.status = s].parent = row.parent
    BY <1>1 DEF Row
  <1>3. ASSUME NEW w \in Assignee
        PROVE  [Bumped(row) EXCEPT !.assignee = w] \in Row
               /\ [Bumped(row) EXCEPT !.assignee = w].version = row.version + 1
               /\ [Bumped(row) EXCEPT !.assignee = w].parent = row.parent
    BY <1>1 DEF Row
  <1> QED BY <1>2, <1>3

LEMMA FireStatusRuleKeepsBaseInv ==
  ASSUME BaseInv, NEW c \in Calls, FireStatusRule(c)
  PROVE  BaseInv'
  <1>1. FiringRule(c) /\ NextRule(c).arg \in Status
    BY NextRuleShape DEF FireStatusRule, BaseInv, BaseTypes
  <1>2. txn[c].row \in Row
    BY <1>1 DEF BaseInv, BaseCall, FiringRule, BaseDraft
  <1>3. txn[c].row.status \in Values /\ "status_changed" \in Kinds
    BY <1>2 DEF Row, Values, Kinds
  <1> DEFINE row == [Bumped(txn[c].row) EXCEPT !.status = NextRule(c).arg]
  <1>4. row \in Row /\ row.version = txn[c].row.version + 1 /\ row.parent = txn[c].row.parent
    BY <1>1, <1>2, BumpedRow
  <1>5. RuleWrites(c, "status_changed", txn[c].row.status, row)
    BY DEF FireStatusRule
  <1> HIDE DEF row
  <1> QED BY <1>1, <1>3, <1>4, <1>5, RuleWritesKeepsBaseInv

LEMMA FireAssigneeRuleKeepsBaseInv ==
  ASSUME BaseInv, NEW c \in Calls, FireAssigneeRule(c)
  PROVE  BaseInv'
  <1>1. FiringRule(c) /\ NextRule(c).arg \in Assignee
    BY NextRuleShape DEF FireAssigneeRule, BaseInv, BaseTypes
  <1>2. txn[c].row \in Row
    BY <1>1 DEF BaseInv, BaseCall, FiringRule, BaseDraft
  <1>3. txn[c].row.assignee \in Values /\ "assigned" \in Kinds
    BY <1>2 DEF Row, Values, Kinds, Assignee
  <1> DEFINE row == [Bumped(txn[c].row) EXCEPT !.assignee = NextRule(c).arg]
  <1>4. row \in Row /\ row.version = txn[c].row.version + 1 /\ row.parent = txn[c].row.parent
    BY <1>1, <1>2, BumpedRow
  <1>5. RuleWrites(c, "assigned", txn[c].row.assignee, row)
    BY DEF FireAssigneeRule
  <1> HIDE DEF row
  <1> QED BY <1>1, <1>3, <1>4, <1>5, RuleWritesKeepsBaseInv

(***************************************************************************)
(* The commit: what was drafted becomes the task's row and log             *)
(***************************************************************************)

LEMMA CommitKeepsBaseInv ==
  ASSUME BaseInv, NEW c \in Calls, Commit(c)
  PROVE  BaseInv'
  <1> USE DEF BaseInv
  <1> DEFINE t == txn[c].task
             new == log[t] \o txn[c].pend
  <1>1. req[c] \in Request /\ req[c].op \in Ops /\ txn[c] \in Txn /\ BaseDraft(c) /\ t \in Tasks
    BY RequestShape DEF Commit, BaseCall, BaseTypes, BaseDraft
  <1>2. new \in Seq(Event \cup Note) /\ Count(new) = txn[c].row.version
    BY <1>1, CountConcat DEF BaseTypes, Txn, BaseDraft
  <1>3. rows' = [rows EXCEPT ![t] = txn[c].row] /\ log' = [log EXCEPT ![t] = new]
    BY DEF Commit
  <1> HIDE DEF new
  <1>4. [req |-> req[c], res |-> txn[c].res, expired |-> FALSE] \in Receipt
    BY <1>1 DEF Receipt, BaseDraft
  <1>5. ops' \in [Ops -> Receipt \cup {NoReceipt}]
    BY <1>1, <1>4 DEF Commit, BaseTypes
  <1>6. rows' \in [Tasks -> Row \cup {NoRow}] /\ log' \in [Tasks -> Seq(Event \cup Note)]
    BY <1>1, <1>2, <1>3 DEF BaseTypes, BaseDraft
  <1>7. /\ pc' = [pc EXCEPT ![c] = "answered"] /\ txn' = [txn EXCEPT ![c] = NoTxn]
        /\ answer' = [answer EXCEPT ![c] = [outcome |-> "ok", res |-> txn[c].res]]
        /\ rowLock' = Released({c}) /\ UNCHANGED <<deps, rules, clock, req>>
    BY DEF Commit, Answer
  <1>8. BaseTypes'
    <2>1. NoTxn \in Txn
      BY NoTxnIsTxn DEF NoTxn
    <2>2. [outcome |-> "ok", res |-> txn[c].res]
             \in [outcome : Outcomes, res : Response \cup {NoResponse}]
      BY <1>1 DEF Outcomes, BaseDraft
    <2> QED BY <2>1, <2>2, <1>5, <1>6, <1>7 DEF BaseTypes, Released
  <1>9. VersionsCount'
    <2>1. ASSUME NEW u \in Tasks
          PROVE  IF Exists(u)' THEN rows'[u].version = Count(log'[u]) ELSE log'[u] = <<>>
      <3>1. CASE u = t
        <4>1. rows'[u] = txn[c].row /\ log'[u] = new
          BY <1>3, <3>1 DEF BaseTypes
        <4>2. Exists(u)'
          BY <1>1, <4>1, RowIsNotNoRow DEF Exists, BaseDraft
        <4> QED BY <1>2, <4>1, <4>2
      <3>2. CASE u # t
        <4>1. rows'[u] = rows[u] /\ log'[u] = log[u]
          BY <1>3, <3>2 DEF BaseTypes
        <4> QED BY <4>1 DEF VersionsCount, Exists
      <3> QED BY <3>1, <3>2
    <2> QED BY <2>1 DEF VersionsCount
  <1>10. BaseCall(c)'
    <2>1. pc'[c] = "answered" /\ req'[c] = req[c]
      BY <1>7 DEF BaseTypes
    <2> QED BY <2>1, <1>1 DEF BaseCall
  <1>11. ASSUME NEW d \in Calls \ {c}
         PROVE  /\ pc'[d] = pc[d] /\ req'[d] = req[d] /\ txn'[d] = txn[d]
                /\ \A u \in Tasks : rowLock[u] = d =>
                      rowLock'[u] = d /\ rows'[u] = rows[u] /\ log'[u] = log[u]
    <2>1. pc'[d] = pc[d] /\ req'[d] = req[d] /\ txn'[d] = txn[d]
      BY <1>7 DEF BaseTypes
    <2>2. ASSUME NEW u \in Tasks, rowLock[u] = d
          PROVE  rowLock'[u] = d /\ rows'[u] = rows[u] /\ log'[u] = log[u]
      <3>1. u # t
        BY <2>2, <1>1 DEF BaseDraft
      <3> QED BY <3>1, <2>2, <1>3, <1>7, ReleasedKeepsOthers DEF BaseTypes
    <2> QED BY <2>1, <2>2
  <1> QED BY <1>8, <1>9, <1>10, <1>11, StepOfOneCall

(***************************************************************************)
(* The environment                                                         *)
(***************************************************************************)

\* After a crash no call is in a transaction, so none has anything to say of one.
LEMMA CrashKeepsBaseInv ==
  ASSUME BaseInv, Interrupted
  PROVE  BaseInv'
  <1> USE DEF BaseInv
  <1>1. BaseTypes'
    <2>1. NoTxn \in Txn
      BY NoTxnIsTxn DEF NoTxn
    <2>2. [outcome |-> "lost", res |-> NoResponse]
             \in [outcome : Outcomes, res : Response \cup {NoResponse}]
      BY DEF Outcomes
    <2> QED BY <2>1, <2>2 DEF BaseTypes, Interrupted, tables
  <1>2. VersionsCount'
    BY TablesKeepVersions DEF Interrupted, tables
  <1>3. ASSUME NEW c \in Calls PROVE BaseCall(c)'
    <2>1. pc'[c] \in {"idle", "answered"} /\ req'[c] = req[c]
          /\ (pc'[c] = "answered" => pc[c] # "idle")
      BY DEF Interrupted, InFlight
    <2>2. pc[c] # "idle" => req[c] \in Request
      BY DEF BaseCall
    <2> QED BY <2>1, <2>2 DEF BaseCall
  <1> QED BY <1>1, <1>2, <1>3

\* A step of the cron job or of somebody who configures rules touches neither
\* tasks, nor events, nor any call.
LEMMA SideStepKeepsBaseInv ==
  ASSUME BaseInv,
         ops' \in [Ops -> Receipt \cup {NoReceipt}], rules' \subseteq Rules,
         UNCHANGED <<rows, log, deps, rowLock, clock, pc, req, txn, answer>>
  PROVE  BaseInv'
  <1> USE DEF BaseInv
  <1>1. BaseTypes'
    BY DEF BaseTypes
  <1>2. VersionsCount'
    BY TablesKeepVersions
  <1>3. ASSUME NEW c \in Calls PROVE BaseCall(c)'
    BY OtherCallsKeepBaseCall
  <1> QED BY <1>1, <1>2, <1>3

LEMMA ExpireKeepsBaseInv ==
  ASSUME BaseInv, NEW o \in Ops, Expire(o)
  PROVE  BaseInv'
  <1>1. ops[o] \in Receipt
    BY DEF Expire, Recorded, BaseInv, BaseTypes
  <1>2. [ops[o] EXCEPT !.expired = TRUE] \in Receipt
    BY <1>1 DEF Receipt
  <1>3. ops' = [ops EXCEPT ![o] = [ops[o] EXCEPT !.expired = TRUE]]
    BY DEF Expire
  <1>4. ops' \in [Ops -> Receipt \cup {NoReceipt}] /\ rules' \subseteq Rules
    BY <1>2, <1>3 DEF BaseInv, BaseTypes, Expire
  <1> QED BY <1>4, SideStepKeepsBaseInv DEF Expire

LEMMA PurgeKeepsBaseInv ==
  ASSUME BaseInv, Purge
  PROVE  BaseInv'
  <1>1. ops' \in [Ops -> Receipt \cup {NoReceipt}] /\ rules' \subseteq Rules
    BY DEF BaseInv, BaseTypes, Purge
  <1> QED BY <1>1, SideStepKeepsBaseInv DEF Purge

LEMMA RuleConfigurationKeepsBaseInv ==
  ASSUME BaseInv, NEW r \in Rules, CreateAutomationRule(r) \/ DeleteAutomationRule(r)
  PROVE  BaseInv'
  <1>1. ops' \in [Ops -> Receipt \cup {NoReceipt}] /\ rules' \subseteq Rules
    BY DEF BaseInv, BaseTypes, CreateAutomationRule, DeleteAutomationRule
  <1> QED BY <1>1, SideStepKeepsBaseInv DEF CreateAutomationRule, DeleteAutomationRule

(***************************************************************************)
(* Every step                                                              *)
(***************************************************************************)

\* What a handler can refuse with is an error.
LEMMA ObjectionsAreErrors ==
  ASSUME NEW q, NEW row
  PROVE  /\ RowObjection(q, row) # "none" => RowObjection(q, row) \in Errors
         /\ WriteObjection(q, row) # "none" => WriteObjection(q, row) \in Errors
         /\ {"notFound", "dependencyNotResolved", "childrenNotDone",
             "operationExists", "ruleFailed"} \subseteq Errors
  BY DEF RowObjection, WriteObjection, Errors

LEMMA HandleKeepsBaseInv ==
  ASSUME BaseInv, NEW c \in Calls, Handle(c)
  PROVE  BaseInv'
  <1>1. CASE CheckHit(c) \/ RecheckHit(c)
    BY <1>1, ReceiptStepKeepsBaseInv DEF CheckHit, RecheckHit
  <1>2. CASE CheckMiss(c)
    BY <1>2, CheckMissKeepsBaseInv
  <1>3. CASE LockMissing(c)
    BY <1>3, AbortKeepsBaseInv, ObjectionsAreErrors DEF LockMissing
  <1>4. CASE LockRefused(c)
    BY <1>4, AbortKeepsBaseInv, ObjectionsAreErrors DEF LockRefused
  <1>5. CASE LockTask(c)
    BY <1>5, LockTaskKeepsBaseInv
  <1>6. CASE CheckDependencies(c)
    <2>1. CASE Abort(c, "dependencyNotResolved")
      BY <1>6, <2>1, AbortKeepsBaseInv, ObjectionsAreErrors DEF CheckDependencies
    <2>2. CASE ~Abort(c, "dependencyNotResolved")
      <3> DEFINE p == IF TargetStatus(req[c]) = "done" THEN "children" ELSE "write"
      <3>1. p \in {"children", "write"}
        OBVIOUS
      <3>2. /\ pc[c] \in {"deps", "children"} /\ pc' = [pc EXCEPT ![c] = p]
            /\ UNCHANGED <<tables, rowLock, clock, req, txn, answer>>
        BY <1>6, <2>2 DEF CheckDependencies
      <3> HIDE DEF p
      <3> QED BY <3>1, <3>2, PassedCheckKeepsBaseInv
    <2> QED BY <2>1, <2>2
  <1>7. CASE CheckChildren(c)
    <2>1. CASE Abort(c, "childrenNotDone")
      BY <1>7, <2>1, AbortKeepsBaseInv, ObjectionsAreErrors DEF CheckChildren
    <2>2. CASE ~Abort(c, "childrenNotDone")
      BY <1>7, <2>2, PassedCheckKeepsBaseInv DEF CheckChildren
    <2> QED BY <2>1, <2>2
  <1>8. CASE RefuseWrite(c)
    BY <1>8, AbortKeepsBaseInv, ObjectionsAreErrors DEF RefuseWrite
  <1>9. CASE \E t \in Tasks : CreateTask(c, t)
    BY <1>9, CreateTaskKeepsBaseInv
  <1>10. CASE WriteTask(c)
    BY <1>10, WriteTaskKeepsBaseInv
  <1>11. CASE FireStatusRule(c)
    BY <1>11, FireStatusRuleKeepsBaseInv
  <1>12. CASE FireAssigneeRule(c)
    BY <1>12, FireAssigneeRuleKeepsBaseInv
  <1>13. CASE RuleFails(c)
    BY <1>13, AbortKeepsBaseInv, ObjectionsAreErrors DEF RuleFails, FiringRule
  <1>14. CASE Commit(c)
    BY <1>14, CommitKeepsBaseInv
  <1>15. CASE RecheckMiss(c)
    BY <1>15, RecheckMissKeepsBaseInv
  <1> QED BY <1>1, <1>2, <1>3, <1>4, <1>5, <1>6, <1>7, <1>8, <1>9, <1>10,
             <1>11, <1>12, <1>13, <1>14, <1>15, Handle(c) DEF Handle

LEMMA NextKeepsBaseInv ==
  ASSUME BaseInv, [Next]_vars
  PROVE  BaseInv'
  <1>1. CASE \E c \in Calls, o \in Ops, b \in Bodies :
               \E v \in KnownVersions(b.task) : Submit(c, o, b, v)
    BY <1>1, SubmitKeepsBaseInv
  <1>2. CASE \E c \in Calls : Handle(c)
    BY <1>2, HandleKeepsBaseInv
  <1>3. CASE Crash
    BY <1>3, CrashKeepsBaseInv DEF Crash
  <1>4. CASE \E o \in Ops : Expire(o)
    BY <1>4, ExpireKeepsBaseInv
  <1>5. CASE Purge
    BY <1>5, PurgeKeepsBaseInv
  <1>6. CASE \E r \in Rules : CreateAutomationRule(r) \/ DeleteAutomationRule(r)
    BY <1>6, RuleConfigurationKeepsBaseInv
  <1>7. CASE UNCHANGED vars
    BY <1>7, SideStepKeepsBaseInv DEF vars, BaseInv, BaseTypes
  <1> QED BY <1>1, <1>2, <1>3, <1>4, <1>5, <1>6, <1>7 DEF Next

(***************************************************************************)
(* While only the task verbs write                                         *)
(***************************************************************************)
Alone == log \in [Tasks -> Seq(Event)] /\ rowLock \in [Tasks -> Calls \cup {None}]

LEMMA AloneOrBeside == IInv <=> BaseInv /\ Alone
  <1>1. ASSUME log \in [Tasks -> Seq(Event)] PROVE \A t \in Tasks : Count(log[t]) = Len(log[t])
    BY <1>1, CountOfEvents
  <1>2. ASSUME IInv PROVE BaseInv /\ Alone
    <2>1. Alone
      BY <1>2 DEF IInv, TypeOK, Alone
    <2>2. BaseTypes
      <3>1. \A t \in Tasks : log[t] \in Seq(Event \cup Note)
        BY <2>1 DEF Alone
      <3>2. log \in [Tasks -> Seq(Event \cup Note)]
        BY <2>1, <3>1 DEF Alone
      <3> QED BY <1>2, <3>2 DEF IInv, TypeOK, BaseTypes
    <2>3. VersionsCount
      BY <1>1, <1>2, <2>1 DEF IInv, VersionCountsEvents, VersionsCount, Alone
    <2> QED BY <1>2, <2>1, <2>2, <2>3 DEF IInv, CallInv, BaseInv
  <1>3. ASSUME BaseInv, Alone PROVE IInv
    <2>1. TypeOK
      BY <1>3 DEF BaseInv, BaseTypes, Alone, TypeOK
    <2>2. VersionCountsEvents
      BY <1>1, <1>3 DEF BaseInv, VersionsCount, VersionCountsEvents, Alone
    <2>3. ASSUME NEW c \in Calls PROVE CallInv(c)
      <3>1. BaseCall(c)
        BY <1>3 DEF BaseInv
      <3>2. BaseDraft(c) => Draft(c)
        BY <1>1, <1>3 DEF BaseDraft, Draft, Alone
      <3> QED BY <3>1, <3>2 DEF CallInv, BaseCall
    <2> QED BY <2>1, <2>2, <2>3 DEF IInv
  <1> QED BY <1>2, <1>3

LEMMA NextKeepsIInv ==
  ASSUME IInv, [Next]_vars
  PROVE  IInv'
  <1>1. BaseInv /\ Alone /\ BaseInv'
    BY AloneOrBeside, NextKeepsBaseInv
  <1>2. ASSUME NEW c \in Calls, Commit(c) PROVE log' \in [Tasks -> Seq(Event)]
    <2>1. txn[c].pend \in Seq(Event) /\ txn[c].task \in Tasks
      BY <1>1, <1>2 DEF Commit, BaseInv, BaseTypes, BaseCall, BaseDraft, Txn
    <2>2. log[txn[c].task] \o txn[c].pend \in Seq(Event)
      BY <1>1, <2>1 DEF Alone
    <2> QED BY <1>1, <1>2, <2>1, <2>2 DEF Commit, Alone
  <1>3. log' \in [Tasks -> Seq(Event)]
    <2>1. (\E c \in Calls : Commit(c)) \/ log' = log
      BY DEF Next, Submit, Handle, CheckHit, CheckMiss, RecheckHit, RecheckMiss, AnswerFromReceipt,
             LockMissing, LockRefused, LockTask, CheckDependencies, CheckChildren, RefuseWrite,
             CreateTask, WriteTask, FireStatusRule, FireAssigneeRule, RuleFails, RuleWrites, Abort,
             Crash, Interrupted, Expire, Purge, CreateAutomationRule, DeleteAutomationRule,
             tables, vars
    <2> QED BY <1>1, <1>2, <2>1 DEF Alone
  <1>4. rowLock' \in [Tasks -> Calls \cup {None}]
    <2>1. \/ \E c \in Calls, t \in Tasks : rowLock' = [rowLock EXCEPT ![t] = c]
          \/ \E c \in Calls : rowLock' = Released({c})
          \/ rowLock' = [t \in Tasks |-> None]
          \/ \E c \in Calls : LockTask(c)
          \/ rowLock' = rowLock
      BY DEF Next, Submit, Handle, CheckHit, CheckMiss, RecheckHit, RecheckMiss, AnswerFromReceipt,
             LockMissing, LockRefused, CheckDependencies, CheckChildren, RefuseWrite,
             CreateTask, WriteTask, FireStatusRule, FireAssigneeRule, RuleFails, RuleWrites, Abort,
             Commit, Crash, Interrupted, Expire, Purge, CreateAutomationRule, DeleteAutomationRule,
             vars
    <2>2. ASSUME NEW c \in Calls, LockTask(c) PROVE rowLock' = [rowLock EXCEPT ![req[c].task] = c]
      BY <2>2 DEF LockTask
    <2> QED BY <1>1, <2>1, <2>2 DEF Alone, Released
  <1>5. Alone'
    BY <1>3, <1>4 DEF Alone
  <1>6. BaseInv' /\ Alone' => IInv'
    BY AloneOrBeside, PTL
  <1> QED BY <1>1, <1>5, <1>6

(***************************************************************************)
(* Theorems                                                                *)
(***************************************************************************)

\* The strengthened invariant holds in every reachable state.
THEOREM AlwaysIInv == Spec => []IInv
  <1>1. Init => IInv
    BY InitEstablishesIInv
  <1>2. IInv /\ [Next]_vars => IInv'
    BY NextKeepsIInv
  <1> QED BY <1>1, <1>2, PTL DEF Spec

\* The tables, the handlers and the answers of tasks.ts always have their types:
\* in particular no rule and no verb puts a status, a column or an assignee in a
\* row that the schema does not know.
THEOREM TypeCorrect == Spec => []TypeOK
  <1>1. IInv => TypeOK
    BY DEF IInv
  <1> QED BY <1>1, AlwaysIInv, PTL

\* tasks.version is the number of events of the task, whichever verbs, rules,
\* retries and crashes interleave: no update is lost and none is unlogged.
THEOREM VersionsCountEvents == Spec => []VersionCountsEvents
  <1>1. IInv => VersionCountsEvents
    BY DEF IInv
  <1> QED BY <1>1, AlwaysIInv, PTL

(***************************************************************************)
(* The inductive invariant about histories, beside IInv.  What a           *)
(* history has to be is said of the committed log and of the log that a    *)
(* transaction is about to commit alike.                                   *)
(***************************************************************************)

\* l replays to the status s; its last event of a status has it.
Replays(l, s) ==
    \E i \in StatusEvents(l) : (\A j \in StatusEvents(l) : j <= i) /\ StatusGiven(l[i]) = s
FromReplay(l) ==
    \A i \in DOMAIN l : l[i].kind = "status_changed" => l[i].from = StatusOf(SubSeq(l, 1, i - 1))
InTime(l) == \A i, j \in DOMAIN l : i < j => l[i].at < l[j].at
Until(l, time) == \A i \in DOMAIN l : l[i].at <= time

SoundHistory(l, s) == Replays(l, s) /\ FromReplay(l) /\ InTime(l) /\ Until(l, clock)

TaskIsSound(t) == Exists(t) => SoundHistory(log[t], rows[t].status)

\* TrueOf with the log of the task named: a response is true of l.
TrueIn(q, res, l) ==
    LET i == res.row.version
    IN  /\ i = q.ifMatch + 1
        /\ i \in DOMAIN l
        /\ l[i].op = q.op
        /\ l[i].kind = KindOf(q.verb)
        /\ IF q.verb = "create" THEN res.row.assignee = q.to
           ELSE res.task = q.task /\ l[i].to = q.to
        /\ res.row.status = StatusOf(SubSeq(l, 1, i))

\* The version that a request names was there when it arrived, and so before the
\* handler took its time; so was the first event of a task not committed yet.
Waiting == {"lock", "deps", "children", "write"}
NamesAReachedVersion(c) ==
    IF req[c].verb = "create" THEN req[c].ifMatch = 0
    ELSE IF Exists(req[c].task) THEN req[c].ifMatch <= rows[req[c].task].version
    ELSE req[c].ifMatch <= 1
CameAfterTheVersion(c) ==
    /\ \A i \in DOMAIN log[req[c].task] : i <= req[c].ifMatch => log[req[c].task][i].at < txn[c].now
    /\ \A d \in Calls :
          pc[d] = "automate" /\ txn[d].task = req[c].task /\ ~Exists(req[c].task) =>
             txn[d].pend[1].at < txn[c].now
KnewTheVersion(c) ==
    /\ (pc[c] # "idle" => NamesAReachedVersion(c))
    /\ (pc[c] \in Waiting => txn[c].now <= clock)
    /\ (pc[c] \in Waiting /\ req[c].verb # "create" => CameAfterTheVersion(c))
    /\ (pc[c] \in Waiting \ {"lock"} /\ req[c].verb # "create" =>
           rows[req[c].task].version = req[c].ifMatch)

\* What the log of its task will be, and what the client will be told of it.
Whole(c) == log[txn[c].task] \o txn[c].pend
DraftIsSound(c) ==
    pc[c] = "automate" =>
        /\ Len(log[txn[c].task]) = req[c].ifMatch
        /\ txn[c].pend # <<>> /\ txn[c].pend[1].op = req[c].op
        /\ \A k \in DOMAIN txn[c].pend : k > 1 => txn[c].pend[k].op = External
        /\ SoundHistory(Whole(c), txn[c].row.status)
        /\ txn[c].res.task = txn[c].task /\ TrueIn(req[c], txn[c].res, Whole(c))
        /\ ~Recorded(req[c].op)
        /\ \A d \in Calls \ {c} : pc[d] = "automate" => req[d].op # req[c].op

\* Receipts and answers are true, and there is one for each place in the log.
Told == {ops[o].res : o \in {p \in Ops : Recorded(p)}}
            \cup {answer[c].res : c \in {d \in Calls : answer[d].outcome = "ok"}}
ReceiptIsTrue(o) ==
    Recorded(o) => ops[o].req.op = o /\ TrueOf(ops[o].req, ops[o].res)
AnswerIsTrue(c) ==
    answer[c].outcome = "ok" =>
        pc[c] = "answered" /\ answer[c].res \in Response /\ TrueOf(req[c], answer[c].res)
OneResponsePerPlace == \A x, y \in Told : Place(x) = Place(y) => x = y

\* Every event of a client was asked for by a call, at the place it was asked for.
Author(d, t, i) ==
    /\ pc[d] # "idle" /\ req[d].op = log[t][i].op
    /\ req[d].verb # "create" => req[d].task = t /\ i = req[d].ifMatch + 1
EventsHaveAuthors ==
    \A t \in Tasks : \A i \in DOMAIN log[t] :
        log[t][i].op # External => \E d \in Calls : Author(d, t, i)

HInv ==
    /\ \A t \in Tasks : TaskIsSound(t)
    /\ \A c \in Calls : KnewTheVersion(c) /\ DraftIsSound(c) /\ AnswerIsTrue(c)
    /\ \A o \in Ops : ReceiptIsTrue(o)
    /\ OneResponsePerPlace /\ EventsHaveAuthors


(***************************************************************************)
(* Facts about histories                                                   *)
(***************************************************************************)

LEMMA EventShape ==
  ASSUME NEW l \in Seq(Event), NEW i \in DOMAIN l
  PROVE  l[i] \in Event /\ l[i].at \in Nat /\ i \in 1 .. Len(l)
  <1>1. l[i] \in Event /\ i \in 1 .. Len(l)
    BY LenProperties
  <1> QED BY <1>1 DEF Event

\* There is one last event of a status, so replaying yields one.
LEMMA ReplayIsStatusOf ==
  ASSUME NEW l \in Seq(Event), NEW s, Replays(l, s)
  PROVE  StatusOf(l) = s
  <1> DEFINE Last(i) == i \in StatusEvents(l) /\ \A j \in StatusEvents(l) : j <= i
             m == CHOOSE i \in StatusEvents(l) : \A j \in StatusEvents(l) : j <= i
  <1>1. PICK i \in StatusEvents(l) : (\A j \in StatusEvents(l) : j <= i) /\ StatusGiven(l[i]) = s
    BY DEF Replays
  <1>2. m \in StatusEvents(l) /\ \A j \in StatusEvents(l) : j <= m
    BY <1>1
  <1>3. m <= i /\ i <= m
    BY <1>1, <1>2
  <1>4. i \in Nat /\ m \in Nat
    BY <1>1, <1>2, LenProperties DEF StatusEvents
  <1> HIDE DEF m
  <1>5. m = i
    BY <1>3, <1>4
  <1> QED BY <1>1, <1>5 DEF StatusOf, m

\* What an event that is appended leaves as it was.
LEMMA AppendKeeps ==
  ASSUME NEW l \in Seq(Event), NEW e \in Event
  PROVE  /\ Append(l, e) \in Seq(Event)
         /\ Len(Append(l, e)) = Len(l) + 1
         /\ DOMAIN Append(l, e) = 1 .. Len(l) + 1
         /\ DOMAIN l = 1 .. Len(l) /\ Len(l) \in Nat
         /\ \A i \in DOMAIN l : Append(l, e)[i] = l[i]
         /\ Append(l, e)[Len(l) + 1] = e
         /\ \A i \in 0 .. Len(l) : SubSeq(Append(l, e), 1, i) = SubSeq(l, 1, i)
         /\ SubSeq(l, 1, Len(l)) = l
         /\ SubSeq(Append(l, e), 1, Len(l)) = l
  <1>1. /\ Append(l, e) \in Seq(Event)
        /\ Len(Append(l, e)) = Len(l) + 1
        /\ DOMAIN Append(l, e) = 1 .. Len(l) + 1
        /\ DOMAIN l = 1 .. Len(l) /\ Len(l) \in Nat
        /\ \A i \in DOMAIN l : Append(l, e)[i] = l[i]
        /\ Append(l, e)[Len(l) + 1] = e
    BY AppendProperties, LenProperties
  <1>2. ASSUME NEW i \in 0 .. Len(l) PROVE SubSeq(Append(l, e), 1, i) = SubSeq(l, 1, i)
    BY <1>1
  <1>3. SubSeq(l, 1, Len(l)) = l
    BY <1>1
  <1> QED BY <1>1, <1>2, <1>3

\* The same of a tail of events, at a place before it.
LEMMA ConcatKeeps ==
  ASSUME NEW l \in Seq(Event), NEW p \in Seq(Event)
  PROVE  /\ l \o p \in Seq(Event)
         /\ Len(l \o p) = Len(l) + Len(p)
         /\ DOMAIN (l \o p) = 1 .. Len(l) + Len(p)
         /\ \A i \in DOMAIN l : i \in DOMAIN (l \o p) /\ (l \o p)[i] = l[i]
         /\ \A i \in DOMAIN l : SubSeq(l \o p, 1, i) = SubSeq(l, 1, i)
         /\ \A i \in DOMAIN p : (l \o p)[Len(l) + i] = p[i]
  <1>1. /\ l \o p \in Seq(Event)
        /\ Len(l \o p) = Len(l) + Len(p)
        /\ DOMAIN (l \o p) = 1 .. Len(l) + Len(p)
        /\ DOMAIN l = 1 .. Len(l) /\ Len(l) \in Nat /\ DOMAIN p = 1 .. Len(p) /\ Len(p) \in Nat
    BY ConcatProperties, LenProperties
  <1>2. \A i \in DOMAIN l : i \in DOMAIN (l \o p) /\ (l \o p)[i] = l[i]
    BY <1>1
  <1>3. ASSUME NEW i \in DOMAIN l PROVE SubSeq(l \o p, 1, i) = SubSeq(l, 1, i)
    BY <1>1, <1>2
  <1>4. \A i \in DOMAIN p : (l \o p)[Len(l) + i] = p[i]
    BY <1>1
  <1> QED BY <1>1, <1>2, <1>3, <1>4

\* Committing one event after the other is committing their sequence.
LEMMA ConcatAppend ==
  ASSUME NEW l \in Seq(Event), NEW p \in Seq(Event), NEW e \in Event
  PROVE  /\ l \o <<e>> = Append(l, e)
         /\ l \o Append(p, e) = Append(l \o p, e)
  <1>1. l \o <<e>> = Append(l, e)
    OBVIOUS
  <1>2. l \o Append(p, e) = Append(l \o p, e)
    OBVIOUS
  <1> QED BY <1>1, <1>2

\* An event that comes later than a history, and that starts from its status if it
\* changes it, continues the history.
LEMMA AppendIsSound ==
  ASSUME NEW l \in Seq(Event), NEW e \in Event, NEW s, NEW s2,
         Replays(l, s), FromReplay(l), InTime(l),
         \A i \in DOMAIN l : l[i].at < e.at,
         e.kind = "status_changed" => e.from = s,
         s2 = IF e.kind \in StatusKinds THEN StatusGiven(e) ELSE s
  PROVE  /\ Replays(Append(l, e), s2)
         /\ FromReplay(Append(l, e))
         /\ InTime(Append(l, e))
         /\ Until(Append(l, e), e.at)
  <1> DEFINE n == Append(l, e)
             k == Len(l) + 1
  <1>1. /\ n \in Seq(Event) /\ DOMAIN n = 1 .. k /\ DOMAIN l = 1 .. Len(l) /\ Len(l) \in Nat
        /\ n[k] = e /\ (\A i \in DOMAIN l : n[i] = l[i])
        /\ (\A i \in 0 .. Len(l) : SubSeq(n, 1, i) = SubSeq(l, 1, i))
        /\ SubSeq(n, 1, Len(l)) = l
    BY AppendKeeps
  <1>2. \A i \in DOMAIN n : i \in DOMAIN l \/ i = k
    BY <1>1
  <1>3. \A i \in DOMAIN l : i \in DOMAIN n /\ i < k /\ i - 1 \in 0 .. Len(l)
    BY <1>1
  <1>4. k \in DOMAIN n /\ k \in Nat /\ k - 1 = Len(l) /\ k \notin DOMAIN l
    BY <1>1
  <1> HIDE DEF n, k
  <1>5. Replays(n, s2)
    <2>1. CASE e.kind \in StatusKinds
      <3>1. k \in StatusEvents(n)
        BY <1>1, <1>4, <2>1 DEF StatusEvents
      <3>2. \A j \in StatusEvents(n) : j <= k
        BY <1>2, <1>3, <1>4, <1>1 DEF StatusEvents
      <3> QED BY <3>1, <3>2, <2>1, <1>1 DEF Replays
    <2>2. CASE e.kind \notin StatusKinds
      <3>1. StatusEvents(n) = StatusEvents(l)
        BY <1>1, <1>2, <1>3, <2>2 DEF StatusEvents
      <3>2. \A i \in StatusEvents(l) : n[i] = l[i]
        BY <1>1 DEF StatusEvents
      <3> QED BY <3>1, <3>2, <2>2 DEF Replays
    <2> QED BY <2>1, <2>2
  <1>6. FromReplay(n)
    <2> SUFFICES ASSUME NEW i \in DOMAIN n, n[i].kind = "status_changed"
                 PROVE  n[i].from = StatusOf(SubSeq(n, 1, i - 1))
      BY DEF FromReplay
    <2>1. CASE i \in DOMAIN l
      <3>1. n[i] = l[i] /\ SubSeq(n, 1, i - 1) = SubSeq(l, 1, i - 1)
        BY <2>1, <1>1, <1>3
      <3> QED BY <3>1, <2>1 DEF FromReplay
    <2>2. CASE i = k
      <3>1. n[i] = e /\ SubSeq(n, 1, i - 1) = l
        BY <2>2, <1>1, <1>4
      <3> QED BY <3>1, ReplayIsStatusOf
    <2> QED BY <2>1, <2>2, <1>2
  <1>7. InTime(n)
    <2> SUFFICES ASSUME NEW i \in DOMAIN n, NEW j \in DOMAIN n, i < j
                 PROVE  n[i].at < n[j].at
      BY DEF InTime
    <2>1. i \in DOMAIN l
      BY <1>1, <1>2, <1>3, <1>4
    <2>2. CASE j \in DOMAIN l
      BY <2>1, <2>2, <1>1 DEF InTime
    <2>3. CASE j = k
      BY <2>1, <2>3, <1>1
    <2> QED BY <2>2, <2>3, <1>2
  <1>8. Until(n, e.at)
    <2> SUFFICES ASSUME NEW i \in DOMAIN n PROVE n[i].at <= e.at
      BY DEF Until
    <2>1. e.at \in Nat
      BY DEF Event
    <2>2. CASE i \in DOMAIN l
      <3>1. n[i] = l[i] /\ l[i].at < e.at /\ l[i] \in Event
        BY <2>2, <1>1
      <3>2. l[i].at \in Nat
        BY <3>1 DEF Event
      <3> QED BY <2>1, <3>1, <3>2
    <2>3. CASE i = k
      BY <2>1, <2>3, <1>1
    <2> QED BY <2>2, <2>3, <1>2
  <1> QED BY <1>5, <1>6, <1>7, <1>8 DEF n

\* The same of a first event, which a task is created with.
LEMMA FirstEventIsSound ==
  ASSUME NEW o \in Ops \cup {External}, NEW now \in Nat
  PROVE  LET l == <<CreatedEvent(o, now)>>
         IN  /\ l \in Seq(Event) /\ Len(l) = 1
             /\ Replays(l, "todo") /\ FromReplay(l) /\ InTime(l) /\ Until(l, now)
             /\ SubSeq(l, 1, 1) = l
  <1> DEFINE e == CreatedEvent(o, now)
             l == <<e>>
  <1>1. e \in Event /\ e.kind = "created" /\ e.at = now /\ e.to = "todo"
    BY CreatedEventIsEvent DEF CreatedEvent
  <1> HIDE DEF e
  <1>2. l \in Seq(Event) /\ DOMAIN l = 1 .. 1 /\ l[1] = e /\ Len(l) = 1
    BY <1>1
  <1> HIDE DEF l
  <1>3. SubSeq(l, 1, 1) = l
    BY <1>2, SubSeqFull
  <1>4. Replays(l, "todo")
    <2>1. 1 \in StatusEvents(l) /\ StatusGiven(l[1]) = "todo"
      BY <1>1, <1>2 DEF StatusEvents, StatusKinds, StatusGiven
    <2>2. \A j \in StatusEvents(l) : j <= 1
      BY <1>2 DEF StatusEvents
    <2> QED BY <2>1, <2>2 DEF Replays
  <1>5. FromReplay(l)
    BY <1>1, <1>2 DEF FromReplay
  <1>6. InTime(l) /\ Until(l, now)
    BY <1>1, <1>2 DEF InTime, Until
  <1> QED BY <1>2, <1>3, <1>4, <1>5, <1>6 DEF l, e

LEMMA UntilLater ==
  ASSUME NEW l \in Seq(Event), NEW x \in Nat, NEW y \in Nat, x <= y, Until(l, x)
  PROVE  Until(l, y)
  <1> SUFFICES ASSUME NEW i \in DOMAIN l PROVE l[i].at <= y
    BY DEF Until
  <1>1. l[i].at \in Nat /\ l[i].at <= x
    BY EventShape DEF Until
  <1> QED BY <1>1

\* A response stays true when the log goes on.
LEMMA TrueInLonger ==
  ASSUME NEW q, NEW r, NEW l \in Seq(Event), NEW p \in Seq(Event), TrueIn(q, r, l)
  PROVE  TrueIn(q, r, l \o p)
  <1> DEFINE i == r.row.version
             n == l \o p
  <1>1. i \in DOMAIN l
    BY DEF TrueIn
  <1>2. i \in DOMAIN n /\ n[i] = l[i] /\ SubSeq(n, 1, i) = SubSeq(l, 1, i)
    BY <1>1, ConcatKeeps
  <1> HIDE DEF n
  <1>3. TrueIn(q, r, n)
    BY <1>2 DEF TrueIn
  <1> QED BY <1>3 DEF n

LEMMA TrueOfIsTrueIn ==
  ASSUME NEW q, NEW r
  PROVE  TrueOf(q, r) <=> TrueIn(q, r, log[r.task])
  BY DEF TrueOf, TrueIn

(***************************************************************************)
(* The initial state                                                       *)
(***************************************************************************)

LEMMA InitEstablishesHInv == Init => HInv
  <1> SUFFICES ASSUME Init PROVE HInv
    OBVIOUS
  <1> DEFINE first == <<CreatedEvent(External, 0)>>
  <1>1. \A t \in Tasks : log[t] = IF t \in Seeded THEN first ELSE <<>>
    BY DEF Init
  <1>2. first[1].op = External /\ DOMAIN first = {1}
    BY DEF CreatedEvent
  <1>3. /\ Replays(first, "todo") /\ FromReplay(first) /\ InTime(first) /\ Until(first, 0)
    BY FirstEventIsSound
  <1> HIDE DEF first
  <1>4. \A t \in Seeded : rows[t].status = "todo"
    <2> SUFFICES ASSUME NEW t \in Seeded PROVE rows[t].status = "todo"
      OBVIOUS
    <2>1. rows[t] = [NewRow(None) EXCEPT !.parent = ParentOf[t]]
      BY ConstantsAssumption DEF Init
    <2> QED BY <2>1 DEF NewRow
  <1>5. ASSUME NEW t \in Tasks PROVE TaskIsSound(t)
    <2>1. CASE t \in Seeded
      BY <2>1, <1>1, <1>3, <1>4 DEF TaskIsSound, SoundHistory, Init
    <2>2. CASE t \notin Seeded
      BY <2>2 DEF TaskIsSound, Exists, Init
    <2> QED BY <2>1, <2>2
  <1>6. ASSUME NEW c \in Calls PROVE KnewTheVersion(c) /\ DraftIsSound(c) /\ AnswerIsTrue(c)
    <2>1. pc[c] = "idle" /\ answer[c].outcome = "none"
      BY DEF Init
    <2> QED BY <2>1 DEF KnewTheVersion, DraftIsSound, AnswerIsTrue, Waiting
  <1>7. ASSUME NEW o \in Ops PROVE ReceiptIsTrue(o)
    BY DEF ReceiptIsTrue, Recorded, Init
  <1>8. OneResponsePerPlace
    <2>1. Told = {}
      BY DEF Told, Recorded, Init
    <2> QED BY <2>1 DEF OneResponsePerPlace
  <1>9. EventsHaveAuthors
    <2>1. \A t \in Tasks : \A i \in DOMAIN log[t] : log[t][i].op = External
      BY <1>1, <1>2
    <2> QED BY <2>1 DEF EventsHaveAuthors
  <1> QED BY <1>5, <1>6, <1>7, <1>8, <1>9 DEF HInv

(***************************************************************************)
(* What a step of one call leaves alone                                    *)
(***************************************************************************)

\* The parts of the state that no uncommitted write touches: rows and events stay,
\* time goes on, receipts at most disappear and answers at most repeat a receipt.
CommittedStays ==
    /\ rows' = rows /\ log' = log /\ clock <= clock'
    /\ \A o \in Ops : Recorded(o)' =>
          Recorded(o) /\ ops'[o].req = ops[o].req /\ ops'[o].res = ops[o].res
    /\ \A c \in Calls : answer'[c].outcome = "ok" => answer'[c].res \in Told
    /\ \A c \in Calls : pc[c] # "idle" => pc'[c] # "idle" /\ req'[c] = req[c]

\* What is committed stays sound, true and accounted for.
LEMMA CommittedStaysSound ==
  ASSUME IInv, IInv', HInv, CommittedStays
  PROVE  /\ \A t \in Tasks : TaskIsSound(t)'
         /\ \A o \in Ops : ReceiptIsTrue(o)'
         /\ OneResponsePerPlace' /\ EventsHaveAuthors'
  <1> USE DEF CommittedStays
  <1>1. ASSUME NEW t \in Tasks PROVE TaskIsSound(t)'
    <2>1. TaskIsSound(t) /\ log[t] \in Seq(Event) /\ clock \in Nat /\ clock' \in Nat
      BY DEF HInv, IInv, TypeOK
    <2>2. Until(log[t], clock) => Until(log[t], clock')
      BY <2>1, UntilLater
    <2> QED BY <2>1, <2>2 DEF TaskIsSound, SoundHistory, Exists
  <1>2. ASSUME NEW o \in Ops PROVE ReceiptIsTrue(o)'
    BY DEF HInv, ReceiptIsTrue, TrueOf
  <1>3. OneResponsePerPlace'
    <2>1. Told' \subseteq Told
      <3> SUFFICES ASSUME NEW x \in Told' PROVE x \in Told
        OBVIOUS
      <3>1. CASE \E o \in Ops : Recorded(o)' /\ x = ops'[o].res
        BY <3>1 DEF Told
      <3>2. CASE \E c \in Calls : answer'[c].outcome = "ok" /\ x = answer'[c].res
        BY <3>2
      <3> QED BY <3>1, <3>2 DEF Told
    <2> QED BY <2>1 DEF HInv, OneResponsePerPlace, Place
  <1>4. EventsHaveAuthors'
    <2> SUFFICES ASSUME NEW t \in Tasks, NEW i \in DOMAIN log[t], log[t][i].op # External
                 PROVE  \E d \in Calls : Author(d, t, i)'
      BY DEF EventsHaveAuthors
    <2>1. PICK d \in Calls : Author(d, t, i)
      BY DEF HInv, EventsHaveAuthors
    <2>2. Author(d, t, i)'
      BY <2>1 DEF Author
    <2> QED BY <2>2
  <1> QED BY <1>1, <1>2, <1>3, <1>4

\* A call that a step leaves alone keeps what is said of it, if no other call newly
\* drafts a write of its operation, or of a task it has asked for that is not there yet.
LEMMA CallLeftAlone ==
  ASSUME IInv, IInv', HInv, CommittedStays, NEW c \in Calls, NEW d \in Calls \ {c},
         pc'[d] = pc[d], req'[d] = req[d], txn'[d] = txn[d], answer'[d] = answer[d],
         ops' = ops,
         \A e \in Calls \ {c} : pc'[e] = pc[e] /\ req'[e] = req[e] /\ txn'[e] = txn[e],
         pc'[c] = "automate" =>
            /\ \/ /\ pc[c] = "automate" /\ txn'[c].task = txn[c].task
                  /\ txn'[c].pend[1] = txn[c].pend[1]
               \/ Exists(txn'[c].task)
               \/ \A e \in Calls : InFlight(e) => req[e].task # txn'[c].task
            /\ pc[d] = "automate" => req'[c].op # req[d].op
  PROVE  KnewTheVersion(d)' /\ DraftIsSound(d)' /\ AnswerIsTrue(d)'
  <1> USE DEF CommittedStays
  <1>1. KnewTheVersion(d) /\ DraftIsSound(d) /\ AnswerIsTrue(d)
    BY DEF HInv
  <1>2. clock \in Nat /\ clock' \in Nat /\ txn[d].now \in Nat
    BY DEF IInv, TypeOK, Txn
  <1>3. KnewTheVersion(d)'
    <2>1. pc[d] # "idle" => NamesAReachedVersion(d)'
      BY <1>1 DEF KnewTheVersion, NamesAReachedVersion, Exists
    <2>2. pc[d] \in Waiting => txn'[d].now <= clock'
      BY <1>1, <1>2 DEF KnewTheVersion
    <2>3. ASSUME pc[d] \in Waiting, req[d].verb # "create"
          PROVE  CameAfterTheVersion(d)'
      <3>1. CameAfterTheVersion(d)
        BY <1>1, <2>3 DEF KnewTheVersion
      <3>2. InFlight(d)
        BY <2>3 DEF InFlight, Waiting
      <3>3. ASSUME NEW e \in Calls, pc'[e] = "automate", txn'[e].task = req[d].task,
                   ~Exists(req[d].task)
            PROVE  txn'[e].pend[1].at < txn[d].now
        <4>1. CASE e # c
          BY <3>1, <3>3, <4>1 DEF CameAfterTheVersion
        <4>2. CASE e = c
          <5>1. /\ pc[c] = "automate" /\ txn'[c].task = txn[c].task
                /\ txn'[c].pend[1] = txn[c].pend[1]
            BY <3>2, <3>3, <4>2
          <5> QED BY <3>1, <3>3, <4>2, <5>1 DEF CameAfterTheVersion
        <4> QED BY <4>1, <4>2
      <3> QED BY <3>1, <3>3 DEF CameAfterTheVersion, Exists
    <2>4. pc[d] \in Waiting \ {"lock"} /\ req[d].verb # "create" =>
             rows'[req'[d].task].version = req'[d].ifMatch
      BY <1>1 DEF KnewTheVersion
    <2> QED BY <2>1, <2>2, <2>3, <2>4 DEF KnewTheVersion, Waiting
  <1>4. DraftIsSound(d)'
    <2> SUFFICES ASSUME pc[d] = "automate" PROVE DraftIsSound(d)'
      BY DEF DraftIsSound
    <2>1. Whole(d)' = Whole(d)
      BY DEF Whole
    <2>2. Whole(d) \in Seq(Event)
      BY ConcatProperties DEF IInv, TypeOK, CallInv, BaseCall, Draft, BaseDraft, Whole, Txn
    <2>3. SoundHistory(Whole(d), txn[d].row.status)'
      BY <1>1, <1>2, <2>1, <2>2, UntilLater DEF DraftIsSound, SoundHistory
    <2>4. ASSUME NEW e \in Calls \ {d}, pc'[e] = "automate" PROVE req'[e].op # req[d].op
      BY <1>1, <2>4 DEF DraftIsSound
    <2> QED BY <1>1, <2>1, <2>3, <2>4 DEF DraftIsSound, Recorded
  <1>5. AnswerIsTrue(d)'
    BY <1>1 DEF AnswerIsTrue, TrueOf
  <1> QED BY <1>3, <1>4, <1>5

\* So a step of one call that commits nothing only has to be right for that call.
LEMMA StepOfOneCallKeepsHInv ==
  ASSUME IInv, IInv', HInv, CommittedStays, NEW c \in Calls, ops' = ops,
         \A d \in Calls \ {c} :
            pc'[d] = pc[d] /\ req'[d] = req[d] /\ txn'[d] = txn[d] /\ answer'[d] = answer[d],
         pc'[c] = "automate" =>
            /\ \/ /\ pc[c] = "automate" /\ txn'[c].task = txn[c].task
                  /\ txn'[c].pend[1] = txn[c].pend[1]
               \/ Exists(txn'[c].task)
               \/ \A e \in Calls : InFlight(e) => req[e].task # txn'[c].task
            /\ \A d \in Calls \ {c} : pc[d] = "automate" => req'[c].op # req[d].op,
         KnewTheVersion(c)', DraftIsSound(c)', AnswerIsTrue(c)'
  PROVE  HInv'
  <1>1. ASSUME NEW d \in Calls \ {c}
        PROVE  KnewTheVersion(d)' /\ DraftIsSound(d)' /\ AnswerIsTrue(d)'
    BY CallLeftAlone
  <1>2. /\ \A t \in Tasks : TaskIsSound(t)'
        /\ \A o \in Ops : ReceiptIsTrue(o)'
        /\ OneResponsePerPlace' /\ EventsHaveAuthors'
    BY CommittedStaysSound
  <1>3. \A d \in Calls : KnewTheVersion(d)' /\ DraftIsSound(d)' /\ AnswerIsTrue(d)'
    BY <1>1
  <1> QED BY <1>2, <1>3 DEF HInv

(***************************************************************************)
(* Answers, aborted transactions and the steps before the writes           *)
(***************************************************************************)

LEMMA AbortKeepsHInv ==
  ASSUME IInv, IInv', HInv, NEW c \in Calls, pc[c] \notin {"idle", "answered"},
         NEW e \in Errors, Abort(c, e)
  PROVE  HInv'
  <1>1. /\ pc'[c] = "recheck" /\ req' = req /\ answer' = answer /\ ops' = ops
        /\ rows' = rows /\ log' = log /\ clock' = clock
    BY DEF IInv, TypeOK, Abort, tables
  <1>2. \A d \in Calls \ {c} :
           pc'[d] = pc[d] /\ req'[d] = req[d] /\ txn'[d] = txn[d] /\ answer'[d] = answer[d]
    BY <1>1 DEF IInv, TypeOK, Abort
  <1>3. CommittedStays
    <2>1. clock \in Nat
      BY DEF IInv, TypeOK
    <2>2. \A d \in Calls : answer[d].outcome = "ok" => answer[d].res \in Told
      BY DEF Told
    <2>3. \A d \in Calls : pc[d] # "idle" => pc'[d] # "idle" /\ req'[d] = req[d]
      BY <1>1, <1>2
    <2> QED BY <1>1, <2>1, <2>2, <2>3 DEF CommittedStays, Recorded
  <1>4. KnewTheVersion(c)'
    <2>1. NamesAReachedVersion(c)
      BY DEF HInv, KnewTheVersion
    <2> QED BY <2>1, <1>1 DEF KnewTheVersion, NamesAReachedVersion, Waiting, Exists
  <1>5. DraftIsSound(c)'
    BY <1>1 DEF DraftIsSound
  <1>6. AnswerIsTrue(c)'
    BY <1>1 DEF HInv, AnswerIsTrue
  <1> QED BY <1>1, <1>2, <1>3, <1>4, <1>5, <1>6, StepOfOneCallKeepsHInv

\* An answer without a write: a success among them is one that the receipt tells.
LEMMA AnswerKeepsHInv ==
  ASSUME IInv, IInv', HInv, NEW c \in Calls, pc[c] \notin {"idle", "answered"},
         NEW o, NEW r, Answer(c, o, r), UNCHANGED <<tables, rowLock, clock, req>>,
         o = "ok" => r \in Told /\ r \in Response /\ TrueOf(req[c], r)
  PROVE  HInv'
  <1>1. /\ pc'[c] = "answered" /\ req' = req /\ answer'[c] = [outcome |-> o, res |-> r]
        /\ ops' = ops /\ rows' = rows /\ log' = log /\ clock' = clock
    BY DEF IInv, TypeOK, Answer, tables
  <1>2. \A d \in Calls \ {c} :
           pc'[d] = pc[d] /\ req'[d] = req[d] /\ txn'[d] = txn[d] /\ answer'[d] = answer[d]
    BY <1>1 DEF IInv, TypeOK, Answer
  <1>3. CommittedStays
    <2>1. clock \in Nat
      BY DEF IInv, TypeOK
    <2>2. \A d \in Calls : answer'[d].outcome = "ok" => answer'[d].res \in Told
      <3>1. \A d \in Calls : answer[d].outcome = "ok" => answer[d].res \in Told
        BY DEF Told
      <3> QED BY <3>1, <1>1, <1>2
    <2>3. \A d \in Calls : pc[d] # "idle" => pc'[d] # "idle" /\ req'[d] = req[d]
      BY <1>1, <1>2
    <2> QED BY <1>1, <2>1, <2>2, <2>3 DEF CommittedStays, Recorded
  <1>4. KnewTheVersion(c)'
    <2>1. NamesAReachedVersion(c)
      BY DEF HInv, KnewTheVersion
    <2> QED BY <2>1, <1>1 DEF KnewTheVersion, NamesAReachedVersion, Waiting, Exists
  <1>5. DraftIsSound(c)'
    BY <1>1 DEF DraftIsSound
  <1>6. AnswerIsTrue(c)'
    BY <1>1 DEF AnswerIsTrue, TrueOf
  <1> QED BY <1>1, <1>2, <1>3, <1>4, <1>5, <1>6, StepOfOneCallKeepsHInv

LEMMA ReceiptStepKeepsHInv ==
  ASSUME IInv, IInv', HInv, NEW c \in Calls, pc[c] \notin {"idle", "answered"},
         AnswerFromReceipt(c)
  PROVE  HInv'
  <1>1. req[c].op \in Ops
    BY RequestShape DEF IInv, CallInv, BaseCall
  <1>2. UNCHANGED <<tables, rowLock, clock, req>>
    BY DEF AnswerFromReceipt
  <1>3. CASE Answer(c, "operationExpired", NoResponse)
    BY <1>2, <1>3, AnswerKeepsHInv
  <1>4. CASE Answer(c, "idempotencyConflict", ops[req[c].op].res)
    BY <1>2, <1>4, AnswerKeepsHInv
  <1>5. CASE Replayed(c) /\ Answer(c, "ok", ops[req[c].op].res)
    <2>1. Recorded(req[c].op) /\ ops[req[c].op].req = req[c]
      BY <1>5 DEF Replayed, Reused, Seen, Recorded
    <2>2. ops[req[c].op].res \in Told /\ ops[req[c].op].res \in Response
      BY <1>1, <2>1 DEF Told, Recorded, IInv, TypeOK, Receipt
    <2>3. TrueOf(req[c], ops[req[c].op].res)
      BY <1>1, <2>1 DEF HInv, ReceiptIsTrue
    <2> QED BY <1>2, <1>5, <2>2, <2>3, AnswerKeepsHInv
  <1> QED BY <1>3, <1>4, <1>5 DEF AnswerFromReceipt

LEMMA RecheckMissKeepsHInv ==
  ASSUME IInv, IInv', HInv, NEW c \in Calls, RecheckMiss(c)
  PROVE  HInv'
  <1>1. txn[c].err # "ok"
    <2>1. txn[c].err \in Errors \cup {"none"}
      BY DEF IInv, TypeOK, Txn
    <2> QED BY <2>1 DEF Errors
  <1>2. pc[c] = "recheck" /\ Answer(c, txn[c].err, NoResponse)
        /\ UNCHANGED <<tables, rowLock, clock, req>>
    BY DEF RecheckMiss
  <1> QED BY <1>1, <1>2, AnswerKeepsHInv

\* A step of a call that writes and answers nothing.
LEMMA QuietStepKeepsHInv ==
  ASSUME IInv, IInv', HInv, NEW c \in Calls, UNCHANGED <<tables, answer>>, clock <= clock',
         pc[c] # "idle" => req'[c] = req[c], pc'[c] # "idle", pc[c] # "answered",
         \A d \in Calls \ {c} : pc'[d] = pc[d] /\ req'[d] = req[d] /\ txn'[d] = txn[d],
         pc'[c] = "automate" =>
            /\ \/ /\ pc[c] = "automate" /\ txn'[c].task = txn[c].task
                  /\ txn'[c].pend[1] = txn[c].pend[1]
               \/ Exists(txn'[c].task)
               \/ \A e \in Calls : InFlight(e) => req[e].task # txn'[c].task
            /\ \A d \in Calls \ {c} : pc[d] = "automate" => req'[c].op # req[d].op,
         KnewTheVersion(c)', DraftIsSound(c)'
  PROVE  HInv'
  <1>1. rows' = rows /\ log' = log /\ ops' = ops /\ answer' = answer
    BY DEF tables
  <1>2. CommittedStays
    <2>1. \A d \in Calls : answer'[d].outcome = "ok" => answer'[d].res \in Told
      BY <1>1 DEF Told
    <2> QED BY <1>1, <2>1 DEF CommittedStays, Recorded
  <1>3. answer[c].outcome # "ok"
    BY DEF HInv, AnswerIsTrue
  <1>4. AnswerIsTrue(c)'
    BY <1>1, <1>3 DEF AnswerIsTrue
  <1> QED BY <1>1, <1>2, <1>4, StepOfOneCallKeepsHInv

LEMMA SubmitKeepsHInv ==
  ASSUME IInv, IInv', HInv, NEW c \in Calls, NEW o \in Ops, NEW b \in Bodies,
         NEW v \in KnownVersions(b.task), Submit(c, o, b, v)
  PROVE  HInv'
  <1>1. /\ pc[c] = "idle" /\ pc'[c] = "check" /\ UNCHANGED <<tables, answer>>
        /\ clock' = clock /\ clock \in Nat
        /\ \A d \in Calls \ {c} : pc'[d] = pc[d] /\ req'[d] = req[d] /\ txn'[d] = txn[d]
    BY DEF Submit, IInv, TypeOK
  <1>2. req'[c].verb = b.verb /\ req'[c].task = b.task /\ req'[c].ifMatch = v
    BY DEF Submit, IInv, TypeOK
  <1>3. NamesAReachedVersion(c)'
    <2>1. rows' = rows
      BY <1>1 DEF tables
    <2>2. CASE b.verb = "create"
      <3>1. b.task = None
        BY <2>2, ConstantsAssumption
           DEF BodyShape, CreateBody, StatusBody, UpdateBody, TransitionBody, PointsBody
      <3> QED BY <3>1, <2>2, <1>2 DEF KnownVersions, NamesAReachedVersion
    <2>3. CASE b.verb # "create"
      <3>1. b.task \in Tasks /\ b.task # None
        BY <2>3, ConstantsAssumption
           DEF BodyShape, CreateBody, StatusBody, UpdateBody, TransitionBody, PointsBody
      <3>2. CASE Exists(b.task)
        <4>1. v <= rows[b.task].version
          BY <3>1, <3>2 DEF KnownVersions
        <4> QED BY <4>1, <3>2, <2>1, <2>3, <1>2 DEF NamesAReachedVersion, Exists
      <3>3. CASE ~Exists(b.task)
        <4>1. v = 1
          BY <3>1, <3>3 DEF KnownVersions
        <4> QED BY <4>1, <3>3, <2>1, <2>3, <1>2 DEF NamesAReachedVersion, Exists
      <3> QED BY <3>2, <3>3
    <2> QED BY <2>2, <2>3
  <1>4. KnewTheVersion(c)'
    BY <1>1, <1>3 DEF KnewTheVersion, Waiting
  <1>5. DraftIsSound(c)'
    BY <1>1 DEF DraftIsSound
  <1> QED BY <1>1, <1>4, <1>5, QuietStepKeepsHInv

\* The handler's time is later than everything the log of its task holds, and than
\* everything that is about to be added to it.
LEMMA CheckMissKeepsHInv ==
  ASSUME IInv, IInv', HInv, NEW c \in Calls, CheckMiss(c)
  PROVE  HInv'
  <1> DEFINE t == req[c].task
  <1>1. /\ pc[c] = "check" /\ pc'[c] \in {"write", "lock"} /\ req' = req
        /\ (pc'[c] = "write" <=> req[c].verb = "create")
        /\ clock' = clock + 1 /\ clock \in Nat /\ UNCHANGED <<tables, answer>>
        /\ \A d \in Calls \ {c} : pc'[d] = pc[d] /\ req'[d] = req[d] /\ txn'[d] = txn[d]
    BY DEF CheckMiss, IInv, TypeOK
  <1>2. txn'[c].now = clock + 1
    BY DEF CheckMiss, IInv, TypeOK, Txn
  <1>3. rows' = rows /\ log' = log
    BY <1>1 DEF tables
  <1>4. NamesAReachedVersion(c)'
    BY <1>1, <1>3 DEF HInv, KnewTheVersion, NamesAReachedVersion, Exists
  <1>5. ASSUME req[c].verb # "create"
        PROVE  CameAfterTheVersion(c)'
    <2>1. t \in Tasks /\ log[t] \in Seq(Event)
      BY <1>1, <1>5, RequestShape DEF IInv, CallInv, BaseCall, TypeOK
    <2>2. ASSUME NEW i \in DOMAIN log[t] PROVE log[t][i].at < clock + 1
      <3>1. Exists(t)
        BY <2>1, <2>2 DEF IInv, VersionCountsEvents
      <3>2. Until(log[t], clock)
        BY <2>1, <3>1 DEF HInv, TaskIsSound, SoundHistory
      <3>3. log[t][i].at <= clock /\ log[t][i].at \in Nat
        BY <2>1, <3>2, EventShape DEF Until
      <3> QED BY <3>3, <1>1
    <2>3. ASSUME NEW d \in Calls, pc'[d] = "automate", txn'[d].task = t, ~Exists(t)
          PROVE  txn'[d].pend[1].at < clock + 1
      <3>1. d # c /\ pc[d] = "automate" /\ txn[d].task = t /\ txn'[d] = txn[d]
        BY <1>1, <2>3
      <3>2. /\ txn[d].pend \in Seq(Event) /\ txn[d].pend # <<>>
            /\ Until(log[t] \o txn[d].pend, clock)
        BY <3>1 DEF HInv, DraftIsSound, SoundHistory, Whole, IInv, TypeOK, Txn
      <3>3. log[t] = <<>>
        BY <2>1, <2>3 DEF IInv, VersionCountsEvents
      <3>4. log[t] \o txn[d].pend = txn[d].pend
        BY <3>2, <3>3, ConcatEmptySeq
      <3>5. 1 \in DOMAIN txn[d].pend
        BY <3>2, EmptySeq, LenProperties
      <3>6. txn[d].pend[1].at <= clock /\ txn[d].pend[1].at \in Nat
        BY <3>2, <3>4, <3>5, EventShape DEF Until
      <3> QED BY <3>1, <3>6, <1>1
    <2> QED BY <2>2, <2>3, <1>1, <1>2, <1>3 DEF CameAfterTheVersion, Exists
  <1>6. KnewTheVersion(c)'
    BY <1>1, <1>2, <1>4, <1>5 DEF KnewTheVersion, Waiting
  <1>7. DraftIsSound(c)'
    BY <1>1 DEF DraftIsSound
  <1> QED BY <1>1, <1>6, <1>7, QuietStepKeepsHInv

\* The lock comes with a row of the version that the request names.
LEMMA LockTaskKeepsHInv ==
  ASSUME IInv, IInv', HInv, NEW c \in Calls, LockTask(c)
  PROVE  HInv'
  <1>1. /\ pc[c] = "lock" /\ pc'[c] \in {"deps", "write"} /\ req' = req
        /\ clock' = clock /\ clock \in Nat /\ UNCHANGED <<tables, answer>>
        /\ \A d \in Calls \ {c} : pc'[d] = pc[d] /\ req'[d] = req[d] /\ txn'[d] = txn[d]
    BY DEF LockTask, IInv, TypeOK
  <1>2. txn'[c].now = txn[c].now
    BY DEF LockTask, IInv, TypeOK, Txn
  <1>3. rows' = rows /\ log' = log
    BY <1>1 DEF tables
  <1>4. rows[req[c].task].version = req[c].ifMatch
    BY DEF LockTask, RowObjection
  <1>5. KnewTheVersion(c)
    BY DEF HInv
  <1>6. NamesAReachedVersion(c)'
    BY <1>1, <1>3, <1>5 DEF KnewTheVersion, NamesAReachedVersion, Exists
  <1>7. req[c].verb # "create" => CameAfterTheVersion(c)'
    <2> SUFFICES ASSUME req[c].verb # "create" PROVE CameAfterTheVersion(c)'
      OBVIOUS
    <2>1. CameAfterTheVersion(c)
      BY <1>1, <1>5 DEF KnewTheVersion, Waiting
    <2>2. Exists(req[c].task)
      BY DEF LockTask
    <2> QED BY <2>1, <2>2, <1>1, <1>2, <1>3 DEF CameAfterTheVersion, Exists
  <1>8. KnewTheVersion(c)'
    BY <1>1, <1>2, <1>3, <1>4, <1>5, <1>6, <1>7 DEF KnewTheVersion, Waiting
  <1>9. DraftIsSound(c)'
    BY <1>1 DEF DraftIsSound
  <1> QED BY <1>1, <1>8, <1>9, QuietStepKeepsHInv

LEMMA PassedCheckKeepsHInv ==
  ASSUME IInv, IInv', HInv, NEW c \in Calls, pc[c] \in {"deps", "children"},
         NEW p \in {"children", "write"}, pc' = [pc EXCEPT ![c] = p],
         UNCHANGED <<tables, rowLock, clock, req, txn, answer>>
  PROVE  HInv'
  <1>1. /\ pc'[c] = p /\ clock' = clock /\ clock \in Nat /\ UNCHANGED <<tables, answer>>
        /\ \A d \in Calls \ {c} : pc'[d] = pc[d] /\ req'[d] = req[d] /\ txn'[d] = txn[d]
    BY DEF IInv, TypeOK
  <1>2. rows' = rows /\ log' = log
    BY DEF tables
  <1>3. KnewTheVersion(c)
    BY DEF HInv
  <1>4. CameAfterTheVersion(c) => CameAfterTheVersion(c)'
    <2>1. \A d \in Calls : pc'[d] = "automate" => pc[d] = "automate"
      BY <1>1
    <2> QED BY <2>1, <1>2 DEF CameAfterTheVersion, Exists
  <1>5. KnewTheVersion(c)'
    BY <1>1, <1>2, <1>3, <1>4 DEF KnewTheVersion, NamesAReachedVersion, Waiting, Exists
  <1>6. DraftIsSound(c)'
    BY <1>1 DEF DraftIsSound
  <1> QED BY <1>1, <1>5, <1>6, QuietStepKeepsHInv

(***************************************************************************)
(* The writes                                                              *)
(***************************************************************************)

\* A call whose transaction now holds a first event: what is said of a draft is
\* said of the log it continues.
LEMMA DraftingKeepsHInv ==
  ASSUME IInv, IInv', HInv, NEW c \in Calls, MayWrite(c),
         UNCHANGED <<tables, clock, req, answer>>,
         pc' = [pc EXCEPT ![c] = "automate"],
         \A d \in Calls \ {c} : txn'[d] = txn[d],
         NEW t \in Tasks, NEW e \in Event, txn'[c].task = t, txn'[c].pend = <<e>>,
         Exists(t) \/ (\A d \in Calls : InFlight(d) => req[d].task # t),
         Len(log[t]) = req[c].ifMatch, e.op = req[c].op, e.at <= clock,
         Replays(Append(log[t], e), txn'[c].row.status), FromReplay(Append(log[t], e)),
         InTime(Append(log[t], e)), Until(Append(log[t], e), e.at),
         txn'[c].res.task = t, TrueIn(req[c], txn'[c].res, Append(log[t], e))
  PROVE  HInv'
  <1>1. /\ pc[c] = "write" /\ pc'[c] = "automate" /\ req' = req /\ clock' = clock
        /\ clock \in Nat /\ e.at \in Nat /\ log[t] \in Seq(Event)
        /\ \A d \in Calls \ {c} : pc'[d] = pc[d] /\ req'[d] = req[d] /\ txn'[d] = txn[d]
    BY DEF MayWrite, IInv, TypeOK, Event
  <1>2. rows' = rows /\ log' = log /\ ops' = ops
    BY DEF tables
  <1>3. KnewTheVersion(c)'
    BY <1>1, <1>2 DEF HInv, KnewTheVersion, NamesAReachedVersion, Waiting, Exists
  <1>4. ~Recorded(req[c].op) /\ \A d \in Calls \ {c} : pc[d] = "automate" => req[d].op # req[c].op
    BY DEF MayWrite, BeingRecorded
  <1>5. Whole(c)' = Append(log[t], e)
    BY <1>2, <1>1, ConcatAppend DEF Whole
  <1>6. Append(log[t], e) \in Seq(Event)
    BY <1>1, AppendKeeps
  <1>7. Until(Append(log[t], e), clock)
    BY <1>1, <1>6, UntilLater
  <1>8. SoundHistory(Whole(c), txn[c].row.status)'
    BY <1>1, <1>5, <1>7 DEF SoundHistory
  <1>9. TrueIn(req[c], txn[c].res, Whole(c))'
    BY <1>1, <1>5 DEF TrueIn
  <1>10. /\ Len(log'[txn'[c].task]) = req'[c].ifMatch
         /\ txn'[c].pend # <<>> /\ txn'[c].pend[1].op = req'[c].op
         /\ \A k \in DOMAIN txn'[c].pend : k > 1 => txn'[c].pend[k].op = External
    BY <1>1, <1>2
  <1>11. DraftIsSound(c)'
    BY <1>1, <1>2, <1>4, <1>8, <1>9, <1>10 DEF DraftIsSound, Recorded
  <1>12. Exists(txn'[c].task) \/ \A d \in Calls : InFlight(d) => req[d].task # txn'[c].task
    OBVIOUS
  <1>13. \A d \in Calls \ {c} : pc[d] = "automate" => req'[c].op # req[d].op
    BY <1>1, <1>4
  <1> QED BY <1>1, <1>3, <1>11, <1>12, <1>13, QuietStepKeepsHInv

LEMMA CreateTaskKeepsHInv ==
  ASSUME IInv, IInv', HInv, NEW c \in Calls, NEW t \in Tasks, CreateTask(c, t)
  PROVE  HInv'
  <1> DEFINE e == CreatedEvent(req[c].op, txn[c].now)
             row == NewRow(req[c].to)
  <1>1. /\ MayWrite(c) /\ req[c].verb = "create" /\ req[c] \in Request /\ req[c].op \in Ops
        /\ txn[c] \in Txn /\ pc[c] = "write" /\ txn[c].now \in Nat
    BY RequestShape DEF CreateTask, MayWrite, IInv, CallInv, BaseCall, TypeOK, Txn
  <1>2. txn[c].now <= clock /\ req[c].ifMatch = 0
    BY <1>1 DEF HInv, KnewTheVersion, Waiting, NamesAReachedVersion
  <1>3. log[t] = <<>>
    BY DEF CreateTask, Unheard, IInv, VersionCountsEvents
  <1>4. e \in Event /\ e.op = req[c].op /\ e.at = txn[c].now /\ e.kind = "created"
    BY <1>1, CreatedEventIsEvent DEF CreatedEvent
  <1>5. row.status = "todo" /\ row.version = 1 /\ row.assignee = req[c].to
    BY DEF NewRow
  <1>6. /\ txn'[c].task = t /\ txn'[c].row = row
        /\ txn'[c].res = [task |-> t, row |-> row] /\ txn'[c].pend = <<e>>
    BY <1>1 DEF CreateTask, IInv, TypeOK, Txn
  <1>7. /\ <<e>> \in Seq(Event) /\ Len(<<e>>) = 1
        /\ Replays(<<e>>, "todo") /\ FromReplay(<<e>>) /\ InTime(<<e>>)
        /\ Until(<<e>>, txn[c].now) /\ SubSeq(<<e>>, 1, 1) = <<e>>
    BY <1>1, FirstEventIsSound
  <1>8. \A d \in Calls \ {c} : txn'[d] = txn[d]
    BY DEF CreateTask, IInv, TypeOK
  <1>9. /\ pc' = [pc EXCEPT ![c] = "automate"] /\ UNCHANGED <<tables, clock, req, answer>>
        /\ \A d \in Calls : InFlight(d) => req[d].task # t
    BY DEF CreateTask, Unheard
  <1> HIDE DEF e, row
  <1>10. Append(log[t], e) = <<e>>
    BY <1>3
  <1>11. StatusOf(<<e>>) = "todo"
    BY <1>7, ReplayIsStatusOf
  <1>12. TrueIn(req[c], txn'[c].res, <<e>>)
    <2> DEFINE one == <<e>>
               res == txn'[c].res
    <2>1. 1 \in DOMAIN one /\ one[1] = e /\ SubSeq(one, 1, 1) = one /\ StatusOf(one) = "todo"
      BY <1>7, <1>11
    <2>2. res.task = t /\ res.row = row
      BY <1>6
    <2> HIDE DEF one, res
    <2>3. 1 = req[c].ifMatch + 1 /\ KindOf(req[c].verb) = "created"
      BY <1>1, <1>2 DEF KindOf
    <2>4. TrueIn(req[c], res, one)
      BY <2>1, <2>2, <2>3, <1>1, <1>4, <1>5 DEF TrueIn
    <2> QED BY <2>4 DEF one, res
  <1>13. Len(log[t]) = req[c].ifMatch /\ txn'[c].res.task = t
    BY <1>2, <1>3, <1>6
  <1>14. /\ Replays(Append(log[t], e), txn'[c].row.status) /\ FromReplay(Append(log[t], e))
         /\ InTime(Append(log[t], e)) /\ Until(Append(log[t], e), e.at)
         /\ TrueIn(req[c], txn'[c].res, Append(log[t], e))
    BY <1>4, <1>5, <1>6, <1>7, <1>10, <1>12
  <1> QED BY <1>1, <1>2, <1>4, <1>6, <1>8, <1>9, <1>13, <1>14, DraftingKeepsHInv

\* The event of a verb tells what was asked, and its row has the status that the
\* event gives it.
LEMMA EffectTells ==
  ASSUME NEW q \in Request, q.verb # "create", NEW row \in Row,
         NEW e \in Event, e.kind = Effect(q, row).kind,
         e.from = Effect(q, row).from, e.to = Effect(q, row).to
  PROVE  /\ e.kind = KindOf(q.verb) /\ e.to = q.to
         /\ e.kind = "status_changed" => e.from = row.status
         /\ Effect(q, row).row.status = IF e.kind \in StatusKinds THEN StatusGiven(e) ELSE row.status
  <1> USE DEF Effect, Bumped, KindOf, StatusKinds, StatusGiven, Row
  <1>1. CASE q.verb = "status"
    BY <1>1 DEF UpdateTaskStatus
  <1>2. CASE q.verb = "update"
    BY <1>2 DEF UpdateTask
  <1>3. CASE q.verb = "transition"
    BY <1>3 DEF TransitionTaskWorkflow
  <1>4. CASE q.verb = "points"
    <2>1. q.to = Keep
      BY <1>4 DEF Request, BodyOf, BodyShape, CreateBody, StatusBody, UpdateBody,
                  TransitionBody, PointsBody
    <2> QED BY <2>1, <1>4 DEF UpdateTaskPoints
  <1> QED BY <1>1, <1>2, <1>3, <1>4, RequestShape DEF Verbs

LEMMA WriteTaskKeepsHInv ==
  ASSUME IInv, IInv', HInv, NEW c \in Calls, WriteTask(c)
  PROVE  HInv'
  <1> DEFINE t == req[c].task
             f == Effect(req[c], txn[c].row)
             e == [kind |-> f.kind, op |-> req[c].op, at |-> txn[c].now,
                   from |-> f.from, to |-> f.to]
  <1>1. /\ MayWrite(c) /\ req[c] \in Request /\ req[c].verb # "create" /\ txn[c] \in Txn
        /\ pc[c] = "write" /\ Snapshot(c) /\ KnewTheVersion(c)
    BY DEF WriteTask, MayWrite, IInv, CallInv, BaseCall, TypeOK, HInv
  <1>2. t \in Tasks /\ req[c].op \in Ops
    BY <1>1, RequestShape
  <1>3. /\ txn[c].row \in Row /\ txn[c].row = rows[t] /\ txn[c].task = t /\ Exists(t)
        /\ txn[c].row.version = Len(log[t]) /\ log[t] \in Seq(Event) /\ Len(log[t]) \in Nat
    BY <1>1, <1>2, LenProperties DEF Snapshot, IInv, TypeOK, Exists, VersionCountsEvents
  <1>4. Len(log[t]) = req[c].ifMatch /\ txn[c].now <= clock /\ txn[c].now \in Nat
    BY <1>1, <1>3 DEF KnewTheVersion, Waiting, Txn
  <1>5. \A i \in DOMAIN log[t] : log[t][i].at < txn[c].now
    <2>1. CameAfterTheVersion(c)
      BY <1>1 DEF KnewTheVersion, Waiting
    <2>2. \A i \in DOMAIN log[t] : i <= req[c].ifMatch
      BY <1>3, <1>4, EventShape
    <2> QED BY <2>1, <2>2 DEF CameAfterTheVersion
  <1>6. Replays(log[t], rows[t].status) /\ FromReplay(log[t]) /\ InTime(log[t])
    BY <1>2, <1>3 DEF HInv, TaskIsSound, SoundHistory
  <1>7. /\ f.row \in Row /\ f.row.version = Len(log[t]) + 1 /\ f.kind \in Kinds
        /\ f.from \in Values /\ f.to \in Values
    BY <1>1, <1>3, EffectIsOneVersion DEF Snapshot
  <1>8. /\ e \in Event /\ e.kind = f.kind /\ e.from = f.from /\ e.to = f.to
        /\ e.op = req[c].op /\ e.at = txn[c].now
    BY <1>1, <1>2, <1>7 DEF Event, Txn
  <1>9. PICK agenda \in Firings(f.field, f.value, 0) :
           txn' = [txn EXCEPT ![c] =
                     [@ EXCEPT !.row = f.row, !.res = [task |-> t, row |-> f.row],
                               !.pend = <<e>>, !.agenda = agenda]]
    BY DEF WriteTask
  <1>10. /\ txn'[c].task = t /\ txn'[c].row = f.row
         /\ txn'[c].res = [task |-> t, row |-> f.row] /\ txn'[c].pend = <<e>>
    BY <1>1, <1>3, <1>9 DEF IInv, TypeOK, Txn
  <1>11. \A d \in Calls \ {c} : txn'[d] = txn[d]
    BY <1>9 DEF IInv, TypeOK
  <1>12. /\ pc' = [pc EXCEPT ![c] = "automate"] /\ UNCHANGED <<tables, clock, req, answer>>
    BY DEF WriteTask
  <1> HIDE DEF e
  <1>13. /\ e.kind = KindOf(req[c].verb) /\ e.to = req[c].to
         /\ (e.kind = "status_changed" => e.from = rows[t].status)
         /\ f.row.status = IF e.kind \in StatusKinds THEN StatusGiven(e) ELSE rows[t].status
    BY <1>1, <1>3, <1>8, EffectTells
  <1> HIDE DEF f
  <1> DEFINE n == Append(log[t], e)
  <1>14. Replays(n, f.row.status) /\ FromReplay(n) /\ InTime(n) /\ Until(n, e.at)
    BY <1>3, <1>5, <1>6, <1>8, <1>13, AppendIsSound
  <1>15. /\ n \in Seq(Event) /\ Len(n) = Len(log[t]) + 1 /\ n[Len(log[t]) + 1] = e
         /\ Len(log[t]) + 1 \in DOMAIN n /\ SubSeq(n, 1, Len(log[t]) + 1) = n
    <2>1. /\ n \in Seq(Event) /\ Len(n) = Len(log[t]) + 1 /\ n[Len(log[t]) + 1] = e
          /\ DOMAIN n = 1 .. Len(log[t]) + 1
      BY <1>3, <1>8, AppendKeeps
    <2>2. SubSeq(n, 1, Len(n)) = n
      BY <2>1, SubSeqFull
    <2> QED BY <2>1, <2>2, <1>3
  <1>16. StatusOf(n) = f.row.status
    BY <1>14, <1>15, ReplayIsStatusOf
  <1> HIDE DEF n
  <1>17. TrueIn(req[c], txn'[c].res, n) /\ txn'[c].res.task = t
    <2> DEFINE res == txn'[c].res
    <2>1. res.task = t /\ res.row = f.row
      BY <1>10
    <2> HIDE DEF res
    <2>2. TrueIn(req[c], res, n)
      BY <2>1, <1>1, <1>4, <1>7, <1>8, <1>13, <1>15, <1>16 DEF TrueIn
    <2> QED BY <2>1, <2>2 DEF res
  <1>18. /\ Replays(Append(log[t], e), txn'[c].row.status) /\ FromReplay(Append(log[t], e))
         /\ InTime(Append(log[t], e)) /\ Until(Append(log[t], e), e.at)
         /\ TrueIn(req[c], txn'[c].res, Append(log[t], e))
    BY <1>10, <1>14, <1>17 DEF n
  <1>19. Len(log[t]) = req[c].ifMatch /\ e.at <= clock /\ Exists(t)
    BY <1>3, <1>4, <1>8
  <1> QED BY <1>1, <1>2, <1>8, <1>10, <1>11, <1>12, <1>17, <1>18, <1>19, DraftingKeepsHInv

(***************************************************************************)
(* Automation: the firing of a rule goes on from what was drafted          *)
(***************************************************************************)

LEMMA RuleWritesKeepsHInv ==
  ASSUME IInv, IInv', HInv, NEW c \in Calls, FiringRule(c),
         NEW kind \in Kinds, NEW from \in Values, NEW row \in Row,
         RuleWrites(c, kind, from, row),
         kind \in {"status_changed", "assigned"},
         kind = "status_changed" => from = txn[c].row.status /\ row.status = NextRule(c).arg,
         kind = "assigned" => row.status = txn[c].row.status
  PROVE  HInv'
  <1> DEFINE t == txn[c].task
             p == txn[c].pend
             e == [kind |-> kind, op |-> External, at |-> clock + 1,
                   from |-> from, to |-> NextRule(c).arg]
  <1>1. /\ pc[c] = "automate" /\ txn[c] \in Txn /\ Draft(c) /\ DraftIsSound(c) /\ t \in Tasks
        /\ clock \in Nat /\ clock' = clock + 1 /\ p \in Seq(Event) /\ log[t] \in Seq(Event)
    BY DEF FiringRule, RuleWrites, IInv, CallInv, BaseCall, TypeOK, Draft, BaseDraft, HInv, Txn
  <1>2. e \in Event /\ e.kind = kind /\ e.op = External /\ e.at = clock + 1 /\ e.from = from
        /\ e.to = NextRule(c).arg
    BY <1>1, NextRuleShape DEF Event
  <1>3. PICK fired \in Firings(NextRule(c).action, NextRule(c).arg,
                               Head(txn[c].agenda).depth + 1) :
           txn' = [txn EXCEPT ![c] =
                     [txn[c] EXCEPT !.row = row, !.pend = Append(p, e),
                                    !.agenda = fired \o Tail(txn[c].agenda)]]
    BY <1>1 DEF RuleWrites
  <1>4. /\ txn'[c].task = t /\ txn'[c].row = row /\ txn'[c].res = txn[c].res
        /\ txn'[c].pend = Append(p, e)
    BY <1>1, <1>3 DEF IInv, TypeOK, Txn
  <1>5. /\ UNCHANGED <<tables, answer>> /\ pc' = pc /\ req' = req
        /\ \A d \in Calls \ {c} : pc'[d] = pc[d] /\ req'[d] = req[d] /\ txn'[d] = txn[d]
    BY <1>3 DEF RuleWrites, IInv, TypeOK
  <1>6. rows' = rows /\ log' = log /\ ops' = ops
    BY <1>5 DEF tables
  <1> HIDE DEF e
  <1> DEFINE w == log[t] \o p
  <1>7. w \in Seq(Event) /\ Whole(c) = w
    BY <1>1, ConcatProperties DEF Whole
  <1>8. Whole(c)' = Append(w, e)
    BY <1>1, <1>2, <1>4, <1>6, ConcatAppend DEF Whole
  <1>9. Replays(w, txn[c].row.status) /\ FromReplay(w) /\ InTime(w) /\ Until(w, clock)
    BY <1>1, <1>7 DEF DraftIsSound, SoundHistory
  <1> HIDE DEF w
  <1>10. \A i \in DOMAIN w : w[i].at < e.at
    <2> SUFFICES ASSUME NEW i \in DOMAIN w PROVE w[i].at < e.at
      OBVIOUS
    <2>1. w[i].at <= clock /\ w[i].at \in Nat
      BY <1>7, <1>9, EventShape DEF Until
    <2> QED BY <2>1, <1>1, <1>2
  <1>11. row.status = IF e.kind \in StatusKinds THEN StatusGiven(e) ELSE txn[c].row.status
    BY <1>2 DEF StatusKinds, StatusGiven
  <1>12. /\ Replays(Append(w, e), row.status) /\ FromReplay(Append(w, e))
         /\ InTime(Append(w, e)) /\ Until(Append(w, e), e.at)
    BY <1>2, <1>7, <1>9, <1>10, <1>11, AppendIsSound
  <1>13. SoundHistory(Whole(c), txn[c].row.status)'
    BY <1>1, <1>2, <1>4, <1>8, <1>12 DEF SoundHistory
  <1>14. TrueIn(req[c], txn[c].res, Whole(c))'
    <2>1. TrueIn(req[c], txn[c].res, w)
      BY <1>1, <1>7 DEF DraftIsSound
    <2>2. <<e>> \in Seq(Event) /\ w \o <<e>> = Append(w, e)
      BY <1>2, <1>7, ConcatAppend
    <2>3. TrueIn(req[c], txn[c].res, Append(w, e))
      BY <2>1, <2>2, <1>7, TrueInLonger
    <2> QED BY <2>3, <1>4, <1>5, <1>8 DEF TrueIn
  <1>15. /\ 1 \in DOMAIN p /\ txn'[c].pend[1] = p[1] /\ txn'[c].pend # <<>>
         /\ \A k \in DOMAIN txn'[c].pend : k > 1 => txn'[c].pend[k].op = External
    <2>1. p # <<>> /\ p[1].op = req[c].op /\ \A k \in DOMAIN p : k > 1 => p[k].op = External
      BY <1>1 DEF DraftIsSound
    <2>2. 1 \in DOMAIN p
      BY <2>1, <1>1, EmptySeq, LenProperties
    <2>3. /\ DOMAIN Append(p, e) = 1 .. Len(p) + 1 /\ DOMAIN p = 1 .. Len(p) /\ Len(p) \in Nat
          /\ (\A i \in DOMAIN p : Append(p, e)[i] = p[i]) /\ Append(p, e)[Len(p) + 1] = e
      BY <1>1, <1>2, AppendKeeps
    <2>4. \A k \in DOMAIN Append(p, e) : k \in DOMAIN p \/ k = Len(p) + 1
      BY <2>3
    <2>5. Append(p, e) # <<>>
      BY <1>1, <1>2
    <2> QED BY <2>1, <2>2, <2>3, <2>4, <2>5, <1>2, <1>4
  <1>16. DraftIsSound(c)'
    BY <1>1, <1>4, <1>5, <1>6, <1>13, <1>14, <1>15 DEF DraftIsSound, Recorded
  <1>17. KnewTheVersion(c)'
    BY <1>1, <1>5, <1>6 DEF HInv, KnewTheVersion, NamesAReachedVersion, Waiting, Exists
  <1>18. \A d \in Calls \ {c} : pc[d] = "automate" => req'[c].op # req[d].op
    BY <1>1, <1>5 DEF DraftIsSound
  <1> QED BY <1>1, <1>4, <1>5, <1>15, <1>16, <1>17, <1>18, QuietStepKeepsHInv

LEMMA FireStatusRuleKeepsHInv ==
  ASSUME IInv, IInv', HInv, NEW c \in Calls, FireStatusRule(c)
  PROVE  HInv'
  <1>1. FiringRule(c) /\ NextRule(c).arg \in Status
    BY NextRuleShape DEF IInv, TypeOK, FireStatusRule
  <1>2. txn[c].row \in Row
    BY <1>1 DEF IInv, CallInv, BaseCall, FiringRule, Draft, BaseDraft
  <1>3. txn[c].row.status \in Values /\ "status_changed" \in Kinds
    BY <1>2 DEF Row, Values, Kinds
  <1> DEFINE row == [Bumped(txn[c].row) EXCEPT !.status = NextRule(c).arg]
  <1>4. row \in Row
    BY <1>1, <1>2, BumpedRow
  <1>5. row.status = NextRule(c).arg
    BY <1>2 DEF Bumped, Row
  <1>6. RuleWrites(c, "status_changed", txn[c].row.status, row)
    BY DEF FireStatusRule
  <1> HIDE DEF row
  <1> QED BY <1>1, <1>3, <1>4, <1>5, <1>6, RuleWritesKeepsHInv

LEMMA FireAssigneeRuleKeepsHInv ==
  ASSUME IInv, IInv', HInv, NEW c \in Calls, FireAssigneeRule(c)
  PROVE  HInv'
  <1>1. FiringRule(c) /\ NextRule(c).arg \in Assignee
    BY NextRuleShape DEF IInv, TypeOK, FireAssigneeRule
  <1>2. txn[c].row \in Row
    BY <1>1 DEF IInv, CallInv, BaseCall, FiringRule, Draft, BaseDraft
  <1>3. txn[c].row.assignee \in Values /\ "assigned" \in Kinds
    BY <1>2 DEF Row, Values, Kinds, Assignee
  <1> DEFINE row == [Bumped(txn[c].row) EXCEPT !.assignee = NextRule(c).arg]
  <1>4. row \in Row
    BY <1>1, <1>2, BumpedRow
  <1>5. row.status = txn[c].row.status
    BY <1>2 DEF Bumped, Row
  <1>6. RuleWrites(c, "assigned", txn[c].row.assignee, row)
    BY DEF FireAssigneeRule
  <1> HIDE DEF row
  <1> QED BY <1>1, <1>3, <1>4, <1>5, <1>6, RuleWritesKeepsHInv

(***************************************************************************)
(* The commit                                                              *)
(***************************************************************************)

\* What the commit of c does and finds: task t, its events p and the response.
Commits(c, t, p, res) ==
    /\ t = txn[c].task /\ p = txn[c].pend /\ res = txn[c].res
    /\ rowLock[t] = c /\ pc[c] = "automate" /\ DraftIsSound(c) /\ req[c].op \in Ops
    /\ rows'[t] = txn[c].row /\ log'[t] = Whole(c)
    /\ \A u \in Tasks \ {t} : rows'[u] = rows[u] /\ log'[u] = log[u]
    /\ ops'[req[c].op] = [req |-> req[c], res |-> res, expired |-> FALSE]
    /\ \A o \in Ops \ {req[c].op} : ops'[o] = ops[o]
    /\ pc'[c] = "answered" /\ answer'[c] = [outcome |-> "ok", res |-> res]
    /\ req' = req /\ clock' = clock
    /\ \A d \in Calls \ {c} : pc'[d] = pc[d] /\ txn'[d] = txn[d] /\ answer'[d] = answer[d]

LEMMA CommitShape ==
  ASSUME IInv, HInv, NEW c \in Calls, Commit(c)
  PROVE  \E t \in Tasks, p \in Seq(Event), res \in Response : Commits(c, t, p, res)
  <1> DEFINE t == txn[c].task
             p == txn[c].pend
             res == txn[c].res
  <1>1. Draft(c) /\ pc[c] = "automate" /\ DraftIsSound(c) /\ req[c].op \in Ops
        /\ txn[c].pend \in Seq(Event)
    BY RequestShape DEF Commit, IInv, CallInv, BaseCall, HInv, TypeOK, Txn
  <1>2. rows' = [rows EXCEPT ![t] = txn[c].row] /\ log' = [log EXCEPT ![t] = Whole(c)]
    BY DEF Commit, Whole
  <1>3. /\ rows'[t] = txn[c].row /\ log'[t] = Whole(c)
        /\ \A u \in Tasks \ {t} : rows'[u] = rows[u] /\ log'[u] = log[u]
    BY <1>1, <1>2 DEF IInv, TypeOK, Draft, BaseDraft
  <1>4. /\ pc'[c] = "answered" /\ answer'[c] = [outcome |-> "ok", res |-> txn[c].res]
        /\ req' = req /\ clock' = clock
        /\ \A d \in Calls \ {c} :
              pc'[d] = pc[d] /\ txn'[d] = txn[d] /\ answer'[d] = answer[d]
    BY DEF Commit, Answer, IInv, TypeOK
  <1>5. /\ ops'[req[c].op] = [req |-> req[c], res |-> txn[c].res, expired |-> FALSE]
        /\ \A o \in Ops \ {req[c].op} : ops'[o] = ops[o]
    BY <1>1 DEF Commit, IInv, TypeOK
  <1>6. t \in Tasks /\ p \in Seq(Event) /\ rowLock[t] = c /\ res \in Response
    BY <1>1 DEF Draft, BaseDraft
  <1>7. Commits(c, t, p, res)
    BY <1>1, <1>3, <1>4, <1>5, <1>6 DEF Commits
  <1> HIDE DEF t, p, res
  <1> QED BY <1>6, <1>7

\* The log of the task goes on, so that nothing said of its past changes.
LEMMA CommitKeepsThePast ==
  ASSUME IInv, IInv', HInv, NEW c \in Calls, Commit(c)
  PROVE  /\ \A t \in Tasks : \A i \in DOMAIN log[t] : i \in DOMAIN log'[t] /\ log'[t][i] = log[t][i]
         /\ \A q, r : r.task \in Tasks /\ TrueIn(q, r, log[r.task]) => TrueIn(q, r, log'[r.task])
  <1>0. PICK t \in Tasks, p \in Seq(Event), res \in Response : Commits(c, t, p, res)
    BY CommitShape
  <1>1. /\ log[t] \in Seq(Event) /\ log'[t] = log[t] \o p
        /\ \A u \in Tasks \ {t} : log'[u] = log[u]
    BY <1>0 DEF Commits, Whole, IInv, TypeOK
  <1>2. \A u \in Tasks : \A i \in DOMAIN log[u] : i \in DOMAIN log'[u] /\ log'[u][i] = log[u][i]
    <2> SUFFICES ASSUME NEW u \in Tasks, NEW i \in DOMAIN log[u]
                 PROVE  i \in DOMAIN log'[u] /\ log'[u][i] = log[u][i]
      OBVIOUS
    <2>1. CASE u = t
      <3>1. i \in DOMAIN (log[t] \o p) /\ (log[t] \o p)[i] = log[t][i]
        BY <2>1, <1>1, ConcatKeeps
      <3> QED BY <3>1, <2>1, <1>1
    <2>2. CASE u # t
      BY <2>2, <1>1
    <2> QED BY <2>1, <2>2
  <1>3. ASSUME NEW q, NEW r, r.task \in Tasks, TrueIn(q, r, log[r.task])
        PROVE  TrueIn(q, r, log'[r.task])
    <2>1. CASE r.task = t
      <3>1. TrueIn(q, r, log[t] \o p)
        BY <2>1, <1>1, <1>3, TrueInLonger
      <3> QED BY <3>1, <2>1, <1>1
    <2>2. CASE r.task # t
      BY <2>2, <1>1, <1>3
    <2> QED BY <2>1, <2>2
  <1> QED BY <1>2, <1>3

\* A version that a call was told of is below what is committed after it.
LEMMA CommitKeepsKnowledge ==
  ASSUME IInv, IInv', HInv, NEW c \in Calls, Commit(c), NEW d \in Calls \ {c}
  PROVE  KnewTheVersion(d)'
  <1>c. PICK t \in Tasks, p \in Seq(Event), res \in Response : Commits(c, t, p, res)
    BY CommitShape
  <1>0. PICK u : u = req[d].task
    OBVIOUS
  <1>1. /\ t \in Tasks /\ rowLock[t] = c /\ pc[c] = "automate"
        /\ rows'[t] = txn[c].row /\ log'[t] = log[t] \o p /\ req' = req /\ clock' = clock
        /\ (\A x \in Tasks \ {t} : rows'[x] = rows[x] /\ log'[x] = log[x])
        /\ (\A e \in Calls \ {c} : pc'[e] = pc[e] /\ txn'[e] = txn[e])
        /\ pc'[c] = "answered" /\ p \in Seq(Event) /\ p # <<>>
    BY <1>c DEF Commits, Whole, DraftIsSound
  <1>2. /\ Len(p) \in Nat /\ Len(p) >= 1 /\ log[t] \in Seq(Event) /\ Len(log[t]) \in Nat
        /\ DOMAIN p = 1 .. Len(p) /\ DOMAIN log[t] = 1 .. Len(log[t])
    BY <1>1, EmptySeq, LenProperties DEF IInv, TypeOK
  <1>3. /\ txn[c].row.version = Len(log[t]) + Len(p) /\ txn[c].row \in Row
        /\ Exists(t)' /\ (Exists(t) => rows[t].version = Len(log[t])) /\ (~Exists(t) => log[t] = <<>>)
    <2>1. Draft(c)
      BY <1>1 DEF IInv, CallInv
    <2> QED BY <2>1, <1>c, <1>1, RowIsNotNoRow DEF Commits, Draft, BaseDraft, IInv, VersionCountsEvents, Exists
  <1>4. KnewTheVersion(d) /\ (pc[d] # "idle" => req[d] \in Request)
    BY DEF HInv, IInv, CallInv, BaseCall
  <1>5. pc[d] # "idle" => req[d].ifMatch \in Nat /\ (req[d].verb # "create" => u \in Tasks)
    BY <1>0, <1>4, RequestShape
  <1>6. ASSUME pc[d] # "idle", req[d].verb # "create", u = t
        PROVE  req[d].ifMatch <= IF Exists(t) THEN Len(log[t]) ELSE 1
    BY <1>0, <1>3, <1>4, <1>6 DEF KnewTheVersion, NamesAReachedVersion
  <1>7. pc[d] # "idle" => NamesAReachedVersion(d)'
    <2> SUFFICES ASSUME pc[d] # "idle" PROVE NamesAReachedVersion(d)'
      OBVIOUS
    <2>1. NamesAReachedVersion(d)
      BY <1>4 DEF KnewTheVersion
    <2>2. CASE req[d].verb = "create"
      BY <2>1, <2>2, <1>1 DEF NamesAReachedVersion
    <2>3. CASE req[d].verb # "create" /\ u # t
      BY <1>0, <2>1, <2>3, <1>1, <1>5 DEF NamesAReachedVersion, Exists
    <2>4. CASE req[d].verb # "create" /\ u = t
      <3>1. req[d].ifMatch <= rows'[t].version
        BY <2>4, <1>1, <1>2, <1>3, <1>5, <1>6
      <3> QED BY <1>0, <3>1, <2>4, <1>1, <1>3 DEF NamesAReachedVersion
    <2> QED BY <2>2, <2>3, <2>4
  <1>8. pc[d] \in Waiting /\ req[d].verb # "create" => CameAfterTheVersion(d)'
    <2> SUFFICES ASSUME pc[d] \in Waiting, req[d].verb # "create" PROVE CameAfterTheVersion(d)'
      OBVIOUS
    <2>1. CameAfterTheVersion(d) /\ pc[d] # "idle" /\ u \in Tasks
      BY <1>0, <1>4, <1>5 DEF KnewTheVersion, Waiting
    <2>2. ASSUME NEW i \in DOMAIN log'[u], i <= req[d].ifMatch
          PROVE  log'[u][i].at < txn[d].now
      <3>1. CASE u # t
        BY <1>0, <2>1, <2>2, <3>1, <1>1 DEF CameAfterTheVersion
      <3>2. CASE u = t /\ Exists(t)
        <4>1. i \in 1 .. Len(log[t])
          BY <2>1, <2>2, <3>2, <1>1, <1>2, <1>5, <1>6, ConcatKeeps
        <4>2. log'[u][i] = log[t][i]
          BY <4>1, <3>2, <1>1, <1>2, ConcatKeeps
        <4> QED BY <1>0, <4>1, <4>2, <2>1, <2>2, <3>2, <1>2 DEF CameAfterTheVersion
      <3>3. CASE u = t /\ ~Exists(t)
        <4>1. log'[u] = p
          BY <3>3, <1>1, <1>3, ConcatEmptySeq
        <4>2. i = 1
          BY <4>1, <2>1, <2>2, <3>3, <1>2, <1>5, <1>6
        <4>3. txn[c].task = t /\ txn[c].pend = p
          BY <1>c DEF Commits
        <4>4. p[1].at < txn[d].now
          BY <1>0, <2>1, <3>3, <4>3, <1>1 DEF CameAfterTheVersion
        <4> QED BY <4>1, <4>2, <4>4
      <3> QED BY <3>1, <3>2, <3>3
    <2>3. ASSUME NEW e \in Calls, pc'[e] = "automate", txn'[e].task = u, ~Exists(u)'
          PROVE  txn'[e].pend[1].at < txn[d].now
      <3>1. e # c /\ u # t
        BY <2>3, <1>1, <1>3
      <3>2. pc[e] = "automate" /\ txn'[e] = txn[e] /\ ~Exists(u)
        BY <2>1, <2>3, <3>1, <1>1 DEF Exists
      <3> QED BY <1>0, <2>1, <2>3, <3>2 DEF CameAfterTheVersion
    <2> QED BY <1>0, <2>2, <2>3, <1>1 DEF CameAfterTheVersion
  <1>9. pc[d] \in Waiting \ {"lock"} /\ req[d].verb # "create" =>
           rows'[u].version = req[d].ifMatch
    <2> SUFFICES ASSUME pc[d] \in Waiting \ {"lock"}, req[d].verb # "create"
                 PROVE  rows'[u].version = req[d].ifMatch
      OBVIOUS
    <2>1. Snapshot(d) /\ pc[d] # "idle"
      BY DEF IInv, CallInv, BaseCall, Waiting
    <2>2. u # t /\ u \in Tasks
      BY <1>0, <2>1, <1>1, <1>5 DEF Snapshot
    <2> QED BY <1>0, <2>2, <1>1, <1>4 DEF KnewTheVersion
  <1> QED BY <1>0, <1>1, <1>4, <1>7, <1>8, <1>9 DEF KnewTheVersion, Waiting

LEMMA CommitKeepsHInv ==
  ASSUME IInv, IInv', HInv, NEW c \in Calls, Commit(c)
  PROVE  HInv'
  <1>c. PICK t \in Tasks, p \in Seq(Event), res \in Response : Commits(c, t, p, res)
    BY CommitShape
  <1>n. PICK n : n = Len(log[t])
    OBVIOUS
  <1>0. t = txn[c].task /\ res = txn[c].res /\ n = Len(log[t])
    BY <1>c, <1>n DEF Commits
  <1>1. /\ t \in Tasks /\ rowLock[t] = c /\ pc[c] = "automate" /\ DraftIsSound(c)
        /\ rows'[t] = txn[c].row /\ log'[t] = Whole(c) /\ req' = req /\ clock' = clock
        /\ (\A u \in Tasks \ {t} : rows'[u] = rows[u] /\ log'[u] = log[u])
        /\ (\A d \in Calls \ {c} : pc'[d] = pc[d] /\ txn'[d] = txn[d] /\ answer'[d] = answer[d])
        /\ pc'[c] = "answered" /\ answer'[c] = [outcome |-> "ok", res |-> res]
        /\ res \in Response /\ req[c].op \in Ops /\ txn[c].pend \in Seq(Event)
    BY <1>c DEF Commits
  <1>2. /\ ops'[req[c].op] = [req |-> req[c], res |-> res, expired |-> FALSE]
        /\ \A o \in Ops \ {req[c].op} : ops'[o] = ops[o]
    BY <1>c DEF Commits
  <1>3. /\ res.task = t /\ TrueIn(req[c], res, Whole(c)) /\ n = req[c].ifMatch
        /\ res.row.version = n + 1 /\ SoundHistory(Whole(c), txn[c].row.status)
    BY <1>0, <1>1 DEF DraftIsSound, TrueIn
  <1>4. log[t] \in Seq(Event) /\ n \in Nat /\ DOMAIN log[t] = 1 .. n
    BY <1>0, <1>1, LenProperties DEF IInv, TypeOK
  <1>5. ASSUME NEW u \in Tasks PROVE TaskIsSound(u)'
    <2>1. CASE u = t
      BY <2>1, <1>1, <1>3 DEF TaskIsSound, SoundHistory
    <2>2. CASE u # t
      <3>1. rows'[u] = rows[u] /\ log'[u] = log[u]
        BY <2>2, <1>1
      <3> QED BY <3>1, <1>1 DEF HInv, TaskIsSound, SoundHistory, Exists
    <2> QED BY <2>1, <2>2
  <1>6. TrueIn(req[c], res, log'[res.task])
    BY <1>1, <1>3
  <1>7. ASSUME NEW o \in Ops PROVE ReceiptIsTrue(o)'
    <2>1. CASE o = req[c].op
      <3>1. ops'[o].req = req[c] /\ ops'[o].res = res
        BY <2>1, <1>2
      <3> QED BY <3>1, <2>1, <1>6 DEF ReceiptIsTrue, TrueOf, TrueIn
    <2>2. CASE o # req[c].op
      <3>1. ops'[o] = ops[o]
        BY <2>2, <1>2
      <3>2. Recorded(o) => ops[o].res.task \in Tasks
        BY DEF Recorded, IInv, TypeOK, Receipt, Response
      <3>3. Recorded(o) => ops[o].req.op = o /\ TrueOf(ops[o].req, ops[o].res)
        BY DEF HInv, ReceiptIsTrue
      <3>4. Recorded(o) => TrueIn(ops[o].req, ops[o].res, log'[ops[o].res.task])
        <4>1. Recorded(o) => TrueIn(ops[o].req, ops[o].res, log[ops[o].res.task])
          BY <3>3, TrueOfIsTrueIn
        <4> QED BY <4>1, <3>2, CommitKeepsThePast
      <3> QED BY <3>1, <3>3, <3>4 DEF ReceiptIsTrue, Recorded, TrueOf, TrueIn
    <2> QED BY <2>1, <2>2
  <1>8. ASSUME NEW d \in Calls PROVE AnswerIsTrue(d)'
    <2>1. CASE d = c
      <3>1. answer'[c].res = res
        BY <1>1
      <3> QED BY <2>1, <1>1, <3>1, <1>6 DEF AnswerIsTrue, TrueOf, TrueIn
    <2>2. CASE d # c
      <3>1. answer'[d] = answer[d] /\ pc'[d] = pc[d]
        BY <2>2, <1>1
      <3>2. answer[d].outcome = "ok" =>
               /\ pc[d] = "answered" /\ answer[d].res \in Response /\ answer[d].res.task \in Tasks
               /\ TrueOf(req[d], answer[d].res)
        BY DEF HInv, AnswerIsTrue, Response
      <3>3. answer[d].outcome = "ok" => TrueIn(req[d], answer[d].res, log'[answer[d].res.task])
        <4>1. answer[d].outcome = "ok" => TrueIn(req[d], answer[d].res, log[answer[d].res.task])
          BY <3>2, TrueOfIsTrueIn
        <4> QED BY <4>1, <3>2, CommitKeepsThePast
      <3> QED BY <3>1, <3>2, <3>3, <1>1 DEF AnswerIsTrue, TrueOf, TrueIn
    <2> QED BY <2>1, <2>2
  <1>9. OneResponsePerPlace'
    <2>1. Told' \subseteq Told \cup {res}
      <3> SUFFICES ASSUME NEW x \in Told' PROVE x \in Told \cup {res}
        OBVIOUS
      <3>1. CASE \E o \in Ops : Recorded(o)' /\ x = ops'[o].res
        BY <3>1, <1>2 DEF Told, Recorded
      <3>2. CASE \E d \in Calls : answer'[d].outcome = "ok" /\ x = answer'[d].res
        BY <3>2, <1>1 DEF Told
      <3> QED BY <3>1, <3>2 DEF Told
    <2>2. ASSUME NEW x \in Told PROVE Place(x) # Place(res)
      <3>1. x.row.version \in DOMAIN log[x.task]
        BY DEF Told, HInv, ReceiptIsTrue, AnswerIsTrue, TrueOf
      <3>2. x.task = t => x.row.version # n + 1
        BY <3>1, <1>4
      <3> QED BY <3>2, <1>3 DEF Place
    <2> QED BY <2>1, <2>2 DEF HInv, OneResponsePerPlace, Place
  <1>10. EventsHaveAuthors'
    <2> SUFFICES ASSUME NEW u \in Tasks, NEW i \in DOMAIN log'[u], log'[u][i].op # External
                 PROVE  \E d \in Calls : Author(d, u, i)'
      BY DEF EventsHaveAuthors
    <2>1. CASE i \in DOMAIN log[u]
      <3>1. log'[u][i] = log[u][i]
        BY <2>1, CommitKeepsThePast
      <3>2. PICK d \in Calls : Author(d, u, i)
        BY <2>1, <3>1 DEF HInv, EventsHaveAuthors
      <3> QED BY <3>1, <3>2, <1>1 DEF Author
    <2>2. CASE i \notin DOMAIN log[u]
      <3>1. u = t
        BY <2>2, <1>1
      <3>0. p = txn[c].pend
        BY <1>c DEF Commits
      <3>2. /\ p[1].op = req[c].op /\ \A k \in DOMAIN p : k > 1 => p[k].op = External
        BY <3>0, <1>1 DEF DraftIsSound
      <3>3. /\ log'[u] = log[t] \o p /\ DOMAIN log'[u] = 1 .. n + Len(p) /\ Len(p) \in Nat
            /\ DOMAIN p = 1 .. Len(p)
            /\ \A k \in DOMAIN p : log'[u][n + k] = p[k]
        <4>1. log'[u] = log[t] \o p
          BY <3>0, <3>1, <1>0, <1>1 DEF Whole
        <4>2. p \in Seq(Event) /\ Len(p) \in Nat /\ DOMAIN p = 1 .. Len(p)
          BY <3>0, <1>1, LenProperties
        <4>3. DOMAIN (log[t] \o p) = 1 .. n + Len(p)
              /\ \A k \in DOMAIN p : (log[t] \o p)[n + k] = p[k]
          BY <4>2, <1>0, <1>4, ConcatKeeps
        <4> QED BY <4>1, <4>2, <4>3
      <3>4. i - n \in DOMAIN p /\ n + (i - n) = i
        <4>1. i \in 1 .. n + Len(p) /\ ~(i \in 1 .. n)
          BY <2>2, <3>1, <3>3, <1>4
        <4> QED BY <4>1, <3>3, <1>4
      <3>5. log'[u][i] = p[i - n]
        BY <3>3, <3>4
      <3>6. i = n + 1
        BY <3>2, <3>4, <3>5, <3>3, <1>4
      <3>7. log'[u][i].op = req[c].op
        BY <3>2, <3>5, <3>6, <1>4
      <3>8. req[c].verb # "create" => req[c].task = t
        BY <1>3 DEF TrueIn
      <3>9. Author(c, u, i)'
        BY <3>1, <3>6, <3>7, <3>8, <1>1, <1>3 DEF Author
      <3> QED BY <3>9
    <2> QED BY <2>1, <2>2
  <1>11. ASSUME NEW d \in Calls PROVE KnewTheVersion(d)' /\ DraftIsSound(d)'
    <2>1. CASE d = c
      <3>1. NamesAReachedVersion(c)'
        <4>1. NamesAReachedVersion(c) /\ req[c] \in Request
          BY <1>1 DEF HInv, KnewTheVersion, IInv, CallInv, BaseCall
        <4>2. CASE req[c].verb = "create"
          BY <4>1, <4>2, <1>1 DEF NamesAReachedVersion
        <4>3. CASE req[c].verb # "create"
          <5>1. req[c].task = t
            BY <4>3, <1>3 DEF TrueIn
          <5>2. Draft(c) /\ Len(txn[c].pend) \in Nat
            BY <1>1, LenProperties DEF IInv, CallInv
          <5>3. Exists(t)' /\ rows'[t].version = n + Len(txn[c].pend)
            BY <5>2, <1>0, <1>1, RowIsNotNoRow DEF Draft, BaseDraft, Exists
          <5>4. req[c].ifMatch <= rows'[t].version
            BY <5>2, <5>3, <1>3, <1>4
          <5> QED BY <4>3, <5>1, <5>3, <5>4, <1>1 DEF NamesAReachedVersion
        <4> QED BY <4>2, <4>3
      <3> QED BY <3>1, <2>1, <1>1 DEF KnewTheVersion, DraftIsSound, Waiting
    <2>2. CASE d # c
      <3>1. KnewTheVersion(d)'
        BY <2>2, CommitKeepsKnowledge
      <3>2. DraftIsSound(d)'
        <4> SUFFICES ASSUME pc[d] = "automate" PROVE DraftIsSound(d)'
          BY <2>2, <1>1 DEF DraftIsSound
        <4>1. DraftIsSound(d) /\ Draft(d)
          BY DEF HInv, IInv, CallInv
        <4>2. txn[d].task \in Tasks \ {t} /\ req[d].op # req[c].op /\ req[d].op \in Ops
          BY <2>2, <4>1, <1>0, <1>1, RequestShape DEF Draft, BaseDraft, DraftIsSound, IInv, CallInv, BaseCall
        <4>3. log'[txn[d].task] = log[txn[d].task] /\ txn'[d] = txn[d] /\ ops'[req[d].op] = ops[req[d].op]
          BY <2>2, <4>2, <1>1, <1>2
        <4>4. Whole(d)' = Whole(d)
          BY <4>3 DEF Whole
        <4>5. SoundHistory(Whole(d), txn[d].row.status)'
          BY <4>1, <4>3, <4>4, <1>1 DEF DraftIsSound, SoundHistory
        <4>6. \A e \in Calls \ {d} : pc'[e] = "automate" => req'[e].op # req'[d].op
          BY <4>1, <1>1 DEF DraftIsSound
        <4> QED BY <4>1, <4>3, <4>4, <4>5, <4>6, <1>1 DEF DraftIsSound, Recorded
      <3> QED BY <3>1, <3>2
    <2> QED BY <2>1, <2>2
  <1> QED BY <1>5, <1>7, <1>8, <1>9, <1>10, <1>11 DEF HInv

(***************************************************************************)
(* The environment                                                         *)
(***************************************************************************)

\* A crash ends every call that was not answered, and commits nothing.
LEMMA CrashKeepsHInv ==
  ASSUME IInv, IInv', HInv, Crash
  PROVE  HInv'
  <1>1. /\ rows' = rows /\ log' = log /\ ops' = ops /\ clock' = clock /\ req' = req
        /\ clock \in Nat
    BY DEF Crash, Interrupted, tables, IInv, TypeOK
  <1>2. \A c \in Calls :
           /\ pc'[c] \in {"idle", "answered"} /\ (pc[c] = "idle" <=> pc'[c] = "idle")
           /\ \/ answer'[c].outcome = "lost"
              \/ answer'[c] = answer[c] /\ pc'[c] = pc[c]
    BY DEF Crash, Interrupted, InFlight
  <1>3. CommittedStays
    <2>1. \A c \in Calls : answer'[c].outcome = "ok" => answer'[c].res \in Told
      BY <1>2 DEF Told
    <2>2. \A c \in Calls : pc[c] # "idle" => pc'[c] # "idle" /\ req'[c] = req[c]
      BY <1>1, <1>2
    <2> QED BY <1>1, <2>1, <2>2 DEF CommittedStays, Recorded
  <1>4. ASSUME NEW c \in Calls PROVE KnewTheVersion(c)' /\ DraftIsSound(c)' /\ AnswerIsTrue(c)'
    <2>1. pc[c] # "idle" => NamesAReachedVersion(c)
      BY DEF HInv, KnewTheVersion
    <2>2. pc'[c] # "idle" => NamesAReachedVersion(c)'
      BY <2>1, <1>1, <1>2 DEF NamesAReachedVersion, Exists
    <2>3. KnewTheVersion(c)' /\ DraftIsSound(c)'
      BY <2>2, <1>2 DEF KnewTheVersion, DraftIsSound, Waiting
    <2>4. AnswerIsTrue(c)'
      BY <1>1, <1>2 DEF HInv, AnswerIsTrue, TrueOf
    <2> QED BY <2>3, <2>4
  <1> QED BY <1>3, <1>4, CommittedStaysSound DEF HInv

\* A step of the cron job or of somebody who configures rules: receipts at most
\* expire or disappear.
LEMMA SideStepKeepsHInv ==
  ASSUME IInv, IInv', HInv,
         \A o \in Ops : Recorded(o)' =>
            Recorded(o) /\ ops'[o].req = ops[o].req /\ ops'[o].res = ops[o].res,
         UNCHANGED <<rows, log, rowLock, clock, pc, req, txn, answer>>
  PROVE  HInv'
  <1>1. clock \in Nat
    BY DEF IInv, TypeOK
  <1>2. CommittedStays
    BY <1>1 DEF CommittedStays, Told
  <1>3. ASSUME NEW c \in Calls PROVE KnewTheVersion(c)' /\ DraftIsSound(c)' /\ AnswerIsTrue(c)'
    <2>1. KnewTheVersion(c) /\ DraftIsSound(c) /\ AnswerIsTrue(c)
      BY DEF HInv
    <2>2. KnewTheVersion(c)'
      BY <2>1 DEF KnewTheVersion, NamesAReachedVersion, CameAfterTheVersion, Exists
    <2>3. DraftIsSound(c)'
      <3> SUFFICES ASSUME pc[c] = "automate" PROVE DraftIsSound(c)'
        BY DEF DraftIsSound
      <3>1. req[c].op \in Ops
        BY RequestShape DEF IInv, CallInv, BaseCall
      <3>2. ~Recorded(req[c].op)'
        BY <2>1, <3>1 DEF DraftIsSound, Recorded
      <3> QED BY <2>1, <3>2 DEF DraftIsSound, Whole, SoundHistory
    <2>4. AnswerIsTrue(c)'
      BY <2>1 DEF AnswerIsTrue, TrueOf
    <2> QED BY <2>2, <2>3, <2>4
  <1> QED BY <1>2, <1>3, CommittedStaysSound DEF HInv

LEMMA ExpireKeepsHInv ==
  ASSUME IInv, IInv', HInv, NEW o \in Ops, Expire(o)
  PROVE  HInv'
  <1>1. ops[o] \in Receipt /\ ops' = [ops EXCEPT ![o] = [ops[o] EXCEPT !.expired = TRUE]]
    BY DEF Expire, Recorded, IInv, TypeOK
  <1>2. /\ [ops[o] EXCEPT !.expired = TRUE].req = ops[o].req
        /\ [ops[o] EXCEPT !.expired = TRUE].res = ops[o].res
    BY <1>1 DEF Receipt
  <1>3. \A p \in Ops : Recorded(p)' =>
           Recorded(p) /\ ops'[p].req = ops[p].req /\ ops'[p].res = ops[p].res
    BY <1>1, <1>2 DEF Expire, Recorded, IInv, TypeOK
  <1> QED BY <1>3, SideStepKeepsHInv DEF Expire

LEMMA PurgeKeepsHInv ==
  ASSUME IInv, IInv', HInv, Purge
  PROVE  HInv'
  <1>1. \A p \in Ops : Recorded(p)' =>
           Recorded(p) /\ ops'[p].req = ops[p].req /\ ops'[p].res = ops[p].res
    BY DEF Purge, Recorded
  <1> QED BY <1>1, SideStepKeepsHInv DEF Purge

LEMMA RuleConfigurationKeepsHInv ==
  ASSUME IInv, IInv', HInv, NEW r \in Rules, CreateAutomationRule(r) \/ DeleteAutomationRule(r)
  PROVE  HInv'
  <1>1. UNCHANGED <<rows, log, ops, rowLock, clock, pc, req, txn, answer>>
    BY DEF CreateAutomationRule, DeleteAutomationRule
  <1> QED BY <1>1, SideStepKeepsHInv DEF Recorded

(***************************************************************************)
(* Every step                                                              *)
(***************************************************************************)

LEMMA HandleKeepsHInv ==
  ASSUME IInv, IInv', HInv, NEW c \in Calls, Handle(c)
  PROVE  HInv'
  <1>1. CASE CheckHit(c) \/ RecheckHit(c)
    BY <1>1, ReceiptStepKeepsHInv DEF CheckHit, RecheckHit
  <1>2. CASE CheckMiss(c)
    BY <1>2, CheckMissKeepsHInv
  <1>3. CASE LockMissing(c)
    BY <1>3, AbortKeepsHInv, ObjectionsAreErrors DEF LockMissing
  <1>4. CASE LockRefused(c)
    BY <1>4, AbortKeepsHInv, ObjectionsAreErrors DEF LockRefused
  <1>5. CASE LockTask(c)
    BY <1>5, LockTaskKeepsHInv
  <1>6. CASE CheckDependencies(c)
    <2>1. CASE Abort(c, "dependencyNotResolved")
      BY <1>6, <2>1, AbortKeepsHInv, ObjectionsAreErrors DEF CheckDependencies
    <2>2. CASE ~Abort(c, "dependencyNotResolved")
      <3> DEFINE p == IF TargetStatus(req[c]) = "done" THEN "children" ELSE "write"
      <3>1. p \in {"children", "write"}
        OBVIOUS
      <3>2. /\ pc[c] \in {"deps", "children"} /\ pc' = [pc EXCEPT ![c] = p]
            /\ UNCHANGED <<tables, rowLock, clock, req, txn, answer>>
        BY <1>6, <2>2 DEF CheckDependencies
      <3> HIDE DEF p
      <3> QED BY <3>1, <3>2, PassedCheckKeepsHInv
    <2> QED BY <2>1, <2>2
  <1>7. CASE CheckChildren(c)
    <2>1. CASE Abort(c, "childrenNotDone")
      BY <1>7, <2>1, AbortKeepsHInv, ObjectionsAreErrors DEF CheckChildren
    <2>2. CASE ~Abort(c, "childrenNotDone")
      BY <1>7, <2>2, PassedCheckKeepsHInv DEF CheckChildren
    <2> QED BY <2>1, <2>2
  <1>8. CASE RefuseWrite(c)
    BY <1>8, AbortKeepsHInv, ObjectionsAreErrors DEF RefuseWrite
  <1>9. CASE \E t \in Tasks : CreateTask(c, t)
    BY <1>9, CreateTaskKeepsHInv
  <1>10. CASE WriteTask(c)
    BY <1>10, WriteTaskKeepsHInv
  <1>11. CASE FireStatusRule(c)
    BY <1>11, FireStatusRuleKeepsHInv
  <1>12. CASE FireAssigneeRule(c)
    BY <1>12, FireAssigneeRuleKeepsHInv
  <1>13. CASE RuleFails(c)
    BY <1>13, AbortKeepsHInv, ObjectionsAreErrors DEF RuleFails, FiringRule
  <1>14. CASE Commit(c)
    BY <1>14, CommitKeepsHInv
  <1>15. CASE RecheckMiss(c)
    BY <1>15, RecheckMissKeepsHInv
  <1> QED BY <1>1, <1>2, <1>3, <1>4, <1>5, <1>6, <1>7, <1>8, <1>9, <1>10,
             <1>11, <1>12, <1>13, <1>14, <1>15, Handle(c) DEF Handle

LEMMA NextKeepsHInv ==
  ASSUME IInv, IInv', HInv, [Next]_vars
  PROVE  HInv'
  <1>1. CASE \E c \in Calls, o \in Ops, b \in Bodies :
               \E v \in KnownVersions(b.task) : Submit(c, o, b, v)
    BY <1>1, SubmitKeepsHInv
  <1>2. CASE \E c \in Calls : Handle(c)
    BY <1>2, HandleKeepsHInv
  <1>3. CASE Crash
    BY <1>3, CrashKeepsHInv
  <1>4. CASE \E o \in Ops : Expire(o)
    BY <1>4, ExpireKeepsHInv
  <1>5. CASE Purge
    BY <1>5, PurgeKeepsHInv
  <1>6. CASE \E r \in Rules : CreateAutomationRule(r) \/ DeleteAutomationRule(r)
    BY <1>6, RuleConfigurationKeepsHInv
  <1>7. CASE UNCHANGED vars
    BY <1>7, SideStepKeepsHInv DEF vars, Recorded
  <1> QED BY <1>1, <1>2, <1>3, <1>4, <1>5, <1>6, <1>7 DEF Next

(***************************************************************************)
(* What the invariant says of operations                                   *)
(***************************************************************************)

LEMMA HInvGivesReplay == ASSUME IInv, HInv PROVE StatusIsReplayed
  <1> SUFFICES ASSUME NEW t \in Tasks, Exists(t)
               PROVE  /\ rows[t].status = StatusOf(log[t])
                      /\ \A i \in DOMAIN log[t] :
                           log[t][i].kind = "status_changed" =>
                              log[t][i].from = StatusOf(SubSeq(log[t], 1, i - 1))
    BY DEF StatusIsReplayed
  <1>1. Replays(log[t], rows[t].status) /\ FromReplay(log[t]) /\ log[t] \in Seq(Event)
    BY DEF HInv, TaskIsSound, SoundHistory, IInv, TypeOK
  <1>2. StatusOf(log[t]) = rows[t].status
    BY <1>1, ReplayIsStatusOf
  <1> QED BY <1>1, <1>2 DEF FromReplay

\* A place of the log has one author but for creations, and a retried operation
\* one request: so it has one place.
LEMMA HInvGivesOneEffect == ASSUME IInv, HInv PROVE RetriesApplyOnce
  <1> SUFFICES ASSUME NEW c \in Calls, req[c] # NoRequest, req[c].verb # "create",
                      OnlyRetried(req[c].op),
                      NEW x \in Effects(req[c].op), NEW y \in Effects(req[c].op)
               PROVE  x = y
    BY DEF RetriesApplyOnce
  <1>1. req[c] \in Request /\ req[c].op \in Ops /\ req[c].op # External
    <2>1. req[c] \in Request
      BY DEF IInv, TypeOK
    <2> QED BY <2>1, RequestShape, ConstantsAssumption
  <1>2. ASSUME NEW z \in Effects(req[c].op) PROVE z = <<req[c].task, req[c].ifMatch + 1>>
    <2>1. PICK t \in Tasks : z \in {<<t, i>> : i \in {j \in DOMAIN log[t] : log[t][j].op = req[c].op}}
      BY <1>2 DEF Effects
    <2>2. PICK i \in DOMAIN log[t] : log[t][i].op = req[c].op /\ z = <<t, i>>
      BY <2>1
    <2>3. PICK d \in Calls : Author(d, t, i)
      BY <1>1, <2>2 DEF HInv, EventsHaveAuthors
    <2>4. req[d] = req[c]
      BY <2>2, <2>3 DEF Author, OnlyRetried
    <2> QED BY <2>2, <2>3, <2>4 DEF Author
  <1> QED BY <1>2

LEMMA HInvGivesOneWinner == ASSUME IInv, HInv PROVE OneWinnerPerVersion
  <1> SUFFICES ASSUME NEW c \in Calls, NEW d \in Calls,
                      answer[c].outcome = "ok", answer[d].outcome = "ok", req[c].verb # "create",
                      req[c].task = req[d].task, req[c].ifMatch = req[d].ifMatch
               PROVE  req[c].op = req[d].op /\ answer[c].res = answer[d].res
    BY DEF OneWinnerPerVersion
  <1>1. TrueOf(req[c], answer[c].res) /\ TrueOf(req[d], answer[d].res)
        /\ req[c] \in Request /\ req[d] \in Request
    BY DEF HInv, AnswerIsTrue, IInv, CallInv, BaseCall
  <1>2. req[d].verb # "create"
    <2>1. req[c].task \in Tasks
      BY <1>1, RequestShape
    <2>2. req[d].verb = "create" => req[d].task = None
      BY <1>1 DEF Request, BodyOf, BodyShape, CreateBody, StatusBody, UpdateBody,
                  TransitionBody, PointsBody
    <2> QED BY <2>1, <2>2, ConstantsAssumption
  <1>3. Place(answer[c].res) = Place(answer[d].res)
    BY <1>1, <1>2 DEF TrueOf, Place
  <1>4. answer[c].res \in Told /\ answer[d].res \in Told
    BY DEF Told
  <1>5. answer[c].res = answer[d].res
    BY <1>3, <1>4 DEF HInv, OneResponsePerPlace
  <1> QED BY <1>1, <1>5 DEF TrueOf

LEMMA HInvGivesSerial == ASSUME IInv, HInv PROVE OperationsAreSerial
  <1>1. EventsInTimeOrder
    <2> SUFFICES ASSUME NEW t \in Tasks, NEW i \in DOMAIN log[t], NEW j \in DOMAIN log[t], i < j
                 PROVE  log[t][i].at <= log[t][j].at
      BY DEF EventsInTimeOrder
    <2>1. Exists(t)
      BY DEF IInv, VersionCountsEvents
    <2>2. log[t][i].at < log[t][j].at
      BY <2>1 DEF HInv, TaskIsSound, SoundHistory, InTime
    <2>3. PICK l \in Seq(Event) : l = log[t]
      BY DEF IInv, TypeOK
    <2>4. log[t][i].at \in Nat /\ log[t][j].at \in Nat
      <3>1. l[i] \in Event /\ l[j] \in Event
        BY <2>3
      <3> QED BY <2>3, <3>1 DEF Event
    <2> QED BY <2>2, <2>4
  <1>2. AnswersAreTrue
    BY DEF HInv, AnswerIsTrue, AnswersAreTrue
  <1> QED BY <1>1, <1>2, HInvGivesOneEffect, HInvGivesOneWinner DEF OperationsAreSerial

(***************************************************************************)
(* Theorems                                                                *)
(***************************************************************************)

\* The invariant about histories holds in every reachable state.
THEOREM AlwaysHInv == Spec => [](IInv /\ HInv)
  <1>1. Init => IInv /\ HInv
    BY InitEstablishesIInv, InitEstablishesHInv
  <1>2. IInv /\ HInv /\ [Next]_vars => IInv' /\ HInv'
    BY NextKeepsIInv, NextKeepsHInv
  <1> QED BY <1>1, <1>2, PTL DEF Spec

\* The status in a task's row is the one that replaying its events yields, and
\* every change of status names the one it started from, whatever verbs, rules,
\* crashes and retries there were.
THEOREM StatusReplayed == Spec => []StatusIsReplayed
  <1>1. IInv /\ HInv => StatusIsReplayed
    BY HInvGivesReplay
  <1> QED BY <1>1, AlwaysHInv, PTL

\* The verbs take effect one after the other: events commit in the order of their
\* created_at, a retried verb takes effect once, a response is true of the log,
\* and of the operations that saw one version one succeeds.
THEOREM OperationsSerial == Spec => []OperationsAreSerial
  <1>1. IInv /\ HInv => OperationsAreSerial
    BY HInvGivesSerial
  <1> QED BY <1>1, AlwaysHInv, PTL

(***************************************************************************)
(* The verbs implement TaskLedger: a commit applies its operation, the     *)
(* answer of a receipt tells it, the cron job expires and forgets, and     *)
(* nothing else that a handler, a crash or a rule does is seen.            *)
(***************************************************************************)

LEMMA InitIsLedgerInit == Init => Ledger!Init
  <1> SUFFICES ASSUME Init PROVE Ledger!Init
    OBVIOUS
  <1> DEFINE first == <<CreatedEvent(External, 0)>>
  <1>1. first[1].op = External /\ DOMAIN first = 1 .. 1
    BY DEF CreatedEvent
  <1>2. \A t \in Tasks : log[t] = IF t \in Seeded THEN first ELSE <<>>
    BY DEF Init
  <1> HIDE DEF first
  <1>3. ASSUME NEW t \in Tasks
        PROVE  /\ History[t] = IF t \in Seeded THEN <<External>> ELSE <<>>
               /\ Versions[t] = IF t \in Seeded THEN 1 ELSE 0
    <2>1. CASE t \in Seeded
      <3>1. History[t] = [i \in 1 .. 1 |-> External]
        BY <1>1, <1>2, <2>1 DEF History
      <3>2. rows[t] = [NewRow(None) EXCEPT !.parent = ParentOf[t]]
        BY <2>1 DEF Init
      <3>3. rows[t].version = 1 /\ rows[t] # NoRow
        <4>1. rows[t].version = 1
          BY <3>2 DEF NewRow
        <4>2. rows[t] \in Row \cup {NoRow} /\ rows[t].status = "todo"
          BY <3>2, InitEstablishesIInv DEF IInv, TypeOK, NewRow
        <4> QED BY <4>1, <4>2, ConstantsAssumption DEF NoRow, Status
      <3> QED BY <2>1, <3>1, <3>3 DEF Versions, Exists
    <2>2. CASE t \notin Seeded
      BY <2>2, <1>2 DEF History, Versions, Exists, Init
    <2> QED BY <2>1, <2>2
  <1>4. History \in [Tasks -> {<<>>, <<External>>}]
    <2>1. \A t \in Tasks : History[t] \in {<<>>, <<External>>}
      BY <1>3
    <2> QED BY <2>1 DEF History
  <1>5. Versions = [t \in Tasks |-> Len(History[t])]
    <2>1. ASSUME NEW t \in Tasks PROVE Versions[t] = Len(History[t])
      <3>1. CASE t \in Seeded
        <4>1. History[t] = <<External>> /\ Versions[t] = 1
          BY <3>1, <1>3
        <4>2. Len(<<External>>) = 1
          OBVIOUS
        <4> QED BY <4>1, <4>2
      <3>2. CASE t \notin Seeded
        <4>1. History[t] = <<>> /\ Versions[t] = 0
          BY <3>2, <1>3
        <4> QED BY <4>1
      <3> QED BY <3>1, <3>2
    <2> QED BY <2>1 DEF Versions
  <1>6. Receipts = [o \in Ops |-> NoReceipt]
    BY DEF Receipts, Recorded, Init
  <1>7. Successes = {}
    BY DEF Successes, Init
  <1> QED BY <1>4, <1>5, <1>6, <1>7 DEF Ledger!Init

\* Steps that write no table and tell no client of a success are not seen.
LEMMA QuietStepIsStutter ==
  ASSUME IInv, HInv, UNCHANGED <<rows, log, ops>>,
         \A c \in Calls :
            \/ answer[c].outcome # "ok" /\ answer'[c].outcome # "ok"
            \/ answer'[c] = answer[c] /\ req'[c] = req[c]
  PROVE  UNCHANGED Ledger!lvars
  <1>1. History' = History /\ Versions' = Versions /\ Receipts' = Receipts
    BY DEF History, Versions, Receipts, Exists, Recorded
  <1>2. Successes' = Successes
    BY DEF Successes
  <1> QED BY <1>1, <1>2 DEF Ledger!lvars

\* In particular those of one call that has not been answered.
LEMMA StepOfOneCallIsStutter ==
  ASSUME IInv, HInv, NEW c \in Calls, pc[c] # "answered", UNCHANGED <<rows, log, ops>>,
         answer'[c].outcome # "ok",
         \A d \in Calls \ {c} : answer'[d] = answer[d] /\ req'[d] = req[d]
  PROVE  UNCHANGED Ledger!lvars
  <1>1. answer[c].outcome # "ok"
    BY DEF HInv, AnswerIsTrue
  <1>2. \A d \in Calls :
           \/ answer[d].outcome # "ok" /\ answer'[d].outcome # "ok"
           \/ answer'[d] = answer[d] /\ req'[d] = req[d]
    BY <1>1
  <1> QED BY <1>2, QuietStepIsStutter

LEMMA AnswerIsTellOrStutter ==
  ASSUME IInv, HInv, NEW c \in Calls, pc[c] \notin {"idle", "answered"}, AnswerFromReceipt(c)
  PROVE  [Ledger!Next]_(Ledger!lvars)
  <1>1. /\ UNCHANGED <<rows, log, ops>> /\ req' = req
        /\ \A d \in Calls \ {c} : answer'[d] = answer[d] /\ req'[d] = req[d]
    BY DEF AnswerFromReceipt, Answer, tables, IInv, TypeOK
  <1>2. req[c].op \in Ops
    BY RequestShape DEF IInv, CallInv, BaseCall
  <1>3. CASE Answer(c, "operationExpired", NoResponse) \/ Answer(c, "idempotencyConflict", ops[req[c].op].res)
    <2>1. answer'[c].outcome # "ok"
      BY <1>3 DEF Answer, IInv, TypeOK
    <2> QED BY <2>1, <1>1, StepOfOneCallIsStutter
  <1>4. CASE Replayed(c) /\ Answer(c, "ok", ops[req[c].op].res)
    <2> DEFINE o == req[c].op
    <2>1. Recorded(o) /\ ~ops[o].expired
      BY <1>4 DEF Replayed, Gone, Seen, Recorded
    <2>2. answer'[c] = [outcome |-> "ok", res |-> ops[o].res]
      BY <1>4 DEF Answer, IInv, TypeOK
    <2>3. answer[c].outcome # "ok"
      BY DEF HInv, AnswerIsTrue
    <2>4. Receipts[o] = [place |-> Place(ops[o].res), live |-> ~ops[o].expired]
      BY <1>2, <2>1 DEF Receipts
    <2>5. Receipts[o] # NoReceipt
      <3>1. DOMAIN Receipts[o] = {"place", "live"} /\ DOMAIN NoReceipt = {"req"}
        BY <2>4 DEF NoReceipt
      <3> QED BY <3>1
    <2>6. Successes' = Successes \cup {<<o, Receipts[o].place>>}
      <3>1. Receipts[o].place = Place(ops[o].res)
        BY <2>4
      <3>2. ASSUME NEW z PROVE z \in Successes' <=> z \in Successes \/ z = <<o, Place(ops[o].res)>>
        <4>1. z \in Successes' <=>
                 \E d \in Calls : answer'[d].outcome = "ok" /\ z = <<req[d].op, Place(answer'[d].res)>>
          BY <1>1 DEF Successes, Place
        <4>2. z \in Successes <=>
                 \E d \in Calls : answer[d].outcome = "ok" /\ z = <<req[d].op, Place(answer[d].res)>>
          BY DEF Successes
        <4> QED BY <4>1, <4>2, <1>1, <2>2, <2>3
      <3> QED BY <3>1, <3>2
    <2>7. History' = History /\ Versions' = Versions /\ Receipts' = Receipts
      BY <1>1 DEF History, Versions, Receipts, Exists, Recorded
    <2>8. Receipts[o].live
      <3>1. (~ops[o].expired) = TRUE
        BY <2>1
      <3>2. Receipts[o] = [place |-> Place(ops[o].res), live |-> TRUE]
        BY <2>4, <3>1
      <3>3. Receipts[o].live = TRUE
        BY <3>2
      <3> QED BY <3>3
    <2>9. Ledger!Tell(o)
      BY <2>5, <2>6, <2>7, <2>8 DEF Ledger!Tell
    <2> QED BY <2>9, <1>2 DEF Ledger!Next
  <1> QED BY <1>3, <1>4 DEF AnswerFromReceipt

LEMMA CommitIsApply ==
  ASSUME IInv, IInv', HInv, NEW c \in Calls, Commit(c)
  PROVE  Ledger!Next
  <1>1. PICK t \in Tasks, p \in Seq(Event), res \in Response : Commits(c, t, p, res)
    BY CommitShape
  <1>2. PICK o, n : o = req[c].op /\ n = Len(log[t])
    OBVIOUS
  <1>3. /\ t = txn[c].task /\ p = txn[c].pend /\ res = txn[c].res
        /\ pc[c] = "automate" /\ DraftIsSound(c) /\ o \in Ops /\ req' = req
        /\ rows'[t] = txn[c].row /\ log'[t] = log[t] \o p
        /\ (\A u \in Tasks \ {t} : rows'[u] = rows[u] /\ log'[u] = log[u])
        /\ ops'[o] = [req |-> req[c], res |-> res, expired |-> FALSE]
        /\ (\A q \in Ops \ {o} : ops'[q] = ops[q])
        /\ answer'[c] = [outcome |-> "ok", res |-> res]
        /\ (\A d \in Calls \ {c} : answer'[d] = answer[d])
    BY <1>1, <1>2 DEF Commits, Whole
  <1>4. /\ log[t] \in Seq(Event) /\ n \in Nat /\ DOMAIN log[t] = 1 .. n
        /\ Len(p) \in Nat /\ DOMAIN p = 1 .. Len(p)
    BY <1>2, LenProperties DEF IInv, TypeOK
  <1>5. /\ p # <<>> /\ p[1].op = o /\ (\A k \in DOMAIN p : k > 1 => p[k].op = External)
        /\ ~Recorded(o) /\ res.task = t /\ res.row.version = n + 1
    BY <1>2, <1>3 DEF DraftIsSound, TrueIn
  <1>6. Len(p) >= 1
    BY <1>4, <1>5, EmptySeq
  <1>7. Place(res) = <<t, n + 1>>
    BY <1>5 DEF Place
  <1>8. /\ History[t] = [i \in 1 .. n |-> log[t][i].op] /\ Len(History[t]) = n
        /\ DOMAIN History[t] = 1 .. n
    <2>1. History[t] = [i \in 1 .. n |-> log[t][i].op]
      BY <1>4 DEF History
    <2> HIDE DEF History
    <2> QED BY <2>1, <1>4
  <1>9. /\ DOMAIN log'[t] = 1 .. n + Len(p)
        /\ (\A i \in 1 .. n : log'[t][i] = log[t][i])
        /\ (\A i \in DOMAIN p : log'[t][n + i] = p[i])
    <2>1. /\ DOMAIN (log[t] \o p) = 1 .. n + Len(p)
          /\ (\A i \in 1 .. n : (log[t] \o p)[i] = log[t][i])
          /\ (\A i \in DOMAIN p : (log[t] \o p)[n + i] = p[i])
      BY <1>2, <1>4, ConcatKeeps
    <2> QED BY <2>1, <1>3
  <1>10. /\ History'[t] = [i \in 1 .. n + Len(p) |-> log'[t][i].op]
         /\ Len(History'[t]) = n + Len(p)
    <2>1. History'[t] = [i \in 1 .. n + Len(p) |-> log'[t][i].op]
      BY <1>9 DEF History
    <2> HIDE DEF History
    <2> QED BY <2>1, <1>4
  <1>11. Ledger!Appends(History[t], History'[t], o)
    <2>1. Len(History'[t]) > Len(History[t])
      BY <1>4, <1>6, <1>8, <1>10
    <2>2. ASSUME NEW i \in 1 .. Len(History'[t])
          PROVE  History'[t][i] = IF i <= Len(History[t]) THEN History[t][i]
                                  ELSE IF i = Len(History[t]) + 1 THEN o ELSE External
      <3>1. i \in 1 .. n + Len(p) /\ History'[t][i] = log'[t][i].op
        BY <2>2, <1>10
      <3>2. CASE i <= n
        <4>1. i \in 1 .. n
          BY <3>1, <3>2, <1>4
        <4>2. History[t][i] = log[t][i].op /\ log'[t][i] = log[t][i]
          BY <4>1, <1>8, <1>9
        <4> QED BY <4>2, <3>1, <3>2, <1>8
      <3>3. CASE i > n
        <4>1. i - n \in DOMAIN p /\ n + (i - n) = i
          BY <3>1, <3>3, <1>4
        <4>2. log'[t][i] = p[i - n]
          BY <4>1, <1>9
        <4>3. p[i - n].op = IF i = n + 1 THEN o ELSE External
          BY <4>1, <3>3, <1>4, <1>5
        <4> QED BY <4>2, <4>3, <3>1, <3>3, <1>4, <1>8
      <3> QED BY <3>1, <3>2, <3>3, <1>4
    <2> QED BY <2>1, <2>2 DEF Ledger!Appends
  <1>12. \A u \in Tasks \ {t} : History'[u] = History[u]
    BY <1>3 DEF History
  <1>13. Versions' = [Versions EXCEPT ![t] = Len(History'[t])]
    <2>1. Draft(c)
      BY <1>3 DEF IInv, CallInv
    <2>2. txn[c].row.version = n + Len(p) /\ txn[c].row # NoRow
      BY <2>1, <1>2, <1>3, RowIsNotNoRow DEF Draft, BaseDraft
    <2>3. Versions'[t] = n + Len(p)
      BY <2>2, <1>3 DEF Versions, Exists
    <2>4. \A u \in Tasks \ {t} : Versions'[u] = Versions[u]
      BY <1>3 DEF Versions, Exists
    <2>5. Versions = [u \in Tasks |-> Versions[u]] /\ Versions' = [u \in Tasks |-> Versions'[u]]
      BY DEF Versions
    <2> HIDE DEF Versions
    <2> QED BY <2>3, <2>4, <2>5, <1>10
  <1>14. Receipts[o] = NoReceipt
    BY <1>3, <1>5 DEF Receipts
  <1>15. Receipts' = [Receipts EXCEPT ![o] = [place |-> <<t, n + 1>>, live |-> TRUE]]
    <2>1. Recorded(o)'
      <3>1. DOMAIN ops'[o] = {"req", "res", "expired"} /\ DOMAIN NoReceipt = {"req"}
        BY <1>3 DEF NoReceipt
      <3> QED BY <3>1, <1>2, <1>3 DEF Recorded
    <2>2. Receipts'[o] = [place |-> <<t, n + 1>>, live |-> TRUE]
      <3>1. Receipts'[o] = [place |-> Place(ops'[o].res), live |-> ~ops'[o].expired]
        BY <2>1, <1>3 DEF Receipts, Place
      <3>2. ops'[o].res = res /\ ops'[o].expired = FALSE
        BY <1>3
      <3>3. (~ops'[o].expired) = TRUE
        BY <3>2
      <3> QED BY <3>1, <3>2, <3>3, <1>7
    <2>3. \A q \in Ops \ {o} : Receipts'[q] = Receipts[q]
      BY <1>3 DEF Receipts, Recorded, Place
    <2>4. Receipts = [q \in Ops |-> Receipts[q]] /\ Receipts' = [q \in Ops |-> Receipts'[q]]
      BY DEF Receipts
    <2> HIDE DEF Receipts
    <2> QED BY <2>2, <2>3, <2>4, <1>3
  <1>16. Successes' = Successes \cup {<<o, <<t, n + 1>>>>}
    <2>1. answer[c].outcome # "ok"
      BY <1>3 DEF HInv, AnswerIsTrue
    <2>2. answer'[c].outcome = "ok" /\ Place(answer'[c].res) = <<t, n + 1>>
      BY <1>3, <1>7
    <2>3. ASSUME NEW z PROVE z \in Successes' <=> z \in Successes \/ z = <<o, <<t, n + 1>>>>
      <3>1. z \in Successes' <=>
               \E d \in Calls : answer'[d].outcome = "ok" /\ z = <<req[d].op, Place(answer'[d].res)>>
        BY <1>3 DEF Successes, Place
      <3>2. z \in Successes <=>
               \E d \in Calls : answer[d].outcome = "ok" /\ z = <<req[d].op, Place(answer[d].res)>>
        BY DEF Successes
      <3> QED BY <3>1, <3>2, <1>2, <1>3, <2>1, <2>2
    <2> QED BY <2>3
  <1>17. Ledger!Apply(o, t)
    BY <1>8, <1>11, <1>12, <1>13, <1>14, <1>15, <1>16 DEF Ledger!Apply
  <1> QED BY <1>17, <1>3 DEF Ledger!Next

LEMMA ExpireIsExpire ==
  ASSUME IInv, HInv, NEW o \in Ops, Expire(o)
  PROVE  Ledger!Next
  <1>1. /\ Recorded(o) /\ ~ops[o].expired /\ ops[o] \in Receipt
        /\ ops' = [ops EXCEPT ![o] = [ops[o] EXCEPT !.expired = TRUE]]
        /\ UNCHANGED <<rows, log, req, answer>>
    BY DEF Expire, Recorded, IInv, TypeOK
  <1>2. /\ ops'[o] \in Receipt /\ ops'[o].res = ops[o].res /\ ops'[o].expired = TRUE
        /\ (\A q \in Ops \ {o} : ops'[q] = ops[q])
    BY <1>1 DEF Receipt, IInv, TypeOK
  <1>3. Recorded(o)'
    BY <1>2, ReceiptIsNotNoReceipt DEF Recorded
  <1>4. Receipts[o] = [place |-> Place(ops[o].res), live |-> TRUE]
    <2>1. Receipts[o] = [place |-> Place(ops[o].res), live |-> ~ops[o].expired]
      BY <1>1 DEF Receipts
    <2>2. (~ops[o].expired) = TRUE
      BY <1>1
    <2> QED BY <2>1, <2>2
  <1>5. Receipts'[o] = [place |-> Place(ops[o].res), live |-> FALSE]
    <2>1. Receipts'[o] = [place |-> Place(ops'[o].res), live |-> ~ops'[o].expired]
      BY <1>3 DEF Receipts, Place
    <2>2. (~ops'[o].expired) = FALSE
      BY <1>2
    <2> QED BY <2>1, <2>2, <1>2
  <1>6. \A q \in Ops \ {o} : Receipts'[q] = Receipts[q]
    BY <1>2 DEF Receipts, Recorded, Place
  <1>7. Receipts = [q \in Ops |-> Receipts[q]] /\ Receipts' = [q \in Ops |-> Receipts'[q]]
    BY DEF Receipts
  <1>8. Receipts[o] # NoReceipt /\ Receipts[o].live
    <2>1. DOMAIN Receipts[o] = {"place", "live"} /\ DOMAIN NoReceipt = {"req"}
      BY <1>4 DEF NoReceipt
    <2>2. Receipts[o].live = TRUE
      BY <1>4
    <2> QED BY <2>1, <2>2
  <1>9. Receipts' = [Receipts EXCEPT ![o].live = FALSE]
    <2>1. ASSUME NEW place
          PROVE  [[place |-> place, live |-> TRUE] EXCEPT !.live = FALSE]
                    = [place |-> place, live |-> FALSE]
      <3> DEFINE r == [place |-> place, live |-> TRUE]
                 S == [place : {place}, live : BOOLEAN]
                 x == [r EXCEPT !.live = FALSE]
      <3>1. r \in S
        OBVIOUS
      <3> HIDE DEF r
      <3>2. x \in S /\ x.live = FALSE /\ x.place = place
        BY <3>1
      <3> HIDE DEF x
      <3>3. x = [place |-> place, live |-> FALSE]
        BY <3>2
      <3> QED BY <3>3 DEF r, x
    <2>2. [Receipts[o] EXCEPT !.live = FALSE] = Receipts'[o]
      BY <2>1, <1>4, <1>5
    <2> HIDE DEF Receipts
    <2> QED BY <2>2, <1>6, <1>7
  <1>10. History' = History /\ Versions' = Versions /\ Successes' = Successes
    BY <1>1 DEF History, Versions, Successes, Exists
  <1>11. Ledger!Expire(o)
    BY <1>8, <1>9, <1>10 DEF Ledger!Expire
  <1> QED BY <1>11 DEF Ledger!Next

LEMMA PurgeIsForget ==
  ASSUME IInv, HInv, Purge
  PROVE  Ledger!Next
  <1>1. /\ ops' = [o \in Ops |-> IF Recorded(o) /\ ops[o].expired THEN NoReceipt ELSE ops[o]]
        /\ UNCHANGED <<rows, log, req, answer>>
    BY DEF Purge
  <1>2. ASSUME NEW o \in Ops
        PROVE  Receipts'[o] = IF Receipts[o] # NoReceipt /\ ~Receipts[o].live
                              THEN NoReceipt ELSE Receipts[o]
    <2>1. CASE ~Recorded(o)
      BY <2>1, <1>1 DEF Receipts, Recorded
    <2>2. CASE Recorded(o)
      <3>1. Receipts[o] = [place |-> Place(ops[o].res), live |-> ~ops[o].expired]
        BY <2>2 DEF Receipts
      <3>2. Receipts[o] # NoReceipt
        <4>1. DOMAIN Receipts[o] = {"place", "live"} /\ DOMAIN NoReceipt = {"req"}
          BY <3>1 DEF NoReceipt
        <4> QED BY <4>1
      <3>3. /\ (ops[o].expired => Receipts[o].live = FALSE)
            /\ (~ops[o].expired => Receipts[o].live = TRUE)
        <4>1. CASE ops[o].expired
          <5>1. (~ops[o].expired) = FALSE
            BY <4>1
          <5>2. Receipts[o] = [place |-> Place(ops[o].res), live |-> FALSE]
            BY <5>1, <3>1
          <5> QED BY <4>1, <5>2
        <4>2. CASE ~ops[o].expired
          <5>1. (~ops[o].expired) = TRUE
            BY <4>2
          <5>2. Receipts[o] = [place |-> Place(ops[o].res), live |-> TRUE]
            BY <5>1, <3>1
          <5> QED BY <4>2, <5>2
        <4> QED BY <4>1, <4>2
      <3>4. CASE ops[o].expired
        <4>1. ops'[o] = NoReceipt
          BY <2>2, <3>4, <1>1
        <4>2. Receipts'[o] = NoReceipt
          BY <4>1 DEF Receipts, Recorded
        <4> QED BY <4>2, <3>2, <3>3, <3>4
      <3>5. CASE ~ops[o].expired
        <4>1. ops'[o] = ops[o]
          BY <2>2, <3>5, <1>1
        <4>2. Receipts'[o] = Receipts[o]
          BY <4>1 DEF Receipts, Recorded, Place
        <4> QED BY <4>2, <3>2, <3>3, <3>5
      <3> QED BY <3>4, <3>5
    <2> QED BY <2>1, <2>2
  <1>3. Receipts' = [o \in Ops |-> Receipts'[o]]
    BY DEF Receipts
  <1>4. Receipts' = [o \in Ops |-> IF Receipts[o] # NoReceipt /\ ~Receipts[o].live
                                   THEN NoReceipt ELSE Receipts[o]]
    <2> HIDE DEF Receipts
    <2> QED BY <1>2, <1>3
  <1>5. History' = History /\ Versions' = Versions /\ Successes' = Successes
    BY <1>1 DEF History, Versions, Successes, Exists
  <1>6. Ledger!Forget
    BY <1>4, <1>5 DEF Ledger!Forget
  <1> QED BY <1>6 DEF Ledger!Next

LEMMA HandleIsLedgerStep ==
  ASSUME IInv, IInv', HInv, HInv', NEW c \in Calls, Handle(c)
  PROVE  [Ledger!Next]_(Ledger!lvars)
  <1>1. CASE CheckHit(c) \/ RecheckHit(c)
    BY <1>1, AnswerIsTellOrStutter DEF CheckHit, RecheckHit
  <1>2. CASE Commit(c)
    BY <1>2, CommitIsApply
  <1>3. CASE RecheckMiss(c)
    <2>1. txn[c].err # "ok"
      <3>1. txn[c].err \in Errors \cup {"none"}
        BY DEF IInv, TypeOK, Txn
      <3> QED BY <3>1 DEF Errors
    <2>2. /\ pc[c] # "answered" /\ UNCHANGED <<rows, log, ops>> /\ answer'[c].outcome # "ok"
          /\ \A d \in Calls \ {c} : answer'[d] = answer[d] /\ req'[d] = req[d]
      BY <1>3, <2>1 DEF RecheckMiss, Answer, tables, IInv, TypeOK
    <2> QED BY <2>2, StepOfOneCallIsStutter
  <1>4. CASE ~(CheckHit(c) \/ RecheckHit(c) \/ Commit(c) \/ RecheckMiss(c))
    <2>1. UNCHANGED <<rows, log, ops, req, answer>>
      <3>1. CASE CheckMiss(c) \/ LockMissing(c) \/ LockRefused(c) \/ LockTask(c)
        BY <3>1 DEF CheckMiss, LockMissing, LockRefused, LockTask, Abort, tables
      <3>2. CASE CheckDependencies(c) \/ CheckChildren(c) \/ RefuseWrite(c) \/ RuleFails(c)
        BY <3>2 DEF CheckDependencies, CheckChildren, RefuseWrite, RuleFails, Abort, tables
      <3>3. CASE (\E t \in Tasks : CreateTask(c, t)) \/ WriteTask(c)
        BY <3>3 DEF CreateTask, WriteTask, tables
      <3>4. CASE FireStatusRule(c) \/ FireAssigneeRule(c)
        BY <3>4 DEF FireStatusRule, FireAssigneeRule, RuleWrites, tables
      <3> QED BY <1>4, <3>1, <3>2, <3>3, <3>4, Handle(c) DEF Handle
    <2>2. \A d \in Calls :
             \/ answer[d].outcome # "ok" /\ answer'[d].outcome # "ok"
             \/ answer'[d] = answer[d] /\ req'[d] = req[d]
      BY <2>1
    <2> QED BY <2>1, <2>2, QuietStepIsStutter
  <1> QED BY <1>1, <1>2, <1>3, <1>4

LEMMA NextIsLedgerNext ==
  ASSUME IInv, IInv', HInv, HInv', [Next]_vars
  PROVE  [Ledger!Next]_(Ledger!lvars)
  <1>1. CASE \E c \in Calls, o \in Ops, b \in Bodies :
               \E v \in KnownVersions(b.task) : Submit(c, o, b, v)
    <2>1. PICK c \in Calls, o \in Ops, b \in Bodies :
             \E v \in KnownVersions(b.task) : Submit(c, o, b, v)
      BY <1>1
    <2>2. /\ pc[c] = "idle" /\ UNCHANGED <<rows, log, ops, answer>>
          /\ \A d \in Calls \ {c} : req'[d] = req[d]
      BY <2>1 DEF Submit, tables, IInv, TypeOK
    <2>3. answer[c].outcome # "ok"
      BY <2>2 DEF HInv, AnswerIsTrue
    <2> QED BY <2>2, <2>3, StepOfOneCallIsStutter
  <1>2. CASE \E c \in Calls : Handle(c)
    BY <1>2, HandleIsLedgerStep
  <1>3. CASE Crash
    <2>1. UNCHANGED <<rows, log, ops>> /\ req' = req
      BY <1>3 DEF Crash, Interrupted, tables
    <2>2. \A d \in Calls :
             \/ answer[d].outcome # "ok" /\ answer'[d].outcome # "ok"
             \/ answer'[d] = answer[d] /\ req'[d] = req[d]
      <3>1. \A d \in Calls : InFlight(d) => answer[d].outcome # "ok"
        BY DEF HInv, AnswerIsTrue, InFlight
      <3> QED BY <1>3, <2>1, <3>1 DEF Crash, Interrupted
    <2> QED BY <2>1, <2>2, QuietStepIsStutter
  <1>4. CASE \E o \in Ops : Expire(o)
    BY <1>4, ExpireIsExpire
  <1>5. CASE Purge
    BY <1>5, PurgeIsForget
  <1>6. CASE \E r \in Rules : CreateAutomationRule(r) \/ DeleteAutomationRule(r)
    BY <1>6, QuietStepIsStutter DEF CreateAutomationRule, DeleteAutomationRule
  <1>7. CASE UNCHANGED vars
    BY <1>7, QuietStepIsStutter DEF vars
  <1> QED BY <1>1, <1>2, <1>3, <1>4, <1>5, <1>6, <1>7 DEF Next

\* The task verbs implement TaskLedger: an operation and its receipt appear in one
\* step with the event and the version, however calls race, retry and crash, and
\* whoever is told of a success is told the place where its operation took effect.
THEOREM LedgerImplemented == Spec => ImplementsLedger
  <1>1. Init => Ledger!Init
    BY InitIsLedgerInit
  <1>2. IInv /\ IInv' /\ HInv /\ HInv' /\ [Next]_vars => [Ledger!Next]_(Ledger!lvars)
    BY NextIsLedgerNext
  <1>3. Spec => Ledger!Spec
    BY <1>1, <1>2, AlwaysHInv, PTL DEF Spec, Ledger!Spec
  <1> QED BY <1>3 DEF ImplementsLedger

(***************************************************************************)
(* Chaining is bounded.  Each rule that fires for a client's event spends  *)
(* one of the chains the event may set off; an agenda holds only chains    *)
(* that are not spent yet.                                                 *)
(***************************************************************************)

ChainsOf(e) ==
    IF e.kind \in StatusKinds THEN Chains("status", StatusGiven(e)) ELSE Chains("assignee", e.to)

\* The chain that a firing completes when p is the last rule fired at depth 0.
ChainOf(f, p) == IF f.depth = 0 THEN <<f.rule>> ELSE <<p, f.rule>>

\* Of the chains in S those in F are spent, and the agenda spends each other one at
\* most once: first what p has set off, then rules that have set off nothing yet.
WithinBudget(S, F, p, agenda) ==
    /\ F \subseteq S
    /\ \A i \in DOMAIN agenda :
          /\ agenda[i].depth \in {0, 1} /\ ChainOf(agenda[i], p) \in S \ F
          /\ agenda[i].depth = 1 => <<p>> \in F
          /\ agenda[i].depth = 0 => \A q \in Rules : <<agenda[i].rule, q>> \notin F
    /\ \A i, j \in DOMAIN agenda : i < j =>
          /\ ChainOf(agenda[i], p) # ChainOf(agenda[j], p)
          /\ agenda[i].depth = 0 => agenda[j].depth = 0

\* A draft has one event for each chain spent, beside the client's own.
Affords(pend, agenda) ==
    \E F \in SUBSET ChainsOf(pend[1]), p \in Rules \cup {None} :
        Len(pend) = Cardinality(F) + 1 /\ WithinBudget(ChainsOf(pend[1]), F, p, agenda)
HasBudget(c) == Affords(txn[c].pend, txn[c].agenda)

\* In the log l nothing but a client's event follows one that has set off all it may.
Bounded(l) ==
    \A i \in DOMAIN l : l[i].op # External =>
        \A k \in DOMAIN l : k > i + MaySetOff(l[i]) => \E j \in i + 1 .. k : l[j].op # External

CInv ==
    /\ \A t \in Tasks : Bounded(log[t])
    /\ \A c \in Calls : IF pc[c] = "automate" THEN HasBudget(c) ELSE txn[c].agenda = <<>>

LEMMA ChainsAreFinite ==
  ASSUME NEW f, NEW v
  PROVE  IsFiniteSet(Chains(f, v))
  <1> DEFINE one == {<<r>> : r \in Rules}
             g == [r \in Rules |-> <<r>>]
  <1>1. g \in Surjection(Rules, one)
    BY DEF Surjection
  <1>2. IsFiniteSet(one)
    BY <1>1, ConstantsAssumption, FS_Surjection
  <1>3. IsFiniteSet(one \cup (Rules \X Rules))
    BY <1>2, ConstantsAssumption, FS_Product, FS_Union
  <1>4. Chains(f, v) \subseteq one \cup (Rules \X Rules)
    BY DEF Chains, Matching
  <1> QED BY <1>3, <1>4, FS_Subset

\* What a change of a field sets off: other rules each time, from those that match it.
LEMMA FiringsMatch ==
  ASSUME NEW f, NEW v, NEW d \in Nat, rules \subseteq Rules, NEW a \in Firings(f, v, d)
  PROVE  /\ a \in Seq(Firing)
         /\ d >= 2 => a = <<>>
         /\ \A i \in DOMAIN a : a[i].depth = d /\ a[i].rule \in Matching(f, v)
         /\ \A i, j \in DOMAIN a : i < j => a[i].rule # a[j].rule
  <1>1. a \in Seq(Firing)
    BY FiringsAreAgendas
  <1>2. CASE d >= 2
    BY <1>1, <1>2 DEF Firings
  <1>3. CASE ~(d >= 2)
    <2>1. PICK g \in Orders(Triggered(f, v)) :
             a = [i \in DOMAIN g |-> [rule |-> g[i], depth |-> d]]
      BY <1>3 DEF Firings
    <2>2. /\ g \in [1 .. Cardinality(Triggered(f, v)) -> Triggered(f, v)]
          /\ \A i, j \in DOMAIN g : g[i] = g[j] => i = j
      BY DEF Orders
    <2>3. Triggered(f, v) \subseteq Matching(f, v)
      BY DEF Triggered, Matching
    <2>4. \A i \in DOMAIN g : i \in Int
      <3>1. IsFiniteSet(Triggered(f, v))
        BY ConstantsAssumption, FS_Subset DEF Triggered
      <3> QED BY <2>2, <3>1, FS_CardinalityType
    <2>5. \A i \in DOMAIN a : i \in DOMAIN g /\ a[i] = [rule |-> g[i], depth |-> d]
      BY <2>1
    <2>6. \A i \in DOMAIN a : a[i].depth = d /\ a[i].rule = g[i] /\ g[i] \in Matching(f, v)
      BY <2>2, <2>3, <2>5
    <2> QED BY <1>1, <1>3, <2>2, <2>4, <2>5, <2>6
  <1> QED BY <1>2, <1>3

\* Firing the head of an agenda spends one chain more, and what it sets off keeps
\* within the budget.
LEMMA FiringSpendsAChain ==
  ASSUME NEW S, NEW F, NEW p, NEW agenda \in Seq(Firing), agenda # <<>>,
         WithinBudget(S, F, p, agenda), NEW fired \in Seq(Firing),
         \A r, q \in Rules : <<r>> \in S /\ q \in Matching(r.action, r.arg) => <<r, q>> \in S,
         NEW r \in Rules, r = Head(agenda).rule,
         Head(agenda).depth + 1 >= 2 => fired = <<>>,
         \A i \in DOMAIN fired : /\ fired[i].depth = Head(agenda).depth + 1
                                 /\ fired[i].rule \in Matching(r.action, r.arg),
         \A i, j \in DOMAIN fired : i < j => fired[i].rule # fired[j].rule
  PROVE  /\ ChainOf(Head(agenda), p) \in S \ F
         /\ WithinBudget(S, F \cup {ChainOf(Head(agenda), p)},
                         IF Head(agenda).depth = 0 THEN r ELSE p, fired \o Tail(agenda))
  <1> DEFINE h == Head(agenda)
             rest == Tail(agenda)
             next == fired \o rest
             k == ChainOf(h, p)
             F2 == F \cup {k}
  <1>1. /\ h = agenda[1] /\ 1 \in DOMAIN agenda /\ rest \in Seq(Firing)
        /\ Len(rest) = Len(agenda) - 1 /\ Len(agenda) \in Nat /\ Len(agenda) >= 1
        /\ \A i \in 1 .. Len(rest) : rest[i] = agenda[i + 1] /\ i + 1 \in DOMAIN agenda
        /\ DOMAIN rest = 1 .. Len(rest) /\ DOMAIN agenda = 1 .. Len(agenda)
    OBVIOUS
  <1>2. /\ next \in Seq(Firing) /\ DOMAIN next = 1 .. Len(fired) + Len(rest)
        /\ Len(fired) \in Nat /\ DOMAIN fired = 1 .. Len(fired)
        /\ \A i \in 1 .. Len(fired) : next[i] = fired[i]
        /\ \A i \in Len(fired) + 1 .. Len(fired) + Len(rest) : next[i] = rest[i - Len(fired)]
    BY <1>1
  <1> HIDE DEF next
  <1> DEFINE n == Len(fired)
             m == Len(rest)
  <1>n. /\ n \in Nat /\ m \in Nat /\ DOMAIN next = 1 .. n + m
        /\ \A i \in 1 .. n : next[i] = fired[i]
        /\ \A i \in n + 1 .. n + m : next[i] = rest[i - n]
    BY <1>1, <1>2
  <1> HIDE DEF n, m
  <1>m. ASSUME NEW i \in DOMAIN next
        PROVE  \/ i \in 1 .. n /\ next[i] = fired[i]
               \/ \E a \in 1 .. m : i = n + a /\ next[i] = rest[a]
    <2>1. CASE i \in 1 .. n
      BY <1>n, <2>1
    <2>2. CASE i \notin 1 .. n
      <3> DEFINE a == i - n
      <3>1. a \in 1 .. m /\ i = n + a /\ i \in n + 1 .. n + m
        BY <1>n, <2>2
      <3>2. next[i] = rest[a]
        BY <1>n, <3>1
      <3> HIDE DEF a
      <3> QED BY <3>1, <3>2
    <2> QED BY <2>1, <2>2
  <1>3. /\ h.depth \in {0, 1} /\ k \in S \ F /\ (h.depth = 1 => <<p>> \in F)
        /\ (h.depth = 0 => \A q \in Rules : <<r, q>> \notin F)
    BY <1>1 DEF WithinBudget
  <1>4. ASSUME NEW i \in 1 .. Len(rest)
        PROVE  /\ rest[i].depth \in {0, 1} /\ ChainOf(rest[i], p) \in S \ F
               /\ (rest[i].depth = 1 => <<p>> \in F)
               /\ (rest[i].depth = 0 => \A q \in Rules : <<rest[i].rule, q>> \notin F)
               /\ ChainOf(rest[i], p) # k
               /\ (h.depth = 0 => rest[i].depth = 0)
    BY <1>1, <1>4 DEF WithinBudget
  <1>5. ASSUME NEW i \in 1 .. Len(rest), NEW j \in 1 .. Len(rest), i < j
        PROVE  /\ ChainOf(rest[i], p) # ChainOf(rest[j], p)
               /\ rest[i].depth = 0 => rest[j].depth = 0
    BY <1>1, <1>5 DEF WithinBudget
  <1>6. F \subseteq S
    BY DEF WithinBudget
  <1> HIDE DEF h, rest, next, k
  <1>7. CASE h.depth = 1
    <2>1. fired = <<>> /\ next = rest
      BY <1>1, <1>7 DEF h, next
    <2>2. k = <<p, r>> /\ <<p>> \in F
      BY <1>3, <1>7 DEF k, ChainOf, h
    <2>3. ASSUME NEW i \in 1 .. Len(rest), rest[i].depth = 0, NEW q \in Rules
          PROVE  <<rest[i].rule, q>> \notin F2
      <3>1. ChainOf(rest[i], p) = <<rest[i].rule>>
        BY <2>3 DEF ChainOf
      <3>2. rest[i].rule # p
        BY <2>2, <3>1, <1>4
      <3> QED BY <1>4, <2>2, <2>3, <3>2
    <2>4. WithinBudget(S, F2, p, rest)
      BY <1>1, <1>3, <1>4, <1>5, <1>6, <2>3 DEF WithinBudget
    <2> QED BY <1>3, <1>7, <2>1, <2>4 DEF h, k, next, rest
  <1>8. CASE h.depth = 0
    <2>1. k = <<r>> /\ \A i \in DOMAIN fired : fired[i].depth = 1
      BY <1>8 DEF k, ChainOf, h
    <2>2. ASSUME NEW i \in 1 .. Len(rest)
          PROVE  /\ rest[i].depth = 0 /\ ChainOf(rest[i], r) = <<rest[i].rule>>
                 /\ ChainOf(rest[i], r) \in S \ F2
                 /\ \A q \in Rules : <<rest[i].rule, q>> \notin F2
      <3>1. rest[i].depth = 0
        BY <1>4, <1>8
      <3>2. ChainOf(rest[i], r) = <<rest[i].rule>> /\ ChainOf(rest[i], p) = <<rest[i].rule>>
        BY <3>1 DEF ChainOf
      <3> QED BY <1>4, <2>1, <3>1, <3>2
    <2>3. ASSUME NEW i \in 1 .. Len(fired)
          PROVE  /\ fired[i].depth = 1 /\ ChainOf(fired[i], r) = <<r, fired[i].rule>>
                 /\ ChainOf(fired[i], r) \in S \ F2
      <3>1. fired[i].depth = 1 /\ fired[i].rule \in Matching(r.action, r.arg)
            /\ fired[i].rule \in Rules
        BY <1>2, <2>1 DEF Matching
      <3>2. ChainOf(fired[i], r) = <<r, fired[i].rule>>
        BY <3>1 DEF ChainOf
      <3>3. <<r>> \in S
        BY <1>3, <2>1
      <3>4. <<r, fired[i].rule>> \in S
        BY <3>1, <3>3
      <3>5. <<r, fired[i].rule>> \notin F
        BY <1>3, <1>8, <3>1
      <3>6. <<r, fired[i].rule>> # <<r>>
        OBVIOUS
      <3> QED BY <2>1, <3>1, <3>2, <3>4, <3>5, <3>6
    <2>4. ASSUME NEW i \in DOMAIN next
          PROVE  /\ next[i].depth \in {0, 1} /\ ChainOf(next[i], r) \in S \ F2
                 /\ next[i].depth = 1 => <<r>> \in F2
                 /\ next[i].depth = 0 => \A q \in Rules : <<next[i].rule, q>> \notin F2
      <3>1. CASE i \in 1 .. n /\ next[i] = fired[i]
        <4>1. i \in 1 .. Len(fired)
          BY <3>1 DEF n
        <4> QED BY <2>1, <2>3, <3>1, <4>1
      <3>2. CASE \E a \in 1 .. m : i = n + a /\ next[i] = rest[a]
        BY <2>2, <3>2 DEF m
      <3> QED BY <1>m, <3>1, <3>2
    <2>5. ASSUME NEW i \in DOMAIN next, NEW j \in DOMAIN next, i < j
          PROVE  /\ ChainOf(next[i], r) # ChainOf(next[j], r)
                 /\ next[i].depth = 0 => next[j].depth = 0
      <3>1. CASE i \in 1 .. n /\ next[i] = fired[i] /\ j \in 1 .. n /\ next[j] = fired[j]
        <4>1. i \in DOMAIN fired /\ j \in DOMAIN fired /\ i \in 1 .. Len(fired) /\ j \in 1 .. Len(fired)
          BY <1>2, <3>1 DEF n
        <4>2. fired[i].rule # fired[j].rule
          BY <2>5, <4>1
        <4>3. <<r, fired[i].rule>> # <<r, fired[j].rule>>
          BY <4>2
        <4> QED BY <2>3, <3>1, <4>1, <4>3
      <3>2. CASE /\ i \in 1 .. n /\ next[i] = fired[i]
                 /\ \E b \in 1 .. m : j = n + b /\ next[j] = rest[b]
        <4>1. PICK b \in 1 .. Len(rest) : next[j] = rest[b]
          BY <3>2 DEF m
        <4>2. i \in 1 .. Len(fired)
          BY <3>2 DEF n
        <4>3. /\ ChainOf(next[i], r) = <<r, fired[i].rule>> /\ next[i].depth = 1
              /\ ChainOf(next[j], r) = <<rest[b].rule>> /\ next[j].depth = 0
          BY <2>2, <2>3, <3>2, <4>1, <4>2
        <4>4. \A x, y, z : <<x, y>> # <<z>>
          OBVIOUS
        <4>5. next[i].depth # 0
          BY <4>3
        <4> QED BY <4>3, <4>4, <4>5
      <3>3. CASE \E a, b \in 1 .. m : /\ i = n + a /\ next[i] = rest[a]
                                      /\ j = n + b /\ next[j] = rest[b]
        <4>1. PICK a \in 1 .. m, b \in 1 .. m : /\ i = n + a /\ next[i] = rest[a]
                                                /\ j = n + b /\ next[j] = rest[b]
          BY <3>3
        <4>2. a \in 1 .. Len(rest) /\ b \in 1 .. Len(rest) /\ a < b
          BY <1>n, <2>5, <4>1 DEF m
        <4>3. ChainOf(rest[a], p) # ChainOf(rest[b], p)
          BY <1>5, <4>2
        <4>4. ChainOf(rest[a], p) = <<rest[a].rule>> /\ ChainOf(rest[b], p) = <<rest[b].rule>>
          BY <2>2, <4>2 DEF ChainOf
        <4> QED BY <2>2, <4>1, <4>2, <4>3, <4>4
      <3>4. CASE /\ \E a \in 1 .. m : i = n + a /\ next[i] = rest[a]
                 /\ j \in 1 .. n
        BY <1>n, <2>5, <3>4
      <3> QED BY <1>m, <3>1, <3>2, <3>3, <3>4
    <2>6. WithinBudget(S, F2, r, next)
      BY <1>3, <1>6, <2>4, <2>5 DEF WithinBudget
    <2> QED BY <1>3, <1>8, <2>6 DEF h, k, next, rest
  <1> QED BY <1>3, <1>7, <1>8

LEMMA SetOffIsCounted ==
  ASSUME NEW e
  PROVE  /\ IsFiniteSet(ChainsOf(e)) /\ MaySetOff(e) = Cardinality(ChainsOf(e))
         /\ MaySetOff(e) \in Nat
         /\ \A r, q \in Rules : <<r>> \in ChainsOf(e) /\ q \in Matching(r.action, r.arg) =>
               <<r, q>> \in ChainsOf(e)
  <1>1. IsFiniteSet(ChainsOf(e))
    BY ChainsAreFinite DEF ChainsOf
  <1>2. MaySetOff(e) = Cardinality(ChainsOf(e))
    BY DEF MaySetOff, ChainsOf
  <1>3. ASSUME NEW f, NEW v, NEW r \in Rules, NEW q \in Matching(r.action, r.arg),
               <<r>> \in Chains(f, v)
        PROVE  <<r, q>> \in Chains(f, v)
    <2>1. PICK s \in Matching(f, v) :
             <<r>> \in {<<s>>} \cup {<<s, x>> : x \in Matching(s.action, s.arg)}
      BY <1>3 DEF Chains
    <2>2. s = r
      BY <2>1
    <2> QED BY <2>2, <1>3 DEF Chains
  <1> QED BY <1>1, <1>2, <1>3, FS_CardinalityType DEF ChainsOf

\* Every chain of rules that a verb's own write begins is one its event may set off.
LEMMA EffectSetsOff ==
  ASSUME NEW q \in Request, q.verb # "create", NEW row,
         NEW e, e.kind = Effect(q, row).kind, e.to = Effect(q, row).to,
         NEW r \in Matching(Effect(q, row).field, Effect(q, row).value)
  PROVE  <<r>> \in ChainsOf(e)
  <1> DEFINE f == Effect(q, row).field
             v == Effect(q, row).value
  <1>1. r \in Rules /\ r.field = f /\ r.field \in {"status", "assignee"}
    BY ConstantsAssumption DEF Matching, RuleShape
  <1>2. <<r>> \in Chains(f, v)
    BY DEF Chains
  <1>3. f # None
    BY <1>1, ConstantsAssumption
  <1> USE DEF Effect, ChainsOf, StatusKinds, StatusGiven
  <1>4. CASE q.verb = "status"
    BY <1>2, <1>4 DEF UpdateTaskStatus
  <1>5. CASE q.verb = "update"
    BY <1>2, <1>3, <1>5 DEF UpdateTask
  <1>6. CASE q.verb = "transition"
    BY <1>2, <1>6 DEF TransitionTaskWorkflow
  <1>7. CASE q.verb = "points"
    BY <1>3, <1>7 DEF UpdateTaskPoints
  <1> QED BY <1>4, <1>5, <1>6, <1>7, RequestShape DEF Verbs

\* A step that commits nothing, as each call sees it.
LEMMA StepKeepsCInv ==
  ASSUME CInv, log' = log,
         \A d \in Calls :
            \/ pc'[d] # "automate" /\ txn'[d].agenda = <<>>
            \/ pc'[d] # "automate" /\ pc[d] # "automate" /\ txn'[d].agenda = txn[d].agenda
            \/ pc'[d] = pc[d] /\ txn'[d] = txn[d]
            \/ pc'[d] = "automate" /\ HasBudget(d)'
  PROVE  CInv'
  <1>1. \A t \in Tasks : Bounded(log'[t])
    BY DEF CInv
  <1>2. ASSUME NEW d \in Calls
        PROVE  IF pc'[d] = "automate" THEN HasBudget(d)' ELSE txn'[d].agenda = <<>>
    BY DEF CInv, HasBudget
  <1> QED BY <1>1, <1>2 DEF CInv

LEMMA AbortKeepsCInv ==
  ASSUME IInv, CInv, NEW c \in Calls, NEW e, Abort(c, e)
  PROVE  CInv'
  BY StepKeepsCInv DEF Abort, NoTxn, IInv, TypeOK, tables

LEMMA AnswerKeepsCInv ==
  ASSUME IInv, CInv, NEW c \in Calls, NEW o, NEW r, Answer(c, o, r), log' = log
  PROVE  CInv'
  BY StepKeepsCInv DEF Answer, NoTxn, IInv, TypeOK

LEMMA ReceiptStepKeepsCInv ==
  ASSUME IInv, CInv, NEW c \in Calls, AnswerFromReceipt(c)
  PROVE  CInv'
  BY AnswerKeepsCInv DEF AnswerFromReceipt, tables

\* A draft that has set off nothing yet.
LEMMA FirstRoundIsAfforded ==
  ASSUME NEW pend, NEW agenda \in Seq(Firing), Len(pend) = 1,
         \A i \in DOMAIN agenda :
            agenda[i].depth = 0 /\ <<agenda[i].rule>> \in ChainsOf(pend[1]),
         \A i, j \in DOMAIN agenda : i < j => agenda[i].rule # agenda[j].rule
  PROVE  Affords(pend, agenda)
  <1> DEFINE S == ChainsOf(pend[1])
  <1>1. \A i \in DOMAIN agenda : ChainOf(agenda[i], None) = <<agenda[i].rule>>
    BY DEF ChainOf
  <1>2. \A i, j \in DOMAIN agenda : i < j =>
           ChainOf(agenda[i], None) # ChainOf(agenda[j], None)
    BY <1>1
  <1>3. \A i \in DOMAIN agenda : agenda[i].depth = 0 /\ ChainOf(agenda[i], None) \in S \ {}
    BY <1>1
  <1> HIDE DEF S
  <1>4. WithinBudget(S, {}, None, agenda)
    BY <1>2, <1>3 DEF WithinBudget
  <1>5. Len(pend) = Cardinality({}) + 1
    BY FS_EmptySet
  <1> QED BY <1>4, <1>5 DEF Affords, S

LEMMA CreateTaskKeepsCInv ==
  ASSUME IInv, CInv, NEW c \in Calls, NEW t \in Tasks, CreateTask(c, t)
  PROVE  CInv'
  <1>1. /\ log' = log /\ txn[c] \in Txn /\ pc[c] = "write" /\ pc'[c] = "automate"
        /\ \A d \in Calls \ {c} : pc'[d] = pc[d] /\ txn'[d] = txn[d]
    BY DEF CreateTask, MayWrite, tables, IInv, TypeOK
  <1>2. txn[c].agenda = <<>>
    BY <1>1 DEF CInv
  <1>3. /\ txn'[c].agenda = <<>>
        /\ txn'[c].pend = <<CreatedEvent(req[c].op, txn[c].now)>>
    BY <1>1, <1>2 DEF CreateTask, IInv, TypeOK, Txn
  <1>4. Len(txn'[c].pend) = 1
    BY <1>3
  <1>5. HasBudget(c)'
    <2> DEFINE none == <<>>
    <2>1. none \in Seq(Firing) /\ DOMAIN none = {}
      OBVIOUS
    <2> HIDE DEF none
    <2>2. Affords(txn'[c].pend, none)
      BY <1>4, <2>1, FirstRoundIsAfforded
    <2> QED BY <2>2, <1>3 DEF HasBudget, none
  <1> QED BY <1>1, <1>5, StepKeepsCInv

LEMMA WriteTaskKeepsCInv ==
  ASSUME IInv, CInv, NEW c \in Calls, WriteTask(c)
  PROVE  CInv'
  <1> DEFINE f == Effect(req[c], txn[c].row)
             e == [kind |-> f.kind, op |-> req[c].op, at |-> txn[c].now,
                   from |-> f.from, to |-> f.to]
  <1>1. /\ log' = log /\ txn[c] \in Txn /\ pc'[c] = "automate" /\ rules \subseteq Rules
        /\ req[c] \in Request /\ req[c].verb # "create"
    BY DEF WriteTask, MayWrite, tables, IInv, CallInv, BaseCall, TypeOK
  <1>2. PICK agenda \in Firings(f.field, f.value, 0) :
           txn' = [txn EXCEPT ![c] =
                     [@ EXCEPT !.row = f.row, !.res = [task |-> req[c].task, row |-> f.row],
                               !.pend = <<e>>, !.agenda = agenda]]
    BY DEF WriteTask
  <1>3. txn'[c].pend = <<e>> /\ txn'[c].agenda = agenda
    BY <1>1, <1>2 DEF IInv, TypeOK, Txn
  <1>4. \A d \in Calls \ {c} : pc'[d] = pc[d] /\ txn'[d] = txn[d]
    BY <1>2 DEF WriteTask, IInv, TypeOK
  <1>5. /\ agenda \in Seq(Firing)
        /\ \A i \in DOMAIN agenda : agenda[i].depth = 0 /\ agenda[i].rule \in Matching(f.field, f.value)
        /\ \A i, j \in DOMAIN agenda : i < j => agenda[i].rule # agenda[j].rule
    BY <1>1, FiringsMatch
  <1>6. e.kind = f.kind /\ e.to = f.to
    OBVIOUS
  <1> HIDE DEF e
  <1>7. \A i \in DOMAIN agenda : <<agenda[i].rule>> \in ChainsOf(e)
    BY <1>1, <1>5, <1>6, EffectSetsOff
  <1>8. Len(txn'[c].pend) = 1 /\ txn'[c].pend[1] = e
    BY <1>3
  <1>9. HasBudget(c)'
    <2>1. Affords(txn'[c].pend, agenda)
      BY <1>5, <1>7, <1>8, FirstRoundIsAfforded
    <2> QED BY <2>1, <1>3 DEF HasBudget
  <1> QED BY <1>1, <1>4, <1>9, StepKeepsCInv

LEMMA RuleWritesKeepsCInv ==
  ASSUME IInv, HInv, CInv, NEW c \in Calls, FiringRule(c),
         NEW kind, NEW from, NEW row, RuleWrites(c, kind, from, row)
  PROVE  CInv'
  <1> DEFINE r == NextRule(c)
             h == Head(txn[c].agenda)
             e == [kind |-> kind, op |-> External, at |-> clock', from |-> from, to |-> r.arg]
             p == txn[c].pend
             S == ChainsOf(p[1])
  <1>1. /\ pc[c] = "automate" /\ pc' = pc /\ log' = log /\ txn[c] \in Txn /\ rules \subseteq Rules
        /\ p \in Seq(Event) /\ p # <<>> /\ txn[c].agenda \in Seq(Firing) /\ txn[c].agenda # <<>>
    BY DEF FiringRule, RuleWrites, tables, IInv, TypeOK, Txn, HInv, DraftIsSound
  <1>2. PICK fired \in Firings(r.action, r.arg, h.depth + 1) :
           txn' = [txn EXCEPT ![c] = [@ EXCEPT !.row = row, !.pend = Append(p, e),
                                               !.agenda = fired \o Tail(txn[c].agenda)]]
    BY DEF RuleWrites
  <1>3. /\ txn'[c].pend = Append(p, e) /\ txn'[c].agenda = fired \o Tail(txn[c].agenda)
        /\ \A d \in Calls \ {c} : pc'[d] = pc[d] /\ txn'[d] = txn[d]
    BY <1>1, <1>2 DEF IInv, TypeOK, Txn
  <1>4. h \in Firing /\ r \in Rules /\ r = h.rule /\ h.depth \in Nat
    BY NextRuleShape DEF Firing, NextRule, IInv, TypeOK
  <1>5. /\ fired \in Seq(Firing)
        /\ h.depth + 1 >= 2 => fired = <<>>
        /\ \A i \in DOMAIN fired : /\ fired[i].depth = h.depth + 1
                                   /\ fired[i].rule \in Matching(r.action, r.arg)
        /\ \A i, j \in DOMAIN fired : i < j => fired[i].rule # fired[j].rule
    BY <1>1, <1>4, FiringsMatch
  <1> HIDE DEF e
  <1>6. /\ Len(Append(p, e)) = Len(p) + 1 /\ Append(p, e)[1] = p[1] /\ Len(p) \in Nat
    BY <1>1
  <1>7. PICK F \in SUBSET S, q \in Rules \cup {None} :
           Len(p) = Cardinality(F) + 1 /\ WithinBudget(S, F, q, txn[c].agenda)
    BY <1>1 DEF CInv, HasBudget, Affords
  <1> DEFINE k == ChainOf(h, q)
             q2 == IF h.depth = 0 THEN r ELSE q
  <1>8. /\ IsFiniteSet(S)
        /\ \A x, y \in Rules : <<x>> \in S /\ y \in Matching(x.action, x.arg) => <<x, y>> \in S
    BY SetOffIsCounted
  <1>9. k \in S \ F /\ WithinBudget(S, F \cup {k}, q2, fired \o Tail(txn[c].agenda))
    <2> DEFINE agenda == txn[c].agenda
    <2>1. agenda \in Seq(Firing) /\ agenda # <<>> /\ h = Head(agenda)
      BY <1>1
    <2>2. WithinBudget(S, F, q, agenda)
      BY <1>7
    <2> HIDE DEF S, agenda, r
    <2>3. r = Head(agenda).rule
      BY <1>4, <2>1
    <2>4. /\ ChainOf(Head(agenda), q) \in S \ F
          /\ WithinBudget(S, F \cup {ChainOf(Head(agenda), q)},
                          IF Head(agenda).depth = 0 THEN r ELSE q, fired \o Tail(agenda))
      <3> HIDE DEF h
      <3> QED BY <1>4, <1>5, <1>8, <2>1, <2>2, <2>3, FiringSpendsAChain
    <2> QED BY <2>4 DEF agenda
  <1>10. IsFiniteSet(F) /\ Cardinality(F) \in Nat /\ Cardinality(F \cup {k}) = Cardinality(F) + 1
    BY <1>7, <1>8, <1>9, FS_Subset, FS_AddElement, FS_CardinalityType
  <1>11. F \cup {k} \in SUBSET S /\ q2 \in Rules \cup {None}
    BY <1>4, <1>7, <1>9
  <1> HIDE DEF k, q2, S, p, r, h
  <1>12. Len(Append(p, e)) = Cardinality(F \cup {k}) + 1
    BY <1>6, <1>7, <1>10
  <1>13. ChainsOf(txn'[c].pend[1]) = S
    BY <1>3, <1>6 DEF S
  <1>14. HasBudget(c)'
    <2>1. Affords(Append(p, e), fired \o Tail(txn[c].agenda))
      BY <1>3, <1>9, <1>11, <1>12, <1>13 DEF Affords
    <2> QED BY <1>3, <2>1 DEF HasBudget, p
  <1> QED BY <1>1, <1>3, <1>14, StepKeepsCInv

\* The events of one draft go into the log together, the client's first.
LEMMA DraftKeepsBounded ==
  ASSUME NEW l \in Seq(Event), Bounded(l), NEW p \in Seq(Event), p # <<>>, p[1].op # External,
         \A k \in DOMAIN p : k > 1 => p[k].op = External, Len(p) - 1 <= MaySetOff(p[1])
  PROVE  Bounded(l \o p)
  <1> DEFINE w == l \o p
             n == Len(l)
             m == Len(p)
  <1>1. /\ n \in Nat /\ m \in Nat /\ m >= 1
        /\ DOMAIN l = 1 .. n /\ DOMAIN p = 1 .. m /\ DOMAIN w = 1 .. n + m
        /\ \A i \in 1 .. n : w[i] = l[i]
        /\ \A i \in n + 1 .. n + m : w[i] = p[i - n]
    BY EmptySeq, LenProperties, ConcatProperties
  <1> HIDE DEF w, n, m
  <1>2. w[n + 1] = p[1] /\ n + 1 \in DOMAIN w
    <2>1. n + 1 \in n + 1 .. n + m /\ n + 1 - n = 1
      BY <1>1
    <2> QED BY <1>1, <2>1
  <1>3. ASSUME NEW i \in DOMAIN w, i \notin DOMAIN l, w[i].op # External PROVE i = n + 1
    <2> DEFINE a == i - n
    <2>1. i \in n + 1 .. n + m /\ a \in 1 .. m /\ i = n + a
      BY <1>1, <1>3
    <2>2. w[i] = p[a] /\ a \in DOMAIN p
      BY <1>1, <2>1
    <2> HIDE DEF a
    <2>3. ~(a > 1)
      BY <1>3, <2>2
    <2> QED BY <1>1, <2>1, <2>3
  <1>4. \A e : MaySetOff(e) \in Nat
    BY SetOffIsCounted
  <1>5. ASSUME NEW i \in DOMAIN w, w[i].op # External, NEW k \in DOMAIN w, k > i + MaySetOff(w[i])
         PROVE  \E j \in i + 1 .. k : w[j].op # External
    <2> DEFINE b == MaySetOff(w[i])
    <2>b. b \in Nat /\ k > i + b
      BY <1>4, <1>5
    <2>1. CASE i \in DOMAIN l /\ k \in DOMAIN l
      <3>1. w[i] = l[i]
        BY <1>1, <2>1
      <3>2. PICK j \in i + 1 .. k : l[j].op # External
        BY <1>5, <2>1, <3>1 DEF Bounded
      <3>3. j \in 1 .. n
        BY <1>1, <2>1
      <3> QED BY <1>1, <3>2, <3>3
    <2>2. CASE i \in DOMAIN l /\ k \notin DOMAIN l
      <3>1. n + 1 \in i + 1 .. k
        BY <1>1, <2>2
      <3> QED BY <1>2, <3>1
    <2>3. CASE i \notin DOMAIN l
      <3>1. i = n + 1 /\ w[i] = p[1]
        BY <1>2, <1>3, <1>5, <2>3
      <3>2. m - 1 <= b
        BY <3>1 DEF m
      <3> HIDE DEF b
      <3> QED BY <1>1, <2>b, <3>1, <3>2
    <2> QED BY <2>1, <2>2, <2>3
  <1> QED BY <1>5 DEF Bounded, w

LEMMA CommitKeepsCInv ==
  ASSUME IInv, HInv, CInv, NEW c \in Calls, Commit(c)
  PROVE  CInv'
  <1>1. PICK t \in Tasks, p \in Seq(Event), res \in Response : Commits(c, t, p, res)
    BY CommitShape
  <1>2. /\ log'[t] = log[t] \o p /\ p = txn[c].pend /\ t = txn[c].task /\ log[t] \in Seq(Event)
        /\ \A u \in Tasks \ {t} : log'[u] = log[u]
        /\ \A d \in Calls \ {c} : pc'[d] = pc[d] /\ txn'[d] = txn[d]
        /\ pc[c] = "automate" /\ pc'[c] = "answered" /\ DraftIsSound(c)
    BY <1>1 DEF Commits, Whole, IInv, TypeOK
  <1>3. txn'[c].agenda = <<>>
    BY DEF Commit, Answer, NoTxn, IInv, TypeOK
  <1>4. /\ p # <<>> /\ p[1].op # External
        /\ \A k \in DOMAIN p : k > 1 => p[k].op = External
    <2>1. req[c].op # External
      BY <1>1, ConstantsAssumption DEF Commits
    <2> QED BY <1>2, <2>1 DEF DraftIsSound
  <1>5. Len(p) - 1 <= MaySetOff(p[1]) /\ MaySetOff(p[1]) \in Nat
    <2>1. PICK F \in SUBSET ChainsOf(p[1]) : Len(p) = Cardinality(F) + 1
      BY <1>2 DEF CInv, HasBudget, Affords
    <2>2. /\ Cardinality(F) <= Cardinality(ChainsOf(p[1])) /\ IsFiniteSet(F)
          /\ MaySetOff(p[1]) = Cardinality(ChainsOf(p[1])) /\ MaySetOff(p[1]) \in Nat
      BY SetOffIsCounted, FS_Subset
    <2>3. Cardinality(F) \in Nat
      BY <2>2, FS_CardinalityType
    <2> QED BY <2>1, <2>2, <2>3
  <1>6. Bounded(log[t] \o p)
    BY <1>2, <1>4, <1>5, DraftKeepsBounded DEF CInv
  <1>11. ASSUME NEW u \in Tasks PROVE Bounded(log'[u])
    BY <1>2, <1>6 DEF CInv
  <1>12. ASSUME NEW d \in Calls
         PROVE  IF pc'[d] = "automate" THEN HasBudget(d)' ELSE txn'[d].agenda = <<>>
    BY <1>2, <1>3 DEF CInv, HasBudget
  <1> QED BY <1>11, <1>12 DEF CInv

LEMMA HandleKeepsCInv ==
  ASSUME IInv, HInv, CInv, NEW c \in Calls, Handle(c)
  PROVE  CInv'
  <1>1. CASE CheckHit(c) \/ RecheckHit(c)
    BY <1>1, ReceiptStepKeepsCInv DEF CheckHit, RecheckHit
  <1>2. CASE CheckMiss(c) \/ LockTask(c)
    <2>1. /\ log' = log /\ pc[c] # "automate" /\ pc'[c] # "automate"
          /\ txn'[c].agenda = txn[c].agenda
          /\ \A d \in Calls \ {c} : pc'[d] = pc[d] /\ txn'[d] = txn[d]
      BY <1>2 DEF CheckMiss, LockTask, tables, IInv, TypeOK, Txn
    <2> QED BY <2>1, StepKeepsCInv
  <1>3. CASE LockMissing(c) \/ LockRefused(c) \/ RefuseWrite(c) \/ RuleFails(c)
    BY <1>3, AbortKeepsCInv DEF LockMissing, LockRefused, RefuseWrite, RuleFails
  <1>4. CASE CheckDependencies(c) \/ CheckChildren(c)
    <2>1. CASE Abort(c, "dependencyNotResolved") \/ Abort(c, "childrenNotDone")
      BY <2>1, AbortKeepsCInv
    <2>2. CASE ~(Abort(c, "dependencyNotResolved") \/ Abort(c, "childrenNotDone"))
      <3>1. /\ log' = log /\ txn' = txn /\ pc[c] # "automate" /\ pc'[c] # "automate"
            /\ \A d \in Calls \ {c} : pc'[d] = pc[d]
        BY <1>4, <2>2 DEF CheckDependencies, CheckChildren, tables, IInv, TypeOK
      <3> QED BY <3>1, StepKeepsCInv
    <2> QED BY <2>1, <2>2
  <1>5. CASE \E t \in Tasks : CreateTask(c, t)
    BY <1>5, CreateTaskKeepsCInv
  <1>6. CASE WriteTask(c)
    BY <1>6, WriteTaskKeepsCInv
  <1>7. CASE FireStatusRule(c) \/ FireAssigneeRule(c)
    BY <1>7, RuleWritesKeepsCInv DEF FireStatusRule, FireAssigneeRule
  <1>8. CASE Commit(c)
    BY <1>8, CommitKeepsCInv
  <1>9. CASE RecheckMiss(c)
    BY <1>9, AnswerKeepsCInv DEF RecheckMiss, tables
  <1> QED BY <1>1, <1>2, <1>3, <1>4, <1>5, <1>6, <1>7, <1>8, <1>9, Handle(c) DEF Handle

LEMMA NextKeepsCInv ==
  ASSUME IInv, HInv, CInv, [Next]_vars
  PROVE  CInv'
  <1>1. CASE \E c \in Calls, o \in Ops, b \in Bodies :
               \E v \in KnownVersions(b.task) : Submit(c, o, b, v)
    <2>1. PICK c \in Calls, o \in Ops, b \in Bodies : \E v \in KnownVersions(b.task) : Submit(c, o, b, v)
      BY <1>1
    <2>2. /\ log' = log /\ txn' = txn /\ pc[c] # "automate" /\ pc'[c] # "automate"
          /\ \A d \in Calls \ {c} : pc'[d] = pc[d]
      BY <2>1 DEF Submit, tables, IInv, TypeOK
    <2> QED BY <2>2, StepKeepsCInv
  <1>2. CASE \E c \in Calls : Handle(c)
    BY <1>2, HandleKeepsCInv
  <1>3. CASE Crash
    <2>1. log' = log /\ \A d \in Calls : pc'[d] # "automate" /\ txn'[d].agenda = <<>>
      BY <1>3 DEF Crash, Interrupted, InFlight, NoTxn, tables
    <2> QED BY <2>1, StepKeepsCInv
  <1>4. CASE \/ \E o \in Ops : Expire(o)
             \/ Purge
             \/ \E r \in Rules : CreateAutomationRule(r) \/ DeleteAutomationRule(r)
             \/ UNCHANGED vars
    <2>1. log' = log /\ pc' = pc /\ txn' = txn
      BY <1>4 DEF Expire, Purge, CreateAutomationRule, DeleteAutomationRule, vars
    <2> QED BY <2>1, StepKeepsCInv
  <1> QED BY <1>1, <1>2, <1>3, <1>4 DEF Next

LEMMA InitEstablishesCInv == Init => CInv
  <1> SUFFICES ASSUME Init PROVE CInv
    OBVIOUS
  <1>1. \A t \in Tasks : \A i \in DOMAIN log[t] : log[t][i].op = External
    BY DEF Init, CreatedEvent
  <1>2. \A t \in Tasks : Bounded(log[t])
    BY <1>1 DEF Bounded
  <1>3. \A c \in Calls : pc[c] # "automate" /\ txn[c].agenda = <<>>
    BY DEF Init, NoTxn
  <1> QED BY <1>2, <1>3 DEF CInv

\* One write of a client sets off at most one round of rules and each of those one
\* more, for any rules: two that answer each other cannot run away.
THEOREM ChainingBounded == Spec => []ChainingIsBounded
  <1>1. Init => CInv
    BY InitEstablishesCInv
  <1>2. IInv /\ HInv /\ CInv /\ [Next]_vars => CInv'
    BY NextKeepsCInv
  <1>3. CInv => ChainingIsBounded
    BY DEF CInv, Bounded, ChainingIsBounded
  <1> QED BY <1>1, <1>2, <1>3, AlwaysHInv, PTL DEF Spec

(***************************************************************************)
(* The tables under task verbs and graph verbs (TaskGraph).  A graph verb  *)
(* writes a row that nobody has locked, or one that it has locked itself,  *)
(* so a call's copy of the row it has locked stays true.                   *)
(***************************************************************************)
GraphTypes ==
    /\ gpc \in [GraphCalls -> {"idle", "setParent", "reparent", "addDependency", "insert",
                               "block", "log", "removeDependency", "unblock", "todo",
                               "remove"}]
    /\ edit \in [GraphCalls -> Edits \cup {NoEdit}]
    /\ edits \in 0 .. MaxEdits
    /\ found \in [GraphCalls -> Row \cup {NoRow}]

ParentsExist == \A t \in Tasks : Exists(t) /\ rows[t].parent # None => Exists(rows[t].parent)
EndsExist == \A e \in deps : Exists(e[1]) /\ Exists(e[2])

\* What a graph verb under way has seen, and what of it is still so.
EditOf(g) ==
    /\ gpc[g] # "idle" => edit[g] \in Edits
    /\ gpc[g] \in {"setParent", "reparent"} => edit[g].verb = "setParent"
    /\ gpc[g] \in {"addDependency", "insert", "block", "log"} => edit[g].verb = "addDependency"
    /\ gpc[g] \in {"removeDependency", "unblock", "todo", "remove"} =>
          edit[g].verb = "removeDependency"
HasRead(g) == gpc[g] \in {"reparent", "insert", "block", "log"} => ~Missing(g) /\ found[g] \in Row
HasLocked(g) ==
    gpc[g] \in {"unblock", "todo", "remove"} =>
       /\ Exists(edit[g].task)
       /\ rowLock[edit[g].task] = g
       /\ found[g] = rows[edit[g].task]
GraphCall(g) == EditOf(g) /\ HasRead(g) /\ HasLocked(g)

GInv ==
    /\ BaseInv /\ GraphTypes /\ ParentsExist /\ EndsExist
    /\ \A g \in GraphCalls : GraphCall(g)

\* What the edits are about.
LEMMA EditShapes ==
  ASSUME NEW e \in Edits
  PROVE  /\ e.task \in Tasks /\ e.other \in Tasks \cup {None}
         /\ e.verb \in {"setParent", "addDependency", "removeDependency"}
         /\ e.verb # "setParent" => e.other \in Tasks
  BY GraphAssumption DEF EditShape, ParentEdit, EdgeEdit, RemovalEdit

LEMMA NamesApart ==
  /\ \A g \in GraphCalls : g \notin Calls /\ g # None
  /\ \A t \in Tasks : t # None
  /\ \A c \in Calls : c # None
  BY GraphAssumption, ConstantsAssumption

LEMMA GraphEventIsNote ==
  ASSUME NEW k \in GraphKinds, NEW a \in Tasks \cup {None}, NEW b \in Tasks \cup {None}
  PROVE  GraphEvent(k, a, b) \in Note
  BY DEF GraphEvent, Note

\* The initial state.
LEMMA InitEstablishesGInv == GraphInit => GInv
  <1> SUFFICES ASSUME GraphInit PROVE GInv
    OBVIOUS
  <1>1. IInv /\ Init
    BY InitEstablishesIInv DEF GraphInit
  <1>2. BaseInv
    BY <1>1, AloneOrBeside
  <1>3. GraphTypes /\ \A g \in GraphCalls : GraphCall(g)
    BY GraphAssumption DEF GraphInit, GraphTypes, GraphCall, EditOf, HasRead, HasLocked
  <1>4. \A t \in Seeded : rows[t] \in Row /\ rows[t] # NoRow /\ rows[t].parent = ParentOf[t]
    <2> SUFFICES ASSUME NEW t \in Seeded
                 PROVE rows[t] \in Row /\ rows[t] # NoRow /\ rows[t].parent = ParentOf[t]
      OBVIOUS
    <2>1. t \in Tasks /\ ParentOf[t] \in Tasks \cup {None}
      BY ConstantsAssumption
    <2>2. NewRow(None) \in Row
      BY NewRowIsRow DEF Assignee
    <2>3. rows[t] = [NewRow(None) EXCEPT !.parent = ParentOf[t]]
      BY <1>1, <2>1 DEF Init
    <2>4. rows[t] \in Row /\ rows[t].parent = ParentOf[t]
      BY <2>1, <2>2, <2>3 DEF Row
    <2> QED BY <2>4, RowIsNotNoRow
  <1>5. \A t \in Tasks : Exists(t) => t \in Seeded
    BY <1>1 DEF Init, Exists
  <1>6. ParentsExist
    BY <1>4, <1>5, ConstantsAssumption DEF ParentsExist, Exists
  <1>7. EndsExist
    BY <1>1, <1>4, ConstantsAssumption DEF EndsExist, Init, Exists
  <1> QED BY <1>2, <1>3, <1>6, <1>7 DEF GInv

(***************************************************************************)
(* What a step of a graph verb leaves alone                                *)
(***************************************************************************)

\* Rows that task verbs have locked are theirs.
LEMMA GraphStepKeepsBaseInv ==
  ASSUME BaseInv, pc' = pc, req' = req, txn' = txn, BaseTypes', VersionsCount',
         \A t \in Tasks : rowLock[t] \in Calls =>
            rowLock'[t] = rowLock[t] /\ rows'[t] = rows[t] /\ log'[t] = log[t]
  PROVE  BaseInv'
  <1>1. ASSUME NEW d \in Calls PROVE BaseCall(d)'
    <2>1. BaseCall(d)
      BY DEF BaseInv
    <2>2. \A t \in Tasks : rowLock[t] = d =>
             rowLock'[t] = d /\ rows'[t] = rows[t] /\ log'[t] = log[t]
      OBVIOUS
    <2> QED BY <2>1, <2>2, OtherCallsKeepBaseCall
  <1> QED BY <1>1 DEF BaseInv

\* An edit whose client does nothing, and whose tasks and locked rows a step keeps.
LEMMA OtherEditsStay ==
  ASSUME GInv, NEW h \in GraphCalls,
         gpc'[h] = gpc[h], edit'[h] = edit[h], found'[h] = found[h],
         \A t \in Tasks : Exists(t) => Exists(t)',
         \A t \in Tasks : rowLock[t] = h => rowLock'[t] = h /\ rows'[t] = rows[t]
  PROVE  GraphCall(h)'
  <1>1. GraphCall(h)
    BY DEF GInv
  <1>2. gpc[h] # "idle" => edit[h].task \in Tasks /\ edit[h].other \in Tasks \cup {None}
    BY <1>1, EditShapes DEF GraphCall, EditOf
  <1>3. EditOf(h)'
    BY <1>1 DEF GraphCall, EditOf
  <1>4. HasRead(h)'
    BY <1>1, <1>2 DEF GraphCall, HasRead, Missing
  <1>5. HasLocked(h)'
    BY <1>1, <1>2 DEF GraphCall, HasLocked
  <1> QED BY <1>3, <1>4, <1>5 DEF GraphCall

LEMMA StepOfOneEdit ==
  ASSUME GInv, NEW g \in GraphCalls, BaseInv', GraphTypes', ParentsExist', EndsExist',
         GraphCall(g)',
         \A h \in GraphCalls \ {g} :
            /\ gpc'[h] = gpc[h] /\ edit'[h] = edit[h] /\ found'[h] = found[h]
            /\ \A t \in Tasks : rowLock[t] = h => rowLock'[t] = h /\ rows'[t] = rows[t],
         \A t \in Tasks : Exists(t) => Exists(t)'
  PROVE  GInv'
  <1>1. ASSUME NEW h \in GraphCalls \ {g} PROVE GraphCall(h)'
    BY OtherEditsStay
  <1> QED BY <1>1 DEF GInv

LEMMA QuietTables ==
  ASSUME GInv, UNCHANGED <<tables, callVars, clock>>,
         rowLock' \in [Tasks -> Calls \cup GraphCalls \cup {None}],
         \A t \in Tasks : rowLock[t] \in Calls => rowLock'[t] = rowLock[t]
  PROVE  BaseInv' /\ ParentsExist' /\ EndsExist' /\ \A t \in Tasks : Exists(t)' <=> Exists(t)
  <1>1. BaseTypes'
    BY DEF GInv, BaseInv, BaseTypes, tables, callVars
  <1>2. VersionsCount'
    BY TablesKeepVersions DEF GInv, BaseInv, tables
  <1>3. BaseInv'
    BY <1>1, <1>2, GraphStepKeepsBaseInv DEF GInv, tables, callVars
  <1>4. \A t : Exists(t)' <=> Exists(t)
    BY DEF Exists, tables
  <1> QED BY <1>3, <1>4 DEF GInv, ParentsExist, EndsExist, tables, Exists

(***************************************************************************)
(* The steps of the graph verbs                                            *)
(***************************************************************************)

\* A step of g that keeps the tables and the locks.
LEMMA ReadingKeepsGInv ==
  ASSUME GInv, NEW g \in GraphCalls, UNCHANGED <<tables, callVars, clock, rowLock>>,
         GraphTypes', GraphCall(g)',
         \A h \in GraphCalls \ {g} : gpc'[h] = gpc[h] /\ edit'[h] = edit[h] /\ found'[h] = found[h]
  PROVE  GInv'
  <1>1. rowLock \in [Tasks -> Calls \cup GraphCalls \cup {None}]
    BY DEF GInv, BaseInv, BaseTypes
  <1>2. BaseInv' /\ ParentsExist' /\ EndsExist' /\ \A t \in Tasks : Exists(t)' <=> Exists(t)
    BY <1>1, QuietTables
  <1>3. \A h \in GraphCalls \ {g} :
           /\ gpc'[h] = gpc[h] /\ edit'[h] = edit[h] /\ found'[h] = found[h]
           /\ \A t \in Tasks : rowLock[t] = h => rowLock'[t] = h /\ rows'[t] = rows[t]
    BY DEF tables
  <1> QED BY <1>2, <1>3, StepOfOneEdit

LEMMA GraphSubmitKeepsGInv ==
  ASSUME GInv, NEW g \in GraphCalls, NEW e \in Edits, GraphSubmit(g, e)
  PROVE  GInv'
  <1>1. e.verb \in {"setParent", "addDependency", "removeDependency"}
    BY EditShapes
  <1>2. /\ gpc' = [gpc EXCEPT ![g] = e.verb] /\ edit' = [edit EXCEPT ![g] = e]
        /\ edits' = edits + 1 /\ edits < MaxEdits /\ found' = found
    BY DEF GraphSubmit
  <1>3. GraphTypes
    BY DEF GInv
  <1>4. GraphTypes'
    BY <1>1, <1>2, <1>3, GraphAssumption DEF GraphTypes
  <1>5. gpc'[g] = e.verb /\ edit'[g] = e
    BY <1>2, <1>3 DEF GraphTypes
  <1>6. GraphCall(g)'
    BY <1>1, <1>5 DEF GraphCall, EditOf, HasRead, HasLocked
  <1>7. \A h \in GraphCalls \ {g} : gpc'[h] = gpc[h] /\ edit'[h] = edit[h] /\ found'[h] = found[h]
    BY <1>2, <1>3 DEF GraphTypes
  <1> QED BY <1>4, <1>6, <1>7, ReadingKeepsGInv DEF GraphSubmit

\* An edit that is answered.
LEMMA AnsweredEdit ==
  ASSUME GInv, NEW g \in GraphCalls, GraphAnswer(g), edits' = edits
  PROVE  /\ GraphTypes' /\ GraphCall(g)'
         /\ \A h \in GraphCalls \ {g} :
               gpc'[h] = gpc[h] /\ edit'[h] = edit[h] /\ found'[h] = found[h]
  <1>1. GraphTypes
    BY DEF GInv
  <1>2. GraphTypes'
    BY <1>1 DEF GraphTypes, GraphAnswer
  <1>3. gpc'[g] = "idle"
    BY <1>1 DEF GraphTypes, GraphAnswer
  <1>4. GraphCall(g)'
    BY <1>3 DEF GraphCall, EditOf, HasRead, HasLocked
  <1> QED BY <1>1, <1>2, <1>4 DEF GraphTypes, GraphAnswer

LEMMA GraphRefusedKeepsGInv ==
  ASSUME GInv, NEW g \in GraphCalls, NEW objection, GraphRefused(g, objection)
  PROVE  GInv'
  <1>1. /\ GraphTypes' /\ GraphCall(g)'
        /\ \A h \in GraphCalls \ {g} :
              gpc'[h] = gpc[h] /\ edit'[h] = edit[h] /\ found'[h] = found[h]
    BY AnsweredEdit DEF GraphRefused
  <1> QED BY <1>1, ReadingKeepsGInv DEF GraphRefused

\* An edit that goes on to a state in which it does nothing but write.
LEMMA GraphReadKeepsGInv ==
  ASSUME GInv, NEW g \in GraphCalls, NEW next \in {"reparent", "insert"},
         ~Missing(g), UNCHANGED rowLock, GraphRead(g, next),
         \/ next = "reparent" /\ gpc[g] = "setParent"
         \/ next = "insert" /\ gpc[g] = "addDependency"
  PROVE  GInv'
  <1>1. GraphTypes /\ GraphCall(g)
    BY DEF GInv
  <1>2. edit[g] \in Edits /\ edit[g].task \in Tasks
    BY <1>1, EditShapes DEF GraphCall, EditOf
  <1>3. rows[edit[g].task] \in Row
    BY <1>2 DEF GInv, BaseInv, BaseTypes, Missing, Exists
  <1>4. GraphTypes'
    BY <1>1, <1>3 DEF GraphTypes, GraphRead
  <1>5. /\ gpc'[g] = next /\ edit' = edit /\ found'[g] = rows[edit[g].task] /\ rows' = rows
        /\ \A h \in GraphCalls \ {g} : gpc'[h] = gpc[h] /\ found'[h] = found[h]
    BY <1>1 DEF GraphTypes, GraphRead, tables
  <1>6. Missing(g)' <=> Missing(g)
    BY <1>5 DEF Missing, Exists
  <1>7. GraphCall(g)'
    BY <1>1, <1>2, <1>3, <1>5, <1>6 DEF GraphCall, EditOf, HasRead, HasLocked
  <1> QED BY <1>4, <1>5, <1>7, ReadingKeepsGInv DEF GraphRead

LEMMA CheckParentKeepsGInv ==
  ASSUME GInv, NEW g \in GraphCalls, CheckParent(g)
  PROVE  GInv'
  <1>1. CASE \E objection \in BOOLEAN : GraphRefused(g, objection)
    BY <1>1, GraphRefusedKeepsGInv
  <1>2. CASE ~Missing(g) /\ GraphRead(g, "reparent") /\ UNCHANGED rowLock
    BY <1>2, GraphReadKeepsGInv DEF CheckParent
  <1>3. \A objection : GraphRefused(g, objection) => GraphRefused(g, TRUE)
    BY DEF GraphRefused
  <1> QED BY <1>1, <1>2, <1>3 DEF CheckParent

LEMMA CheckEdgeKeepsGInv ==
  ASSUME GInv, NEW g \in GraphCalls, CheckEdge(g)
  PROVE  GInv'
  <1>1. CASE GraphRefused(g, TRUE)
    BY <1>1, GraphRefusedKeepsGInv
  <1>2. CASE ~Missing(g) /\ GraphRead(g, "insert") /\ UNCHANGED rowLock
    BY <1>2, GraphReadKeepsGInv DEF CheckEdge
  <1>3. \A objection : GraphRefused(g, objection) => GraphRefused(g, TRUE)
    BY DEF GraphRefused
  <1> QED BY <1>1, <1>2, <1>3 DEF CheckEdge

\* A write of a graph verb to the row of t, which no call has locked: it keeps
\* the version and the events, or adds a note.
LEMMA FreeWriteKeepsTables ==
  ASSUME GInv, NEW t \in Tasks, Exists(t), Unlocked(t), NEW row \in Row, NEW l,
         row.version = rows[t].version, row.parent # None => Exists(row.parent),
         l = log[t] \/ \E n \in Note : l = Append(log[t], n),
         rows' = [rows EXCEPT ![t] = row], log' = [log EXCEPT ![t] = l],
         UNCHANGED <<deps, rowLock, ops, rules, clock, callVars>>
  PROVE  /\ BaseInv' /\ ParentsExist' /\ EndsExist'
         /\ \A u \in Tasks : Exists(u)' <=> Exists(u)
         /\ \A u \in Tasks : rowLock[u] # None => rowLock'[u] = rowLock[u] /\ rows'[u] = rows[u]
  <1>1. BaseInv /\ BaseTypes /\ log[t] \in Seq(Event \cup Note) /\ rowLock[t] = None
    BY DEF GInv, BaseInv, BaseTypes, Unlocked
  <1>2. l \in Seq(Event \cup Note) /\ Count(l) = Count(log[t])
    BY <1>1, CountNote
  <1>3. BaseTypes'
    BY <1>1, <1>2 DEF BaseTypes, callVars
  <1>4. rows'[t] = row /\ log'[t] = l /\ \A u \in Tasks \ {t} : rows'[u] = rows[u] /\ log'[u] = log[u]
    BY <1>1 DEF BaseTypes
  <1>5. row # NoRow /\ rows[t] # NoRow
    BY RowIsNotNoRow DEF Exists
  <1>6. \A u \in Tasks : Exists(u)' <=> Exists(u)
    BY <1>4, <1>5 DEF Exists
  <1>7. VersionsCount'
    BY <1>1, <1>2, <1>4, <1>5 DEF VersionsCount, Exists, BaseInv
  <1>8. \A u \in Tasks : rowLock[u] # None =>
           rowLock'[u] = rowLock[u] /\ rows'[u] = rows[u] /\ log'[u] = log[u]
    BY <1>1, <1>4
  <1>9. BaseInv'
    BY <1>1, <1>3, <1>7, <1>8, NamesApart, GraphStepKeepsBaseInv DEF callVars
  <1>10. \A u \in Tasks : rows[u] \in Row /\ rows[u].parent # None => rows[u].parent \in Tasks
    BY DEF Row
  <1>11. row.parent # None => row.parent \in Tasks
    BY DEF Row
  <1>12. \A u \in Tasks : Exists(u) => rows[u] \in Row
    BY <1>1 DEF BaseTypes, Exists
  <1>13. ASSUME NEW u \in Tasks, Exists(u)', rows'[u].parent # None 
         PROVE rows'[rows'[u].parent] # NoRow
    <2>1. rows'[u].parent \in Tasks /\ Exists(rows'[u].parent)
      <3>1. CASE u = t
        BY <3>1, <1>4, <1>11, <1>13
      <3>2. CASE u # t
        BY <3>2, <1>4, <1>6, <1>10, <1>12, <1>13 DEF GInv, ParentsExist
      <3> QED BY <3>1, <3>2
    <2>2. PICK p \in Tasks : p = rows'[u].parent
      BY <2>1
    <2> QED BY <1>6, <2>1, <2>2 DEF Exists
  <1>14. ParentsExist'
    BY <1>13 DEF ParentsExist, Exists
  <1>15. EndsExist'
    <2>1. \A e \in deps : e[1] \in Tasks /\ e[2] \in Tasks /\ Exists(e[1]) /\ Exists(e[2])
      BY <1>1 DEF GInv, EndsExist, BaseTypes
    <2> QED BY <2>1, <1>6 DEF EndsExist, Exists
  <1> QED BY <1>6, <1>8, <1>9, <1>14, <1>15

LEMMA WriteParentKeepsGInv ==
  ASSUME GInv, NEW g \in GraphCalls, WriteParent(g)
  PROVE  GInv'
  <1> DEFINE t == edit[g].task
             p == edit[g].other
  <1>1. /\ t \in Tasks /\ p \in Tasks \cup {None} /\ ~Missing(g) /\ found[g] \in Row
    BY EditShapes DEF GInv, GraphCall, EditOf, HasRead, WriteParent
  <1>2. Exists(t) /\ rows[t] \in Row /\ (p # None => Exists(p))
    BY <1>1 DEF Missing, Exists, GInv, BaseInv, BaseTypes
  <1>3. PICK row \in Row : row = [rows[t] EXCEPT !.parent = p]
    BY <1>1, <1>2 DEF Row
  <1>4. row.version = rows[t].version /\ row.parent = p
    BY <1>2, <1>3 DEF Row
  <1>5. PICK n \in Note : n = GraphEvent("parent_task_id", found[g].parent, p)
    <2>1. found[g].parent \in Tasks \cup {None} /\ "parent_task_id" \in GraphKinds
      BY <1>1 DEF Row, GraphKinds
    <2> QED BY <1>1, <2>1, GraphEventIsNote
  <1>6. /\ rows' = [rows EXCEPT ![t] = row] /\ log' = [log EXCEPT ![t] = Append(log[t], n)]
        /\ Unlocked(t) /\ UNCHANGED <<deps, rowLock, ops, rules, clock, callVars>>
        /\ GraphAnswer(g) /\ edits' = edits
    BY <1>3, <1>5 DEF WriteParent, KeepsRest
  <1> HIDE DEF t, p
  <1>7. /\ BaseInv' /\ ParentsExist' /\ EndsExist'
        /\ \A u \in Tasks : Exists(u)' <=> Exists(u)
        /\ \A u \in Tasks : rowLock[u] # None => rowLock'[u] = rowLock[u] /\ rows'[u] = rows[u]
    BY <1>1, <1>2, <1>4, <1>6, FreeWriteKeepsTables
  <1>8. /\ GraphTypes' /\ GraphCall(g)'
        /\ \A h \in GraphCalls \ {g} :
              gpc'[h] = gpc[h] /\ edit'[h] = edit[h] /\ found'[h] = found[h]
    BY <1>6, AnsweredEdit
  <1> QED BY <1>7, <1>8, NamesApart, StepOfOneEdit

\* A step of an edit that goes on.
LEMMA EditGoesOn ==
  ASSUME GInv, NEW g \in GraphCalls, NEW next \in {"block", "log", "todo", "remove"},
         gpc' = [gpc EXCEPT ![g] = next], UNCHANGED <<edit, found, edits>>
  PROVE  /\ GraphTypes' /\ gpc'[g] = next
         /\ \A h \in GraphCalls \ {g} :
               gpc'[h] = gpc[h] /\ edit'[h] = edit[h] /\ found'[h] = found[h]
  BY DEF GInv, GraphTypes

LEMMA InsertEdgeKeepsGInv ==
  ASSUME GInv, NEW g \in GraphCalls, InsertEdge(g)
  PROVE  GInv'
  <1>1. /\ edit[g].task \in Tasks /\ edit[g].other \in Tasks
        /\ Exists(edit[g].task) /\ Exists(edit[g].other)
        /\ edit[g].verb = "addDependency" /\ edit[g] \in Edits /\ found[g] \in Row
    BY EditShapes, NamesApart DEF GInv, GraphCall, EditOf, HasRead, InsertEdge, Missing
  <1>2. /\ rows' = rows /\ log' = log /\ rowLock' = rowLock /\ edit' = edit /\ found' = found
        /\ ops' = ops /\ rules' = rules /\ clock' = clock /\ UNCHANGED callVars
        /\ edits' = edits
        /\ deps' = deps \cup {<<edit[g].task, edit[g].other>>}
    BY DEF InsertEdge, KeepsRest
  <1>3. PICK next \in {"block", "log"} : gpc' = [gpc EXCEPT ![g] = next]
    BY DEF InsertEdge
  <1>4. BaseTypes'
    BY <1>1, <1>2 DEF GInv, BaseInv, BaseTypes, callVars
  <1>5. VersionsCount'
    BY <1>2, TablesKeepVersions DEF GInv, BaseInv
  <1>6. BaseInv'
    BY <1>2, <1>4, <1>5, GraphStepKeepsBaseInv DEF GInv, callVars
  <1>7. \A u : Exists(u)' <=> Exists(u)
    BY <1>2 DEF Exists
  <1>8. ParentsExist' /\ EndsExist'
    BY <1>1, <1>2 DEF GInv, ParentsExist, EndsExist, Exists
  <1>9. /\ GraphTypes' /\ gpc'[g] = next
        /\ \A h \in GraphCalls \ {g} :
              gpc'[h] = gpc[h] /\ edit'[h] = edit[h] /\ found'[h] = found[h]
    BY <1>2, <1>3, EditGoesOn
  <1>10. ~Missing(g)'
    BY <1>1, <1>2 DEF Missing, Exists
  <1>11. GraphCall(g)'
    BY <1>1, <1>2, <1>9, <1>10 DEF GraphCall, EditOf, HasRead, HasLocked
  <1> QED BY <1>2, <1>6, <1>7, <1>8, <1>9, <1>11, StepOfOneEdit

LEMMA BlockTaskKeepsGInv ==
  ASSUME GInv, NEW g \in GraphCalls, BlockTask(g)
  PROVE  GInv'
  <1>1. /\ edit[g].task \in Tasks /\ edit[g].other \in Tasks
        /\ Exists(edit[g].task) /\ Exists(edit[g].other)
        /\ edit[g].verb = "addDependency" /\ edit[g] \in Edits /\ found[g] \in Row
    BY EditShapes, NamesApart DEF GInv, GraphCall, EditOf, HasRead, BlockTask, Missing
  <1>2. PICK t \in Tasks : t = edit[g].task
    BY <1>1
  <1>3. Exists(t) /\ rows[t] \in Row
    BY <1>1, <1>2 DEF Exists, GInv, BaseInv, BaseTypes
  <1>4. PICK row \in Row : row = [rows[t] EXCEPT !.status = "blocked"]
    BY <1>3 DEF Row, Status
  <1>5. row.version = rows[t].version /\ row.parent = rows[t].parent
    BY <1>3, <1>4 DEF Row
  <1>6. log' = [log EXCEPT ![t] = log[t]]
    BY DEF BlockTask, GInv, BaseInv, BaseTypes
  <1>7. /\ rows' = [rows EXCEPT ![t] = row] /\ Unlocked(t)
        /\ UNCHANGED <<deps, rowLock, ops, rules, clock, callVars>>
        /\ gpc' = [gpc EXCEPT ![g] = "log"] /\ UNCHANGED <<edit, found, edits>>
    BY <1>2, <1>4 DEF BlockTask, KeepsRest
  <1>8. row.parent # None => Exists(row.parent)
    BY <1>3, <1>5 DEF GInv, ParentsExist
  <1>9. /\ BaseInv' /\ ParentsExist' /\ EndsExist'
        /\ \A u \in Tasks : Exists(u)' <=> Exists(u)
        /\ \A u \in Tasks : rowLock[u] # None => rowLock'[u] = rowLock[u] /\ rows'[u] = rows[u]
    BY <1>3, <1>5, <1>6, <1>7, <1>8, FreeWriteKeepsTables
  <1>10. /\ GraphTypes' /\ gpc'[g] = "log"
         /\ \A h \in GraphCalls \ {g} :
               gpc'[h] = gpc[h] /\ edit'[h] = edit[h] /\ found'[h] = found[h]
    BY <1>7, EditGoesOn
  <1>11. ~Missing(g)'
    BY <1>1, <1>7, <1>9 DEF Missing, Exists
  <1>12. GraphCall(g)'
    BY <1>1, <1>7, <1>10, <1>11 DEF GraphCall, EditOf, HasRead, HasLocked
  <1> QED BY <1>9, <1>10, <1>12, NamesApart, StepOfOneEdit

LEMMA LogEdgeKeepsGInv ==
  ASSUME GInv, NEW g \in GraphCalls, LogEdge(g)
  PROVE  GInv'
  <1>1. edit[g].task \in Tasks /\ edit[g].other \in Tasks /\ Exists(edit[g].task)
    BY EditShapes, NamesApart DEF GInv, GraphCall, EditOf, HasRead, LogEdge, Missing
  <1>2. PICK t \in Tasks : t = edit[g].task
    BY <1>1
  <1>3. Exists(t) /\ rows[t] \in Row
    BY <1>1, <1>2 DEF Exists, GInv, BaseInv, BaseTypes
  <1>4. rows' = [rows EXCEPT ![t] = rows[t]]
    BY DEF LogEdge, GInv, BaseInv, BaseTypes
  <1>5. PICK n \in Note : n = GraphEvent("dependency_added", None, edit[g].other)
    BY <1>1, GraphEventIsNote DEF GraphKinds
  <1>6. /\ log' = [log EXCEPT ![t] = Append(log[t], n)] /\ Unlocked(t)
        /\ UNCHANGED <<deps, rowLock, ops, rules, clock, callVars>>
        /\ GraphAnswer(g) /\ edits' = edits
    BY <1>2, <1>5 DEF LogEdge, KeepsRest
  <1>7. rows[t].parent # None => Exists(rows[t].parent)
    BY <1>3 DEF GInv, ParentsExist
  <1>8. /\ BaseInv' /\ ParentsExist' /\ EndsExist'
        /\ \A u \in Tasks : Exists(u)' <=> Exists(u)
        /\ \A u \in Tasks : rowLock[u] # None => rowLock'[u] = rowLock[u] /\ rows'[u] = rows[u]
    BY <1>3, <1>4, <1>6, <1>7, FreeWriteKeepsTables
  <1>9. /\ GraphTypes' /\ GraphCall(g)'
        /\ \A h \in GraphCalls \ {g} :
              gpc'[h] = gpc[h] /\ edit'[h] = edit[h] /\ found'[h] = found[h]
    BY <1>6, AnsweredEdit
  <1> QED BY <1>8, <1>9, NamesApart, StepOfOneEdit

LEMMA LockDependentKeepsGInv ==
  ASSUME GInv, NEW g \in GraphCalls, LockDependent(g)
  PROVE  GInv'
  <1>1. CASE GraphRefused(g, ~Exists(edit[g].task))
    BY <1>1, GraphRefusedKeepsGInv
  <1>2. CASE /\ Exists(edit[g].task) /\ Unlocked(edit[g].task)
             /\ rowLock' = [rowLock EXCEPT ![edit[g].task] = g]
             /\ GraphRead(g, "unblock")
    <2>1. gpc[g] = "removeDependency" /\ GraphTypes /\ GraphCall(g)
      BY DEF LockDependent, GInv
    <2>2. edit[g] \in Edits /\ edit[g].verb = "removeDependency" /\ edit[g].task \in Tasks
      BY <2>1, EditShapes DEF GraphCall, EditOf
    <2>3. PICK t \in Tasks : t = edit[g].task
      BY <2>2
    <2>4. rowLock \in [Tasks -> Calls \cup GraphCalls \cup {None}] /\ rowLock[t] = None
      BY <1>2, <2>3 DEF GInv, BaseInv, BaseTypes, Unlocked
    <2>5. /\ rowLock' \in [Tasks -> Calls \cup GraphCalls \cup {None}]
          /\ rowLock'[t] = g /\ \A u \in Tasks : rowLock[u] # None => rowLock'[u] = rowLock[u]
      BY <1>2, <2>3, <2>4
    <2>6. BaseInv' /\ ParentsExist' /\ EndsExist' /\ \A u \in Tasks : Exists(u)' <=> Exists(u)
      BY <1>2, <2>5, NamesApart, QuietTables DEF GraphRead
    <2>7. rows[t] \in Row
      BY <1>2, <2>3 DEF GInv, BaseInv, BaseTypes, Exists
    <2>8. GraphTypes'
      BY <1>2, <2>1, <2>3, <2>7 DEF GraphTypes, GraphRead
    <2>9. /\ gpc'[g] = "unblock" /\ edit' = edit /\ found'[g] = rows[t] /\ rows' = rows
          /\ \A h \in GraphCalls \ {g} : gpc'[h] = gpc[h] /\ found'[h] = found[h]
      BY <1>2, <2>1, <2>3 DEF GraphTypes, GraphRead, tables
    <2>10. GraphCall(g)'
      BY <1>2, <2>2, <2>3, <2>5, <2>6, <2>9 DEF GraphCall, EditOf, HasRead, HasLocked, Exists
    <2> QED BY <2>5, <2>6, <2>8, <2>9, <2>10, NamesApart, StepOfOneEdit
  <1> QED BY <1>1, <1>2 DEF LockDependent

LEMMA CheckUnblockedKeepsGInv ==
  ASSUME GInv, NEW g \in GraphCalls, CheckUnblocked(g)
  PROVE  GInv'
  <1>1. gpc[g] = "unblock" /\ GraphCall(g)
    BY DEF CheckUnblocked, GInv
  <1>2. PICK next \in {"todo", "remove"} : gpc' = [gpc EXCEPT ![g] = next]
    BY DEF CheckUnblocked
  <1>3. UNCHANGED <<tables, rowLock, clock, callVars, edit, found, edits>>
    BY DEF CheckUnblocked
  <1>4. /\ GraphTypes' /\ gpc'[g] = next
        /\ \A h \in GraphCalls \ {g} :
              gpc'[h] = gpc[h] /\ edit'[h] = edit[h] /\ found'[h] = found[h]
    BY <1>2, <1>3, EditGoesOn
  <1>5. GraphCall(g)'
    BY <1>1, <1>3, <1>4 DEF GraphCall, EditOf, HasRead, HasLocked, Exists, tables
  <1> QED BY <1>3, <1>4, <1>5, ReadingKeepsGInv

\* What CommitRemoval appends to the task's events, and by how many versions.
LEMMA RemovalEvents ==
  ASSUME NEW l \in Seq(Event \cup Note), NEW g \in GraphCalls, edit[g].other \in Tasks
  PROVE  /\ l \o Unblocking(g) \in Seq(Event \cup Note) /\ Count(l \o Unblocking(g)) = Count(l) + 1
         /\ LET n == GraphEvent("dependency_removed", None, edit[g].other)
            IN  Append(l, n) \in Seq(Event \cup Note) /\ Count(Append(l, n)) = Count(l)
  <1>1. PICK n \in Note : n = GraphEvent("dependency_removed", None, edit[g].other)
    BY GraphEventIsNote DEF GraphKinds
  <1>2. PICK e \in Event : e = GraphEvent("status_changed", "blocked", "todo")
    BY DEF GraphEvent, Event, Kinds, Values, Status
  <1>3. PICK m \in Seq(Event \cup Note) : m = l \o <<e>>
    <2>1. l \o <<e>> = Append(l, e)
      OBVIOUS
    <2>2. Append(l, e) \in Seq(Event \cup Note)
      OBVIOUS
    <2> QED BY <2>1, <2>2
  <1>4. Count(m) = Count(l) + 1
    <2>1. <<e>> \in Seq(Event) /\ Len(<<e>>) = 1
      OBVIOUS
    <2> QED BY <1>3, <2>1, CountConcat
  <1>5. l \o <<e, n>> = Append(m, n)
    BY <1>3
  <1>6. Append(m, n) \in Seq(Event \cup Note) /\ Count(Append(m, n)) = Count(m)
    BY CountNote
  <1>7. Append(l, n) \in Seq(Event \cup Note) /\ Count(Append(l, n)) = Count(l)
    BY CountNote
  <1> QED BY <1>1, <1>2, <1>4, <1>5, <1>6, <1>7 DEF Unblocking

LEMMA CommitRemovalKeepsGInv ==
  ASSUME GInv, NEW g \in GraphCalls, CommitRemoval(g)
  PROVE  GInv'
  <1>1. /\ edit[g].task \in Tasks /\ edit[g].other \in Tasks /\ Exists(edit[g].task)
        /\ rowLock[edit[g].task] = g /\ found[g] = rows[edit[g].task]
    BY EditShapes DEF GInv, GraphCall, EditOf, HasLocked, CommitRemoval
  <1>2. PICK t \in Tasks : t = edit[g].task
    BY <1>1
  <1>3. BaseInv /\ BaseTypes /\ VersionsCount
    BY DEF GInv, BaseInv
  <1>4. rows[t] \in Row /\ log[t] \in Seq(Event \cup Note) /\ rows[t].version = Count(log[t])
    BY <1>1, <1>2, <1>3 DEF BaseTypes, VersionsCount, Exists
  <1>5. PICK row \in Row, l \in Seq(Event \cup Note) :
           /\ rows' = [rows EXCEPT ![t] = row] /\ log' = [log EXCEPT ![t] = l]
           /\ row.version = Count(l) /\ row.parent = rows[t].parent
    <2>1. CASE gpc[g] = "todo"
      <3>1. PICK row \in Row : row = [rows[t] EXCEPT !.status = "todo",
                                                      !.version = found[g].version + 1]
        <4>1. found[g].version + 1 \in Nat \ {0} /\ "todo" \in Status
          BY <1>1, <1>2, <1>4 DEF Row, Status
        <4>2. [rows[t] EXCEPT !.status = "todo"] \in Row
          BY <1>4, <4>1 DEF Row
        <4>3. [[rows[t] EXCEPT !.status = "todo"] EXCEPT !.version = found[g].version + 1] \in Row
          BY <4>1, <4>2 DEF Row
        <4> QED BY <4>3
      <3>2. row.version = rows[t].version + 1 /\ row.parent = rows[t].parent
        BY <1>1, <1>2, <1>4, <3>1 DEF Row
      <3>3. rows' = [rows EXCEPT ![t] = row]
        BY <1>2, <1>3, <2>1, <3>1 DEF CommitRemoval, BaseTypes
      <3>4. log' = [log EXCEPT ![t] = log[t] \o Unblocking(g)]
        BY <1>2, <2>1 DEF CommitRemoval
      <3>5. log[t] \o Unblocking(g) \in Seq(Event \cup Note)
            /\ Count(log[t] \o Unblocking(g)) = Count(log[t]) + 1
        BY <1>1, <1>4, RemovalEvents
      <3> QED BY <1>4, <3>2, <3>3, <3>4, <3>5
    <2>2. CASE gpc[g] # "todo"
      <3>1. rows' = [rows EXCEPT ![t] = rows[t]]
        BY <1>3, <2>2 DEF CommitRemoval, BaseTypes
      <3>2. PICK n : n = GraphEvent("dependency_removed", None, edit[g].other)
        OBVIOUS
      <3>3. log' = [log EXCEPT ![t] = Append(log[t], n)]
        BY <1>2, <2>2, <3>2 DEF CommitRemoval
      <3>4. Append(log[t], n) \in Seq(Event \cup Note) /\ Count(Append(log[t], n)) = Count(log[t])
        BY <1>1, <1>4, <3>2, RemovalEvents
      <3> QED BY <1>4, <3>1, <3>3, <3>4
    <2> QED BY <2>1, <2>2
  <1>6. /\ rows'[t] = row /\ log'[t] = l
        /\ \A u \in Tasks \ {t} : rows'[u] = rows[u] /\ log'[u] = log[u]
    BY <1>3, <1>5 DEF BaseTypes
  <1>7. /\ rowLock' = Released({g}) /\ GraphAnswer(g) /\ edits' = edits
        /\ UNCHANGED <<ops, rules, clock, callVars>> /\ deps' \subseteq deps
    BY DEF CommitRemoval, KeepsRest
  <1>8. /\ rowLock' \in [Tasks -> Calls \cup GraphCalls \cup {None}]
        /\ \A u \in Tasks : rowLock[u] # g => rowLock'[u] = rowLock[u]
    BY <1>3, <1>7 DEF BaseTypes, Released
  <1>9. row # NoRow
    BY RowIsNotNoRow
  <1>10. \A u \in Tasks : Exists(u)' <=> Exists(u)
    BY <1>1, <1>2, <1>6, <1>9 DEF Exists
  <1>11. BaseTypes'
    BY <1>3, <1>5, <1>7, <1>8 DEF BaseTypes, callVars
  <1>12. VersionsCount'
    BY <1>3, <1>5, <1>6, <1>9 DEF VersionsCount, Exists
  <1>13. \A u \in Tasks : rowLock[u] # g =>
            rowLock'[u] = rowLock[u] /\ rows'[u] = rows[u] /\ log'[u] = log[u]
    BY <1>1, <1>2, <1>6, <1>8
  <1>14. BaseInv'
    BY <1>3, <1>7, <1>11, <1>12, <1>13, NamesApart, GraphStepKeepsBaseInv DEF callVars
  <1>15. ASSUME NEW u \in Tasks, Exists(u)', rows'[u].parent # None
         PROVE rows'[rows'[u].parent] # NoRow
    <2>1. Exists(u) /\ rows'[u].parent = rows[u].parent
      BY <1>5, <1>6, <1>10, <1>15
    <2>2. PICK p : p = rows'[u].parent
      OBVIOUS
    <2>3. Exists(p)
      BY <1>15, <2>1, <2>2 DEF GInv, ParentsExist
    <2>4. rows[u] \in Row /\ p \in Tasks
      BY <1>3, <1>15, <2>1, <2>2 DEF BaseTypes, Exists, Row
    <2> QED BY <1>10, <2>2, <2>3, <2>4 DEF Exists
  <1>16. ParentsExist'
    BY <1>15 DEF ParentsExist, Exists
  <1>17. EndsExist'
    <2>1. \A e \in deps : e[1] \in Tasks /\ e[2] \in Tasks /\ Exists(e[1]) /\ Exists(e[2])
      BY <1>3 DEF GInv, EndsExist, BaseTypes
    <2> QED BY <1>7, <1>10, <2>1 DEF EndsExist, Exists
  <1>18. /\ GraphTypes' /\ GraphCall(g)'
         /\ \A h \in GraphCalls \ {g} :
               gpc'[h] = gpc[h] /\ edit'[h] = edit[h] /\ found'[h] = found[h]
    BY <1>7, AnsweredEdit
  <1> QED BY <1>10, <1>13, <1>14, <1>16, <1>17, <1>18, StepOfOneEdit

LEMMA GraphHandleKeepsGInv ==
  ASSUME GInv, NEW g \in GraphCalls, GraphHandle(g)
  PROVE  GInv'
  BY CheckParentKeepsGInv, WriteParentKeepsGInv, CheckEdgeKeepsGInv, InsertEdgeKeepsGInv,
     BlockTaskKeepsGInv, LogEdgeKeepsGInv, LockDependentKeepsGInv, CheckUnblockedKeepsGInv,
     CommitRemovalKeepsGInv
     DEF GraphHandle

(***************************************************************************)
(* Crashes and task verbs                                                  *)
(***************************************************************************)

LEMMA GraphCrashKeepsGInv ==
  ASSUME GInv, GraphCrash
  PROVE  GInv'
  <1>1. Interrupted /\ tables' = tables
    BY DEF GraphCrash, Interrupted
  <1>2. BaseInv'
    BY <1>1, CrashKeepsBaseInv DEF GInv
  <1>3. ParentsExist' /\ EndsExist'
    BY <1>1 DEF tables, GInv, ParentsExist, EndsExist, Exists
  <1>4. \A g \in GraphCalls : Pending(g) => edit[g].task \in Tasks
    BY EditShapes DEF GInv, GraphCall, EditOf, Pending
  <1>5. GraphTypes'
    BY <1>4 DEF GInv, GraphTypes, GraphCrash
  <1>6. \A g \in GraphCalls : GraphCall(g)'
    BY DEF GraphCrash, GraphCall, EditOf, HasRead, HasLocked
  <1> QED BY <1>2, <1>3, <1>5, <1>6 DEF GInv

\* What a task verb does to the tables, and to the locks of the graph verbs.
VerbStep == TaskVerbs /\ UNCHANGED gvars

\* A commit keeps the parent and leaves the rows that the call has not locked.
LEMMA CommittedRow ==
  ASSUME BaseInv, NEW c \in Calls, Commit(c)
  PROVE  /\ deps' = deps
         /\ \A t \in Tasks : Exists(t) => Exists(t)' /\ rows'[t].parent = rows[t].parent
         /\ \A t \in Tasks : Exists(t)' /\ ~Exists(t) => rows'[t].parent = None
         /\ \A t \in Tasks : rowLock[t] # c => rowLock'[t] = rowLock[t] /\ rows'[t] = rows[t]
  <1>1. PICK t \in Tasks : /\ t = txn[c].task /\ rowLock[t] = c /\ txn[c].row \in Row
                           /\ txn[c].row.parent = Parent(t)
    BY DEF BaseInv, BaseCall, BaseDraft, Commit
  <1>2. rows'[t] = txn[c].row /\ \A u \in Tasks \ {t} : rows'[u] = rows[u]
    BY <1>1 DEF Commit, BaseInv, BaseTypes
  <1>3. txn[c].row # NoRow
    BY <1>1, RowIsNotNoRow
  <1>4. \A u \in Tasks : rowLock[u] # c => rowLock'[u] = rowLock[u]
    BY DEF Commit, Released
  <1>5. deps' = deps
    BY DEF Commit
  <1> QED BY <1>1, <1>2, <1>3, <1>4, <1>5 DEF Exists, Parent

LEMMA VerbStepKeepsGraph ==
  ASSUME BaseInv, TaskVerbs
  PROVE  /\ deps' = deps
         /\ \A t \in Tasks : Exists(t) => Exists(t)' /\ rows'[t].parent = rows[t].parent
         /\ \A t \in Tasks : Exists(t)' /\ ~Exists(t) => rows'[t].parent = None
         /\ \A t \in Tasks : rowLock[t] \notin Calls \cup {None} =>
               rowLock'[t] = rowLock[t] /\ rows'[t] = rows[t]
  <1>1. CASE \E c \in Calls : Commit(c)
    BY <1>1, CommittedRow
  <1>2. CASE ~\E c \in Calls : Commit(c)
    <2>1. ASSUME NEW c \in Calls, Handle(c)
          PROVE  /\ rows' = rows /\ deps' = deps
                 /\ \/ rowLock' = rowLock \/ rowLock' = Released({c})
                    \/ \E t \in Tasks : rowLock[t] = None /\ rowLock' = [rowLock EXCEPT ![t] = c]
      <3>1. CASE LockTask(c)
        <4>1. req[c].task \in Tasks
          BY <3>1, RequestShape DEF LockTask, BaseInv, BaseCall
        <4> QED BY <3>1, <4>1 DEF LockTask, tables
      <3>2. CASE \E t \in Tasks : CreateTask(c, t)
        BY <3>2 DEF CreateTask, Unheard, tables
      <3>3. CASE LockMissing(c) \/ LockRefused(c) \/ CheckDependencies(c) \/ CheckChildren(c)
                 \/ RefuseWrite(c) \/ RuleFails(c)
        BY <3>3 DEF LockMissing, LockRefused, CheckDependencies, CheckChildren, RefuseWrite,
                    RuleFails, Abort, tables
      <3>4. CASE CheckHit(c) \/ CheckMiss(c) \/ RecheckHit(c) \/ RecheckMiss(c) \/ WriteTask(c)
                 \/ FireStatusRule(c) \/ FireAssigneeRule(c)
        BY <3>4 DEF CheckHit, CheckMiss, RecheckHit, RecheckMiss, AnswerFromReceipt, WriteTask,
                    FireStatusRule, FireAssigneeRule, RuleWrites, tables
      <3> QED BY <1>2, <2>1, <3>1, <3>2, <3>3, <3>4 DEF Handle
    <2>2. ASSUME NEW c \in Calls, Handle(c)
          PROVE  /\ rows' = rows /\ deps' = deps
                 /\ \A t \in Tasks : rowLock[t] \notin Calls \cup {None} => rowLock'[t] = rowLock[t]
      <3>1. rowLock \in [Tasks -> Calls \cup GraphCalls \cup {None}]
        BY DEF BaseInv, BaseTypes
      <3> QED BY <2>1, <2>2, <3>1 DEF Released
    <2>3. ASSUME NEW c \in Calls, NEW o \in Ops, NEW b \in Bodies,
                 NEW v \in KnownVersions(b.task), Submit(c, o, b, v)
          PROVE  rows' = rows /\ deps' = deps /\ rowLock' = rowLock
      BY <2>3 DEF Submit, tables
    <2> QED BY <2>2, <2>3 DEF TaskVerbs, Exists
  <1> QED BY <1>1, <1>2

LEMMA TaskVerbsKeepGInv ==
  ASSUME GInv, VerbStep
  PROVE  GInv'
  <1>1. BaseInv /\ TaskVerbs /\ gpc' = gpc /\ edit' = edit /\ found' = found
        /\ edits' = edits
    BY DEF GInv, VerbStep, gvars
  <1>2. BaseInv'
    BY <1>1, SubmitKeepsBaseInv, HandleKeepsBaseInv DEF TaskVerbs
  <1>3. /\ deps' = deps
        /\ \A t \in Tasks : Exists(t) => Exists(t)' /\ rows'[t].parent = rows[t].parent
        /\ \A t \in Tasks : Exists(t)' /\ ~Exists(t) => rows'[t].parent = None
        /\ \A t \in Tasks : rowLock[t] \notin Calls \cup {None} =>
              rowLock'[t] = rowLock[t] /\ rows'[t] = rows[t]
    BY <1>1, VerbStepKeepsGraph
  <1>4. GraphTypes'
    BY <1>1 DEF GInv, GraphTypes
  <1>5. ASSUME NEW u \in Tasks, Exists(u)', rows'[u].parent # None
        PROVE rows'[rows'[u].parent] # NoRow
    <2>1. PICK p : p = rows'[u].parent
      OBVIOUS
    <2>2. Exists(u) /\ rows[u].parent = p
      BY <1>3, <1>5, <2>1
    <2>3. Exists(p)
      BY <1>5, <2>1, <2>2 DEF GInv, ParentsExist
    <2>4. rows[u] \in Row /\ p \in Tasks
      BY <1>1, <1>5, <2>1, <2>2 DEF BaseInv, BaseTypes, Exists, Row
    <2>5. Exists(p)'
      BY <1>3, <2>3, <2>4
    <2> QED BY <2>1, <2>5 DEF Exists
  <1>6. ParentsExist'
    BY <1>5 DEF ParentsExist, Exists
  <1>7. EndsExist'
    <2>1. \A e \in deps : e[1] \in Tasks /\ e[2] \in Tasks /\ Exists(e[1]) /\ Exists(e[2])
      BY <1>1 DEF GInv, EndsExist, BaseInv, BaseTypes
    <2> QED BY <1>3, <2>1 DEF EndsExist, Exists
  <1>8. ASSUME NEW h \in GraphCalls PROVE GraphCall(h)'
    <2>1. \A t \in Tasks : rowLock[t] = h => rowLock'[t] = h /\ rows'[t] = rows[t]
      BY <1>3, NamesApart
    <2> QED BY <1>1, <1>3, <2>1, OtherEditsStay
  <1> QED BY <1>2, <1>4, <1>6, <1>7, <1>8 DEF GInv

LEMMA GraphNextKeepsGInv ==
  ASSUME GInv, [GraphNext]_<<vars, gvars>>
  PROVE  GInv'
  <1>1. CASE \E g \in GraphCalls, e \in Edits : GraphSubmit(g, e)
    BY <1>1, GraphSubmitKeepsGInv
  <1>2. CASE \E g \in GraphCalls : GraphHandle(g)
    BY <1>2, GraphHandleKeepsGInv
  <1>3. CASE GraphCrash
    BY <1>3, GraphCrashKeepsGInv
  <1>4. CASE VerbStep
    BY <1>4, TaskVerbsKeepGInv
  <1>5. CASE UNCHANGED <<vars, gvars>>
    <2>1. BaseInv'
      BY <1>5, NextKeepsBaseInv DEF GInv
    <2> QED BY <1>5, <2>1 DEF vars, gvars, GInv, GraphTypes, ParentsExist, EndsExist, Exists,
                              GraphCall, EditOf, HasRead, HasLocked, Missing
  <1> QED BY <1>1, <1>2, <1>3, <1>4, <1>5 DEF GraphNext, VerbStep

\* The histories of the graph verbs, which say what nobody has locked.
HistoryTypes ==
    /\ overtaken \subseteq GraphCalls
    /\ crossed \subseteq {"setParent", "addDependency"}
    /\ untold \subseteq Tasks \X Tasks

\* What a step of any client does to the histories.
LEMMA HistoryTypesStay ==
  ASSUME GInv, HistoryTypes, [GraphNext]_<<vars, gvars>>
  PROVE  HistoryTypes'
  <1>1. ASSUME NEW g \in GraphCalls, NEW unsafe, Cross(g, unsafe), untold' = untold,
               edit[g].verb \in {"setParent", "addDependency"}
        PROVE  HistoryTypes'
    BY <1>1 DEF HistoryTypes, Cross, Rivals
  <1>2. ASSUME NEW g \in GraphCalls, GraphHandle(g), UNCHANGED history PROVE HistoryTypes'
    BY <1>2 DEF HistoryTypes, history
  <1>3. ASSUME NEW g \in GraphCalls, WriteParent(g) PROVE HistoryTypes'
    <2>1. edit[g].verb = "setParent"
      BY <1>3 DEF GInv, GraphCall, EditOf, WriteParent
    <2>2. untold' = untold /\ Cross(g, edit[g].other # None /\
                                         (g \in overtaken \/ edit[g].other = edit[g].task))
      BY <1>3 DEF WriteParent
    <2> QED BY <1>1, <2>1, <2>2
  <1>4. ASSUME NEW g \in GraphCalls, InsertEdge(g) PROVE HistoryTypes'
    <2>1. edit[g].verb = "addDependency"
      BY <1>4 DEF GInv, GraphCall, EditOf, InsertEdge
    <2>2. untold' = untold /\ Cross(g, g \in overtaken)
      BY <1>4 DEF InsertEdge
    <2> QED BY <1>1, <2>1, <2>2
  <1>5. ASSUME NEW g \in GraphCalls, CommitRemoval(g) PROVE HistoryTypes'
    <2>1. edit[g].task \in Tasks /\ edit[g].other \in Tasks
      BY <1>5, EditShapes DEF GInv, GraphCall, EditOf, CommitRemoval
    <2>2. UNCHANGED <<overtaken, crossed>>
          /\ untold' = untold \cup {e \in {<<edit[g].task, edit[g].other>>} : Loggers(e) # {}}
      BY <1>5 DEF CommitRemoval
    <2> QED BY <2>1, <2>2 DEF HistoryTypes
  <1>6. ASSUME NEW g \in GraphCalls, GraphHandle(g) PROVE HistoryTypes'
    <2>1. CASE CheckParent(g)
      BY <1>2, <1>6, <2>1 DEF CheckParent, GraphRefused, GraphRead, history
    <2>2. CASE CheckEdge(g)
      BY <1>2, <1>6, <2>2 DEF CheckEdge, GraphRefused, GraphRead, history
    <2>3. CASE LockDependent(g)
      BY <1>2, <1>6, <2>3 DEF LockDependent, GraphRefused, GraphRead, history
    <2>4. CASE BlockTask(g) \/ LogEdge(g) \/ CheckUnblocked(g)
      BY <1>2, <1>6, <2>4 DEF BlockTask, LogEdge, CheckUnblocked
    <2> QED BY <1>3, <1>4, <1>5, <1>6, <2>1, <2>2, <2>3, <2>4 DEF GraphHandle
  <1>7. CASE \E g \in GraphCalls, e \in Edits : GraphSubmit(g, e)
    BY <1>7 DEF GraphSubmit, HistoryTypes
  <1>8. CASE GraphCrash
    BY <1>8 DEF GraphCrash, HistoryTypes
  <1>9. CASE UNCHANGED gvars
    BY <1>9 DEF gvars, history, HistoryTypes
  <1> QED BY <1>6, <1>7, <1>8, <1>9 DEF GraphNext, vars

\* However many clients edit the hierarchy and the dependencies beside the task
\* verbs: what each of them has read and locked is still so.
THEOREM AlwaysGInv == GraphSpec => []GInv
  <1>1. GraphInit => GInv
    BY InitEstablishesGInv
  <1>2. GInv /\ [GraphNext]_<<vars, gvars>> => GInv'
    BY GraphNextKeepsGInv
  <1> QED BY <1>1, <1>2, PTL DEF GraphSpec

\* However many clients edit the hierarchy and the dependencies beside the task
\* verbs: parents and both ends of a dependency exist, and locks, rows and what
\* the handlers of setParent, addDependency and removeDependency hold have their
\* types.
THEOREM GraphTypeCorrect == GraphSpec => []GraphTypeOK
  <1>1. GraphInit => HistoryTypes
    BY DEF GraphInit, HistoryTypes
  <1>2. GInv /\ HistoryTypes /\ [GraphNext]_<<vars, gvars>> => HistoryTypes'
    BY HistoryTypesStay
  <1>3. GInv /\ HistoryTypes => GraphTypeOK
    BY DEF GInv, GraphTypes, HistoryTypes, ParentsExist, EndsExist, BaseInv, BaseTypes, GraphTypeOK
  <1> QED BY <1>1, <1>2, <1>3, AlwaysGInv, PTL DEF GraphSpec

\* tasks.version is the number of the task's events that are no note of a graph
\* verb, however many clients move tasks and edit the graphs: removeDependency
\* and the task verbs never write over each other's version.
THEOREM VersionsCountVersioned == GraphSpec => []VersionCountsVersioned
  <1>1. GInv => VersionCountsVersioned
    BY DEF GInv, BaseInv, VersionsCount, Count, Versioned, VersionCountsVersioned
  <1> QED BY <1>1, AlwaysGInv, PTL

(***************************************************************************)
(* Walks.  What a recursive function on 0 .. n computes is settled by      *)
(* going up from 0: StepInduction takes the place of an induction rule.    *)
(***************************************************************************)

LEMMA StepInduction ==
  ASSUME NEW n \in Nat, NEW I, 0 \in I, \A i \in 0 .. n : i \in I /\ i < n => i + 1 \in I
  PROVE  \A i \in 0 .. n : i \in I
  <1> DEFINE T == (0 .. n) \ I
  <1> SUFFICES ASSUME T # {} PROVE FALSE
    OBVIOUS
  <1>1. PICK x \in T : \A y \in T : ~(y < x)
    <2>1. IsWellFoundedOn(OpToRel(<, Nat), Nat)
      BY NatLessThanWellFounded
    <2>2. T \subseteq Nat
      OBVIOUS
    <2>3. \E x \in T : \A y \in T : ~(<<y, x>> \in OpToRel(<, Nat))
      <3> HIDE DEF T
      <3> QED BY <2>1, <2>2, WFMin
    <2> QED BY <2>2, <2>3 DEF OpToRel
  <1>2. x # 0 /\ x - 1 \in 0 .. n /\ x - 1 < x
    OBVIOUS
  <1>3. x - 1 \in I
    BY <1>1, <1>2
  <1> QED BY <1>2, <1>3

\* There is a function that starts with a and goes on with F.
Iterates(f, n, a, F) == f = [i \in 0 .. n |-> IF i = 0 THEN a ELSE F[f[i - 1]]]

LEMMA IterationExists ==
  ASSUME NEW n \in Nat, NEW X, NEW F \in [X -> X], NEW a \in X
  PROVE  \E f \in [0 .. n -> X] : Iterates(f, n, a, F)
  <1> DEFINE I == {m \in 0 .. n : \E f \in [0 .. m -> X] : Iterates(f, m, a, F)}
  <1>1. 0 \in I
    <2> DEFINE f == [i \in 0 .. 0 |-> a]
    <2>1. f \in [0 .. 0 -> X]
      OBVIOUS
    <2>2. [i \in 0 .. 0 |-> IF i = 0 THEN a ELSE F[f[i - 1]]] = f
      OBVIOUS
    <2>3. Iterates(f, 0, a, F)
      BY <2>2 DEF Iterates
    <2> QED BY <2>1, <2>3
  <1>2. ASSUME NEW m \in 0 .. n, m \in I, m < n PROVE m + 1 \in I
    <2>1. PICK f \in [0 .. m -> X] : Iterates(f, m, a, F)
      BY <1>2
    <2> DEFINE g == [i \in 0 .. m + 1 |-> IF i = m + 1 THEN F[f[m]] ELSE f[i]]
    <2>2. f[m] \in X /\ F[f[m]] \in X
      OBVIOUS
    <2>3. g \in [0 .. m + 1 -> X]
      BY <2>2
    <2>4. \A i \in 0 .. m + 1 : g[i] = IF i = 0 THEN a ELSE F[g[i - 1]]
      <3>1. \A i \in 0 .. m : f[i] = IF i = 0 THEN a ELSE F[f[i - 1]]
        BY <2>1 DEF Iterates
      <3>2. \A i \in 0 .. m : g[i] = f[i]
        OBVIOUS
      <3>3. g[m + 1] = F[f[m]] /\ m + 1 # 0
        OBVIOUS
      <3>4. ASSUME NEW i \in 0 .. m PROVE g[i] = IF i = 0 THEN a ELSE F[g[i - 1]]
        <4>1. CASE i = 0
          BY <3>1, <3>2, <4>1
        <4>2. CASE i # 0
          <5>1. i - 1 \in 0 .. m
            BY <4>2
          <5> HIDE DEF g
          <5> QED BY <3>1, <3>2, <4>2, <5>1
        <4> QED BY <4>1, <4>2
      <3>5. m + 1 - 1 = m /\ m \in 0 .. m
        OBVIOUS
      <3> HIDE DEF g
      <3> QED BY <3>2, <3>3, <3>4, <3>5
    <2>5. g = [i \in 0 .. m + 1 |-> g[i]]
      BY <2>3
    <2>6. Iterates(g, m + 1, a, F)
      <3> HIDE DEF g
      <3> QED BY <2>4, <2>5 DEF Iterates
    <2>7. m + 1 \in 0 .. n
      BY <1>2
    <2> HIDE DEF g
    <2> QED BY <2>3, <2>6, <2>7
  <1>3. \A m \in 0 .. n : m \in I
    <2> HIDE DEF I
    <2> QED BY <1>1, <1>2, StepInduction
  <1> QED BY <1>3

\* A walk over at most n points of U along the relation R ends, after n rounds,
\* in the least set that contains its start and that R does not leave.
ClosedUnder(R, S, U) == \A x \in S, y \in U : <<x, y>> \in R => y \in S
IsWalk(f, n, a, R, U) ==
    /\ f[0] = {a}
    /\ \A i \in 0 .. n : i < n /\ f[i] \subseteq U =>
          f[i + 1] = f[i] \cup {y \in U : \E x \in f[i] : <<x, y>> \in R}

LEMMA WalkEnds ==
  ASSUME NEW U, IsFiniteSet(U), NEW n \in Nat, Cardinality(U) <= n, NEW a \in U, NEW R, NEW f,
         IsWalk(f, n, a, R, U)
  PROVE  /\ f[n] \subseteq U /\ a \in f[n] /\ ClosedUnder(R, f[n], U)
         /\ \A S \in SUBSET U : a \in S /\ ClosedUnder(R, S, U) => f[n] \subseteq S
  <1>1. \A i \in 0 .. n : f[i] \subseteq U /\ a \in f[i]
    <2> DEFINE I == {i \in 0 .. n : f[i] \subseteq U /\ a \in f[i]}
    <2>1. 0 \in I /\ \A i \in 0 .. n : i \in I /\ i < n => i + 1 \in I
      BY DEF IsWalk
    <2>2. \A i \in 0 .. n : i \in I
      <3> HIDE DEF I
      <3> QED BY <2>1, StepInduction
    <2> QED BY <2>2
  <1>2. ASSUME NEW S \in SUBSET U, a \in S, ClosedUnder(R, S, U) PROVE f[n] \subseteq S
    <2> DEFINE I == {i \in 0 .. n : f[i] \subseteq S}
    <2>1. 0 \in I
      BY <1>2 DEF IsWalk
    <2>2. ASSUME NEW i \in 0 .. n, f[i] \subseteq S, i < n PROVE i + 1 \in I
      <3>1. f[i + 1] = f[i] \cup {y \in U : \E x \in f[i] : <<x, y>> \in R}
        BY <1>1, <2>2 DEF IsWalk
      <3>2. f[i + 1] \subseteq S
        BY <1>2, <2>2, <3>1 DEF ClosedUnder
      <3> QED BY <2>2, <3>2
    <2>3. \A i \in 0 .. n : i \in I /\ i < n => i + 1 \in I
      BY <2>2
    <2>4. \A i \in 0 .. n : i \in I
      <3> HIDE DEF I
      <3> QED BY <2>1, <2>3, StepInduction
    <2> QED BY <2>4
  <1>3. \A i \in 0 .. n : IsFiniteSet(f[i]) /\ Cardinality(f[i]) \in Nat
    BY <1>1, FS_Subset, FS_CardinalityType
  <1>4. \A i \in 0 .. n : ClosedUnder(R, f[i], U) \/ Cardinality(f[i]) > i
    <2> DEFINE I == {i \in 0 .. n : ClosedUnder(R, f[i], U) \/ Cardinality(f[i]) > i}
    <2>1. 0 \in I
      <3>1. Cardinality({a}) = 1
        BY FS_Singleton
      <3> QED BY <3>1 DEF IsWalk
    <2>2. ASSUME NEW i \in 0 .. n, i \in I, i < n PROVE i + 1 \in I
      <3> HIDE DEF I
      <3>1. f[i] \subseteq U /\ i + 1 \in 0 .. n
            /\ f[i + 1] = f[i] \cup {y \in U : \E x \in f[i] : <<x, y>> \in R}
        <4>1. f[i] \subseteq U /\ i + 1 \in 0 .. n
          BY <1>1, <2>2
        <4> QED BY <2>2, <4>1 DEF IsWalk
      <3> USE DEF I
      <3>2. CASE ClosedUnder(R, f[i], U)
        <4>1. f[i + 1] = f[i]
          BY <3>1, <3>2 DEF ClosedUnder
        <4> QED BY <3>1, <3>2, <4>1
      <3>3. CASE ~ClosedUnder(R, f[i], U)
        <4>1. f[i] \subseteq f[i + 1] /\ f[i] # f[i + 1]
          BY <3>1, <3>3 DEF ClosedUnder
        <4>2. IsFiniteSet(f[i + 1]) /\ Cardinality(f[i]) \in Nat /\ Cardinality(f[i + 1]) \in Nat
          BY <1>3, <3>1
        <4>3. Cardinality(f[i]) <= Cardinality(f[i + 1]) /\ Cardinality(f[i]) # Cardinality(f[i + 1])
          BY <4>1, <4>2, FS_Subset
        <4>4. Cardinality(f[i]) > i
          BY <2>2, <3>3
        <4>5. Cardinality(f[i + 1]) > i + 1
          BY <4>2, <4>3, <4>4
        <4> QED BY <3>1, <4>5
      <3> QED BY <3>2, <3>3
    <2>3. \A i \in 0 .. n : i \in I
      <3> HIDE DEF I
      <3> QED BY <2>1, <2>2, StepInduction
    <2> QED BY <2>3
  <1>5. Cardinality(f[n]) <= Cardinality(U) /\ Cardinality(U) \in Nat
    BY <1>1, FS_Subset, FS_CardinalityType
  <1>6. ClosedUnder(R, f[n], U)
    BY <1>3, <1>4, <1>5
  <1> QED BY <1>1, <1>2, <1>6

(***************************************************************************)
(* The walks of TaskGraph                                                  *)
(***************************************************************************)
Upward(x) == Parent(x) # None
ClosedUpward(S) == \A x \in S : Upward(x) => Parent(x) \in S
ClosedDownward(S) == \A x \in Tasks : Parent(x) \in S => x \in S

LEMMA TasksAreFinite ==
  IsFiniteSet(Tasks) /\ Cardinality(Tasks) \in Nat /\ Steps = 0 .. Cardinality(Tasks)
  BY GraphAssumption, FS_CardinalityType DEF Steps

LEMMA ParentShape ==
  ASSUME GInv, NEW x \in Tasks
  PROVE  /\ Parent(x) \in Tasks \cup {None}
         /\ Upward(x) => Exists(x) /\ Exists(Parent(x)) /\ Parent(x) = rows[x].parent
         /\ Exists(x) => Parent(x) = rows[x].parent
  <1>1. Exists(x) => rows[x] \in Row
    BY DEF GInv, BaseInv, BaseTypes, Exists
  <1>2. Exists(x) /\ rows[x].parent # None => Exists(rows[x].parent)
    BY DEF GInv, ParentsExist
  <1> QED BY <1>1, <1>2 DEF Parent, Upward, Row

\* walkAncestors visits the least set with its start that is closed upward.
LEMMA VisitedIs ==
  ASSUME GInv, NEW t \in Tasks, Exists(t)
  PROVE  /\ Visited(t) \subseteq Tasks /\ t \in Visited(t)
         /\ \A x \in Visited(t) : Exists(x)
         /\ ClosedUpward(Visited(t))
         /\ \A S \in SUBSET Tasks : t \in S /\ ClosedUpward(S) => Visited(t) \subseteq S
  <1> DEFINE n == Cardinality(Tasks)
             U == {x \in Tasks : Exists(x)}
             R == {e \in U \X U : Parent(e[1]) = e[2]}
             Higher(S) == S \cup ({rows[x].parent : x \in S} \ {None})
             F == [S \in SUBSET U |-> Higher(S)]
             up == CHOOSE f : f = [i \in Steps |-> IF i = 0 THEN {t} ELSE Higher(f[i - 1])]
  <1>1. n \in Nat /\ Steps = 0 .. n /\ IsFiniteSet(U) /\ Cardinality(U) <= n
    <2>1. U \in SUBSET Tasks
      OBVIOUS
    <2> HIDE DEF U
    <2> QED BY <2>1, TasksAreFinite, FS_Subset
  <1>2. \A x \in U : Parent(x) = rows[x].parent /\ (Parent(x) # None => Parent(x) \in U)
    BY ParentShape DEF Upward
  <1>3. ASSUME NEW S \in SUBSET U
        PROVE  Higher(S) = S \cup {y \in U : \E x \in S : <<x, y>> \in R} /\ Higher(S) \subseteq U
    <2>1. \A y : y \in {rows[x].parent : x \in S} \ {None}
                   <=> y \in U /\ \E x \in S : Parent(x) = y
      <3>1. None \notin U
        BY NamesApart
      <3> QED BY <1>2, <3>1
    <2>2. \A x \in S, y \in U : <<x, y>> \in R <=> Parent(x) = y
      OBVIOUS
    <2> HIDE DEF U, R
    <2> QED BY <2>1, <2>2
  <1>4. F \in [SUBSET U -> SUBSET U]
    BY <1>3
  <1>5. up = [i \in Steps |-> IF i = 0 THEN {t} ELSE Higher(up[i - 1])]
    <2>1. PICK f \in [0 .. n -> SUBSET U] : Iterates(f, n, {t}, F)
      <3>1. {t} \in SUBSET U
        OBVIOUS
      <3> HIDE DEF F, U
      <3> QED BY <1>1, <1>4, <3>1, IterationExists
    <2>2. \A i \in Steps \ {0} : i - 1 \in 0 .. n /\ F[f[i - 1]] = Higher(f[i - 1])
      BY <1>1
    <2>3. f = [i \in Steps |-> IF i = 0 THEN {t} ELSE Higher(f[i - 1])]
      <3> HIDE DEF F, Higher
      <3> QED BY <1>1, <2>1, <2>2 DEF Iterates
    <2> HIDE DEF Higher
    <2> QED BY <2>3
  <1>6. IsWalk(up, n, t, R, U)
    <2> HIDE DEF up
    <2>1. up[0] = {t}
      BY <1>1, <1>5
    <2>2. ASSUME NEW i \in 0 .. n, i < n, up[i] \subseteq U
          PROVE up[i + 1] = up[i] \cup {y \in U : \E x \in up[i] : <<x, y>> \in R}
      <3>1. i + 1 \in Steps /\ i + 1 # 0 /\ i + 1 - 1 = i
        BY <1>1, <2>2
      <3>2. up[i + 1] = Higher(up[i])
        <4>1. \A j \in Steps \ {0} : up[j] = Higher(up[j - 1])
          <5> HIDE DEF Higher
          <5> QED BY <1>5
        <4>2. up[i + 1] = Higher(up[i + 1 - 1])
          <5> HIDE DEF Higher
          <5> QED BY <3>1, <4>1
        <4> HIDE DEF Higher
        <4> QED BY <3>1, <4>2
      <3> HIDE DEF Higher, U, R
      <3> QED BY <1>3, <2>2, <3>2
    <2> HIDE DEF U, R
    <2> QED BY <2>1, <2>2 DEF IsWalk
  <1>7. Visited(t) = up[n]
    BY DEF Visited
  <1> HIDE DEF up, n
  <1>8. t \in U
    OBVIOUS
  <1>9. /\ up[n] \subseteq U /\ t \in up[n] /\ ClosedUnder(R, up[n], U)
        /\ \A S \in SUBSET U : t \in S /\ ClosedUnder(R, S, U) => up[n] \subseteq S
    <2> HIDE DEF U, R
    <2> QED BY <1>1, <1>6, <1>8, WalkEnds
  <1>10. ClosedUpward(up[n])
    <2>1. ASSUME NEW x \in up[n], Upward(x) PROVE Parent(x) \in up[n]
      <3>1. x \in U /\ Parent(x) \in U
        BY <1>2, <1>9, <2>1 DEF Upward
      <3>2. <<x, Parent(x)>> \in R
        BY <3>1
      <3> HIDE DEF U, R
      <3> QED BY <1>9, <3>1, <3>2 DEF ClosedUnder
    <2> QED BY <2>1 DEF ClosedUpward
  <1>11. ASSUME NEW S \in SUBSET Tasks, t \in S, ClosedUpward(S) PROVE up[n] \subseteq S
    <2>1. S \cap U \in SUBSET U /\ t \in S \cap U
      BY <1>8, <1>11
    <2>2. ClosedUnder(R, S \cap U, U)
      <3>1. ASSUME NEW x \in S \cap U, NEW y \in U, <<x, y>> \in R PROVE y \in S
        <4>1. Parent(x) = y /\ y # None
          BY <3>1, NamesApart
        <4> QED BY <1>11, <3>1, <4>1 DEF ClosedUpward, Upward
      <3> HIDE DEF U, R
      <3> QED BY <3>1 DEF ClosedUnder
    <2> HIDE DEF U, R
    <2> QED BY <1>9, <2>1, <2>2
  <1> QED BY <1>7, <1>9, <1>10, <1>11

\* What isReachableInDependencies does not reach from d is cut off from d.
CutOff(d, t, S) ==
    /\ S \subseteq Tasks /\ d \in S /\ t \notin S
    /\ \A e \in deps : e[1] \in S => e[2] \in S

LEMMA ReachesAll ==
  ASSUME GInv, NEW d \in Tasks, NEW t \in Tasks, ~Reaches(d, t)
  PROVE  \E S : CutOff(d, t, S)
  <1> DEFINE n == Cardinality(Tasks)
             Further(S) == S \cup {e[2] : e \in {f \in deps : f[1] \in S}}
             F == [S \in SUBSET Tasks |-> Further(S)]
             bfs == CHOOSE f : f = [i \in Steps |-> IF i = 0 THEN {d} ELSE Further(f[i - 1])]
  <1>1. n \in Nat /\ Steps = 0 .. n /\ IsFiniteSet(Tasks) /\ deps \subseteq Tasks \X Tasks
    BY TasksAreFinite DEF GInv, BaseInv, BaseTypes
  <1>2. ASSUME NEW S \in SUBSET Tasks
        PROVE  /\ Further(S) = S \cup {y \in Tasks : \E x \in S : <<x, y>> \in deps}
               /\ Further(S) \subseteq Tasks
    <2>1. \A y : y \in {e[2] : e \in {f \in deps : f[1] \in S}}
                   <=> y \in Tasks /\ \E x \in S : <<x, y>> \in deps
      <3>1. \A e \in deps : e = <<e[1], e[2]>> /\ e[1] \in Tasks /\ e[2] \in Tasks
        BY <1>1
      <3>2. \A x, y : <<x, y>>[1] = x /\ <<x, y>>[2] = y
        OBVIOUS
      <3>3. ASSUME NEW e \in deps, e[1] \in S PROVE e[2] \in Tasks /\ \E x \in S : <<x, e[2]>> \in deps
        BY <3>1, <3>3
      <3>4. ASSUME NEW x \in S, NEW y \in Tasks, <<x, y>> \in deps
            PROVE \E e \in deps : e[1] \in S /\ e[2] = y
        BY <3>2, <3>4
      <3> QED BY <3>3, <3>4
    <2> QED BY <2>1
  <1>3. F \in [SUBSET Tasks -> SUBSET Tasks]
    BY <1>2
  <1>4. bfs = [i \in Steps |-> IF i = 0 THEN {d} ELSE Further(bfs[i - 1])]
    <2>1. PICK f \in [0 .. n -> SUBSET Tasks] : Iterates(f, n, {d}, F)
      <3> HIDE DEF F
      <3> QED BY <1>1, <1>3, IterationExists
    <2>2. \A i \in Steps \ {0} : i - 1 \in 0 .. n /\ F[f[i - 1]] = Further(f[i - 1])
      BY <1>1
    <2>3. f = [i \in Steps |-> IF i = 0 THEN {d} ELSE Further(f[i - 1])]
      <3> HIDE DEF F, Further
      <3> QED BY <1>1, <2>1, <2>2 DEF Iterates
    <2> HIDE DEF Further
    <2> QED BY <2>3
  <1>5. IsWalk(bfs, n, d, deps, Tasks)
    <2> HIDE DEF bfs
    <2>1. bfs[0] = {d}
      BY <1>1, <1>4
    <2>2. ASSUME NEW i \in 0 .. n, i < n, bfs[i] \subseteq Tasks
          PROVE bfs[i + 1] = bfs[i] \cup {y \in Tasks : \E x \in bfs[i] : <<x, y>> \in deps}
      <3>1. i + 1 \in Steps /\ i + 1 # 0 /\ i + 1 - 1 = i
        BY <1>1, <2>2
      <3>2. bfs[i + 1] = Further(bfs[i])
        <4>1. \A j \in Steps \ {0} : bfs[j] = Further(bfs[j - 1])
          <5> HIDE DEF Further
          <5> QED BY <1>4
        <4>2. bfs[i + 1] = Further(bfs[i + 1 - 1])
          <5> HIDE DEF Further
          <5> QED BY <3>1, <4>1
        <4> HIDE DEF Further
        <4> QED BY <3>1, <4>2
      <3> HIDE DEF Further
      <3> QED BY <1>2, <2>2, <3>2
    <2> QED BY <2>1, <2>2 DEF IsWalk
  <1>6. t \notin bfs[n]
    BY DEF Reaches
  <1> HIDE DEF bfs, n
  <1>7. bfs[n] \subseteq Tasks /\ d \in bfs[n] /\ ClosedUnder(deps, bfs[n], Tasks)
    <2>1. Cardinality(Tasks) <= n
      BY <1>1 DEF n
    <2> QED BY <1>1, <1>5, <2>1, WalkEnds
  <1>8. \A e \in deps : e = <<e[1], e[2]>> /\ e[2] \in Tasks
    BY <1>1
  <1> QED BY <1>6, <1>7, <1>8 DEF CutOff, ClosedUnder

\* walkDescendants goes down generation by generation.
LEMMA GenerationsAre ==
  ASSUME GInv, NEW t \in Tasks
  PROVE  /\ Generations(t)[0] = {t}
         /\ \A i \in Steps : Generations(t)[i] \subseteq Tasks
         /\ \A i \in Steps : i + 1 \in Steps =>
               Generations(t)[i + 1] = {x \in Tasks : Parent(x) \in Generations(t)[i]}
  <1> DEFINE n == Cardinality(Tasks)
             Below(S) == {x \in Tasks : Exists(x) /\ rows[x].parent \in S}
             F == [S \in SUBSET Tasks |-> Below(S)]
             down == CHOOSE f : f = [i \in Steps |-> IF i = 0 THEN {t} ELSE Below(f[i - 1])]
  <1>1. n \in Nat /\ Steps = 0 .. n
    BY TasksAreFinite
  <1>2. ASSUME NEW S \in SUBSET Tasks
        PROVE  Below(S) = {x \in Tasks : Parent(x) \in S} /\ Below(S) \subseteq Tasks
    BY NamesApart, ParentShape DEF Parent
  <1>3. F \in [SUBSET Tasks -> SUBSET Tasks]
    BY <1>2
  <1>4. down = [i \in Steps |-> IF i = 0 THEN {t} ELSE Below(down[i - 1])]
    <2>1. PICK f \in [0 .. n -> SUBSET Tasks] : Iterates(f, n, {t}, F)
      <3> HIDE DEF F
      <3> QED BY <1>1, <1>3, IterationExists
    <2>2. \A i \in Steps \ {0} : i - 1 \in 0 .. n /\ F[f[i - 1]] = Below(f[i - 1])
      BY <1>1
    <2>3. f = [i \in Steps |-> IF i = 0 THEN {t} ELSE Below(f[i - 1])]
      <3> HIDE DEF F, Below
      <3> QED BY <1>1, <2>1, <2>2 DEF Iterates
    <2> HIDE DEF Below
    <2> QED BY <2>3
  <1>5. Generations(t) = down
    BY DEF Generations
  <1> HIDE DEF down
  <1>6. down[0] = {t}
    BY <1>1, <1>4
  <1>7. \A i \in Steps \ {0} : down[i] = Below(down[i - 1])
    <2> HIDE DEF Below
    <2> QED BY <1>4
  <1>8. \A i \in Steps : down[i] \subseteq Tasks
    <2>1. ASSUME NEW i \in Steps, i # 0 PROVE down[i] \subseteq Tasks
      BY <1>7, <2>1
    <2> QED BY <1>6, <2>1
  <1>9. ASSUME NEW i \in Steps, i + 1 \in Steps
        PROVE down[i + 1] = {x \in Tasks : Parent(x) \in down[i]}
    <2>1. i + 1 # 0 /\ i + 1 - 1 = i
      BY <1>1
    <2>2. PICK j \in Steps \ {0} : j = i + 1 /\ j - 1 = i
      BY <1>1, <1>9, <2>1
    <2>3. down[j] = Below(down[j - 1])
      BY <1>7
    <2>4. down[i + 1] = Below(down[i])
      <3> HIDE DEF Below
      <3> QED BY <2>2, <2>3
    <2> HIDE DEF Below
    <2> QED BY <1>2, <1>8, <2>4
  <1> QED BY <1>5, <1>6, <1>8, <1>9

(***************************************************************************)
(* Levels.  That the walks end well is said of their values, step by step; *)
(* what a step needs is that every task has a level, one more than its     *)
(* parent's, and that no level reaches MaxDepth.                           *)
(***************************************************************************)
Levels(h) ==
    /\ h \in [Tasks -> 0 .. MaxDepth - 1]
    /\ \A x \in Tasks : h[x] = IF Upward(x) THEN h[Parent(x)] + 1 ELSE 0

Climbers(t) == {x \in Visited(t) : Upward(x)}

LEMMA ClimbersAre ==
  ASSUME GInv, NEW t \in Tasks, Exists(t)
  PROVE  /\ \A y : y \in Ancestors(t) <=> \E x \in Climbers(t) : Parent(x) = y
         /\ AncestorCount(t) = Cardinality(Climbers(t))
         /\ Climbers(t) \subseteq Visited(t) /\ IsFiniteSet(Climbers(t))
  <1>1. \A x \in Visited(t) : x \in Tasks /\ Exists(x)
    BY VisitedIs
  <1>2. \A x \in Visited(t) : rows[x].parent = Parent(x)
    BY <1>1, ParentShape
  <1>3. Climbers(t) = {x \in Visited(t) : rows[x].parent # None}
    BY <1>2 DEF Climbers, Upward
  <1>4. AncestorCount(t) = Cardinality(Climbers(t))
    BY <1>3 DEF AncestorCount
  <1>5. \A y : y \in Ancestors(t) <=> \E x \in Climbers(t) : Parent(x) = y
    BY <1>2 DEF Ancestors, Climbers, Upward
  <1>6. Climbers(t) \in SUBSET Tasks
    BY <1>1 DEF Climbers
  <1> QED BY <1>4, <1>5, <1>6, TasksAreFinite, FS_Subset DEF Climbers

\* Where a task is visited from.
LEMMA VisitedHasAChild ==
  ASSUME GInv, NEW t \in Tasks, Exists(t), NEW y \in Visited(t), y # t
  PROVE  \E x \in Climbers(t) : Parent(x) = y
  <1> SUFFICES ASSUME \A x \in Climbers(t) : Parent(x) # y PROVE FALSE
    OBVIOUS
  <1>1. /\ Visited(t) \subseteq Tasks /\ t \in Visited(t) /\ ClosedUpward(Visited(t))
        /\ \A S \in SUBSET Tasks : t \in S /\ ClosedUpward(S) => Visited(t) \subseteq S
    BY VisitedIs
  <1>2. ClosedUpward(Visited(t) \ {y})
    BY <1>1 DEF ClosedUpward, Climbers
  <1>3. Visited(t) \ {y} \in SUBSET Tasks /\ t \in Visited(t) \ {y}
    BY <1>1
  <1>4. Visited(t) \subseteq Visited(t) \ {y}
    BY <1>1, <1>2, <1>3
  <1> QED BY <1>4

\* A walk up meets every level below its start once.
LEMMA WalkUpLevels ==
  ASSUME GInv, NEW h, Levels(h), NEW t \in Tasks, Exists(t)
  PROVE  /\ \A x \in Visited(t) : x = t \/ h[x] < h[t]
         /\ \A x, y \in Visited(t) : h[x] = h[y] => x = y
         /\ \A k \in 0 .. h[t] : \E x \in Visited(t) : h[x] = k
  <1>1. /\ Visited(t) \subseteq Tasks /\ t \in Visited(t) /\ ClosedUpward(Visited(t))
        /\ \A S \in SUBSET Tasks : t \in S /\ ClosedUpward(S) => Visited(t) \subseteq S
    BY VisitedIs
  <1>2. /\ MaxDepth \in Nat
        /\ \A x \in Tasks : h[x] \in Nat /\ h[x] = IF Upward(x) THEN h[Parent(x)] + 1 ELSE 0
    BY GraphAssumption DEF Levels
  <1>3. \A x \in Tasks : Upward(x) => Parent(x) \in Tasks
    BY ParentShape DEF Upward
  <1>4. \A x \in Visited(t) : x = t \/ h[x] < h[t]
    <2> DEFINE S == {x \in Tasks : x = t \/ h[x] < h[t]}
    <2>1. ASSUME NEW x \in S, Upward(x) PROVE Parent(x) \in S
      <3>1. Parent(x) \in Tasks /\ h[Parent(x)] \in Nat /\ h[x] = h[Parent(x)] + 1 /\ h[t] \in Nat
        BY <1>2, <1>3, <2>1
      <3> QED BY <3>1
    <2>2. ClosedUpward(S)
      BY <2>1 DEF ClosedUpward
    <2>3. t \in S /\ S \in SUBSET Tasks
      OBVIOUS
    <2> HIDE DEF S
    <2>4. Visited(t) \subseteq S
      BY <1>1, <2>2, <2>3
    <2> QED BY <2>4 DEF S
  <1>5. \A x, y \in Visited(t) : h[x] = h[y] => x = y
    <2> DEFINE S == {x \in Visited(t) : \A y \in Visited(t) : h[y] = h[x] => y = x}
    <2>1. t \in S
      BY <1>1, <1>2, <1>4
    <2>2. ASSUME NEW x \in S, Upward(x) PROVE Parent(x) \in S
      <3>1. Parent(x) \in Visited(t) /\ x \in Tasks /\ h[x] = h[Parent(x)] + 1
        BY <1>1, <1>2, <2>2 DEF ClosedUpward
      <3>2. ASSUME NEW y \in Visited(t), h[y] = h[Parent(x)] PROVE y = Parent(x)
        <4>1. y # t
          <5>1. x = t \/ h[x] < h[t]
            BY <1>4
          <5>2. h[Parent(x)] \in Nat /\ h[t] \in Nat /\ h[x] \in Nat
            BY <1>1, <1>2, <3>1
          <5> QED BY <3>1, <3>2, <5>1, <5>2
        <4>2. PICK z \in Climbers(t) : Parent(z) = y
          BY <4>1, VisitedHasAChild
        <4>3. z \in Visited(t) /\ z \in Tasks /\ h[z] = h[y] + 1
          BY <1>1, <1>2, <4>2 DEF Climbers
        <4>4. h[z] = h[x]
          BY <3>1, <3>2, <4>3
        <4> QED BY <4>2, <4>3, <4>4
      <3> QED BY <3>1, <3>2
    <2>3. ClosedUpward(S) /\ S \in SUBSET Tasks
      BY <1>1, <2>2 DEF ClosedUpward
    <2> HIDE DEF S
    <2>4. Visited(t) \subseteq S
      BY <1>1, <2>1, <2>3
    <2> QED BY <2>4 DEF S
  <1>6. \A k \in 0 .. h[t] : \E x \in Visited(t) : h[x] = k
    <2> DEFINE I == {k \in 0 .. h[t] : \E x \in Visited(t) : h[x] = h[t] - k}
    <2>1. h[t] \in Nat
      BY <1>2
    <2>2. 0 \in I
      BY <1>1, <2>1
    <2>3. ASSUME NEW k \in 0 .. h[t], k \in I, k < h[t] PROVE k + 1 \in I
      <3>1. PICK x \in Visited(t) : h[x] = h[t] - k
        BY <2>3
      <3>2. x \in Tasks /\ h[x] # 0
        BY <1>1, <2>1, <2>3, <3>1
      <3>3. Upward(x) /\ h[x] = h[Parent(x)] + 1 /\ Parent(x) \in Visited(t) /\ Parent(x) \in Tasks
        BY <1>1, <1>2, <1>3, <3>2 DEF ClosedUpward
      <3>4. h[Parent(x)] \in Nat /\ h[x] \in Nat
        BY <1>2, <3>2, <3>3
      <3>5. h[Parent(x)] = h[t] - (k + 1)
        BY <2>1, <2>3, <3>1, <3>3, <3>4
      <3> QED BY <2>1, <2>3, <3>3, <3>5
    <2>4. \A k \in 0 .. h[t] : k \in I
      <3> HIDE DEF I
      <3> QED BY <2>1, <2>2, <2>3, StepInduction
    <2>5. ASSUME NEW k \in 0 .. h[t] PROVE \E x \in Visited(t) : h[x] = k
      <3>1. h[t] - k \in 0 .. h[t] /\ h[t] - (h[t] - k) = k
        BY <2>1
      <3>2. h[t] - k \in I
        BY <2>4, <3>1
      <3> QED BY <3>1, <3>2
    <2> QED BY <2>5
  <1> QED BY <1>4, <1>5, <1>6

\* The level of a task is the number of its ancestors.
LEMMA LevelIsAncestorCount ==
  ASSUME GInv, NEW h, Levels(h), NEW t \in Tasks, Exists(t)
  PROVE  t \notin Ancestors(t) /\ AncestorCount(t) = h[t]
  <1>1. /\ \A x \in Visited(t) : x = t \/ h[x] < h[t]
        /\ \A x, y \in Visited(t) : h[x] = h[y] => x = y
        /\ \A k \in 0 .. h[t] : \E x \in Visited(t) : h[x] = k
    BY WalkUpLevels
  <1>2. /\ MaxDepth \in Nat /\ Visited(t) \subseteq Tasks
        /\ \A x \in Tasks : h[x] \in Nat /\ h[x] = IF Upward(x) THEN h[Parent(x)] + 1 ELSE 0
        /\ \A x \in Tasks : Upward(x) => Parent(x) \in Tasks
    BY GraphAssumption, VisitedIs, ParentShape DEF Levels, Upward
  <1>3. /\ \A y : y \in Ancestors(t) <=> \E x \in Climbers(t) : Parent(x) = y
        /\ AncestorCount(t) = Cardinality(Climbers(t))
        /\ IsFiniteSet(Climbers(t))
        /\ \A x \in Climbers(t) : x \in Visited(t) /\ x \in Tasks /\ Upward(x)
    BY <1>2, ClimbersAre DEF Climbers
  <1>4. t \notin Ancestors(t)
    <2> SUFFICES ASSUME NEW x \in Climbers(t), Parent(x) = t PROVE FALSE
      BY <1>3
    <2>1. h[x] = h[t] + 1 /\ h[t] \in Nat /\ h[x] \in Nat
      BY <1>2, <1>3
    <2> QED BY <1>1, <1>3, <2>1
  <1> DEFINE f == [x \in Climbers(t) |-> h[x]]
  <1>5. f \in Injection(Climbers(t), 1 .. h[t])
    <2>1. \A x \in Climbers(t) : h[x] \in 1 .. h[t]
      <3> SUFFICES ASSUME NEW x \in Climbers(t) PROVE h[x] \in 1 .. h[t]
        OBVIOUS
      <3>1. x \in Tasks /\ Upward(x) /\ Parent(x) \in Tasks /\ x \in Visited(t)
        BY <1>2, <1>3
      <3>2. h[x] \in Nat /\ h[Parent(x)] \in Nat /\ h[t] \in Nat /\ h[x] = h[Parent(x)] + 1
        BY <1>2, <3>1
      <3>3. x = t \/ h[x] < h[t]
        BY <1>1, <3>1
      <3> QED BY <3>2, <3>3
    <2> QED BY <1>1, <1>3, <2>1 DEF Injection, IsInjective
  <1>6. ASSUME NEW k \in 1 .. h[t] PROVE \E x \in Climbers(t) : f[x] = k
    <2>1. h[t] \in Nat /\ k \in 0 .. h[t] /\ k # 0
      BY <1>2
    <2>2. PICK x \in Visited(t) : h[x] = k
      BY <1>1, <2>1
    <2>3. x \in Climbers(t)
      BY <1>2, <2>1, <2>2 DEF Climbers
    <2> QED BY <2>2, <2>3
  <1>7. f \in Surjection(Climbers(t), 1 .. h[t])
    BY <1>5, <1>6 DEF Injection, Surjection
  <1>8. IsFiniteSet(1 .. h[t]) /\ Cardinality(1 .. h[t]) = h[t]
    <2>1. h[t] \in Nat
      BY <1>2
    <2>2. 1 \in Int /\ h[t] \in Int
      BY <2>1
    <2>3. IsFiniteSet(1 .. h[t]) /\ Cardinality(1 .. h[t]) = IF 1 > h[t] THEN 0 ELSE h[t] - 1 + 1
      BY <2>2, FS_Interval
    <2> QED BY <2>1, <2>3
  <1>9. Cardinality(Climbers(t)) = Cardinality(1 .. h[t])
    <2> HIDE DEF f
    <2>1. Cardinality(Climbers(t)) = Cardinality(1 .. h[t]) <=> f \in Surjection(Climbers(t), 1 .. h[t])
      BY <1>5, <1>8, FS_Injection
    <2> QED BY <1>7, <2>1
  <1> QED BY <1>3, <1>4, <1>8, <1>9

LEMMA LevelsMakeAForest ==
  ASSUME GInv, NEW h, Levels(h)
  PROVE  HierarchyIsAForest
  <1>1. \A t \in Tasks : h[t] \in 0 .. MaxDepth - 1
    BY DEF Levels
  <1>2. MaxDepth \in Nat
    BY GraphAssumption
  <1> QED BY <1>1, <1>2, LevelIsAncestorCount DEF HierarchyIsAForest

\* What has been checked of a move: D is t and what is below it, p is not in
\* it, and under p none of it is too deep.
Movable(t, p, h, D) ==
    /\ D \subseteq Tasks /\ t \in D /\ p \notin D
    /\ ClosedDownward(D)
    /\ \A x \in D \ {t} : Parent(x) \in D
    /\ \A x \in D : h[t] <= h[x] /\ (p # None => h[p] + 1 + (h[x] - h[t]) < MaxDepth)

\* What is below t is found by walkDescendants, at most Height(t) levels down.
LEMMA SubtreeHeight ==
  ASSUME GInv, NEW h, Levels(h), NEW t \in Tasks, Exists(t), DescendantsEnd(t),
         NEW x \in Tasks, Exists(x), t \in Visited(x)
  PROVE  h[x] <= h[t] + Height(t) /\ Height(t) \in Nat
  <1> DEFINE n == Cardinality(Tasks)
             G == Generations(t)
             Found == {y \in Tasks : \E i \in Steps : y \in G[i]}
  <1>1. n \in Nat /\ Steps = 0 .. n
    BY TasksAreFinite
  <1>2. /\ G[0] = {t} /\ G[n] = {}
        /\ \A i \in Steps : G[i] \subseteq Tasks
        /\ \A i \in Steps : i + 1 \in Steps => G[i + 1] = {y \in Tasks : Parent(y) \in G[i]}
    BY GenerationsAre DEF DescendantsEnd
  <1>3. /\ \A y \in Tasks : h[y] \in Nat /\ h[y] = IF Upward(y) THEN h[Parent(y)] + 1 ELSE 0
        /\ \A y \in Tasks : Upward(y) => Parent(y) \in Tasks
        /\ None \notin Tasks
    BY GraphAssumption, ParentShape, NamesApart DEF Levels, Upward
  <1> HIDE DEF G, n
  <1>4. x \in Found
    <2>1. ASSUME NEW y \in Tasks, Parent(y) \in Found PROVE y \in Found
      <3>1. PICK i \in Steps : Parent(y) \in G[i]
        BY <2>1
      <3>2. i # n
        BY <1>2, <3>1
      <3>3. i + 1 \in Steps
        BY <1>1, <3>2
      <3>4. y \in G[i + 1]
        BY <1>2, <3>1, <3>3
      <3> QED BY <3>3, <3>4
    <2>2. ClosedUpward(Tasks \ Found)
      BY <1>3, <2>1 DEF ClosedUpward
    <2>3. t \in Found
      BY <1>1, <1>2
    <2> HIDE DEF Found
    <2> SUFFICES ASSUME x \notin Found PROVE FALSE
      OBVIOUS
    <2>4. x \in Tasks \ Found /\ Tasks \ Found \in SUBSET Tasks
      OBVIOUS
    <2>5. Visited(x) \subseteq Tasks \ Found
      BY <2>2, <2>4, VisitedIs
    <2> QED BY <2>3, <2>5
  <1>5. PICK i \in Steps : x \in G[i]
    BY <1>4
  <1>6. h[x] = h[t] + i
    <2> DEFINE I == {j \in Steps : \A y \in G[j] : h[y] = h[t] + j}
    <2>1. 0 \in I
      BY <1>1, <1>2, <1>3
    <2>2. ASSUME NEW j \in 0 .. n, j \in I, j < n PROVE j + 1 \in I
      <3>1. j \in Steps /\ j + 1 \in Steps
        BY <1>1, <2>2
      <3>2. ASSUME NEW y \in G[j + 1] PROVE h[y] = h[t] + (j + 1)
        <4>1. y \in Tasks /\ Parent(y) \in G[j] /\ Parent(y) \in Tasks
          BY <1>2, <3>1, <3>2
        <4>2. h[y] = h[Parent(y)] + 1 /\ h[Parent(y)] = h[t] + j
          BY <1>3, <2>2, <4>1 DEF Upward
        <4>3. j \in Nat /\ h[t] \in Nat
          BY <1>1, <1>3, <2>2
        <4> QED BY <4>2, <4>3
      <3> QED BY <3>1, <3>2
    <2>3. \A j \in 0 .. n : j \in I
      <3> HIDE DEF I
      <3> QED BY <1>1, <2>1, <2>2, StepInduction
    <2> QED BY <1>1, <1>5, <2>3
  <1>7. ASSUME NEW j \in Steps, j <= i PROVE G[j] # {}
    <2> SUFFICES ASSUME G[j] = {} PROVE FALSE
      OBVIOUS
    <2> DEFINE I == {k \in Steps : k < j \/ G[k] = {}}
    <2>1. 0 \in I
      BY <1>1, <1>7
    <2>2. ASSUME NEW k \in 0 .. n, k \in I, k < n PROVE k + 1 \in I
      <3>1. k \in Steps /\ k + 1 \in Steps /\ (k < j \/ G[k] = {})
        BY <1>1, <2>2
      <3>2. CASE G[k] = {}
        BY <1>2, <3>1, <3>2
      <3>3. CASE k < j
        <4>1. k + 1 < j \/ k + 1 = j
          BY <1>1, <3>1, <3>3
        <4> QED BY <1>7, <3>1, <4>1
      <3> QED BY <3>1, <3>2, <3>3
    <2>3. \A k \in 0 .. n : k \in I
      <3> HIDE DEF I
      <3> QED BY <1>1, <2>1, <2>2, StepInduction
    <2> QED BY <1>1, <1>5, <1>7, <2>3
  <1> DEFINE Full == {j \in Steps \ {0} : G[j] # {}}
  <1>8. Height(t) = Cardinality(Full)
    BY DEF Height, G
  <1>9. 1 .. i \in SUBSET Full
    BY <1>1, <1>7
  <1>10. IsFiniteSet(Full) /\ Cardinality(Full) \in Nat
    <2>1. Full \in SUBSET (0 .. n)
      BY <1>1
    <2>2. 0 \in Int /\ n \in Int
      BY <1>1
    <2>3. IsFiniteSet(0 .. n)
      BY <2>2, FS_Interval
    <2> HIDE DEF Full
    <2> QED BY <2>1, <2>3, FS_Subset, FS_CardinalityType
  <1>11. Cardinality(1 .. i) = i
    <2>1. 1 \in Int /\ i \in Int /\ i >= 0
      BY <1>1
    <2>2. Cardinality(1 .. i) = IF 1 > i THEN 0 ELSE i - 1 + 1
      BY <2>1, FS_Interval
    <2> QED BY <2>1, <2>2
  <1>12. i <= Cardinality(Full)
    <2>1. Cardinality(1 .. i) <= Cardinality(Full)
      <3> HIDE DEF Full
      <3> QED BY <1>9, <1>10, FS_Subset
    <2> QED BY <1>11, <2>1
  <1> HIDE DEF Full
  <1> QED BY <1>1, <1>3, <1>6, <1>8, <1>10, <1>12

\* What CheckParent has not objected to may be done.
LEMMA CheckedIsMovable ==
  ASSUME GInv, NEW h, Levels(h), NEW t \in Tasks, Exists(t), NEW p \in Tasks \cup {None}, p # t,
         p # None => Exists(p),
         ~ParentObjection(t, p), p # None /\ t \notin Ancestors(p) => DescendantsEnd(t)
  PROVE  \E D : Movable(t, p, h, D)
  <1> DEFINE D == {x \in Tasks : Exists(x) /\ t \in Visited(x)}
  <1>1. /\ None \notin Tasks /\ MaxDepth \in Nat
        /\ \A x \in Tasks : h[x] \in Nat
        /\ \A x \in Tasks : Upward(x) => Exists(x) /\ Parent(x) \in Tasks /\ Exists(Parent(x))
    BY NamesApart, ParentShape, GraphAssumption DEF Levels, Upward
  <1>2. \A x \in Tasks : Exists(x) =>
           /\ Visited(x) \subseteq Tasks /\ x \in Visited(x) /\ ClosedUpward(Visited(x))
           /\ \A S \in SUBSET Tasks : x \in S /\ ClosedUpward(S) => Visited(x) \subseteq S
    BY VisitedIs
  <1>3. t \in D /\ D \subseteq Tasks
    BY <1>2
  <1>4. p \notin D
    <2> SUFFICES ASSUME p \in Tasks, Exists(p), t \in Visited(p), p # None PROVE FALSE
      BY <1>1
    <2>1. PICK x \in Climbers(p) : Parent(x) = t
      BY VisitedHasAChild
    <2>2. t \in Ancestors(p)
      BY <2>1, ClimbersAre
    <2> QED BY <2>2 DEF ParentObjection
  <1>5. ClosedDownward(D)
    <2>1. ASSUME NEW x \in Tasks, Parent(x) \in D PROVE x \in D
      <3>1. Upward(x) /\ Exists(x) /\ Parent(x) \in Tasks /\ Exists(Parent(x))
            /\ t \in Visited(Parent(x))
        BY <1>1, <2>1 DEF Upward
      <3>2. Parent(x) \in Visited(x) /\ Visited(x) \in SUBSET Tasks /\ ClosedUpward(Visited(x))
        BY <1>2, <3>1 DEF ClosedUpward
      <3>3. Visited(Parent(x)) \subseteq Visited(x)
        BY <1>2, <3>1, <3>2
      <3> QED BY <3>1, <3>3
    <2> QED BY <2>1 DEF ClosedDownward
  <1>6. ASSUME NEW x \in D \ {t} PROVE Parent(x) \in D
    <2>1. x \in Tasks /\ Exists(x) /\ t \in Visited(x) /\ x # t
      BY <1>6
    <2>2. CASE ~Upward(x)
      <3>1. {x} \in SUBSET Tasks /\ x \in {x} /\ ClosedUpward({x})
        BY <2>1, <2>2 DEF ClosedUpward
      <3>2. Visited(x) \subseteq {x}
        BY <1>2, <2>1, <3>1
      <3> QED BY <2>1, <3>2
    <2>3. CASE Upward(x)
      <3>1. Parent(x) \in Tasks /\ Exists(Parent(x))
        BY <1>1, <2>1, <2>3
      <3>2. /\ Visited(Parent(x)) \subseteq Tasks /\ Parent(x) \in Visited(Parent(x))
            /\ ClosedUpward(Visited(Parent(x)))
        BY <1>2, <3>1
      <3>3. PICK S : S = {x} \cup Visited(Parent(x))
        OBVIOUS
      <3>4. S \in SUBSET Tasks /\ x \in S /\ ClosedUpward(S)
        BY <2>1, <3>2, <3>3 DEF ClosedUpward
      <3>5. Visited(x) \subseteq S
        BY <1>2, <2>1, <3>4
      <3>6. t \in Visited(Parent(x))
        BY <2>1, <3>3, <3>5
      <3> QED BY <3>1, <3>6
    <2> QED BY <2>2, <2>3
  <1>7. ASSUME NEW x \in D PROVE h[t] <= h[x]
    <2>1. x \in Tasks /\ Exists(x) /\ t \in Visited(x)
      BY <1>7
    <2>2. t = x \/ h[t] < h[x]
      BY <2>1, WalkUpLevels
    <2> QED BY <1>1, <2>1, <2>2
  <1>8. ASSUME NEW x \in D, p # None PROVE h[p] + 1 + (h[x] - h[t]) < MaxDepth
    <2>1. x \in Tasks /\ Exists(x) /\ t \in Visited(x) /\ p \in Tasks /\ Exists(p)
      BY <1>8
    <2>2. t \notin Ancestors(p) /\ ~(AncestorCount(p) + 1 + Height(t) >= MaxDepth)
      BY <1>8 DEF ParentObjection
    <2>3. AncestorCount(p) = h[p]
      BY <2>1, LevelIsAncestorCount
    <2>4. h[x] <= h[t] + Height(t) /\ Height(t) \in Nat
      BY <1>8, <2>1, <2>2, SubtreeHeight
    <2> QED BY <1>1, <2>1, <2>2, <2>3, <2>4
  <1> HIDE DEF D
  <1>9. Movable(t, p, h, D)
    BY <1>3, <1>4, <1>5, <1>6, <1>7, <1>8 DEF Movable
  <1> QED BY <1>9

\* A forest has levels.
LEMMA ForestHasLevels ==
  ASSUME GInv, HierarchyIsAForest
  PROVE  \E h : Levels(h)
  <1> DEFINE h == [x \in Tasks |-> IF Exists(x) THEN AncestorCount(x) ELSE 0]
  <1>1. /\ None \notin Tasks /\ MaxDepth \in Nat \ {0}
        /\ \A x \in Tasks : Upward(x) => Exists(x) /\ Parent(x) \in Tasks /\ Exists(Parent(x))
    BY NamesApart, ParentShape, GraphAssumption DEF Upward
  <1>2. \A x \in Tasks : Exists(x) =>
           /\ Visited(x) \subseteq Tasks /\ x \in Visited(x) /\ ClosedUpward(Visited(x))
           /\ \A S \in SUBSET Tasks : x \in S /\ ClosedUpward(S) => Visited(x) \subseteq S
    BY VisitedIs
  <1>3. \A x \in Tasks : Exists(x) =>
           /\ x \notin Ancestors(x) /\ AncestorCount(x) < MaxDepth
           /\ \A y : y \in Ancestors(x) <=> \E z \in Climbers(x) : Parent(z) = y
           /\ AncestorCount(x) = Cardinality(Climbers(x)) /\ IsFiniteSet(Climbers(x))
    BY ClimbersAre DEF HierarchyIsAForest
  <1>4. \A x \in Tasks : Exists(x) => AncestorCount(x) \in 0 .. MaxDepth - 1
    <2> SUFFICES ASSUME NEW x \in Tasks, Exists(x) PROVE AncestorCount(x) \in 0 .. MaxDepth - 1
      OBVIOUS
    <2>1. AncestorCount(x) \in Nat
      BY <1>3, FS_CardinalityType
    <2> QED BY <1>1, <1>3, <2>1
  <1>5. h \in [Tasks -> 0 .. MaxDepth - 1]
    BY <1>1, <1>4
  <1>6. ASSUME NEW x \in Tasks, Exists(x), ~Upward(x) PROVE AncestorCount(x) = 0
    <2>1. {x} \in SUBSET Tasks /\ x \in {x} /\ ClosedUpward({x})
      BY <1>6 DEF ClosedUpward
    <2>2. Visited(x) \subseteq {x}
      BY <1>2, <1>6, <2>1
    <2>3. Climbers(x) = {}
      BY <1>6, <2>2 DEF Climbers
    <2> QED BY <1>3, <1>6, <2>3, FS_EmptySet
  <1>7. ASSUME NEW x \in Tasks, Upward(x) PROVE AncestorCount(x) = AncestorCount(Parent(x)) + 1
    <2>1. PICK p \in Tasks : p = Parent(x) /\ Exists(p) /\ Exists(x)
      BY <1>1, <1>7
    <2>2. p \in Visited(x)
      BY <1>2, <1>7, <2>1 DEF ClosedUpward
    <2>3. Visited(p) \subseteq Visited(x)
      BY <1>2, <2>1, <2>2
    <2>4. PICK S : S = {x} \cup Visited(p)
      OBVIOUS
    <2>5. S \in SUBSET Tasks /\ x \in S /\ ClosedUpward(S)
      BY <1>2, <2>1, <2>4 DEF ClosedUpward
    <2>6. Visited(x) = {x} \cup Visited(p)
      BY <1>2, <2>1, <2>3, <2>4, <2>5
    <2>7. Climbers(x) = Climbers(p) \cup {x}
      BY <1>7, <2>6 DEF Climbers
    <2>8. x \notin Climbers(p)
      <3> SUFFICES ASSUME x \in Visited(p) PROVE FALSE
        BY DEF Climbers
      <3>1. \E z \in Climbers(x) : Parent(z) = x
        <4>1. CASE x = p
          BY <1>2, <1>7, <2>1, <4>1 DEF Climbers
        <4>2. CASE x # p
          <5>1. \E z \in Climbers(p) : Parent(z) = x
            BY <2>1, <4>2, VisitedHasAChild
          <5> QED BY <2>7, <5>1
        <4> QED BY <4>1, <4>2
      <3>2. x \in Ancestors(x)
        BY <1>3, <2>1, <3>1
      <3> QED BY <1>3, <2>1, <3>2
    <2>9. Cardinality(Climbers(p) \cup {x}) = Cardinality(Climbers(p)) + 1
      BY <1>3, <2>1, <2>8, FS_AddElement
    <2> QED BY <1>3, <2>1, <2>7, <2>9
  <1>8. ASSUME NEW x \in Tasks PROVE h[x] = IF Upward(x) THEN h[Parent(x)] + 1 ELSE 0
    <2>1. CASE Upward(x)
      BY <1>1, <1>7, <2>1
    <2>2. CASE ~Upward(x)
      BY <1>6, <2>2
    <2> QED BY <2>1, <2>2
  <1> HIDE DEF h
  <1>9. Levels(h)
    BY <1>5, <1>8 DEF Levels
  <1> QED BY <1>9

(***************************************************************************)
(* Soundness of the graphs, whoever edits them.  A walk locks nothing, so  *)
(* what it has found may be overtaken by another's write: from its arrival *)
(* on, a call whose graph another call writes is in overtaken.  What the   *)
(* walk of a call outside overtaken has found is still so when it writes,  *)
(* however many others are under way.                                      *)
(***************************************************************************)
MovesChecked(h) ==
    \A g \in GraphCalls :
        gpc[g] = "reparent" /\ g \notin overtaken /\ edit[g].other # edit[g].task =>
            \E D : Movable(edit[g].task, edit[g].other, h, D)
EdgesChecked ==
    \A g \in GraphCalls :
        gpc[g] = "insert" /\ g \notin overtaken => \E S : CutOff(edit[g].other, edit[g].task, S)
Forest == \E h : Levels(h) /\ MovesChecked(h)

SInv ==
    /\ GInv /\ EdgesChecked
    /\ "addDependency" \notin crossed => DependenciesAcyclic
    /\ "setParent" \notin crossed => Forest

LEMMA SInvIsSound == SInv => GraphsAreSound
  BY LevelsMakeAForest DEF SInv, Forest, GraphsAreSound

\* A step that adds no edge, moves no task and leaves unchecked what it has not checked.
LEMMA QuietStepKeepsSInv ==
  ASSUME SInv, GInv', \A x \in Tasks : Parent(x)' = Parent(x), deps' \subseteq deps,
         crossed' = crossed,
         \A g \in GraphCalls : gpc'[g] \in {"reparent", "insert"} =>
            gpc'[g] = gpc[g] /\ edit'[g] = edit[g] /\ (g \in overtaken => g \in overtaken')
  PROVE  SInv'
  <1>1. ASSUME "setParent" \notin crossed PROVE Forest'
    <2>1. PICK h : Levels(h) /\ MovesChecked(h)
      BY <1>1 DEF SInv, Forest
    <2>2. \A x \in Tasks : Upward(x)' <=> Upward(x)
      BY DEF Upward
    <2>3. Levels(h)'
      BY <2>1, <2>2 DEF Levels
    <2>4. ASSUME NEW t \in Tasks, NEW p, NEW D, Movable(t, p, h, D) PROVE Movable(t, p, h, D)'
      BY <2>4 DEF Movable, ClosedDownward
    <2>5. ASSUME NEW g \in GraphCalls, gpc'[g] = "reparent", g \notin overtaken',
                 edit'[g].other # edit'[g].task
          PROVE \E D : Movable(edit[g].task, edit[g].other, h, D)'
      <3>1. PICK t, p : /\ t = edit[g].task /\ p = edit[g].other
                        /\ edit'[g].task = t /\ edit'[g].other = p
        BY <2>5
      <3>2. PICK D : Movable(t, p, h, D)
        BY <2>1, <2>5, <3>1 DEF MovesChecked
      <3>3. t \in Tasks
        BY <3>2 DEF Movable
      <3>4. Movable(t, p, h, D)'
        BY <2>4, <3>2, <3>3
      <3> QED BY <3>1, <3>4 DEF Movable
    <2>6. MovesChecked(h)'
      BY <2>5 DEF MovesChecked
    <2> QED BY <2>3, <2>6 DEF Forest
  <1>2. EdgesChecked'
    BY DEF SInv, EdgesChecked, CutOff
  <1>3. "addDependency" \notin crossed => DependenciesAcyclic'
    BY DEF SInv, DependenciesAcyclic
  <1> QED BY <1>1, <1>2, <1>3 DEF SInv

LEMMA SameRowsSameParents ==
  ASSUME rows' = rows PROVE \A x \in Tasks : Parent(x)' = Parent(x)
  BY DEF Parent, Exists

LEMMA RefusedKeepsSInv ==
  ASSUME SInv, GInv', NEW g \in GraphCalls, NEW objection, GraphRefused(g, objection)
  PROVE  SInv'
  <1>1. rows' = rows /\ deps' = deps /\ UNCHANGED <<overtaken, crossed>>
    BY DEF GraphRefused, tables, history
  <1>2. \A f \in GraphCalls : gpc'[f] \in {"reparent", "insert"} =>
           gpc'[f] = gpc[f] /\ edit'[f] = edit[f]
    BY DEF GraphRefused, GraphAnswer, SInv, GInv, GraphTypes
  <1> QED BY <1>1, <1>2, SameRowsSameParents, QuietStepKeepsSInv

\* The state the edit g goes on to with what it has checked.
LEMMA CheckedKeepsSInv ==
  ASSUME SInv, GInv', NEW g \in GraphCalls, NEW next, GraphRead(g, next),
         next = "reparent" /\ edit[g].other # edit[g].task =>
            \A h : Levels(h) => \E D : Movable(edit[g].task, edit[g].other, h, D),
         next = "insert" => \E S : CutOff(edit[g].other, edit[g].task, S)
  PROVE  SInv'
  <1>1. /\ rows' = rows /\ deps' = deps /\ edit' = edit /\ gpc'[g] = next
        /\ UNCHANGED <<overtaken, crossed>>
        /\ \A f \in GraphCalls \ {g} : gpc'[f] = gpc[f]
    BY DEF GraphRead, tables, history, SInv, GInv, GraphTypes
  <1>2. \A x : Parent(x)' = Parent(x)
    BY <1>1 DEF Parent, Exists
  <1>3. ASSUME "setParent" \notin crossed PROVE Forest'
    <2>1. PICK h : Levels(h) /\ MovesChecked(h)
      BY <1>3 DEF SInv, Forest
    <2>2. Levels(h)'
      BY <1>2, <2>1 DEF Levels, Upward
    <2>3. \A t, p, D : Movable(t, p, h, D) => Movable(t, p, h, D)'
      BY <1>2 DEF Movable, ClosedDownward
    <2>4. ASSUME NEW f \in GraphCalls, gpc'[f] = "reparent", f \notin overtaken',
                 edit'[f].other # edit'[f].task
          PROVE \E D : Movable(edit[f].task, edit[f].other, h, D)'
      <3>1. PICK t, p : /\ t = edit[f].task /\ p = edit[f].other
                        /\ edit'[f].task = t /\ edit'[f].other = p
        BY <1>1
      <3>2. PICK D : Movable(t, p, h, D)
        BY <1>1, <2>1, <2>4, <3>1 DEF MovesChecked
      <3>3. Movable(t, p, h, D)'
        BY <2>3, <3>2
      <3> QED BY <3>1, <3>3 DEF Movable
    <2> QED BY <2>2, <2>4 DEF Forest, MovesChecked
  <1>4. ASSUME NEW f \in GraphCalls, gpc'[f] = "insert", f \notin overtaken'
        PROVE \E S : CutOff(edit[f].other, edit[f].task, S)'
    <2>1. \E S : CutOff(edit[f].other, edit[f].task, S)
      BY <1>1, <1>4 DEF SInv, EdgesChecked
    <2> QED BY <1>1, <2>1 DEF CutOff
  <1>5. EdgesChecked' /\ ("addDependency" \notin crossed => DependenciesAcyclic')
    BY <1>1, <1>4 DEF EdgesChecked, SInv, DependenciesAcyclic
  <1> QED BY <1>1, <1>3, <1>5 DEF SInv

\* What the rows of an edit's tasks are when it is checked.
LEMMA NamedTasks ==
  ASSUME GInv, NEW g \in GraphCalls, gpc[g] # "idle", ~Missing(g)
  PROVE  /\ edit[g].task \in Tasks /\ Exists(edit[g].task)
         /\ edit[g].other \in Tasks \cup {None}
         /\ edit[g].other # None => Exists(edit[g].other)
         /\ edit[g] \in Edits
  BY EditShapes DEF GInv, GraphCall, EditOf, Missing

LEMMA CheckParentKeepsSInv ==
  ASSUME SInv, GInv', NEW g \in GraphCalls, CheckParent(g)
  PROVE  SInv'
  <1>1. CASE GraphRefused(g, TRUE)
    BY <1>1, RefusedKeepsSInv
  <1>2. CASE /\ ~Missing(g) /\ GraphRead(g, "reparent")
             /\ ~ParentObjection(edit[g].task, edit[g].other)
    <2>1. GInv /\ gpc[g] = "setParent" /\ edit[g].verb = "setParent"
      BY DEF SInv, GInv, GraphCall, EditOf, CheckParent
    <2>2. PICK t, p : t = edit[g].task /\ p = edit[g].other
      OBVIOUS
    <2>3. /\ t \in Tasks /\ Exists(t) /\ p \in Tasks \cup {None} /\ (p # None => Exists(p))
          /\ edit[g] \in Edits
      BY <1>2, <2>1, <2>2, NamedTasks
    <2>4. p # None /\ t \notin Ancestors(p) => DescendantsEnd(t)
      BY <1>2, <2>2 DEF CheckParent, GraphRefused
    <2>5. ~ParentObjection(t, p)
      BY <1>2, <2>2
    <2>6. p # t => \A h : Levels(h) => \E D : Movable(t, p, h, D)
      BY <2>1, <2>3, <2>4, <2>5, CheckedIsMovable
    <2> QED BY <1>2, <2>2, <2>6, CheckedKeepsSInv
  <1>3. \A objection : GraphRefused(g, objection) => GraphRefused(g, TRUE)
    BY DEF GraphRefused
  <1> QED BY <1>1, <1>2, <1>3 DEF CheckParent

LEMMA CheckEdgeKeepsSInv ==
  ASSUME SInv, GInv', NEW g \in GraphCalls, CheckEdge(g)
  PROVE  SInv'
  <1>1. CASE GraphRefused(g, TRUE)
    BY <1>1, RefusedKeepsSInv
  <1>2. CASE ~Missing(g) /\ GraphRead(g, "insert") /\ ~Reaches(edit[g].other, edit[g].task)
    <2>1. GInv /\ gpc[g] = "addDependency" /\ edit[g].verb = "addDependency"
      BY DEF SInv, GInv, GraphCall, EditOf, CheckEdge
    <2>2. edit[g].task \in Tasks /\ edit[g].other \in Tasks
      BY <1>2, <2>1, NamedTasks, EditShapes
    <2>3. \E S : CutOff(edit[g].other, edit[g].task, S)
      BY <1>2, <2>1, <2>2, ReachesAll
    <2> QED BY <1>2, <2>3, CheckedKeepsSInv
  <1>3. \A objection : GraphRefused(g, objection) => GraphRefused(g, TRUE)
    BY DEF GraphRefused
  <1> QED BY <1>1, <1>2, <1>3 DEF CheckEdge

\* What is moved takes its levels along.
LEMMA MovedLevels ==
  ASSUME GInv, NEW h, Levels(h), NEW t \in Tasks, NEW p \in Tasks \cup {None}, NEW D,
         Movable(t, p, h, D),
         Parent(t)' = p, \A x \in Tasks \ {t} : Parent(x)' = Parent(x)
  PROVE  \E k : Levels(k)'
  <1> DEFINE up == IF p = None THEN 0 ELSE h[p] + 1
             k == [x \in Tasks |-> IF x \in D THEN h[x] - h[t] + up ELSE h[x]]
  <1>1. /\ MaxDepth \in Nat \ {0} /\ None \notin Tasks /\ D \subseteq Tasks /\ t \in D /\ p \notin D
        /\ \A x \in Tasks : h[x] \in Nat /\ h[x] < MaxDepth
        /\ \A x \in Tasks : h[x] = IF Upward(x) THEN h[Parent(x)] + 1 ELSE 0
        /\ \A x \in Tasks : Parent(x) \in Tasks \cup {None}
    BY GraphAssumption, NamesApart, ParentShape DEF Levels, Movable
  <1>2. up \in Nat
    BY <1>1
  <1>3. \A x \in D : h[t] <= h[x] /\ h[x] - h[t] + up < MaxDepth
    <2> SUFFICES ASSUME NEW x \in D PROVE h[t] <= h[x] /\ h[x] - h[t] + up < MaxDepth
      OBVIOUS
    <2>1. h[t] <= h[x] /\ (p # None => h[p] + 1 + (h[x] - h[t]) < MaxDepth)
      BY DEF Movable
    <2>2. h[t] \in Nat /\ h[x] \in Nat /\ h[x] < MaxDepth /\ (p # None => h[p] \in Nat)
      BY <1>1
    <2> QED BY <1>1, <2>1, <2>2
  <1>4. \A x \in Tasks : k[x] \in 0 .. MaxDepth - 1
    <2> SUFFICES ASSUME NEW x \in Tasks PROVE k[x] \in 0 .. MaxDepth - 1
      OBVIOUS
    <2>1. h[x] \in Nat /\ h[t] \in Nat /\ h[x] < MaxDepth
      BY <1>1
    <2> HIDE DEF up
    <2>2. x \in D => h[x] - h[t] + up \in 0 .. MaxDepth - 1
      BY <1>1, <1>2, <1>3, <2>1
    <2> QED BY <1>1, <2>1, <2>2
  <1>5. k \in [Tasks -> 0 .. MaxDepth - 1]
    BY <1>4
  <1>6. ASSUME NEW x \in Tasks PROVE k[x] = IF Upward(x)' THEN k[Parent(x)'] + 1 ELSE 0
    <2>1. CASE x = t
      <3>1. Parent(x)' = p /\ (Upward(x)' <=> p # None)
        BY <2>1 DEF Upward
      <3>2. k[x] = up
        BY <1>1, <1>2, <2>1
      <3>3. p # None => k[p] = h[p]
        BY <1>1
      <3> HIDE DEF k
      <3> QED BY <3>1, <3>2, <3>3
    <2>2. CASE x # t
      <3>1. PICK q \in Tasks \cup {None} : q = Parent(x) /\ Parent(x)' = q
        BY <1>1, <2>2
      <3>2. (Upward(x)' <=> q # None) /\ (Upward(x) <=> q # None)
        BY <3>1 DEF Upward
      <3>3. h[x] = IF q # None THEN h[q] + 1 ELSE 0
        BY <1>1, <3>1, <3>2
      <3>4. x \in D => q \in D
        BY <2>2, <3>1 DEF Movable
      <3>5. q \in D => x \in D
        BY <3>1 DEF Movable, ClosedDownward
      <3>6. CASE x \in D
        <4>1. q \in Tasks /\ q # None /\ k[x] = h[x] - h[t] + up /\ k[q] = h[q] - h[t] + up
          BY <1>1, <3>4, <3>6
        <4>2. h[x] = h[q] + 1 /\ h[q] \in Nat /\ h[t] \in Nat
          BY <1>1, <3>3, <4>1
        <4>3. k[x] = k[q] + 1
          <5> HIDE DEF k, up
          <5> QED BY <1>2, <4>1, <4>2
        <4> HIDE DEF k
        <4> QED BY <3>1, <3>2, <4>1, <4>3
      <3>7. CASE x \notin D
        <4>1. k[x] = h[x] /\ (q # None => k[q] = h[q])
          BY <3>5, <3>7
        <4> HIDE DEF k
        <4> QED BY <3>1, <3>2, <3>3, <4>1
      <3> QED BY <3>6, <3>7
    <2> QED BY <2>1, <2>2
  <1> HIDE DEF k
  <1>7. Levels(k)'
    BY <1>5, <1>6 DEF Levels
  <1> QED BY <1>7

LEMMA WriteParentKeepsSInv ==
  ASSUME SInv, GInv', NEW g \in GraphCalls, WriteParent(g)
  PROVE  SInv'
  <1>1. PICK t, p : t = edit[g].task /\ p = edit[g].other
    OBVIOUS
  <1>2. /\ t \in Tasks /\ Exists(t) /\ p \in Tasks \cup {None} /\ (p # None => Exists(p))
        /\ gpc[g] = "reparent" /\ edit[g].verb = "setParent"
    BY <1>1, NamedTasks DEF SInv, GInv, GraphCall, EditOf, HasRead, WriteParent
  <1>3. rows \in [Tasks -> Row \cup {NoRow}] /\ rows[t] \in Row
    BY <1>2 DEF SInv, GInv, BaseInv, BaseTypes, Exists
  <1>4. /\ rows' = [rows EXCEPT ![t] = [rows[t] EXCEPT !.parent = p]]
        /\ deps' = deps /\ GraphAnswer(g)
        /\ Cross(g, p # None /\ (g \in overtaken \/ p = t))
    BY <1>1 DEF WriteParent
  <1>5. PICK row \in Row : row = [rows[t] EXCEPT !.parent = p] /\ row.parent = p
    <2>1. [rows[t] EXCEPT !.parent = p] \in Row
      BY <1>2, <1>3 DEF Row
    <2>2. [rows[t] EXCEPT !.parent = p].parent = p
      BY <1>3 DEF Row
    <2> QED BY <2>1, <2>2
  <1>6. rows'[t] = row /\ \A x \in Tasks \ {t} : rows'[x] = rows[x]
    BY <1>2, <1>3, <1>4, <1>5
  <1>7. Parent(t)' = p /\ \A x \in Tasks \ {t} : Parent(x)' = Parent(x)
    BY <1>5, <1>6, RowIsNotNoRow DEF Parent, Exists
  <1>8. /\ overtaken' = overtaken \cup Rivals(g)
        /\ "setParent" \notin crossed' =>
              "setParent" \notin crossed /\ ~(p # None /\ (g \in overtaken \/ p = t))
        /\ "addDependency" \in crossed => "addDependency" \in crossed'
    BY <1>2, <1>4 DEF Cross
  <1>9. /\ gpc'[g] = "idle"
        /\ \A f \in GraphCalls \ {g} : gpc'[f] = gpc[f] /\ edit'[f] = edit[f]
    BY <1>4 DEF SInv, GInv, GraphTypes, GraphAnswer
  <1>10. \A f \in GraphCalls : gpc'[f] = "reparent" => f \in overtaken'
    <2> SUFFICES ASSUME NEW f \in GraphCalls, gpc'[f] = "reparent" PROVE f \in Rivals(g)
      BY <1>8
    <2>1. f # g /\ gpc[f] = "reparent"
      BY <1>9
    <2>2. edit[f].verb = "setParent"
      BY <2>1 DEF SInv, GInv, GraphCall, EditOf
    <2> QED BY <1>2, <2>1, <2>2 DEF Rivals, Pending
  <1>11. ASSUME "setParent" \notin crossed' PROVE Forest'
    <2>1. PICK h : Levels(h) /\ MovesChecked(h)
      BY <1>8, <1>11 DEF SInv, Forest
    <2>2. PICK D : Movable(t, p, h, D)
      <3>1. CASE p = None
        <4>1. p # t /\ ~ParentObjection(t, p)
          BY <1>2, <3>1, NamesApart DEF ParentObjection
        <4> QED BY <1>2, <2>1, <3>1, <4>1, CheckedIsMovable DEF SInv
      <3>2. CASE p # None
        <4>1. p # t /\ g \notin overtaken
          BY <1>8, <1>11, <3>2
        <4> QED BY <1>1, <1>2, <2>1, <4>1 DEF MovesChecked
      <3> QED BY <3>1, <3>2
    <2>3. PICK k : Levels(k)'
      BY <1>2, <1>7, <2>1, <2>2, MovedLevels DEF SInv
    <2> QED BY <1>10, <2>3 DEF Forest, MovesChecked
  <1>12. EdgesChecked'
    <2> SUFFICES ASSUME NEW f \in GraphCalls, gpc'[f] = "insert", f \notin overtaken'
                 PROVE  \E S : CutOff(edit[f].other, edit[f].task, S)'
      BY DEF EdgesChecked
    <2>1. f # g /\ gpc[f] = "insert" /\ edit'[f] = edit[f] /\ f \notin overtaken
      BY <1>8, <1>9
    <2>2. \E S : CutOff(edit[f].other, edit[f].task, S)
      BY <2>1 DEF SInv, EdgesChecked
    <2> QED BY <1>4, <2>1, <2>2 DEF CutOff
  <1>13. "addDependency" \notin crossed' => DependenciesAcyclic'
    BY <1>4, <1>8 DEF SInv, DependenciesAcyclic
  <1> QED BY <1>11, <1>12, <1>13 DEF SInv

\* The new edge leads to what cannot get back to its start.
LEMMA InsertEdgeKeepsSInv ==
  ASSUME SInv, GInv', NEW g \in GraphCalls, InsertEdge(g)
  PROVE  SInv'
  <1>1. PICK t, d : t = edit[g].task /\ d = edit[g].other
    OBVIOUS
  <1>2. gpc[g] = "insert" /\ edit[g].verb = "addDependency"
    BY DEF SInv, GInv, GraphCall, EditOf, InsertEdge
  <1>3. /\ rows' = rows /\ deps' = deps \cup {<<t, d>>} /\ edit' = edit
        /\ Cross(g, g \in overtaken)
    BY <1>1 DEF InsertEdge
  <1>4. /\ overtaken' = overtaken \cup Rivals(g)
        /\ "addDependency" \notin crossed' => "addDependency" \notin crossed /\ g \notin overtaken
        /\ "setParent" \in crossed => "setParent" \in crossed'
    BY <1>2, <1>3 DEF Cross
  <1>5. gpc'[g] \in {"block", "log"} /\ \A f \in GraphCalls \ {g} : gpc'[f] = gpc[f]
    BY DEF SInv, GInv, GraphTypes, InsertEdge
  <1>6. ASSUME "addDependency" \notin crossed' PROVE DependenciesAcyclic'
    <2>1. PICK R : CutOff(d, t, R)
      BY <1>1, <1>2, <1>4, <1>6 DEF SInv, EdgesChecked
    <2>2. DependenciesAcyclic
      BY <1>4, <1>6 DEF SInv
    <2> SUFFICES ASSUME NEW S \in SUBSET Tasks \ {{}}
                 PROVE \E x \in S : \A u \in S : <<x, u>> \notin deps \cup {<<t, d>>}
      BY <1>3 DEF DependenciesAcyclic
    <2>3. CASE d \in S
      <3>1. S \cap R \in SUBSET Tasks \ {{}}
        BY <2>1, <2>3 DEF CutOff
      <3>2. PICK x \in S \cap R : \A u \in S \cap R : <<x, u>> \notin deps
        BY <2>2, <3>1 DEF DependenciesAcyclic
      <3>3. ASSUME NEW u \in S, <<x, u>> \in deps PROVE FALSE
        <4>1. u \in R
          <5>1. <<x, u>>[1] = x /\ <<x, u>>[2] = u
            OBVIOUS
          <5> QED BY <2>1, <3>2, <3>3, <5>1 DEF CutOff
        <4> QED BY <3>2, <3>3, <4>1
      <3>4. x # t
        BY <2>1 DEF CutOff
      <3> QED BY <3>3, <3>4
    <2>4. CASE d \notin S
      <3>1. PICK x \in S : \A u \in S : <<x, u>> \notin deps
        BY <2>2 DEF DependenciesAcyclic
      <3> QED BY <2>4, <3>1
    <2> QED BY <2>3, <2>4
  <1>7. \A f \in GraphCalls : gpc'[f] = "insert" => f \in overtaken'
    <2> SUFFICES ASSUME NEW f \in GraphCalls, gpc'[f] = "insert" PROVE f \in Rivals(g)
      BY <1>4
    <2>1. f # g /\ gpc[f] = "insert"
      BY <1>5
    <2>2. edit[f].verb = "addDependency"
      BY <2>1 DEF SInv, GInv, GraphCall, EditOf
    <2> QED BY <1>2, <2>1, <2>2 DEF Rivals, Pending
  <1>8. EdgesChecked'
    BY <1>7 DEF EdgesChecked
  <1>9. ASSUME "setParent" \notin crossed' PROVE Forest'
    <2>1. PICK h : Levels(h) /\ MovesChecked(h)
      BY <1>4, <1>9 DEF SInv, Forest
    <2>2. \A x : Parent(x)' = Parent(x)
      BY <1>3 DEF Parent, Exists
    <2>3. Levels(h)'
      BY <2>1, <2>2 DEF Levels, Upward
    <2>4. \A x, p, D : Movable(x, p, h, D) => Movable(x, p, h, D)'
      BY <2>2 DEF Movable, ClosedDownward
    <2>5. ASSUME NEW f \in GraphCalls, gpc'[f] = "reparent", f \notin overtaken',
                 edit'[f].other # edit'[f].task
          PROVE \E D : Movable(edit[f].task, edit[f].other, h, D)'
      <3>1. PICK x, p : /\ x = edit[f].task /\ p = edit[f].other
                        /\ edit'[f].task = x /\ edit'[f].other = p
        BY <1>3
      <3>2. gpc[f] = "reparent" /\ f \notin overtaken
        BY <1>4, <1>5, <2>5
      <3>3. PICK D : Movable(x, p, h, D)
        BY <1>3, <2>1, <2>5, <3>1, <3>2 DEF MovesChecked
      <3>4. Movable(x, p, h, D)'
        BY <2>4, <3>3
      <3> QED BY <3>1, <3>4 DEF Movable
    <2> QED BY <2>3, <2>5 DEF Forest, MovesChecked
  <1> QED BY <1>6, <1>8, <1>9 DEF SInv

\* The writes that move no task.
LEMMA OtherWritesKeepSInv ==
  ASSUME SInv, GInv', NEW g \in GraphCalls,
         BlockTask(g) \/ LogEdge(g) \/ LockDependent(g) \/ CheckUnblocked(g) \/ CommitRemoval(g)
  PROVE  SInv'
  <1>1. /\ rows \in [Tasks -> Row \cup {NoRow}] /\ gpc[g] # "idle"
        /\ gpc \in [GraphCalls -> {"idle", "setParent", "reparent", "addDependency", "insert",
                               "block", "log", "removeDependency", "unblock", "todo",
                               "remove"}]
        /\ GraphCall(g)
    BY DEF SInv, GInv, BaseInv, BaseTypes, GraphTypes, BlockTask, LogEdge, LockDependent,
           CheckUnblocked, CommitRemoval
  <1>2. edit[g].task \in Tasks
    BY <1>1, EditShapes DEF GraphCall, EditOf
  <1>3. deps' \subseteq deps /\ UNCHANGED <<overtaken, crossed>>
    BY DEF BlockTask, LogEdge, LockDependent, CheckUnblocked, CommitRemoval, GraphRefused,
           GraphRead, tables, history
  <1>4. \A f \in GraphCalls : gpc'[f] \in {"reparent", "insert"} =>
           gpc'[f] = gpc[f] /\ edit'[f] = edit[f]
    BY DEF SInv, GInv, GraphTypes, BlockTask, LogEdge, LockDependent, CheckUnblocked,
           CommitRemoval, GraphRefused, GraphRead, GraphAnswer
  <1>5. \A x \in Tasks : Parent(x)' = Parent(x)
    <2>1. CASE rows' = rows
      BY <2>1, SameRowsSameParents
    <2>2. CASE rows' # rows
      <3>1. PICK t \in Tasks : t = edit[g].task
        BY <1>2
      <3>2. Exists(t) /\ rows[t] \in Row
        <4>1. gpc[g] \in {"block", "todo"}
          BY <2>2 DEF BlockTask, LogEdge, LockDependent, CheckUnblocked, CommitRemoval,
                      GraphRefused, GraphRead, tables
        <4> QED BY <1>1, <3>1, <4>1 DEF GraphCall, HasRead, HasLocked, Missing, Exists
      <3>3. \A v : LET r == [rows[t] EXCEPT !.status = v]
                  IN  r.parent = rows[t].parent /\ DOMAIN r = DOMAIN rows[t]
        BY <3>2 DEF Row
      <3>4. PICK row : /\ rows' = [rows EXCEPT ![t] = row] /\ row.parent = rows[t].parent
                       /\ DOMAIN row = DOMAIN rows[t]
        <4>1. CASE BlockTask(g)
          BY <3>1, <3>3, <4>1 DEF BlockTask
        <4>2. CASE CommitRemoval(g)
          <5>1. \A v, w : LET r == [rows[t] EXCEPT !.status = v, !.version = w]
                         IN  r.parent = rows[t].parent /\ DOMAIN r = DOMAIN rows[t]
            BY <3>2 DEF Row
          <5>2. rows' = [rows EXCEPT ![t] = [rows[t] EXCEPT !.status = "todo",
                                                            !.version = found[g].version + 1]]
            BY <1>1, <2>2, <3>1, <4>2 DEF CommitRemoval
          <5> QED BY <5>1, <5>2
        <4> QED BY <2>2, <4>1, <4>2 DEF LogEdge, LockDependent, CheckUnblocked, GraphRefused,
                                        GraphRead, tables
      <3>5. rows'[t] = row /\ \A x \in Tasks \ {t} : rows'[x] = rows[x]
        BY <1>1, <3>4
      <3>6. row # NoRow
        <4>1. "parent" \in DOMAIN rows[t] /\ "parent" \notin DOMAIN NoRow
          BY <3>2 DEF Row, NoRow
        <4> QED BY <3>4, <4>1
      <3> QED BY <3>2, <3>4, <3>5, <3>6 DEF Parent, Exists
    <2> QED BY <2>1, <2>2
  <1> QED BY <1>3, <1>4, <1>5, QuietStepKeepsSInv

\* Neither a crash nor a task verb adds an edge or moves a task.
LEMMA CrashKeepsSInv ==
  ASSUME SInv, GInv', GraphCrash
  PROVE  SInv'
  <1>1. rows' = rows /\ deps' = deps /\ UNCHANGED <<overtaken, crossed>>
    BY DEF GraphCrash, Interrupted, tables
  <1>2. \A g \in GraphCalls : gpc'[g] = "idle"
    BY DEF GraphCrash
  <1> QED BY <1>1, <1>2, SameRowsSameParents, QuietStepKeepsSInv

LEMMA TaskVerbsKeepSInv ==
  ASSUME SInv, GInv', VerbStep
  PROVE  SInv'
  <1>1. /\ deps' = deps
        /\ \A t \in Tasks : Exists(t) => Exists(t)' /\ rows'[t].parent = rows[t].parent
        /\ \A t \in Tasks : Exists(t)' /\ ~Exists(t) => rows'[t].parent = None
    BY VerbStepKeepsGraph DEF SInv, GInv, VerbStep
  <1>2. \A x \in Tasks : Parent(x)' = Parent(x)
    BY <1>1 DEF Parent
  <1> QED BY <1>1, <1>2, QuietStepKeepsSInv DEF VerbStep, gvars, history

LEMMA GraphNextKeepsSInv ==
  ASSUME SInv, [GraphNext]_<<vars, gvars>>
  PROVE  SInv'
  <1>1. GInv'
    BY GraphNextKeepsGInv DEF SInv
  <1>2. CASE \E g \in GraphCalls, e \in Edits : GraphSubmit(g, e)
    <2>1. PICK g \in GraphCalls, e \in Edits : GraphSubmit(g, e)
      BY <1>2
    <2>2. rows' = rows /\ deps' = deps /\ crossed' = crossed
      BY <2>1 DEF GraphSubmit, tables
    <2>3. \A f \in GraphCalls : gpc'[f] \in {"reparent", "insert"} =>
             gpc'[f] = gpc[f] /\ edit'[f] = edit[f] /\ (f \in overtaken => f \in overtaken')
      BY <2>1, EditShapes DEF GraphSubmit, SInv, GInv, GraphTypes
    <2> QED BY <1>1, <2>2, <2>3, SameRowsSameParents, QuietStepKeepsSInv
  <1>3. CASE \E g \in GraphCalls : GraphHandle(g)
    BY <1>1, <1>3, CheckParentKeepsSInv, WriteParentKeepsSInv, CheckEdgeKeepsSInv,
       InsertEdgeKeepsSInv, OtherWritesKeepSInv
       DEF GraphHandle
  <1>4. CASE GraphCrash
    BY <1>1, <1>4, CrashKeepsSInv
  <1>5. CASE VerbStep
    BY <1>1, <1>5, TaskVerbsKeepSInv
  <1>6. CASE UNCHANGED <<vars, gvars>>
    <2>1. rows' = rows /\ deps' = deps /\ gpc' = gpc /\ edit' = edit
          /\ UNCHANGED <<overtaken, crossed>>
      BY <1>6 DEF vars, gvars, history
    <2> QED BY <1>1, <2>1, SameRowsSameParents, QuietStepKeepsSInv
  <1> QED BY <1>2, <1>3, <1>4, <1>5, <1>6 DEF GraphNext, VerbStep

\* Whatever clients edit the graphs, with whatever edits, beside any number that
\* move their tasks, create them and fire rules, and through crashes at any
\* statement: from graphs that are sound, the dependencies get a cycle only by an
\* addDependency that writes after another's write of an edge overtook its walk,
\* and the parents stop to be a forest of at most MaxDepth levels only by a
\* setParent that another's overtook, or that puts a task under itself.
THEOREM GraphsStaySound ==
  GraphSpec /\ DependenciesAcyclic /\ HierarchyIsAForest => []GraphsAreSound
  <1>1. GraphInit /\ DependenciesAcyclic /\ HierarchyIsAForest => SInv
    <2> SUFFICES ASSUME GraphInit, DependenciesAcyclic, HierarchyIsAForest PROVE SInv
      OBVIOUS
    <2>1. GInv
      BY InitEstablishesGInv
    <2>2. PICK h : Levels(h)
      BY <2>1, ForestHasLevels
    <2>3. \A g \in GraphCalls : gpc[g] = "idle"
      BY DEF GraphInit
    <2>4. Forest /\ EdgesChecked
      BY <2>2, <2>3 DEF Forest, MovesChecked, EdgesChecked
    <2> QED BY <2>1, <2>4 DEF SInv
  <1>2. SInv /\ [GraphNext]_<<vars, gvars>> => SInv'
    BY GraphNextKeepsSInv
  <1> QED BY <1>1, <1>2, SInvIsSound, PTL DEF GraphSpec

(***************************************************************************)
(* What the logs tell of the dependencies, whoever edits them.  An edge    *)
(* and its event are two statements of addDependency, so that only the     *)
(* edges without a client between the two are as their task's log says.    *)
(***************************************************************************)

\* The last that l tells of a dependency on d is that it was added; or it tells
\* nothing, and the edge is from before the log.
EdgeKinds == {"dependency_added", "dependency_removed"}
EdgesIn(l, d) == {i \in DOMAIN l : l[i].kind \in EdgeKinds /\ l[i].to = d}
LastAdds(l, d) ==
    \E i \in EdgesIn(l, d) : l[i].kind = "dependency_added" /\ \A j \in EdgesIn(l, d) : j <= i
Says(l, t, d) == LastAdds(l, d) \/ (EdgesIn(l, d) = {} /\ <<t, d>> \in Blockers)

EdgeTold(t, d) ==
    \/ <<t, d>> \in untold
    \/ Loggers(<<t, d>>) # {} /\ <<t, d>> \in deps
    \/ Loggers(<<t, d>>) = {} /\ (<<t, d>> \in deps <=> Says(log[t], t, d))

LInv == GInv /\ \A t, d \in Tasks : EdgeTold(t, d)

Entry == Event \cup Note

LEMMA AppendedEntry ==
  ASSUME NEW l \in Seq(Entry), NEW e \in Entry
  PROVE  /\ Append(l, e) \in Seq(Entry)
         /\ DOMAIN l = 1 .. Len(l) /\ Len(l) \in Nat
         /\ DOMAIN Append(l, e) = 1 .. Len(l) + 1
         /\ Append(l, e)[Len(l) + 1] = e
         /\ \A i \in 1 .. Len(l) : Append(l, e)[i] = l[i]
  BY AppendProperties, LenProperties

\* An entry about a dependency on d tells whether it is there; any other entry
\* does not.
LEMMA AppendTellsEdge ==
  ASSUME NEW l \in Seq(Entry), NEW e \in Entry, NEW t, NEW d
  PROVE  /\ e.kind = "dependency_added" /\ e.to = d => Says(Append(l, e), t, d)
         /\ e.kind = "dependency_removed" /\ e.to = d => ~Says(Append(l, e), t, d)
         /\ e.kind \notin EdgeKinds \/ e.to # d => (Says(Append(l, e), t, d) <=> Says(l, t, d))
  <1> DEFINE k == Len(l) + 1
  <1>1. PICK n : n = Append(l, e)
    OBVIOUS
  <1>2. /\ DOMAIN l = 1 .. Len(l) /\ Len(l) \in Nat /\ DOMAIN n = 1 .. k /\ n[k] = e
        /\ \A i \in 1 .. Len(l) : n[i] = l[i]
    BY <1>1, AppendedEntry
  <1>3. ASSUME e.kind \in EdgeKinds, e.to = d
        PROVE  k \in EdgesIn(n, d) /\ \A j \in EdgesIn(n, d) : j \in Nat /\ j <= k
    BY <1>2, <1>3 DEF EdgesIn
  <1>4. ASSUME e.kind = "dependency_added", e.to = d PROVE Says(n, t, d)
    BY <1>2, <1>3, <1>4 DEF LastAdds, EdgeKinds, Says
  <1>5. ASSUME e.kind = "dependency_removed", e.to = d, Says(n, t, d) PROVE FALSE
    <2>1. k \in EdgesIn(n, d)
      BY <1>3, <1>5 DEF EdgeKinds
    <2>2. PICK i \in EdgesIn(n, d) : n[i].kind = "dependency_added" /\ \A j \in EdgesIn(n, d) : j <= i
      BY <1>5, <2>1 DEF LastAdds, Says
    <2>3. k <= i /\ i <= k /\ i \in Nat
      BY <1>3, <1>5, <2>1, <2>2 DEF EdgeKinds
    <2>4. i = k
      BY <1>2, <2>3
    <2> QED BY <1>2, <1>5, <2>2, <2>4
  <1>6. ASSUME e.kind \notin EdgeKinds \/ e.to # d PROVE Says(n, t, d) <=> Says(l, t, d)
    <2>1. EdgesIn(n, d) = EdgesIn(l, d) /\ \A i \in EdgesIn(l, d) : n[i] = l[i]
      BY <1>2, <1>6 DEF EdgesIn
    <2> QED BY <2>1 DEF LastAdds, Says
  <1> QED BY <1>1, <1>4, <1>5, <1>6

\* No event of a task verb tells of a dependency.
LEMMA EventsTellNoEdge ==
  ASSUME NEW l \in Seq(Entry), NEW p \in Seq(Event), NEW t, NEW d
  PROVE  Says(l \o p, t, d) <=> Says(l, t, d)
  <1>1. PICK m \in Nat, n \in Nat : m = Len(l) /\ n = Len(p)
    OBVIOUS
  <1>2. PICK q : q = l \o p
    OBVIOUS
  <1>3. /\ DOMAIN l = 1 .. m /\ DOMAIN q = 1 .. m + n
        /\ \A i \in 1 .. m : q[i] = l[i]
        /\ \A i \in m + 1 .. m + n : q[i] = p[i - m] /\ i - m \in 1 .. n
        /\ \A i \in 1 .. n : p[i] \in Event
    BY <1>1, <1>2
  <1>4. \A e \in Event : e.kind \notin EdgeKinds
    BY DEF Event, Kinds, EdgeKinds
  <1>5. EdgesIn(q, d) = EdgesIn(l, d) /\ \A i \in EdgesIn(l, d) : q[i] = l[i]
    BY <1>3, <1>4 DEF EdgesIn
  <1> QED BY <1>2, <1>5 DEF LastAdds, Says

LEMMA LogsAreEntries ==
  ASSUME BaseInv
  PROVE  \A t \in Tasks : log[t] \in Seq(Entry)
  BY DEF BaseInv, BaseTypes, Entry

\* A step that settles some edges and keeps what there is to tell of the others.
LEMMA StepKeepsLInv ==
  ASSUME LInv, GInv', untold \subseteq untold',
         \A t, d \in Tasks : EdgeTold(t, d)' \/
            /\ Loggers(<<t, d>>)' = Loggers(<<t, d>>)
            /\ <<t, d>> \in deps' <=> <<t, d>> \in deps
            /\ Says(log'[t], t, d) <=> Says(log[t], t, d)
  PROVE  LInv'
  <1>1. ASSUME NEW t \in Tasks, NEW d \in Tasks PROVE EdgeTold(t, d)'
    <2>1. EdgeTold(t, d)
      BY DEF LInv
    <2> QED BY <2>1 DEF EdgeTold
  <1> QED BY <1>1 DEF LInv

\* The calls between insert and event, when nobody enters or leaves.
LEMMA SameLoggers ==
  ASSUME \A g \in GraphCalls : /\ gpc'[g] \in {"block", "log"} <=> gpc[g] \in {"block", "log"}
                               /\ gpc[g] \in {"block", "log"} => edit'[g] = edit[g]
  PROVE  \A e : Loggers(e)' = Loggers(e)
  BY DEF Loggers

\* g is between insert and event of its own edge only.
LEMMA LoggersElsewhere ==
  ASSUME NEW g \in GraphCalls, NEW e, e # <<edit[g].task, edit[g].other>>,
         \A h \in GraphCalls \ {g} : gpc'[h] = gpc[h] /\ edit'[h] = edit[h],
         gpc'[g] \in {"block", "log"} => edit'[g] = edit[g]
  PROVE  Loggers(e)' = Loggers(e)
  BY DEF Loggers

(***************************************************************************)
(* The task verbs                                                          *)
(***************************************************************************)
LEMMA TaskVerbsKeepLInv ==
  ASSUME LInv, GInv', VerbStep
  PROVE  LInv'
  <1>1. BaseInv /\ BaseTypes /\ gpc' = gpc /\ edit' = edit /\ untold' = untold
    BY DEF LInv, GInv, BaseInv, VerbStep, gvars, history
  <1>2. deps' = deps
    BY <1>1, VerbStepKeepsGraph DEF VerbStep
  <1>3. \A e : Loggers(e)' = Loggers(e)
    BY <1>1, SameLoggers
  <1>4. ASSUME NEW u \in Tasks, NEW d \in Tasks PROVE Says(log'[u], u, d) <=> Says(log[u], u, d)
    <2>1. CASE log' = log
      BY <2>1
    <2>2. CASE \E c \in Calls : Commit(c)
      <3>1. PICK c \in Calls : Commit(c)
        BY <2>2
      <3>2. txn[c] \in Txn /\ BaseDraft(c)
        BY <1>1, <3>1 DEF BaseInv, BaseTypes, BaseCall, Commit
      <3>3. PICK t \in Tasks : t = txn[c].task
        BY <3>2 DEF BaseDraft
      <3>4. log'[t] = log[t] \o txn[c].pend /\ \A x \in Tasks \ {t} : log'[x] = log[x]
        BY <1>1, <3>1, <3>3 DEF Commit, BaseTypes
      <3>5. CASE u = t
        <4>1. log[t] \in Seq(Entry) /\ txn[c].pend \in Seq(Event)
          BY <1>1, <3>2, LogsAreEntries DEF Txn
        <4>2. Says(log[t] \o txn[c].pend, t, d) <=> Says(log[t], t, d)
          BY <4>1, EventsTellNoEdge
        <4> QED BY <3>4, <3>5, <4>2
      <3>6. CASE u # t
        BY <3>4, <3>6
      <3> QED BY <3>5, <3>6
    <2>3. log' = log \/ \E c \in Calls : Commit(c)
      <3>1. CASE \E c \in Calls, o \in Ops, b \in Bodies : \E v \in KnownVersions(b.task) :
                    Submit(c, o, b, v)
        BY <3>1 DEF Submit, tables
      <3>2. ASSUME NEW c \in Calls, Handle(c) PROVE log' = log \/ Commit(c)
        <4>1. CASE LockTask(c) \/ LockMissing(c) \/ LockRefused(c) \/ CheckDependencies(c)
                   \/ CheckChildren(c) \/ RefuseWrite(c) \/ RuleFails(c)
          BY <4>1 DEF LockTask, LockMissing, LockRefused, CheckDependencies, CheckChildren,
                      RefuseWrite, RuleFails, Abort, tables
        <4>2. CASE \E t \in Tasks : CreateTask(c, t)
          BY <4>2 DEF CreateTask, Unheard, tables
        <4>3. CASE CheckHit(c) \/ CheckMiss(c) \/ RecheckHit(c) \/ RecheckMiss(c) \/ WriteTask(c)
                   \/ FireStatusRule(c) \/ FireAssigneeRule(c)
          BY <4>3 DEF CheckHit, CheckMiss, RecheckHit, RecheckMiss, AnswerFromReceipt, WriteTask,
                      FireStatusRule, FireAssigneeRule, RuleWrites, tables
        <4> QED BY <3>2, <4>1, <4>2, <4>3 DEF Handle
      <3> QED BY <3>1, <3>2 DEF VerbStep, TaskVerbs
    <2> QED BY <2>1, <2>2, <2>3
  <1> QED BY <1>1, <1>2, <1>3, <1>4, StepKeepsLInv

(***************************************************************************)
(* The graph verbs                                                         *)
(***************************************************************************)

\* A step that only reads, of a call that is not between insert and event.
LEMMA ReadingKeepsLInv ==
  ASSUME LInv, GInv', UNCHANGED <<tables, untold>>,
         NEW g \in GraphCalls, gpc[g] \notin {"block", "log"}, gpc'[g] \notin {"block", "log"},
         \A h \in GraphCalls \ {g} : gpc'[h] = gpc[h] /\ edit'[h] = edit[h]
  PROVE  LInv'
  <1>1. \A e : Loggers(e)' = Loggers(e)
    BY DEF Loggers
  <1> QED BY <1>1, StepKeepsLInv DEF tables

LEMMA SubmitKeepsLInv ==
  ASSUME LInv, GInv', NEW g \in GraphCalls, NEW e \in Edits, GraphSubmit(g, e)
  PROVE  LInv'
  <1>1. gpc[g] = "idle" /\ gpc'[g] \notin {"block", "log"} /\ UNCHANGED <<tables, untold>>
    BY EditShapes DEF GraphSubmit, LInv, GInv, GraphTypes
  <1>2. \A h \in GraphCalls \ {g} : gpc'[h] = gpc[h] /\ edit'[h] = edit[h]
    BY DEF GraphSubmit, LInv, GInv, GraphTypes
  <1> QED BY <1>1, <1>2, ReadingKeepsLInv

LEMMA ChecksKeepLInv ==
  ASSUME LInv, GInv', NEW g \in GraphCalls,
         CheckParent(g) \/ CheckEdge(g) \/ LockDependent(g) \/ CheckUnblocked(g)
  PROVE  LInv'
  <1>1. GraphTypes
    BY DEF LInv, GInv
  <1>2. \A objection : GraphRefused(g, objection) =>
           /\ UNCHANGED <<tables, untold>> /\ gpc'[g] = "idle"
           /\ \A h \in GraphCalls \ {g} : gpc'[h] = gpc[h] /\ edit'[h] = edit[h]
    BY <1>1 DEF GraphRefused, GraphAnswer, GraphTypes, history
  <1>3. \A next : GraphRead(g, next) =>
           /\ UNCHANGED <<tables, untold>> /\ gpc'[g] = next
           /\ \A h \in GraphCalls \ {g} : gpc'[h] = gpc[h] /\ edit'[h] = edit[h]
    BY <1>1 DEF GraphRead, GraphTypes, history
  <1>4. /\ UNCHANGED <<tables, untold>>
        /\ gpc[g] \notin {"block", "log"} /\ gpc'[g] \notin {"block", "log"}
        /\ \A h \in GraphCalls \ {g} : gpc'[h] = gpc[h] /\ edit'[h] = edit[h]
    <2>1. CASE CheckParent(g)
      BY <1>2, <1>3, <2>1 DEF CheckParent
    <2>2. CASE CheckEdge(g)
      BY <1>2, <1>3, <2>2 DEF CheckEdge
    <2>3. CASE LockDependent(g)
      BY <1>2, <1>3, <2>3 DEF LockDependent
    <2>4. CASE CheckUnblocked(g)
      BY <1>1, <2>4 DEF CheckUnblocked, GraphTypes, history
    <2> QED BY <2>1, <2>2, <2>3, <2>4
  <1> QED BY <1>4, ReadingKeepsLInv

LEMMA WriteParentKeepsLInv ==
  ASSUME LInv, GInv', NEW g \in GraphCalls, WriteParent(g)
  PROVE  LInv'
  <1>1. GInv /\ GraphTypes /\ BaseTypes /\ gpc[g] = "reparent"
    BY DEF LInv, GInv, BaseInv, WriteParent
  <1>2. PICK t \in Tasks, p \in Tasks \cup {None} : t = edit[g].task /\ p = edit[g].other
    BY <1>1, NamedTasks DEF GInv, GraphCall, HasRead
  <1>3. found[g].parent \in Tasks \cup {None}
    BY <1>1 DEF GInv, GraphCall, HasRead, Row
  <1>4. PICK n \in Note : n = GraphEvent("parent_task_id", found[g].parent, p)
    BY <1>3, GraphEventIsNote DEF GraphKinds
  <1>5. n \in Entry /\ n.kind \notin EdgeKinds
    BY <1>4 DEF Entry, GraphEvent, EdgeKinds
  <1>6. /\ log'[t] = Append(log[t], n) /\ \A u \in Tasks \ {t} : log'[u] = log[u]
        /\ deps' = deps /\ untold' = untold /\ GraphAnswer(g)
    BY <1>1, <1>2, <1>4 DEF WriteParent, BaseTypes
  <1>7. \A e : Loggers(e)' = Loggers(e)
    <2>1. \A h \in GraphCalls \ {g} : gpc'[h] = gpc[h] /\ edit'[h] = edit[h]
      BY <1>1, <1>6 DEF GraphAnswer, GraphTypes
    <2>2. gpc'[g] = "idle"
      BY <1>1, <1>6 DEF GraphAnswer, GraphTypes
    <2> QED BY <1>1, <2>1, <2>2 DEF Loggers
  <1>8. \A u, d \in Tasks : Says(log'[u], u, d) <=> Says(log[u], u, d)
    <2>1. PICK l \in Seq(Entry) : l = log[t]
      BY <1>1, LogsAreEntries DEF GInv
    <2>2. \A u, d : Says(Append(l, n), u, d) <=> Says(l, u, d)
      BY <1>5, AppendTellsEdge
    <2> QED BY <1>6, <2>1, <2>2
  <1> QED BY <1>6, <1>7, <1>8, StepKeepsLInv

\* addDependency at one of its writes.
LEMMA AddingEdge ==
  ASSUME GInv, NEW g \in GraphCalls, gpc[g] \in {"insert", "block", "log"}
  PROVE  /\ edit[g].task \in Tasks /\ edit[g].other \in Tasks /\ Exists(edit[g].task)
         /\ rows[edit[g].task] \in Row /\ log[edit[g].task] \in Seq(Entry)
  <1>1. edit[g].task \in Tasks /\ edit[g].other \in Tasks /\ Exists(edit[g].task)
    BY EditShapes DEF GInv, GraphCall, EditOf, HasRead, Missing
  <1> QED BY <1>1, LogsAreEntries DEF GInv, BaseInv, BaseTypes, Exists

LEMMA InsertEdgeKeepsLInv ==
  ASSUME LInv, GInv', NEW g \in GraphCalls, InsertEdge(g)
  PROVE  LInv'
  <1>1. GInv /\ GraphTypes /\ gpc[g] = "insert"
    BY DEF LInv, GInv, InsertEdge
  <1>2. PICK t \in Tasks, o \in Tasks : t = edit[g].task /\ o = edit[g].other
    BY <1>1, AddingEdge
  <1>3. /\ log' = log /\ edit' = edit /\ untold' = untold /\ deps' = deps \cup {<<t, o>>}
        /\ gpc'[g] \in {"block", "log"} /\ \A h \in GraphCalls \ {g} : gpc'[h] = gpc[h]
    BY <1>1, <1>2 DEF InsertEdge, GraphTypes
  <1>4. EdgeTold(t, o)'
    <2>1. g \in Loggers(<<t, o>>)'
      BY <1>2, <1>3 DEF Loggers
    <2> QED BY <1>3, <2>1 DEF EdgeTold
  <1>5. ASSUME NEW u \in Tasks, NEW d \in Tasks, ~(u = t /\ d = o)
        PROVE  /\ Loggers(<<u, d>>)' = Loggers(<<u, d>>)
               /\ <<u, d>> \in deps' <=> <<u, d>> \in deps
    <2>1. <<u, d>> # <<t, o>>
      BY <1>5
    <2> QED BY <1>2, <1>3, <2>1, LoggersElsewhere
  <1> QED BY <1>3, <1>4, <1>5, StepKeepsLInv

LEMMA BlockTaskKeepsLInv ==
  ASSUME LInv, GInv', NEW g \in GraphCalls, BlockTask(g)
  PROVE  LInv'
  <1>1. /\ log' = log /\ deps' = deps /\ edit' = edit /\ untold' = untold
        /\ gpc[g] = "block" /\ gpc' = [gpc EXCEPT ![g] = "log"]
    BY DEF BlockTask, history
  <1>2. \A e : Loggers(e)' = Loggers(e)
    BY <1>1, SameLoggers DEF LInv, GInv, GraphTypes
  <1> QED BY <1>1, <1>2, StepKeepsLInv

\* The event is there once its edge has been; if another inserts the same edge,
\* that one's event is still to come.
LEMMA LogEdgeKeepsLInv ==
  ASSUME LInv, GInv', NEW g \in GraphCalls, LogEdge(g)
  PROVE  LInv'
  <1>1. GInv /\ GraphTypes /\ BaseTypes /\ gpc[g] = "log"
    BY DEF LInv, GInv, BaseInv, LogEdge
  <1>2. PICK t \in Tasks, o \in Tasks : t = edit[g].task /\ o = edit[g].other
    BY <1>1, AddingEdge
  <1>3. log[t] \in Seq(Entry)
    BY <1>1, <1>2, AddingEdge
  <1>4. PICK n \in Note : n = GraphEvent("dependency_added", None, o)
    BY GraphEventIsNote DEF GraphKinds
  <1>5. n \in Entry /\ n.kind = "dependency_added" /\ n.to = o
    BY <1>4 DEF Entry, GraphEvent
  <1>6. /\ log'[t] = Append(log[t], n) /\ \A u \in Tasks \ {t} : log'[u] = log[u]
        /\ deps' = deps /\ untold' = untold /\ GraphAnswer(g)
    BY <1>1, <1>2, <1>4 DEF LogEdge, BaseTypes, history
  <1>7. gpc'[g] = "idle" /\ \A h \in GraphCalls \ {g} : gpc'[h] = gpc[h] /\ edit'[h] = edit[h]
    BY <1>1, <1>6 DEF GraphAnswer, GraphTypes
  <1>8. EdgeTold(t, o)'
    <2>1. g \in Loggers(<<t, o>>)
      BY <1>1, <1>2 DEF Loggers
    <2>2. <<t, o>> \in untold \/ <<t, o>> \in deps
      BY <2>1 DEF LInv, EdgeTold
    <2>3. Says(log'[t], t, o)
      BY <1>3, <1>5, <1>6, AppendTellsEdge
    <2> QED BY <1>6, <2>2, <2>3 DEF EdgeTold
  <1>9. ASSUME NEW u \in Tasks, NEW d \in Tasks, ~(u = t /\ d = o)
        PROVE  /\ Loggers(<<u, d>>)' = Loggers(<<u, d>>)
               /\ Says(log'[u], u, d) <=> Says(log[u], u, d)
    <2>1. <<u, d>> # <<t, o>>
      BY <1>9
    <2>2. Loggers(<<u, d>>)' = Loggers(<<u, d>>)
      BY <1>2, <1>7, <2>1, LoggersElsewhere
    <2>3. CASE u = t
      <3>1. n.to # d
        BY <1>5, <1>9, <2>3
      <3>2. Says(Append(log[t], n), t, d) <=> Says(log[t], t, d)
        BY <1>3, <1>5, <3>1, AppendTellsEdge
      <3> QED BY <1>6, <2>2, <2>3, <3>2
    <2>4. CASE u # t
      BY <1>6, <2>2, <2>4
    <2> QED BY <2>3, <2>4
  <1> QED BY <1>6, <1>8, <1>9, StepKeepsLInv

\* The edge goes with the event that tells of it.  Another that has inserted it
\* and is to log it yet will tell of an edge that is gone.
LEMMA CommitRemovalKeepsLInv ==
  ASSUME LInv, GInv', NEW g \in GraphCalls, CommitRemoval(g)
  PROVE  LInv'
  <1>1. GInv /\ GraphTypes /\ BaseTypes /\ GraphCall(g) /\ gpc[g] \in {"todo", "remove"}
    BY DEF LInv, GInv, BaseInv, CommitRemoval
  <1>2. PICK t \in Tasks, o \in Tasks : t = edit[g].task /\ o = edit[g].other
    BY <1>1, EditShapes DEF GraphCall, EditOf
  <1>3. log[t] \in Seq(Entry)
    BY <1>1, LogsAreEntries DEF GInv
  <1>4. PICK n \in Note : n = GraphEvent("dependency_removed", None, o)
    BY GraphEventIsNote DEF GraphKinds
  <1>5. n \in Entry /\ n.kind = "dependency_removed" /\ n.to = o
    BY <1>4 DEF Entry, GraphEvent
  <1>6. PICK l \in Seq(Entry) :
           /\ log'[t] = Append(l, n)
           /\ \A d \in Tasks : Says(l, t, d) <=> Says(log[t], t, d)
    <2>1. CASE gpc[g] = "todo"
      <3>1. PICK e \in Event : e = GraphEvent("status_changed", "blocked", "todo")
        BY DEF GraphEvent, Event, Kinds, Values, Status
      <3>2. e \in Entry /\ e.kind \notin EdgeKinds
        BY <3>1 DEF Entry, GraphEvent, EdgeKinds
      <3>3. PICK l \in Seq(Entry) : l = Append(log[t], e)
        BY <1>3, <3>2, AppendedEntry
      <3>4. log'[t] = Append(l, n)
        <4>1. log[t] \o <<e, n>> = Append(Append(log[t], e), n)
          BY <1>3, <1>5, <3>2
        <4>2. Unblocking(g) = <<e, n>>
          BY <1>2, <1>4, <3>1 DEF Unblocking
        <4>3. log'[t] = log[t] \o Unblocking(g)
          BY <1>1, <1>2, <2>1 DEF CommitRemoval, BaseTypes
        <4> QED BY <3>3, <4>1, <4>2, <4>3
      <3>5. \A d \in Tasks : Says(l, t, d) <=> Says(log[t], t, d)
        BY <1>3, <3>2, <3>3, AppendTellsEdge
      <3> QED BY <3>4, <3>5
    <2>2. CASE gpc[g] = "remove"
      <3>1. log'[t] = Append(log[t], n)
        BY <1>1, <1>2, <1>4, <2>2 DEF CommitRemoval, BaseTypes
      <3> QED BY <1>3, <3>1
    <2> QED BY <1>1, <2>1, <2>2
  <1>7. \A u \in Tasks \ {t} : log'[u] = log[u]
    BY <1>1, <1>2 DEF CommitRemoval, BaseTypes
  <1>8. /\ deps' = deps \ {<<t, o>>} /\ GraphAnswer(g)
        /\ untold' = untold \cup {e \in {<<t, o>>} : Loggers(e) # {}}
    BY <1>2 DEF CommitRemoval
  <1>9. gpc'[g] = "idle" /\ \A h \in GraphCalls \ {g} : gpc'[h] = gpc[h] /\ edit'[h] = edit[h]
    BY <1>1, <1>8 DEF GraphAnswer, GraphTypes
  <1>10. EdgeTold(t, o)'
    <2>1. CASE Loggers(<<t, o>>) # {}
      BY <1>8, <2>1 DEF EdgeTold
    <2>2. CASE Loggers(<<t, o>>) = {}
      <3>1. Loggers(<<t, o>>)' = {}
        BY <1>9, <2>2 DEF Loggers
      <3>2. ~Says(log'[t], t, o)
        BY <1>5, <1>6, AppendTellsEdge
      <3> QED BY <1>8, <3>1, <3>2 DEF EdgeTold
    <2> QED BY <2>1, <2>2
  <1>11. ASSUME NEW u \in Tasks, NEW d \in Tasks, ~(u = t /\ d = o)
         PROVE  /\ Loggers(<<u, d>>)' = Loggers(<<u, d>>)
                /\ <<u, d>> \in deps' <=> <<u, d>> \in deps
                /\ Says(log'[u], u, d) <=> Says(log[u], u, d)
    <2>1. <<u, d>> # <<t, o>>
      BY <1>11
    <2>2. /\ Loggers(<<u, d>>)' = Loggers(<<u, d>>)
          /\ <<u, d>> \in deps' <=> <<u, d>> \in deps
      BY <1>2, <1>8, <1>9, <2>1, LoggersElsewhere
    <2>3. CASE u = t
      <3>1. n.to # d
        BY <1>5, <1>11, <2>3
      <3>2. Says(Append(l, n), t, d) <=> Says(l, t, d)
        BY <1>5, <3>1, AppendTellsEdge
      <3> QED BY <1>6, <2>2, <2>3, <3>2
    <2>4. CASE u # t
      BY <1>7, <2>2, <2>4
    <2> QED BY <2>3, <2>4
  <1> QED BY <1>8, <1>10, <1>11, StepKeepsLInv

LEMMA GraphCrashKeepsLInv ==
  ASSUME LInv, GInv', GraphCrash
  PROVE  LInv'
  <1>1. log' = log /\ deps' = deps
    BY DEF GraphCrash, Interrupted, tables
  <1>2. untold' = untold \cup {e \in Tasks \X Tasks : Loggers(e) # {}}
    BY DEF GraphCrash
  <1>3. \A e : Loggers(e)' = {}
    BY DEF GraphCrash, Loggers
  <1>4. ASSUME NEW t \in Tasks, NEW d \in Tasks, Loggers(<<t, d>>) # {} PROVE EdgeTold(t, d)'
    BY <1>2, <1>4 DEF EdgeTold
  <1> QED BY <1>1, <1>2, <1>3, <1>4, StepKeepsLInv

LEMMA GraphNextKeepsLInv ==
  ASSUME LInv, [GraphNext]_<<vars, gvars>>
  PROVE  LInv'
  <1>1. GInv'
    BY GraphNextKeepsGInv DEF LInv
  <1>2. CASE \E g \in GraphCalls, e \in Edits : GraphSubmit(g, e)
    BY <1>1, <1>2, SubmitKeepsLInv
  <1>3. CASE \E g \in GraphCalls : GraphHandle(g)
    BY <1>1, <1>3, ChecksKeepLInv, WriteParentKeepsLInv, InsertEdgeKeepsLInv,
       BlockTaskKeepsLInv, LogEdgeKeepsLInv, CommitRemovalKeepsLInv
       DEF GraphHandle
  <1>4. CASE GraphCrash
    BY <1>1, <1>4, GraphCrashKeepsLInv
  <1>5. CASE VerbStep
    BY <1>1, <1>5, TaskVerbsKeepLInv
  <1>6. CASE UNCHANGED <<vars, gvars>>
    <2>1. log' = log /\ deps' = deps /\ untold' = untold /\ gpc' = gpc /\ edit' = edit
      BY <1>6 DEF vars, gvars, history
    <2>2. \A e : Loggers(e)' = Loggers(e)
      BY <2>1, SameLoggers
    <2> QED BY <1>1, <2>1, <2>2, StepKeepsLInv
  <1> QED BY <1>2, <1>3, <1>4, <1>5, <1>6 DEF GraphNext, VerbStep

LEMMA InitEstablishesLInv ==
  ASSUME GraphInit
  PROVE  LInv
  <1>1. GInv /\ Init
    BY InitEstablishesGInv DEF GraphInit
  <1>2. PICK e \in Event : e = CreatedEvent(External, 0)
    BY CreatedEventIsEvent
  <1>3. e \in Entry /\ e.kind \notin EdgeKinds
    BY <1>2 DEF Entry, CreatedEvent, EdgeKinds
  <1>4. PICK none \in Seq(Entry) : none = <<>>
    <2>1. <<>> \in Seq(Entry)
      BY EmptySeq
    <2> QED BY <2>1
  <1>5. \A t, d : (Says(<<e>>, t, d) <=> <<t, d>> \in Blockers)
                  /\ (Says(<<>>, t, d) <=> <<t, d>> \in Blockers)
    <2>1. \A t, d : Says(<<>>, t, d) <=> <<t, d>> \in Blockers
      BY DEF Says, LastAdds, EdgesIn
    <2>2. Append(none, e) = <<e>>
      BY <1>4
    <2>3. \A t, d : Says(Append(none, e), t, d) <=> Says(none, t, d)
      BY <1>3, AppendTellsEdge
    <2>4. \A t, d : Says(<<e>>, t, d) <=> Says(<<>>, t, d)
      BY <1>4, <2>2, <2>3
    <2> QED BY <2>1, <2>4
  <1>6. deps = Blockers /\ \A t \in Tasks : log[t] = IF t \in Seeded THEN <<e>> ELSE <<>>
    BY <1>1, <1>2 DEF Init
  <1>7. \A f : Loggers(f) = {}
    BY DEF GraphInit, Loggers
  <1>8. \A t, d \in Tasks : EdgeTold(t, d)
    BY <1>5, <1>6, <1>7 DEF EdgeTold
  <1> QED BY <1>1, <1>8 DEF LInv

LEMMA LInvTellsTheGraph == LInv => LogTellsTheGraph
  <1> SUFFICES ASSUME LInv PROVE LogTellsTheGraph
    OBVIOUS
  <1>1. VersionCountsVersioned
    BY DEF LInv, GInv, BaseInv, VersionsCount, Count, Versioned, VersionCountsVersioned
  <1>2. EdgesAreReplayed
    <2> SUFFICES ASSUME NEW t \in Tasks, NEW d \in Tasks,
                        <<t, d>> \notin untold, Loggers(<<t, d>>) = {}
                 PROVE  <<t, d>> \in deps <=> EdgeOf(t, d)
      BY DEF EdgesAreReplayed
    <2>1. <<t, d>> \in deps <=> Says(log[t], t, d)
      BY DEF LInv, EdgeTold
    <2>2. EdgeEvents(t, d) = EdgesIn(log[t], d)
      BY DEF EdgeEvents, EdgesIn, EdgeKinds
    <2> QED BY <2>1, <2>2 DEF EdgeOf, Says, LastAdds
  <1> QED BY <1>1, <1>2 DEF LogTellsTheGraph

\* Whatever clients edit the graphs beside any number that move their tasks, fire
\* rules and create tasks, and through crashes at any statement: the events of a
\* task account for its version and for each of its dependencies, but those whose
\* addDependency is between its insert and its event, or was there when the
\* server died or another removed the edge.
THEOREM LogTells == GraphSpec => []LogTellsTheGraph
  <1>1. GraphInit => LInv
    BY InitEstablishesLInv
  <1>2. LInv /\ [GraphNext]_<<vars, gvars>> => LInv'
    BY GraphNextKeepsLInv
  <1> QED BY <1>1, <1>2, LInvTellsTheGraph, PTL DEF GraphSpec
=============================================================================
