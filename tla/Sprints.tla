------------------------------ MODULE Sprints ------------------------------
(***************************************************************************)
(* The sprints of a project and the tasks in them: create, activate,       *)
(* close, assign and remove, statement by statement, beside each other and *)
(* beside tasks that are finished and reopened.                            *)
(*                                                                         *)
(* What a transaction has written shows at its COMMIT.  A row of           *)
(* sprint_tasks refers to its sprint: its transaction waits for whoever    *)
(* holds the sprint FOR UPDATE, and holds off who wants to.  Statements    *)
(* that wait for a task row are only delayed by it and left out, and so is *)
(* the expiry of operations, which is in TaskService.                      *)
(***************************************************************************)
EXTENDS Naturals, FiniteSets

CONSTANTS
    Start,        \* the sprints that exist at the start: project, status, version
    StartMembers, \* the pairs of a sprint and a task that is in it then
    Tasks,        \* task ids that requests may name
    Home,         \* the project of each task that exists
    Worked,       \* bound: the tasks that are finished and reopened meanwhile
    Projects,
    Calls,        \* arrivals of a request; a sprint that one makes has its name
    Ops,          \* operation ids
    Requests,     \* per call: what it may ask
    None          \* SQL NULL

Sprints == (DOMAIN Start) \cup Calls
Sprint == [project : Projects, status : {"planning", "active", "completed"}, version : Nat]
\* The verbs that record their operation; a removal has none, and assignToSprint
\* takes one that it does not look at.
Recorded == {"create", "activate", "close"}
CreateRequest == [verb : {"create"}, op : Ops, project : Projects,
                  sprint : {None}, task : {None}, if_match : {0}]
TransitionRequest == [verb : {"activate", "close"}, op : Ops, sprint : Sprints, if_match : Nat,
                      task : {None}, project : {None}]
AssignRequest == [verb : {"assign"}, sprint : Sprints, task : Tasks,
                  op : {None}, project : {None}, if_match : {0}]
RemoveRequest == [verb : {"remove"}, sprint : Sprints, task : Tasks,
                  op : {None}, project : {None}, if_match : {0}]
Request == CreateRequest \cup TransitionRequest \cup AssignRequest \cup RemoveRequest

\* The errors that are answered; the last one as internal_error.
Refusals == {"notFound", "versionMismatch", "invalidTransition", "alreadyActive",
             "alreadyInSprint", "crossProject", "idempotencyConflict", "operationExists"}

ASSUME SprintsAssumption ==
    /\ (DOMAIN Start) \cap Calls = {}
    /\ \A s \in DOMAIN Start : Start[s] \in Sprint
    /\ StartMembers \subseteq (DOMAIN Start) \X (DOMAIN Home)
    /\ Worked \subseteq DOMAIN Home /\ DOMAIN Home \subseteq Tasks
    /\ \A t \in DOMAIN Home : Home[t] \in Projects
    /\ \A m \in StartMembers : Start[m[1]].project = Home[m[2]]
    /\ Requests \in [Calls -> SUBSET Request]
    /\ None \notin Sprints \cup Tasks \cup Projects \cup Ops
    /\ None \notin {"active", "planning", "remove"}
    \* The sprints at the start are in no conflict; those that the server makes are to stay so.
    /\ \A s, u \in DOMAIN Start :
         (s # u /\ Start[s].project = Start[u].project) => {Start[s].status, Start[u].status} # {"active"}
    /\ \A m, n \in StartMembers : (m # n /\ m[2] = n[2]) =>
         "completed" \in {Start[m[1]].status, Start[n[1]].status}

VARIABLES
    sprints,    \* the committed sprints table
    members,    \* the committed sprint_tasks table
    done,       \* the tasks whose committed status is done
    log,        \* the committed context_updated events: by whom, task, sprint
    receipts,   \* the committed operations table: request and response
    sprintLock, \* per sprint: the call that holds it FOR UPDATE
    pc,         \* per call: where its handler stands
    req,        \* per call: what is asked
    found,      \* per call that closes: the tasks of the sprint
    carry,      \* per call that closes: those of them that are not done
    fresh,      \* per call that assigns: whether its insert has made a row
    beside,     \* per call: who was past the check that it has just made, uncommitted
    answer      \* per call: what the client was told

tables == <<sprints, members, done, log, receipts>>
local == <<found, carry, fresh, beside>>
vars == <<tables, sprintLock, pc, req, local, answer>>

NoSprint == [project |-> None, status |-> None, version |-> 0]
NoReceipt == [req |-> None]
NoRequest == [verb |-> None, op |-> None]
NoAnswer == [outcome |-> "none", sprint |-> None, version |-> 0, carry |-> {}]

Exists(s) == sprints[s] # NoSprint
\* "a task may only belong to one non-completed (planning or active) sprint"
IsOpen(s) == sprints[s].status \in {"planning", "active"}

Init ==
    /\ sprints = [s \in Sprints |-> IF s \in DOMAIN Start THEN Start[s] ELSE NoSprint]
    /\ members = StartMembers
    /\ done = {}
    /\ log = {}
    /\ receipts = [o \in Ops |-> NoReceipt]
    /\ sprintLock = [s \in Sprints |-> None]
    /\ pc = [c \in Calls |-> "idle"]
    /\ req = [c \in Calls |-> NoRequest]
    /\ found = [c \in Calls |-> {}]
    /\ carry = [c \in Calls |-> {}]
    /\ fresh = [c \in Calls |-> FALSE]
    /\ beside = [c \in Calls |-> {}]
    /\ answer = [c \in Calls |-> NoAnswer]

(***************************************************************************)
(* Waiting                                                                 *)
(***************************************************************************)
SamePair(c, d) == req[c].sprint = req[d].sprint /\ req[c].task = req[d].task

\* The calls that c's next statement has to wait for.
Blockers(c) ==
    (CASE pc[c] = "lock" ->
             {sprintLock[req[c].sprint]} \cup
             {d \in Calls : pc[d] = "enter" /\ fresh[d] /\ req[d].sprint = req[c].sprint}
       [] pc[c] = "reference" -> {sprintLock[req[c].sprint]}
       [] pc[c] = "insert" ->
             {d \in Calls : pc[d] \in {"reference", "enter"} /\ fresh[d] /\ SamePair(c, d)}
       [] pc[c] = "record" -> {d \in Calls : pc[d] = "commit" /\ req[d].op = req[c].op}
       [] OTHER -> {}) \ {None, c}

Free(c) == Blockers(c) = {}

\* COMMIT and ROLLBACK.
Release(c) == sprintLock' = [s \in Sprints |-> IF sprintLock[s] = c THEN None
                                               ELSE sprintLock[s]]

(***************************************************************************)
(* Arrival, the lookup of the operation and the answer                     *)
(***************************************************************************)
FirstStep(verb) ==
    IF verb \in Recorded THEN "check" ELSE IF verb = "assign" THEN "read" ELSE "delete"

Submit(c, q) ==
    /\ pc[c] = "idle"
    /\ req' = [req EXCEPT ![c] = q]
    /\ pc' = [pc EXCEPT ![c] = FirstStep(q.verb)]
    /\ UNCHANGED <<tables, sprintLock, local, answer>>

Go(c, to) == pc' = [pc EXCEPT ![c] = to] /\ UNCHANGED <<req, answer>>

\* The variables of handlers that have ended.
Forget(S) ==
    /\ found' = [c \in Calls |-> IF c \in S THEN {} ELSE found[c]]
    /\ carry' = [c \in Calls |-> IF c \in S THEN {} ELSE carry[c]]
    /\ fresh' = [c \in Calls |-> fresh[c] /\ c \notin S]
    /\ UNCHANGED beside

Answer(c, ans) ==
    /\ pc' = [pc EXCEPT ![c] = "answered"]
    /\ answer' = [answer EXCEPT ![c] = ans]
    /\ Forget({c})
    /\ UNCHANGED req

Refuse(c, err) ==
    /\ Answer(c, [NoAnswer EXCEPT !.outcome = err])
    /\ UNCHANGED <<tables, sprintLock>>

Seen(c) == receipts[req[c].op] # NoReceipt

AnswerFromReceipt(c) ==
    LET r == receipts[req[c].op]
    IN  /\ Seen(c)
        /\ \/ r.req = req[c] /\ Answer(c, r.answer)
           \/ r.req # req[c] /\ Answer(c, [NoAnswer EXCEPT !.outcome = "idempotencyConflict"])
        /\ UNCHANGED <<tables, sprintLock>>

Check(c) ==
    /\ pc[c] = "check"
    /\ \/ AnswerFromReceipt(c)
       \/ /\ ~Seen(c)
          /\ Go(c, IF req[c].verb = "create" THEN "record" ELSE "lock")
          /\ UNCHANGED <<tables, sprintLock, local>>

\* A throw inside the transaction; what was thrown is kept in the answer to be.
Abort(c, err) ==
    /\ pc' = [pc EXCEPT ![c] = "recheck"]
    /\ answer' = [answer EXCEPT ![c].outcome = err]
    /\ Release(c)
    /\ UNCHANGED <<tables, req, local>>

Recheck(c) ==
    /\ pc[c] = "recheck"
    /\ AnswerFromReceipt(c) \/ (~Seen(c) /\ Refuse(c, answer[c].outcome))

(***************************************************************************)
(* activateSprint and closeSprint                                          *)
(***************************************************************************)

\* VALID_TRANSITIONS; the handler is chosen by the status that is asked for.
MayTransition(c) ==
    sprints[req[c].sprint].status = IF req[c].verb = "activate" THEN "planning" ELSE "active"

\* Mutant: a plain SELECT, no FOR UPDATE.
LockSprint_PlainSelect(c) ==
    LET s == req[c].sprint
    IN  /\ pc[c] = "lock"
        /\ Exists(s) /\ sprints[s].version = req[c].if_match /\ MayTransition(c)
        /\ Go(c, IF req[c].verb = "activate" THEN "active" ELSE "members")
        /\ UNCHANGED <<tables, sprintLock, local>>
LockSprint(c) ==
    LET s == req[c].sprint
    IN  /\ pc[c] = "lock"
        /\ \/ ~Exists(s) /\ Abort(c, "notFound")
           \/ /\ Exists(s) /\ Free(c)
              /\ \/ sprints[s].version # req[c].if_match /\ Abort(c, "versionMismatch")
                 \/ /\ sprints[s].version = req[c].if_match /\ ~MayTransition(c)
                    /\ Abort(c, "invalidTransition")
                 \/ /\ sprints[s].version = req[c].if_match /\ MayTransition(c)
                    /\ sprintLock' = [sprintLock EXCEPT ![s] = c]
                    /\ Go(c, IF req[c].verb = "activate" THEN "active" ELSE "members")
                    /\ UNCHANGED <<tables, local>>

ActiveSprints(c) ==
    {s \in Sprints : /\ sprints[s].project = sprints[req[c].sprint].project
                     /\ sprints[s].status = "active"}

ReadActive(c) ==
    /\ pc[c] = "active"
    /\ \/ ActiveSprints(c) # {} /\ Abort(c, "alreadyActive")
       \/ /\ ActiveSprints(c) = {}
          /\ beside' = [beside EXCEPT ![c] =
                          {d \in Calls : req[d].verb = "activate"
                                         /\ pc[d] \in {"record", "commit"}}]
          /\ Go(c, "record")
          /\ UNCHANGED <<tables, sprintLock, found, carry, fresh>>

ReadMembers(c) ==
    /\ pc[c] = "members"
    /\ found' = [found EXCEPT ![c] = {t \in Tasks : <<req[c].sprint, t>> \in members}]
    /\ Go(c, "tasks")
    /\ UNCHANGED <<tables, sprintLock, carry, fresh, beside>>

ReadTasks(c) ==
    /\ pc[c] = "tasks"
    /\ carry' = [carry EXCEPT ![c] = found[c] \ done]
    /\ Go(c, "record")
    /\ UNCHANGED <<tables, sprintLock, found, fresh, beside>>

(***************************************************************************)
(* recordOperation and COMMIT                                              *)
(***************************************************************************)

\* Mutant: an operation may be recorded over one that is there.
Record_Overwrites(c) ==
    /\ pc[c] = "record" /\ Free(c)
    /\ Go(c, "commit")
    /\ UNCHANGED <<tables, sprintLock, local>>
Record(c) ==
    /\ pc[c] = "record" /\ Free(c)
    /\ \/ Seen(c) /\ Abort(c, "operationExists")
       \/ /\ ~Seen(c)
          /\ Go(c, "commit")
          /\ UNCHANGED <<tables, sprintLock, local>>

Subject(c) == IF req[c].verb = "create" THEN c ELSE req[c].sprint
Written(c) ==
    IF req[c].verb = "create"
    THEN [project |-> req[c].project, status |-> "planning", version |-> 1]
    ELSE [sprints[req[c].sprint] EXCEPT
            !.status = IF req[c].verb = "activate" THEN "active" ELSE "completed",
            !.version = @ + 1]

Commit(c) ==
    LET ans == [outcome |-> "ok", sprint |-> Subject(c), version |-> Written(c).version,
                carry |-> carry[c]]
    IN  /\ pc[c] = "commit"
        /\ sprints' = [sprints EXCEPT ![Subject(c)] = Written(c)]
        /\ receipts' = [receipts EXCEPT ![req[c].op] = [req |-> req[c], answer |-> ans]]
        /\ Release(c)
        /\ Answer(c, ans)
        /\ UNCHANGED <<members, done, log>>

(***************************************************************************)
(* assignToSprint                                                          *)
(***************************************************************************)
\* Mutant: the two are not compared.
ReadBoth_AnyProject(c) ==
    /\ pc[c] = "read"
    /\ \/ ~Exists(req[c].sprint) /\ Refuse(c, "notFound")
       \/ Exists(req[c].sprint) /\ req[c].task \notin DOMAIN Home /\ Refuse(c, "notFound")
       \/ /\ Exists(req[c].sprint) /\ req[c].task \in DOMAIN Home
          /\ Go(c, "guard")
          /\ UNCHANGED <<tables, sprintLock, local>>
\* The sprint and the task; neither is ever deleted or moved to another project.
ReadBoth(c) ==
    LET s == req[c].sprint
        t == req[c].task
    IN  /\ pc[c] = "read"
        /\ \/ (~Exists(s) \/ t \notin DOMAIN Home) /\ Refuse(c, "notFound")
           \/ /\ Exists(s) /\ t \in DOMAIN Home
              /\ \/ sprints[s].project # Home[t] /\ Refuse(c, "crossProject")
                 \/ /\ sprints[s].project = Home[t]
                    /\ Go(c, "guard")
                    /\ UNCHANGED <<tables, sprintLock, local>>

\* Mutant: as it was before EC-4, when planned sprints were not counted.
OtherOpen_ActiveOnly(c) ==
    {s \in Sprints \ {req[c].sprint} : /\ <<s, req[c].task>> \in members
                                       /\ sprints[s].status = "active"}
\* The other open sprints that the task is in.  The sprint it is assigned to may
\* have any status.
OtherOpen(c) ==
    {s \in Sprints \ {req[c].sprint} : <<s, req[c].task>> \in members /\ IsOpen(s)}

GuardAssign(c) ==
    /\ pc[c] = "guard"
    /\ \/ OtherOpen(c) # {} /\ Refuse(c, "alreadyInSprint")
       \/ /\ OtherOpen(c) = {}
          /\ beside' = [beside EXCEPT ![c] = {d \in Calls : pc[d] \in {"insert", "reference", "enter"}}]
          /\ Go(c, "insert")
          /\ UNCHANGED <<tables, sprintLock, found, carry, fresh>>

\* INSERT ... ON CONFLICT DO NOTHING
InsertMember(c) ==
    LET isNew == <<req[c].sprint, req[c].task>> \notin members
    IN  /\ pc[c] = "insert" /\ Free(c)
        /\ fresh' = [fresh EXCEPT ![c] = isNew]
        /\ Go(c, IF isNew THEN "reference" ELSE "enter")
        /\ UNCHANGED <<tables, sprintLock, found, carry, beside>>

\* The foreign key of the new row, checked when the statement ends.
ReferToSprint(c) ==
    /\ pc[c] = "reference" /\ Free(c)
    /\ Go(c, "enter")
    /\ UNCHANGED <<tables, sprintLock, local>>

Event(c) == [by |-> c, task |-> req[c].task,
             sprint |-> IF req[c].verb = "assign" THEN req[c].sprint ELSE None]

\* The event, which is written whether there was a new row or not, and COMMIT.
CommitAssign(c) ==
    /\ pc[c] = "enter"
    /\ members' = IF fresh[c] THEN members \cup {<<req[c].sprint, req[c].task>>} ELSE members
    /\ log' = log \cup {Event(c)}
    /\ Answer(c, [NoAnswer EXCEPT !.outcome = "ok"])
    /\ UNCHANGED <<sprints, done, receipts, sprintLock>>

(***************************************************************************)
(* removeFromSprint: each statement commits by itself                      *)
(***************************************************************************)
DeleteMember(c) ==
    /\ pc[c] = "delete"
    /\ members' = members \ {<<req[c].sprint, req[c].task>>}
    /\ Go(c, "event")
    /\ UNCHANGED <<sprints, done, log, receipts, sprintLock, local>>

LogRemoval(c) ==
    /\ pc[c] = "event"
    /\ log' = IF req[c].task \in DOMAIN Home THEN log \cup {Event(c)} ELSE log
    /\ Answer(c, [NoAnswer EXCEPT !.outcome = "ok"])
    /\ UNCHANGED <<sprints, members, done, receipts, sprintLock>>

(***************************************************************************)
(* The environment                                                         *)
(***************************************************************************)

\* A task verb commits a status: it is done now, or no longer.
ChangeStatus(t) ==
    /\ done' = IF t \in done THEN done \ {t} ELSE done \cup {t}
    /\ UNCHANGED <<sprints, members, log, receipts, sprintLock, pc, req, local, answer>>

InFlight(c) == pc[c] \notin {"idle", "answered"}
\* The server dies: Postgres rolls back what is open, no call is answered.
Crash ==
    /\ \E c \in Calls : InFlight(c)
    /\ pc' = [c \in Calls |-> IF InFlight(c) THEN "answered" ELSE pc[c]]
    /\ answer' = [c \in Calls |-> IF InFlight(c) THEN [NoAnswer EXCEPT !.outcome = "lost"]
                                  ELSE answer[c]]
    /\ sprintLock' = [s \in Sprints |-> None]
    /\ Forget(Calls)
    /\ UNCHANGED <<tables, req>>

Handle(c) ==
    \/ Check(c) \/ Recheck(c)
    \/ LockSprint(c) \/ ReadActive(c) \/ ReadMembers(c) \/ ReadTasks(c) \/ Record(c) \/ Commit(c)
    \/ ReadBoth(c) \/ GuardAssign(c) \/ InsertMember(c) \/ ReferToSprint(c) \/ CommitAssign(c)
    \/ DeleteMember(c) \/ LogRemoval(c)

Next ==
    \/ \E c \in Calls : \E q \in Requests[c] : Submit(c, q)
    \/ \E c \in Calls : Handle(c)
    \/ \E t \in Worked : ChangeStatus(t)
    \/ Crash

Spec == Init /\ [][Next]_vars

(***************************************************************************)
(* What is promised                                                        *)
(***************************************************************************)

\* Every variable has its type; a task is in sprints of its own project only;
\* a call that holds a sprint locked is in flight and about that sprint; and no
\* calls ever wait for each other in a circle.
SprintsTypeOK ==
    /\ \A s \in Sprints : Exists(s) => sprints[s] \in Sprint
    /\ members \subseteq Sprints \X (DOMAIN Home)
    /\ \A m \in members : sprints[m[1]].project = Home[m[2]]
    /\ done \subseteq DOMAIN Home
    /\ log \subseteq [by : Calls, task : DOMAIN Home, sprint : Sprints \cup {None}]
    /\ \A s \in Sprints : sprintLock[s] # None =>
         /\ sprintLock[s] \in Calls /\ req[sprintLock[s]].sprint = s
         /\ pc[sprintLock[s]] \in {"active", "members", "tasks", "record", "commit"}
    /\ \A c \in Calls : req[c] # NoRequest => req[c] \in Requests[c]
    /\ \A c \in Calls : answer[c].outcome \in Refusals \cup {"none", "ok", "lost"}
    /\ \A c \in Calls : carry[c] \subseteq found[c] /\ found[c] \subseteq DOMAIN Home
    /\ \A S \in (SUBSET Calls) \ {{}} : \E c \in S : Blockers(c) \cap S = {}

\* Calls c and d made the same check before either had committed.
Overlapped(c, d) == c \in beside[d] \/ d \in beside[c]

\* "At most one active sprint per project (service-enforced)", sprints.ts:5.
\* There are two only if their activations looked for one at the same time.
OneActiveUnlessRaced ==
    \A s, u \in Sprints :
        (/\ s # u /\ sprints[s].project = sprints[u].project
         /\ sprints[s].status = "active" /\ sprints[u].status = "active") =>
           \E c, d \in Calls : /\ Overlapped(c, d)
                               /\ req[c].verb = "activate" /\ req[c].sprint = s
                               /\ req[d].verb = "activate" /\ req[d].sprint = u

\* A task is in two sprints that are planned or active only if two assignments
\* looked for others at the same time; closing, activating and removing beside
\* them, or assigning to a sprint that is completed, never does it.
OneOpenUnlessRaced ==
    \A s, u \in Sprints : \A t \in DOMAIN Home :
        (s # u /\ IsOpen(s) /\ IsOpen(u) /\ {<<s, t>>, <<u, t>>} \subseteq members) =>
           \E c, d \in Calls : /\ Overlapped(c, d)
                               /\ req[c].sprint = s /\ req[d].sprint = u
                               /\ req[c].task = t /\ req[d].task = t

\* Sprints that exclude each other come only of checks that overlapped.
ConflictsOnlyByRace == OneActiveUnlessRaced /\ OneOpenUnlessRaced

\* A sprint that closes has no task that its closing has not looked at: what is
\* assigned to it is either seen, and reported when it is not done, or comes
\* after it has closed.
ClosesOverAll ==
    \A c \in Calls : (pc[c] = "commit" /\ req[c].verb = "close" /\ pc'[c] = "answered"
                       /\ answer'[c].outcome = "ok") =>
        /\ \A m \in members : m[1] = req[c].sprint => m[2] \in found[c]
        /\ answer'[c].carry \subseteq found[c]
NothingSlipsPastAClose == [][ClosesOverAll]_vars

\* A request that is sent again takes effect once: one sprint is created, and
\* whoever is told of success is told the same, carried-over tasks included.
RetriesAgree ==
    \A c, d \in Calls : req[c].op # None /\ req[c].op = req[d].op =>
        /\ Exists(c) /\ Exists(d) => c = d
        /\ answer[c].outcome = "ok" /\ answer[d].outcome = "ok" => answer[c] = answer[d]

\* The log tells of every assignment, and of every removal except one during
\* which the server dies: it is in no transaction with its event, other than
\* "you can't have a state change without a corresponding event" (ANNOUNCEMENT.md).
MovesAreLogged ==
    /\ \A m \in members \ StartMembers : \E e \in log : e.sprint = m[1] /\ e.task = m[2]
    /\ \A m \in StartMembers \ members : \E c \in Calls :
         /\ req[c].verb = "remove" /\ req[c].sprint = m[1] /\ req[c].task = m[2]
         /\ pc[c] = "event" \/ answer[c].outcome = "lost" \/ Event(c) \in log

\* What is told, what is recorded and what is logged agree.
RecordsAgree == RetriesAgree /\ MovesAreLogged
============================================================================
