---------------------------- MODULE Credentials ----------------------------
(***************************************************************************)
(* Actors and their bearer tokens: registerActor, revokeToken and          *)
(* rotateToken, statement by statement, beside each other.                 *)
(*                                                                         *)
(* What a transaction has written shows at its COMMIT, so that until then  *)
(* only its locks and its place in the handler tell of it.  A call waits   *)
(* for whoever holds a row FOR UPDATE, has written to the row, or has      *)
(* inserted an equal key; a foreign key waits for FOR UPDATE on the row it *)
(* refers to.  A row that a locking statement has waited for is taken as   *)
(* it has become, and left out if it no longer qualifies.                  *)
(*                                                                         *)
(* The expiry of operations is in TaskService and left out here.           *)
(***************************************************************************)
EXTENDS Integers, Sequences, FiniteSets

CONSTANTS
    Ids,       \* numbers: UUIDv7 ids compare by age.  The actor or the token that
               \* a call makes has the call's number, the first token of an actor
               \* that exists at the start has the actor's
    Start,     \* the actors that exist at the start
    Calls,     \* arrivals of a request at the handlers
    Ops,       \* operation ids
    Requests,  \* per call: what it may ask, and who asks
    None       \* SQL NULL

Actor == [kind : {"human", "agent"}, role : {"admin", "member"}, source : {"env", "db"}]
\* about: the actor concerned; the parent of an agent to be registered, which a
\* human must not have.  A rotation has no operation id.
RegisterHuman == [verb : {"registerHuman"}, op : Ops, caller : Ids, about : {None}]
RegisterAgent == [verb : {"registerAgent"}, op : Ops, caller : Ids, about : Ids]
Revocation == [verb : {"revoke"}, op : Ops, caller : Ids, about : Ids]
Rotation == [verb : {"rotate"}, op : {None}, caller : Ids, about : Ids]
Request == RegisterHuman \cup RegisterAgent \cup Revocation \cup Rotation

\* The errors that are answered; the last two as internal_error.
Refusals == {"forbidden", "invalidParent", "notFound", "envActorImmutable",
             "lastAdminProtected", "concurrentRotation", "idempotencyConflict",
             "operationExists", "deadlock"}

ASSUME CredentialsAssumption ==
    /\ Ids \subseteq Nat /\ IsFiniteSet(Ids)
    /\ Calls \subseteq Ids
    /\ DOMAIN Start \subseteq Ids \ Calls
    /\ \A a \in DOMAIN Start : Start[a] \in Actor
    \* The environment that the server boots from names a human (.env.example).
    /\ \E a \in DOMAIN Start : Start[a].kind = "human"
    /\ Requests \in [Calls -> SUBSET Request]
    /\ None \notin Ids /\ None \notin Ops /\ None \notin {"human", "agent", "db"}

VARIABLES
    actors,    \* the committed actors table
    tokens,    \* the committed actor_tokens table; revoked: the call that set revoked_at
    receipts,  \* the committed operations table: request and response
    actorLock, \* per row of actors: the call that holds it FOR UPDATE
    tokenLock, \* per row of actor_tokens: the call that has locked or written to it
    pc,        \* per call: where its handler stands
    req,       \* per call: the operation, the caller and what is asked
    todo,      \* per call: the tokens of active humans it has yet to lock
    active,    \* per call: the active humans its guard goes by, kept to the end
    pick,      \* per call: the tokens it has found active, and sets revoked_at of
    answer     \* per call: what the client was told

tables == <<actors, tokens, receipts>>
locks == <<actorLock, tokenLock>>
vars == <<tables, locks, pc, req, todo, active, pick, answer>>

NoActor == [kind |-> None, role |-> None, source |-> None]
NoToken == [actor |-> None, revoked |-> None]
NoReceipt == [req |-> None]
NoRequest == [op |-> None]
NoAnswer == [outcome |-> "none", actor |-> None, token |-> None]

Active(a) == {x \in Ids : tokens[x].actor = a /\ tokens[x].revoked = None}
\* Whom a bearer token lets in.
HasAccess(a) == a # None /\ Active(a) # {}
ActiveHumans == {a \in Ids : actors[a].kind = "human" /\ HasAccess(a)}

About(c) == req[c].about
\* What the request hash covers: the body, not who sends it.
Asked(c) == [verb |-> req[c].verb, about |-> req[c].about]
Registers(c) == req[c].verb \in {"registerHuman", "registerAgent"}

Init ==
    /\ actors = [a \in Ids |-> IF a \in DOMAIN Start THEN Start[a] ELSE NoActor]
    /\ tokens = [x \in Ids |-> IF x \in DOMAIN Start
                               THEN [actor |-> x, revoked |-> None] ELSE NoToken]
    /\ receipts = [o \in Ops |-> NoReceipt]
    /\ actorLock = [a \in Ids |-> None]
    /\ tokenLock = [x \in Ids |-> None]
    /\ pc = [c \in Calls |-> "idle"]
    /\ req = [c \in Calls |-> NoRequest]
    /\ todo = [c \in Calls |-> <<>>]
    /\ active = [c \in Calls |-> {}]
    /\ pick = [c \in Calls |-> {}]
    /\ answer = [c \in Calls |-> NoAnswer]

(***************************************************************************)
(* Waiting                                                                 *)
(***************************************************************************)

\* A rotation between its UPDATE and its COMMIT, and one past its INSERT.
HasRevoked(d, x) == x \in pick[d] /\ pc[d] \in {"insert", "reference", "record", "commit"}
HasInserted(d, a) == req[d].op = None /\ pc[d] = "reference" /\ About(d) = a

\* The calls that c's next statement has to wait for.
Blockers(c) ==
    (CASE pc[c] = "lockActor" -> {actorLock[tokens[Head(todo[c])].actor]}
       [] pc[c] = "lockToken" -> {tokenLock[Head(todo[c])]}
       [] pc[c] \in {"lockTarget", "reference"} -> {actorLock[About(c)]}
       [] pc[c] = "update" -> {tokenLock[x] : x \in pick[c]}
       [] pc[c] = "insert" ->
             {d \in Calls : \/ HasInserted(d, About(c))
                            \/ \E x \in Active(About(c)) : HasRevoked(d, x)}
       [] pc[c] = "record" -> {d \in Calls : pc[d] = "commit" /\ req[d].op = req[c].op}
       [] pc[c] = "commit" -> {actorLock[req[c].caller]}
       [] OTHER -> {}) \ {None, c}

Free(c) == Blockers(c) = {}

\* The locks when x no longer holds any.
Released(lock, c) == [i \in Ids |-> IF lock[i] = c THEN None ELSE lock[i]]
Release(c) ==
    /\ actorLock' = Released(actorLock, c)
    /\ tokenLock' = Released(tokenLock, c)

(***************************************************************************)
(* Arrival, the lookup of the operation and the answer                     *)
(***************************************************************************)
\* assertCanManageActors; an actor's kind and role never change.
MayManage(a) == actors[a].kind = "human" /\ actors[a].role = "admin"

\* tokenAuth and assertCallerCanManageActors let the request in, or turn it down.
Submit(c, q) ==
    /\ pc[c] = "idle"
    /\ HasAccess(q.caller)
    /\ req' = [req EXCEPT ![c] = q]
    /\ pc' = [pc EXCEPT ![c] = IF ~MayManage(q.caller) THEN "answered"
                               ELSE IF q.verb = "rotate" THEN "target" ELSE "check"]
    /\ answer' = [answer EXCEPT ![c].outcome = IF MayManage(q.caller) THEN @ ELSE "forbidden"]
    /\ UNCHANGED <<tables, locks, todo, active, pick>>

Go(c, to) ==
    /\ pc' = [pc EXCEPT ![c] = to]
    /\ UNCHANGED <<tables, locks, req, todo, active, pick, answer>>

\* The handler returns or throws, outside of a transaction.
Answer(c, ans) ==
    /\ pc' = [pc EXCEPT ![c] = "answered"]
    /\ answer' = [answer EXCEPT ![c] = ans]
    /\ todo' = [todo EXCEPT ![c] = <<>>]
    /\ pick' = [pick EXCEPT ![c] = {}]
    /\ UNCHANGED <<req, active>>

Refuse(c, err) == Answer(c, [NoAnswer EXCEPT !.outcome = err]) /\ UNCHANGED <<tables, locks>>

Seen(c) == receipts[req[c].op] # NoReceipt

AnswerFromReceipt(c) ==
    LET r == receipts[req[c].op]
    IN  /\ Seen(c)
        /\ Answer(c, [outcome |-> IF r.req = Asked(c) THEN "ok" ELSE "idempotencyConflict",
                      actor |-> r.actor, token |-> r.token])
        /\ UNCHANGED <<tables, locks>>

Check(c) ==
    /\ pc[c] = "check"
    /\ AnswerFromReceipt(c) \/ (~Seen(c) /\ Go(c, "target"))

\* Mutant: the transaction is left open, its locks with it.
Abort_LeavesOpen(c, err) ==
    /\ pc' = [pc EXCEPT ![c] = IF req[c].op = None THEN "answered" ELSE "recheck"]
    /\ answer' = [answer EXCEPT ![c] = [NoAnswer EXCEPT !.outcome = err]]
    /\ todo' = [todo EXCEPT ![c] = <<>>]
    /\ pick' = [pick EXCEPT ![c] = {}]
    /\ UNCHANGED <<tables, locks, req, active>>
\* A throw inside the transaction.  A rotation has nothing to look up again.
Abort(c, err) ==
    /\ pc' = [pc EXCEPT ![c] = IF req[c].op = None THEN "answered" ELSE "recheck"]
    /\ answer' = [answer EXCEPT ![c] = [NoAnswer EXCEPT !.outcome = err]]
    /\ todo' = [todo EXCEPT ![c] = <<>>]
    /\ pick' = [pick EXCEPT ![c] = {}]
    /\ Release(c)
    /\ UNCHANGED <<tables, req, active>>

Recheck(c) ==
    /\ pc[c] = "recheck"
    /\ AnswerFromReceipt(c) \/ (~Seen(c) /\ Refuse(c, answer[c].outcome))

(***************************************************************************)
(* The reads before the transaction                                        *)
(***************************************************************************)
ReadParent(c) ==
    /\ pc[c] = "target" /\ Registers(c)
    /\ \/ /\ req[c].verb = "registerAgent" /\ actors[About(c)].kind # "human"
          /\ Refuse(c, "invalidParent")
       \/ /\ req[c].verb = "registerAgent" => actors[About(c)].kind = "human"
          /\ Go(c, "record")

\* revokeToken and rotateToken read their actor; its kind and source never change.
ReadTarget(c) ==
    /\ pc[c] = "target" /\ ~Registers(c)
    /\ LET a == actors[About(c)]
       IN  \/ a = NoActor /\ Refuse(c, "notFound")
           \/ a.source = "env" /\ Refuse(c, "envActorImmutable")
           \/ /\ a.source = "db"
              /\ Go(c, IF req[c].verb = "rotate" THEN "snapshot"
                       ELSE IF a.kind = "human" THEN "humans" ELSE "lockTarget")

(***************************************************************************)
(* revokeToken                                                             *)
(***************************************************************************)

\* The active tokens of humans, ORDER BY actors.id.
ByActor ==
    LET S == UNION {Active(a) : a \in ActiveHumans}
    IN  [i \in 1 .. Cardinality(S) |->
            CHOOSE x \in S : Cardinality({y \in S : tokens[y].actor < tokens[x].actor}) = i - 1]

SelectHumans(c) ==
    /\ pc[c] = "humans"
    /\ todo' = [todo EXCEPT ![c] = ByActor]
    /\ pc' = [pc EXCEPT ![c] = IF ByActor = <<>> THEN "lockTarget" ELSE "lockActor"]
    /\ UNCHANGED <<tables, locks, req, active, pick, answer>>

LockActor(c) ==
    /\ pc[c] = "lockActor" /\ Free(c)
    /\ actorLock' = [actorLock EXCEPT ![tokens[Head(todo[c])].actor] = c]
    /\ pc' = [pc EXCEPT ![c] = "lockToken"]
    /\ UNCHANGED <<tables, tokenLock, req, todo, active, pick, answer>>

\* Mutant: a plain SELECT, which returns what its snapshot showed.
LockToken_PlainSelect(c) ==
    /\ pc[c] = "lockToken"
    /\ active' = [active EXCEPT ![c] = @ \cup {tokens[Head(todo[c])].actor}]
    /\ actorLock' = Released(actorLock, c)
    /\ todo' = [todo EXCEPT ![c] = Tail(@)]
    /\ pc' = [pc EXCEPT ![c] = IF Tail(todo[c]) = <<>> THEN "lockTarget" ELSE "lockActor"]
    /\ UNCHANGED <<tables, tokenLock, req, pick, answer>>
\* A token that was revoked meanwhile is locked too, but its actor is left out.
LockToken(c) ==
    /\ pc[c] = "lockToken" /\ Free(c)
    /\ LET x == Head(todo[c])
       IN  /\ tokenLock' = [tokenLock EXCEPT ![x] = c]
           /\ active' = [active EXCEPT ![c] = IF tokens[x].revoked = None
                                              THEN @ \cup {tokens[x].actor} ELSE @]
    /\ todo' = [todo EXCEPT ![c] = Tail(@)]
    /\ pc' = [pc EXCEPT ![c] = IF Tail(todo[c]) = <<>> THEN "lockTarget" ELSE "lockActor"]
    /\ UNCHANGED <<tables, actorLock, req, pick, answer>>

\* Mutant: the actor is read without FOR UPDATE.
LockTarget_PlainSelect(c) == pc[c] = "lockTarget" /\ Free(c) /\ Go(c, "guard")
LockTarget(c) ==
    /\ pc[c] = "lockTarget" /\ Free(c)
    /\ actorLock' = [actorLock EXCEPT ![About(c)] = c]
    /\ pc' = [pc EXCEPT ![c] = "guard"]
    /\ UNCHANGED <<tables, tokenLock, req, todo, active, pick, answer>>

LastAdmin(c) == active[c] = {About(c)}

\* The guard, and the snapshot of the UPDATE that follows.
GuardRevoke(c) ==
    /\ pc[c] = "guard"
    /\ \/ LastAdmin(c) /\ Abort(c, "lastAdminProtected")
       \/ /\ ~LastAdmin(c)
          /\ pick' = [pick EXCEPT ![c] = Active(About(c))]
          /\ pc' = [pc EXCEPT ![c] = "update"]
          /\ UNCHANGED <<tables, locks, req, todo, active, answer>>

(***************************************************************************)
(* The UPDATE of revoked_at, in revokeToken and in rotateToken             *)
(***************************************************************************)

\* What the WHERE clause still holds of when the rows are locked.
StillActive(c) == {x \in pick[c] : tokens[x].revoked = None}

Update(c) ==
    /\ pc[c] = "update" /\ Free(c)
    /\ \/ /\ req[c].verb = "rotate" /\ StillActive(c) # pick[c]
          /\ Abort(c, "concurrentRotation")
       \/ /\ req[c].verb = "rotate" => StillActive(c) = pick[c]
          /\ tokenLock' = [x \in Ids |-> IF x \in StillActive(c) THEN c ELSE tokenLock[x]]
          /\ pick' = [pick EXCEPT ![c] = StillActive(c)]
          /\ pc' = [pc EXCEPT ![c] = IF req[c].verb = "rotate" THEN "insert" ELSE "record"]
          /\ UNCHANGED <<tables, actorLock, req, todo, active, answer>>

Revoked(c) == [x \in Ids |-> IF x \in pick[c] THEN [tokens[x] EXCEPT !.revoked = c]
                             ELSE tokens[x]]

(***************************************************************************)
(* rotateToken                                                             *)
(***************************************************************************)
SnapshotTokens(c) ==
    /\ pc[c] = "snapshot"
    /\ pick' = [pick EXCEPT ![c] = Active(About(c))]
    /\ pc' = [pc EXCEPT ![c] = IF Active(About(c)) = {} THEN "insert" ELSE "update"]
    /\ UNCHANGED <<tables, locks, req, todo, active, answer>>

\* Mutant: no unique index on actor_id WHERE revoked_at IS NULL.
Clashes_NoIndex(c) == FALSE
\* Another token of the actor is active: the unique index refuses a second one.
Clashes(c) == Active(About(c)) \ pick[c] # {}

InsertToken(c) ==
    /\ pc[c] = "insert" /\ Free(c)
    /\ \/ Clashes(c) /\ Abort(c, "concurrentRotation")
       \/ ~Clashes(c) /\ Go(c, "reference")

\* The foreign key to the actor, the re-read of its row, which is as it was, and
\* COMMIT.
CommitRotation(c) ==
    /\ pc[c] = "reference" /\ Free(c)
    /\ tokens' = [Revoked(c) EXCEPT ![c] = [actor |-> About(c), revoked |-> None]]
    /\ Release(c)
    /\ Answer(c, [outcome |-> "ok", actor |-> About(c), token |-> c])
    /\ UNCHANGED <<actors, receipts>>

(***************************************************************************)
(* recordOperation and COMMIT, in registerActor and in revokeToken         *)
(***************************************************************************)
Record(c) ==
    /\ pc[c] = "record" /\ Free(c)
    /\ \/ Seen(c) /\ Abort(c, "operationExists")
       \/ ~Seen(c) /\ Go(c, "commit")

\* Mutant: the response is recorded as it is returned, token included.
Receipt_Unredacted(c) ==
    [req |-> Asked(c), actor |-> IF Registers(c) THEN c ELSE About(c),
     token |-> IF Registers(c) THEN c ELSE None]
\* What a replay is told: the actor, and never the token.
Receipt(c) ==
    [req |-> Asked(c), actor |-> IF Registers(c) THEN c ELSE About(c), token |-> None]

\* The operation's foreign key to the caller, and COMMIT.
CommitRegister(c) ==
    /\ pc[c] = "commit" /\ Free(c) /\ Registers(c)
    /\ actors' = [actors EXCEPT ![c] =
                    [kind |-> IF req[c].verb = "registerHuman" THEN "human" ELSE "agent",
                     role |-> "admin", source |-> "db"]]
    /\ tokens' = [tokens EXCEPT ![c] = [actor |-> c, revoked |-> None]]
    /\ receipts' = [receipts EXCEPT ![req[c].op] = Receipt(c)]
    /\ Release(c)
    /\ Answer(c, [outcome |-> "ok", actor |-> c, token |-> c])

CommitRevoke(c) ==
    /\ pc[c] = "commit" /\ Free(c) /\ req[c].verb = "revoke"
    /\ tokens' = Revoked(c)
    /\ receipts' = [receipts EXCEPT ![req[c].op] = Receipt(c)]
    /\ Release(c)
    /\ Answer(c, [outcome |-> "ok", actor |-> About(c), token |-> None])
    /\ UNCHANGED actors

(***************************************************************************)
(* The environment                                                         *)
(***************************************************************************)

\* c waits for calls that wait, in the end, for c.
Deadlocked(c) ==
    \E S \in SUBSET Calls : /\ c \in S
                            /\ \A x \in S : Blockers(x) \cap S # {}
                            /\ \A x \in S : \E y \in S : x \in Blockers(y)

\* deadlock_timeout passes and Postgres ends one of them.
BreakDeadlock(c) == Deadlocked(c) /\ Abort(c, "deadlock")

InFlight(c) == pc[c] \notin {"idle", "answered"}
\* The server dies: Postgres rolls everything back, no call is answered.
Crash ==
    /\ \E c \in Calls : InFlight(c)
    /\ pc' = [c \in Calls |-> IF InFlight(c) THEN "answered" ELSE pc[c]]
    /\ answer' = [c \in Calls |-> IF InFlight(c) THEN [NoAnswer EXCEPT !.outcome = "lost"]
                                  ELSE answer[c]]
    /\ todo' = [c \in Calls |-> <<>>]
    /\ pick' = [c \in Calls |-> {}]
    /\ actorLock' = [a \in Ids |-> None]
    /\ tokenLock' = [x \in Ids |-> None]
    /\ UNCHANGED <<tables, req, active>>

Handle(c) ==
    \/ Check(c) \/ Recheck(c) \/ ReadParent(c) \/ ReadTarget(c)
    \/ SelectHumans(c) \/ LockActor(c) \/ LockToken(c) \/ LockTarget(c) \/ GuardRevoke(c)
    \/ Update(c) \/ SnapshotTokens(c) \/ InsertToken(c) \/ CommitRotation(c)
    \/ Record(c) \/ CommitRegister(c) \/ CommitRevoke(c) \/ BreakDeadlock(c)

Next ==
    \/ \E c \in Calls : \E q \in Requests[c] : Submit(c, q)
    \/ \E c \in Calls : Handle(c)
    \/ Crash

Spec == Init /\ [][Next]_vars

\* A handler that can go on does, and Postgres looks for deadlocks.
FairSpec == Spec /\ \A c \in Calls : WF_vars(Handle(c))

(***************************************************************************)
(* What is promised                                                        *)
(***************************************************************************)
Steps == {"idle", "check", "target", "humans", "lockActor", "lockToken",
          "lockTarget", "guard", "update", "snapshot", "insert", "reference", "record",
          "commit", "recheck", "answered"}

\* Every variable has its type.  A token belongs to an actor that exists, who
\* has at most one active token, however rotations race (the unique index of
\* migration 0002), and only calls in flight hold locks.
CredTypeOK ==
    /\ actors \in [Ids -> Actor \cup {NoActor}]
    /\ tokens \in [Ids -> [actor : Ids \cup {None}, revoked : Calls \cup {None}]]
    /\ \A x \in Ids : tokens[x] # NoToken => actors[tokens[x].actor] # NoActor
    /\ \A a \in Ids : Cardinality(Active(a)) <= 1
    /\ actorLock \in [Ids -> Calls \cup {None}] /\ tokenLock \in [Ids -> Calls \cup {None}]
    /\ \A i \in Ids : {actorLock[i], tokenLock[i]} \ {None} \subseteq {c \in Calls : InFlight(c)}
    /\ pc \in [Calls -> Steps]
    /\ \A c \in Calls : \A i \in DOMAIN todo[c] : todo[c][i] \in Ids
    /\ active \in [Calls -> SUBSET Ids] /\ pick \in [Calls -> SUBSET Ids]
    /\ \A c \in Calls : answer[c].outcome \in Refusals \cup {"none", "ok", "lost"}

\* Somebody can still sign in to manage actors: "the path that could leave the
\* system without an admin credential" (TECHNICAL.md, last-admin guard).
SomeHumanIsActive == ActiveHumans # {}

\* It is so unless a revoke has taken from a human a token that a rotation made
\* while the revoke was locking the active humans, and that its guard missed.
SomeHumanUnlessOvertaken ==
    \/ SomeHumanIsActive
    \/ \E x \in Ids : /\ tokens[x].revoked # None
                      /\ req[tokens[x].revoked].verb = "revoke"
                      /\ tokens[x].actor \notin active[tokens[x].revoked]
                      /\ x \in Calls /\ req[x].verb = "rotate"

\* A token is told to one call only, whatever is retried or replayed, and it is
\* then a token of the actor the call is told of.
TokensAreToldOnce ==
    \A c \in Calls : answer[c].token # None =>
        /\ tokens[answer[c].token].actor = answer[c].actor
        /\ \A d \in Calls \ {c} : answer[d].token # answer[c].token

\* When a revoke succeeds, its actor has no access left at that moment, not even by
\* a rotation that ran beside it (one that is still to insert its token is held off
\* until then); and the row of a revoked token keeps who revoked it, so
\* that two calls never both believe to have revoked it.
RevokedForGood ==
    /\ \A c \in Calls : (/\ pc[c] = "commit" /\ pc'[c] = "answered"
                         /\ answer'[c].outcome = "ok" /\ req[c].verb = "revoke")
                       => ~HasAccess(About(c))'
    /\ \A x \in Ids : tokens[x].revoked # None => tokens'[x] = tokens[x]
RevokedMeansRevoked == [][RevokedForGood]_vars

\* Every call is answered: calls that lock actors and tokens in opposite orders
\* wait for each other only until Postgres ends one.
EveryCallIsAnswered == \A c \in Calls : pc[c] # "idle" ~> pc[c] = "answered"
============================================================================
