------------------------------- MODULE Agents -------------------------------
(***************************************************************************)
(* The sessions of agents: seedFromEnv writes the actors of the            *)
(* environment and their tokens at boot, an agent sends heartbeats, a      *)
(* human deactivates it, and a job expires whoever has been silent for a   *)
(* while.  The seed has no transaction; the expiry is one UPDATE, which    *)
(* locks its rows in the order of the table and takes a row it has waited  *)
(* for as it has become.                                                   *)
(***************************************************************************)
EXTENDS Integers, Sequences, FiniteSets

CONSTANTS
    Ids,       \* actors: numbers, in the order of the table
    Hashes,    \* what hashToken makes of tokens
    Start,     \* the actors of the start: their kind
    Tokens,    \* the tokens of the start, given out by registerActor
    Calls,     \* requests, runs of the job and boots
    Ops,       \* operation ids
    Requests,  \* per call: what it may be
    Ttl,       \* SPRINO_AGENT_HEARTBEAT_TTL_MS
    MaxClock,  \* bound: where the clock stops
    None       \* SQL NULL

Kinds == {"human", "agent"}
Entry == [actor : Ids, kind : Kinds, hash : Hashes]
Heartbeat == [verb : {"heartbeat"}, caller : Ids, actor : Ids]
Deactivate == [verb : {"deactivate"}, caller : Ids, actor : Ids, op : Ops]
Expire == [verb : {"expire"}]
Boots(r) == r.verb = "boot" /\ r.env \in Seq(Entry)

\* The errors that are answered; the last one as internal_error.
Refusals == {"forbidden", "notFound", "kindNotAgent", "invalidTransition",
             "idempotencyConflict", "operationExists"}
\* What ends a boot.
BootFailures == {"revokedToken", "uniqueViolation"}

ASSUME AgentsAssumption ==
    /\ Ids \subseteq Nat /\ IsFiniteSet(Ids) /\ IsFiniteSet(Calls)
    /\ DOMAIN Start \subseteq Ids /\ \A a \in DOMAIN Start : Start[a] \in Kinds
    /\ DOMAIN Tokens \subseteq Hashes /\ \A h \in DOMAIN Tokens : Tokens[h] \in DOMAIN Start
    \* registerActor gives an actor one token, and an actor has one active at a time.
    /\ \A h, i \in DOMAIN Tokens : Tokens[h] = Tokens[i] => h = i
    /\ Ttl \in Nat \ {0} /\ MaxClock \in Nat
    /\ \A c \in Calls : \A r \in Requests[c] :
          r \in Heartbeat \cup Deactivate \cup Expire \/ Boots(r)
    \* parseActorsEnv refuses an id or a token that comes twice.
    /\ \A c \in Calls : \A r \in Requests[c] : r.verb = "boot" =>
          \A i, j \in DOMAIN r.env :
              r.env[i].actor = r.env[j].actor \/ r.env[i].hash = r.env[j].hash => i = j
    /\ None \notin Nat /\ None \notin Hashes \cup Calls \cup Kinds

VARIABLES
    actors,    \* the committed actors table
    tokens,    \* the committed actor_tokens table
    receipts,  \* the committed operations table
    lock,      \* per row of actors: the call that has locked it
    clock,
    pc,        \* per call: where it stands
    req,       \* per call: what is asked
    now,       \* per call: the time it has taken
    found,     \* per call: the lifecycle state it goes by
    todo,      \* per call: the rows, or the entries of the environment, yet to do
    heard,     \* per actor: the latest time of a heartbeat answered ok, and per call:
    alone,     \* no other boot has run beside it (both for the properties only)
    answer     \* per call: what was returned

tables == <<actors, tokens, receipts>>
locals == <<req, now, found, todo>>
vars == <<tables, lock, clock, pc, locals, heard, alone, answer>>

NoActor == [kind |-> None]
NoToken == [actor |-> None, source |-> None, active |-> FALSE]
NoReceipt == [req |-> None]
NoRequest == [verb |-> None]

NewActor(kind, source, time) ==
    [kind |-> kind, source |-> source, state |-> "active", made |-> time,
     beat |-> None, gone |-> None]

Verb(c) == req[c].verb
Actor(c) == req[c].actor
Exists(a) == actors[a] # NoActor
HasAccess(a) == \E h \in Hashes : tokens[h].active /\ tokens[h].actor = a
InFlight(c) == pc[c] \notin {"idle", "answered"}

Init ==
    /\ actors = [a \in Ids |-> IF a \in DOMAIN Start THEN NewActor(Start[a], "db", 0) ELSE NoActor]
    /\ tokens = [h \in Hashes |-> IF h \in DOMAIN Tokens
                                  THEN [actor |-> Tokens[h], source |-> "db", active |-> TRUE]
                                  ELSE NoToken]
    /\ receipts = [o \in Ops |-> NoReceipt]
    /\ lock = [a \in Ids |-> None]
    /\ clock = 0
    /\ pc = [c \in Calls |-> "idle"]
    /\ req = [c \in Calls |-> NoRequest]
    /\ now = [c \in Calls |-> None]
    /\ found = [c \in Calls |-> None]
    /\ todo = [c \in Calls |-> <<>>]
    /\ heard = [a \in Ids |-> None]
    /\ alone = [c \in Calls |-> TRUE]
    /\ answer = [c \in Calls |-> "none"]

(***************************************************************************)
(* Arrival and answer                                                      *)
(***************************************************************************)
Release(c) == lock' = [a \in Ids |-> IF lock[a] = c THEN None ELSE lock[a]]

\* Who may: an agent sends heartbeats of itself, a human deactivates.
Forbidden(q) ==
    \/ q.verb = "heartbeat" /\ q.actor # q.caller
    \/ q.verb = "deactivate" /\ actors[q.caller].kind # "human"

FirstStep(q) ==
    IF Forbidden(q) THEN "answered"
    ELSE CASE q.verb = "heartbeat" -> "lock"
           [] q.verb = "deactivate" -> "check"
           [] q.verb = "expire" -> "scan"
           [] q.verb = "boot" -> "upsert"

Booting == {c \in Calls : Verb(c) = "boot" /\ InFlight(c)}

\* heartbeatAgent and the job take the time when they start, deactivateAgent later.
Submit(c, q) ==
    /\ pc[c] = "idle"
    /\ q.verb \in {"heartbeat", "deactivate"} => HasAccess(q.caller)
    /\ req' = [req EXCEPT ![c] = q]
    /\ now' = [now EXCEPT ![c] = IF q.verb \in {"heartbeat", "expire"} THEN clock ELSE None]
    /\ pc' = [pc EXCEPT ![c] = FirstStep(q)]
    /\ answer' = [answer EXCEPT ![c] = IF Forbidden(q) THEN "forbidden" ELSE @]
    /\ todo' = [todo EXCEPT ![c] = IF q.verb = "boot" THEN q.env ELSE <<>>]
    /\ alone' = IF q.verb # "boot" THEN alone
                ELSE [d \in Calls |-> IF d = c THEN Booting = {} ELSE alone[d] /\ d \notin Booting]
    /\ UNCHANGED <<tables, lock, clock, found, heard>>

Go(c, to) ==
    pc' = [pc EXCEPT ![c] = to] /\ UNCHANGED <<lock, clock, locals, heard, alone, answer>>

Answer(c, ans) ==
    /\ pc' = [pc EXCEPT ![c] = "answered"]
    /\ answer' = [answer EXCEPT ![c] = ans]
    /\ now' = [now EXCEPT ![c] = None]
    /\ found' = [found EXCEPT ![c] = None]
    /\ todo' = [todo EXCEPT ![c] = <<>>]
    /\ Release(c)
    /\ UNCHANGED <<clock, req, alone>>

Refuse(c, err) == Answer(c, err) /\ UNCHANGED <<tables, heard>>

Seen(c) == receipts[req[c].op] # NoReceipt
AnswerFromReceipt(c) ==
    /\ Seen(c)
    /\ Refuse(c, IF receipts[req[c].op].req = Actor(c) THEN "ok" ELSE "idempotencyConflict")

Check(c) ==
    /\ pc[c] = "check"
    /\ AnswerFromReceipt(c) \/ (~Seen(c) /\ Go(c, "target") /\ UNCHANGED tables)

\* A throw inside the transaction; a heartbeat has no operation to look up.
Abort(c, err) ==
    /\ pc' = [pc EXCEPT ![c] = IF Verb(c) = "heartbeat" THEN "answered" ELSE "recheck"]
    /\ answer' = [answer EXCEPT ![c] = err]
    /\ Release(c)
    /\ UNCHANGED <<tables, clock, locals, heard, alone>>

Recheck(c) ==
    /\ pc[c] = "recheck"
    /\ AnswerFromReceipt(c) \/ (~Seen(c) /\ Refuse(c, answer[c]))

(***************************************************************************)
(* heartbeatAgent and deactivateAgent                                      *)
(***************************************************************************)
ReadTarget(c) ==
    /\ pc[c] = "target"
    /\ \/ ~Exists(Actor(c)) /\ Refuse(c, "notFound")
       \/ /\ Exists(Actor(c))
          /\ now' = [now EXCEPT ![c] = clock]
          /\ pc' = [pc EXCEPT ![c] = "lock"]
          /\ UNCHANGED <<tables, lock, clock, req, found, todo, heard, alone, answer>>

\* The row that c's next statement has to lock.
Row(c) == CASE pc[c] = "lock" -> {Actor(c)}
            [] pc[c] = "expireRow" -> {Head(todo[c])}
            [] pc[c] = "upsert" /\ todo[c] # <<>> -> {Head(todo[c]).actor}
            [] OTHER -> {}
\* The calls that c's next statement has to wait for.
Blockers(c) ==
    ({lock[a] : a \in Row(c)}
        \cup {d \in Calls : pc[c] = "record" /\ pc[d] = "commit" /\ Verb(d) = "deactivate"
                            /\ req[d].op = req[c].op}) \ {None, c}
Free(c) == Blockers(c) = {}

\* Mutant: a plain SELECT, which neither waits nor locks.
LockActor_PlainSelect(c) ==
    /\ pc[c] = "lock"
    /\ found' = [found EXCEPT ![c] = actors[Actor(c)].state]
    /\ pc' = [pc EXCEPT ![c] = IF Verb(c) = "heartbeat" THEN "commit" ELSE "record"]
    /\ UNCHANGED <<tables, lock, clock, req, now, todo, heard, alone, answer>>
\* SELECT ... FOR UPDATE, and the conditions on what it returns.
LockActor(c) ==
    /\ pc[c] = "lock" /\ Free(c)
    /\ LET a == actors[Actor(c)]
       IN  \/ a.kind # "agent" /\ Abort(c, "kindNotAgent")
           \/ /\ a.kind = "agent" /\ Verb(c) = "heartbeat" /\ a.state # "active"
              /\ Abort(c, "invalidTransition")
           \/ /\ a.kind = "agent" /\ (Verb(c) = "heartbeat" => a.state = "active")
              /\ lock' = [lock EXCEPT ![Actor(c)] = c]
              /\ found' = [found EXCEPT ![c] = a.state]
              /\ pc' = [pc EXCEPT ![c] = IF Verb(c) = "heartbeat" THEN "commit" ELSE "record"]
              /\ UNCHANGED <<tables, clock, req, now, todo, heard, alone, answer>>

Later(x, y) == IF x = None \/ y > x THEN y ELSE x

\* last_heartbeat_at becomes the time taken before the row was waited for.
CommitHeartbeat(c) ==
    /\ pc[c] = "commit" /\ Verb(c) = "heartbeat"
    /\ actors' = [actors EXCEPT ![Actor(c)].beat = now[c]]
    /\ heard' = [heard EXCEPT ![Actor(c)] = Later(@, now[c])]
    /\ Answer(c, "ok")
    /\ UNCHANGED <<tokens, receipts>>

Record(c) ==
    /\ pc[c] = "record" /\ Free(c)
    /\ \/ Seen(c) /\ Abort(c, "operationExists")
       \/ ~Seen(c) /\ Go(c, "commit") /\ UNCHANGED tables

Deactivated(a, time) == [actors[a] EXCEPT !.state = "inactive", !.gone = time]

\* Deactivating whoever is inactive already changes nothing and is no error.
CommitDeactivate(c) ==
    /\ pc[c] = "commit" /\ Verb(c) = "deactivate"
    /\ actors' = [actors EXCEPT ![Actor(c)] = IF found[c] = "active"
                                              THEN Deactivated(Actor(c), now[c]) ELSE @]
    /\ receipts' = [receipts EXCEPT ![req[c].op] = [req |-> Actor(c)]]
    /\ Answer(c, "ok")
    /\ UNCHANGED <<tokens, heard>>

(***************************************************************************)
(* expireStaleAgents                                                       *)
(***************************************************************************)
\* The WHERE clause; without a heartbeat yet it is the creation that counts.
Stale(a, cutoff) ==
    /\ actors[a].kind = "agent" /\ actors[a].state = "active"
    /\ IF actors[a].beat = None THEN actors[a].made < cutoff ELSE actors[a].beat < cutoff

Cutoff(c) == now[c] - Ttl

InOrder(S) == [i \in 1 .. Cardinality(S) |->
                  CHOOSE a \in S : Cardinality({b \in S : b < a}) = i - 1]

\* The snapshot of the UPDATE.
ScanStale(c) ==
    /\ pc[c] = "scan"
    /\ LET S == {a \in Ids : Exists(a) /\ Stale(a, Cutoff(c))}
       IN  /\ todo' = [todo EXCEPT ![c] = InOrder(S)]
           /\ pc' = [pc EXCEPT ![c] = IF S = {} THEN "expired" ELSE "expireRow"]
    /\ UNCHANGED <<tables, lock, clock, req, now, found, heard, alone, answer>>

\* Mutant: the agents are selected first and then updated by id.
StillStale_ById(c, a) == TRUE
StillStale(c, a) == Stale(a, Cutoff(c))

LockStale(c) ==
    /\ pc[c] = "expireRow" /\ Free(c)
    /\ LET a == Head(todo[c])
       IN  lock' = [lock EXCEPT ![a] = IF StillStale(c, a) THEN c ELSE @]
    /\ todo' = [todo EXCEPT ![c] = Tail(@)]
    /\ pc' = [pc EXCEPT ![c] = IF Tail(todo[c]) = <<>> THEN "expired" ELSE "expireRow"]
    /\ UNCHANGED <<tables, clock, req, now, found, heard, alone, answer>>

CommitExpire(c) ==
    /\ pc[c] = "expired"
    /\ actors' = [a \in Ids |-> IF lock[a] = c THEN Deactivated(a, now[c]) ELSE actors[a]]
    /\ Answer(c, "ok")
    /\ UNCHANGED <<tokens, receipts, heard>>

(***************************************************************************)
(* seedFromEnv                                                             *)
(***************************************************************************)
Hash(c) == Head(todo[c]).hash

\* The upsert sets kind and source, never the lifecycle.  That the actor is also
\* made a member of the default workspace, unless it is one, nothing here reads.
UpsertActor(c) ==
    /\ pc[c] = "upsert" /\ todo[c] # <<>> /\ Free(c)
    /\ LET e == Head(todo[c])
       IN  actors' = [actors EXCEPT ![e.actor] =
                         IF Exists(e.actor) THEN [@ EXCEPT !.kind = e.kind, !.source = "env"]
                         ELSE NewActor(e.kind, "env", clock)]
    /\ Go(c, "token")
    /\ UNCHANGED <<tokens, receipts>>

NextEntry(c) ==
    /\ todo' = [todo EXCEPT ![c] = Tail(@)]
    /\ pc' = [pc EXCEPT ![c] = "upsert"]
    /\ UNCHANGED <<lock, clock, req, now, found, heard, alone, answer>>

ReadToken(c) ==
    /\ pc[c] = "token"
    /\ LET t == tokens[Hash(c)]
       IN  \/ t = NoToken /\ Go(c, "revoke") /\ UNCHANGED tables
           \/ t # NoToken /\ ~t.active /\ Refuse(c, "revokedToken")
           \/ t.active /\ NextEntry(c) /\ UNCHANGED tables

Revoke(S) == tokens' = [h \in Hashes |-> IF h \in S THEN [tokens[h] EXCEPT !.active = FALSE]
                                         ELSE tokens[h]]
ActiveOf(a) == {h \in Hashes : tokens[h].active /\ tokens[h].actor = a}

Replaced(c) == ActiveOf(Head(todo[c]).actor)

RevokeOthers(c) ==
    /\ pc[c] = "revoke"
    /\ Revoke(Replaced(c))
    /\ Go(c, "insert")
    /\ UNCHANGED <<actors, receipts>>

\* Mutant: no unique index on actor_id WHERE revoked_at IS NULL.
Clashes_NoIndex(c) == tokens[Hash(c)] # NoToken
\* A hash is unique, and so is the active token of an actor.
Clashes(c) == tokens[Hash(c)] # NoToken \/ ActiveOf(Head(todo[c]).actor) # {}

InsertToken(c) ==
    /\ pc[c] = "insert"
    /\ \/ Clashes(c) /\ Refuse(c, "uniqueViolation")
       \/ /\ ~Clashes(c)
          /\ tokens' = [tokens EXCEPT ![Hash(c)] =
                           [actor |-> Head(todo[c]).actor, source |-> "env", active |-> TRUE]]
          /\ NextEntry(c)
          /\ UNCHANGED <<actors, receipts>>

EnvHashes(c) == {req[c].env[i].hash : i \in DOMAIN req[c].env}

\* Mutant: nothing is swept when the environment lists no actor.
Swept_KeepsLast(c) == IF EnvHashes(c) = {} THEN {}
                      ELSE {h \in Hashes \ EnvHashes(c) : tokens[h].active /\ tokens[h].source = "env"}
Swept(c) == {h \in Hashes \ EnvHashes(c) : tokens[h].active /\ tokens[h].source = "env"}

\* The tokens of entries that are gone are revoked, and the boot goes on.
SweepTokens(c) ==
    /\ pc[c] = "upsert" /\ todo[c] = <<>>
    /\ Revoke(Swept(c))
    /\ Answer(c, "ok")
    /\ UNCHANGED <<actors, receipts, heard>>

(***************************************************************************)
(* The environment                                                         *)
(***************************************************************************)
Tick == /\ clock < MaxClock
        /\ clock' = clock + 1
        /\ UNCHANGED <<tables, lock, pc, locals, heard, alone, answer>>

\* The process that runs c dies: a transaction is rolled back, what a boot has
\* written stays.
Die(c) == InFlight(c) /\ Refuse(c, "lost")

Handle(c) ==
    \/ Check(c) \/ Recheck(c) \/ ReadTarget(c) \/ LockActor(c) \/ CommitHeartbeat(c)
    \/ Record(c) \/ CommitDeactivate(c)
    \/ ScanStale(c) \/ LockStale(c) \/ CommitExpire(c)
    \/ UpsertActor(c) \/ ReadToken(c) \/ RevokeOthers(c) \/ InsertToken(c) \/ SweepTokens(c)

Next ==
    \/ \E c \in Calls : \E q \in Requests[c] : Submit(c, q)
    \/ \E c \in Calls : Handle(c) \/ Die(c)
    \/ Tick

Spec == Init /\ [][Next]_vars

(***************************************************************************)
(* What is promised                                                        *)
(***************************************************************************)
Steps == {"idle", "check", "target", "lock", "record", "commit", "recheck", "scan", "expireRow",
          "expired", "upsert", "token", "revoke", "insert", "answered"}
Times == 0 .. MaxClock

\* Every variable has its type.  An actor has a time of deactivation exactly when
\* it is inactive, and at most one active token, however boots race; only calls in
\* flight hold rows.
AgentTypeOK ==
    /\ \A a \in Ids : Exists(a) =>
          /\ actors[a].kind \in Kinds /\ actors[a].source \in {"env", "db"}
          /\ actors[a].made \in Times /\ actors[a].beat \in Times \cup {None}
          /\ actors[a].state = (IF actors[a].gone = None THEN "active" ELSE "inactive")
    /\ \A h \in Hashes : tokens[h].active => Exists(tokens[h].actor)
    /\ \A a \in Ids : Cardinality(ActiveOf(a)) <= 1
    /\ \A a \in Ids : lock[a] # None => InFlight(lock[a])
    /\ pc \in [Calls -> Steps] /\ now \in [Calls -> Times \cup {None}]
    /\ heard \in [Ids -> Times \cup {None}] /\ alone \in [Calls -> BOOLEAN]
    /\ answer \in [Calls -> Refusals \cup BootFailures \cup {"none", "ok", "lost"}]

\* "inactive" is the end: neither a heartbeat that was under way, nor a second
\* deactivation, nor a run of the job, nor a boot brings an agent back or changes
\* when it went ("storage-only terminal marker", schema.ts).
GoneForGood ==
    [][\A a \in Ids : (Exists(a) /\ actors[a].state = "inactive") =>
          /\ actors'[a].state = "inactive" /\ actors'[a].gone = actors[a].gone
          /\ actors'[a].beat = actors[a].beat]_vars

\* The job takes nobody who was heard from within the TTL before it began, unless
\* an older heartbeat has been written over a newer one.
OnlyTheSilentExpire ==
    [][\A c \in Calls, a \in Ids :
          (pc[c] = "expired" /\ answer'[c] = "ok" /\ lock[a] = c) =>
              \/ heard[a] = None \/ heard[a] < now[c] - Ttl
              \/ actors[a].beat < heard[a]]_vars

\* "Idempotent. Safe to run on every boot" (seedFromEnv): a boot that comes to its
\* end, after whatever boots that broke off half way, leaves exactly the tokens of
\* its environment active among those from one, unless another boot ran beside it
\* or the token had been given to another actor.
BootReconciles ==
    [][\A c \in Calls :
          (Verb(c) = "boot" /\ pc[c] = "upsert" /\ answer'[c] = "ok" /\ alone[c]) =>
              /\ \A i \in DOMAIN req[c].env :
                    LET e == req[c].env[i]
                    IN  tokens'[e.hash].active \/ tokens'[e.hash].actor # e.actor
              /\ \A h \in Hashes : tokens'[h].active /\ tokens'[h].source = "env" =>
                                      h \in EnvHashes(c)]_vars
============================================================================
