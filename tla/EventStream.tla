----------------------------- MODULE EventStream -----------------------------
(***************************************************************************)
(* GET /api/events/stream: tickets, connections and their polling of the   *)
(* event log, while transactions append to the log in any order.           *)
(*                                                                         *)
(* An event has its created_at and its id before its transaction commits,  *)
(* so it may show after events that are younger by either.  One event      *)
(* stands for those of one transaction.  A message that is sent has been   *)
(* received: what a broken connection loses is what it has not sent yet.   *)
(* The caller of the stream is one actor, whose last token may be revoked. *)
(***************************************************************************)
EXTENDS Integers, Sequences, FiniteSets

CONSTANTS
    Events,      \* events to come: one call each that writes the log
    Projects,    \* projects to ask for
    Project,     \* the project of each event
    Conns,       \* requests for a stream
    ReplayLimit, \* REPLAY_LIMIT
    TicketTtl,   \* STREAM_TICKET_TTL_MS, in ticks of the clock
    MaxClock,    \* bound: when the clock stops
    MaxHiccups,  \* bound: how many queries of the streams fail
    None         \* null

ASSUME StreamAssumption ==
    /\ IsFiniteSet(Events) /\ Project \in [Events -> Projects]
    /\ ReplayLimit \in Nat \ {0}
    /\ TicketTtl \in Nat /\ MaxClock \in Nat /\ MaxHiccups \in Nat
    /\ None \notin Events /\ None \notin Nat /\ None \notin Projects

VARIABLES
    clock,      \* the server's clock
    at,         \* per event: its created_at
    id,         \* per event: its UUIDv7, a number by age
    done,       \* per event: its place in the order of commits
    credential, \* the actor has an active token
    hiccups,    \* queries that have failed
    pc,         \* per connection: where its handler stands
    ticket,     \* per connection: the ticket it is opened with
    cursor,     \* per connection: the id it polls after
    batch,      \* per connection: rows it has read and not sent yet
    sent,       \* history, per connection: the events it has sent
    from        \* history, per connection: the cursor its polling began with

writes == <<at, id, done>>
conns == <<pc, ticket, cursor, batch, sent, from>>
streamVars == <<clock, writes, credential, hiccups, conns>>

NoTicket == [project |-> None, exp |-> 0]

StreamInit ==
    /\ clock = 0
    /\ at = [e \in Events |-> None]
    /\ id = [e \in Events |-> None]
    /\ done = [e \in Events |-> None]
    /\ credential = TRUE
    /\ hiccups = 0
    /\ pc = [k \in Conns |-> "idle"]
    /\ ticket = [k \in Conns |-> NoTicket]
    /\ cursor = [k \in Conns |-> None]
    /\ batch = [k \in Conns |-> <<>>]
    /\ sent = [k \in Conns |-> {}]
    /\ from = [k \in Conns |-> None]

(***************************************************************************)
(* The log                                                                 *)
(***************************************************************************)
Set(f) == {e \in Events : f[e] # None}
\* Mutant: not joined with the project of the task.
Committed_Everywhere(p) == Set(done)
Committed(p) == {e \in Set(done) : Project[e] = p}

\* new Date() of a verb.
TakeTime(e) ==
    /\ at[e] = None
    /\ at' = [at EXCEPT ![e] = clock]
    /\ UNCHANGED <<clock, id, done, credential, hiccups, conns>>

\* uuidv7(), at once or after waiting for a row.
MakeId(e) ==
    /\ at[e] # None /\ id[e] = None
    /\ id' = [id EXCEPT ![e] = Cardinality(Set(id)) + 1]
    /\ UNCHANGED <<clock, at, done, credential, hiccups, conns>>

CommitEvent(e) ==
    /\ id[e] # None /\ done[e] = None
    /\ done' = [done EXCEPT ![e] = Cardinality(Set(done)) + 1]
    /\ UNCHANGED <<clock, at, id, credential, hiccups, conns>>

\* ORDER BY created_at, id
Before(e, f) == at[e] < at[f] \/ (at[e] = at[f] /\ id[e] < id[f])

\* Mutant: newest first, as listEvents has it.
Ordered_NewestFirst(S) ==
    [i \in 1 .. Cardinality(S) |->
        CHOOSE e \in S : Cardinality({f \in S : Before(e, f)}) = i - 1]
Ordered(S) ==
    [i \in 1 .. Cardinality(S) |->
        CHOOSE e \in S : Cardinality({f \in S : Before(f, e)}) = i - 1]

FirstOf(s, n) == SubSeq(s, 1, IF Len(s) < n THEN Len(s) ELSE n)

\* Without a cursor the query returns nothing.
ListEventsAfter(p, c) ==
    IF c = None THEN <<>>
    ELSE FirstOf(Ordered({e \in Committed(p) : id[e] > c}), ReplayLimit)

\* null while the project has no event.
LatestEventId(p) ==
    IF Committed(p) = {} THEN None
    ELSE LET s == Ordered(Committed(p)) IN id[s[Len(s)]]

(***************************************************************************)
(* Tickets                                                                 *)
(***************************************************************************)
\* POST /api/events/stream-ticket under a bearer token, which is refused without
\* an active one.
IssueStreamTicket(k, p) ==
    /\ pc[k] = "idle" /\ credential
    /\ pc' = [pc EXCEPT ![k] = "ticket"]
    /\ ticket' = [ticket EXCEPT ![k] = [project |-> p, exp |-> clock + TicketTtl]]
    /\ UNCHANGED <<clock, writes, credential, hiccups, cursor, batch, sent, from>>

TicketIsValid(t) == ~(t.exp < clock)

(***************************************************************************)
(* The handler of a connection                                             *)
(***************************************************************************)
Open(k) == pc[k] \in {"poll", "fetch", "send"}

\* The connection ends, and its number may stand for another one.
Close(k) ==
    /\ pc' = [pc EXCEPT ![k] = "idle"]
    /\ ticket' = [ticket EXCEPT ![k] = NoTicket]
    /\ cursor' = [cursor EXCEPT ![k] = None]
    /\ batch' = [batch EXCEPT ![k] = <<>>]
    /\ sent' = [sent EXCEPT ![k] = {}]
    /\ from' = [from EXCEPT ![k] = None]
    /\ UNCHANGED <<clock, writes, credential>>

Go(k, to) ==
    /\ pc' = [pc EXCEPT ![k] = to]
    /\ UNCHANGED <<clock, writes, credential, ticket, cursor, batch, sent, from>>

\* The request for the stream, with the last id the client has, or none, and
\* verifyStreamTicket.
Connect(k, last) ==
    /\ pc[k] = "ticket" /\ TicketIsValid(ticket[k])
    /\ pc' = [pc EXCEPT ![k] = "admit"]
    /\ cursor' = [cursor EXCEPT ![k] = last]
    /\ UNCHANGED <<clock, writes, credential, hiccups, ticket, batch, sent, from>>

RefuseTicket(k) ==
    /\ pc[k] = "ticket" /\ ~TicketIsValid(ticket[k])
    /\ Close(k) /\ UNCHANGED hiccups

\* lookupActorById and actorHasActiveCredential: actors are never deleted.
Admit(k) == pc[k] = "admit" /\ credential /\ Go(k, "start") /\ UNCHANGED hiccups
TurnAway(k) == pc[k] = "admit" /\ ~credential /\ Close(k) /\ UNCHANGED hiccups

\* The replay after the client's cursor, or the tail as it is now.
Start(k) ==
    /\ pc[k] = "start"
    /\ LET c == IF cursor[k] = None THEN LatestEventId(ticket[k].project) ELSE cursor[k]
       IN  /\ batch' = [batch EXCEPT ![k] = IF cursor[k] = None THEN <<>>
                                            ELSE ListEventsAfter(ticket[k].project, c)]
           /\ cursor' = [cursor EXCEPT ![k] = c]
           /\ from' = [from EXCEPT ![k] = c]
    /\ pc' = [pc EXCEPT ![k] = "send"]
    /\ UNCHANGED <<clock, writes, credential, hiccups, ticket, sent>>

\* Mutant: the cursor stays where it was.
Send_NoCursor(k) ==
    /\ pc[k] = "send" /\ batch[k] # <<>>
    /\ sent' = [sent EXCEPT ![k] = @ \cup {Head(batch[k])}]
    /\ batch' = [batch EXCEPT ![k] = Tail(@)]
    /\ UNCHANGED <<clock, writes, credential, hiccups, pc, ticket, cursor, from>>
Send(k) ==
    /\ pc[k] = "send" /\ batch[k] # <<>>
    /\ sent' = [sent EXCEPT ![k] = @ \cup {Head(batch[k])}]
    /\ cursor' = [cursor EXCEPT ![k] = id[Head(batch[k])]]
    /\ batch' = [batch EXCEPT ![k] = Tail(@)]
    /\ UNCHANGED <<clock, writes, credential, hiccups, pc, ticket, from>>

\* The ping, and the sleep between two polls.
Sleep(k) == pc[k] = "send" /\ batch[k] = <<>> /\ Go(k, "poll") /\ UNCHANGED hiccups

\* Every poll looks at the credential first.
CheckCredential(k) == pc[k] = "poll" /\ credential /\ Go(k, "fetch") /\ UNCHANGED hiccups

\* Mutant: only the handshake looks at the credential.
EndRevoked_Never(k) == pc[k] = "poll" /\ ~credential /\ Go(k, "fetch") /\ UNCHANGED hiccups
EndRevoked(k) == pc[k] = "poll" /\ ~credential /\ Close(k) /\ UNCHANGED hiccups

Fetch(k) ==
    /\ pc[k] = "fetch"
    /\ batch' = [batch EXCEPT ![k] = ListEventsAfter(ticket[k].project, cursor[k])]
    /\ pc' = [pc EXCEPT ![k] = "send"]
    /\ UNCHANGED <<clock, writes, credential, hiccups, ticket, cursor, sent, from>>

\* A query fails: in the loop that is swallowed, before it the stream ends.
Swallow(k) ==
    /\ pc[k] \in {"poll", "fetch"} /\ hiccups < MaxHiccups
    /\ hiccups' = hiccups + 1
    /\ Go(k, "poll")

FailToStart(k) ==
    /\ pc[k] = "start" /\ hiccups < MaxHiccups
    /\ hiccups' = hiccups + 1
    /\ Close(k)

\* The client goes away or the connection breaks.
Disconnect(k) == pc[k] # "idle" /\ Close(k) /\ UNCHANGED hiccups

(***************************************************************************)
(* The environment                                                         *)
(***************************************************************************)
Tick ==
    /\ clock < MaxClock
    /\ clock' = clock + 1
    /\ UNCHANGED <<writes, credential, hiccups, conns>>

Revoke ==
    /\ credential
    /\ credential' = FALSE
    /\ UNCHANGED <<clock, writes, hiccups, conns>>

Log == \E e \in Events : TakeTime(e) \/ MakeId(e) \/ CommitEvent(e)
Serve(k) ==
    \/ Admit(k) \/ TurnAway(k) \/ Start(k) \/ Send(k) \/ Sleep(k)
    \/ CheckCredential(k) \/ EndRevoked(k) \/ Fetch(k)

\* What a client may resume from: ids it has been told, by a list or a stream.
Known(p) == {id[e] : e \in Committed(p)} \cup {None}

StreamNext ==
    \/ Log \/ Tick \/ Revoke
    \/ \E k \in Conns :
         \/ Serve(k) \/ RefuseTicket(k) \/ Swallow(k) \/ FailToStart(k) \/ Disconnect(k)
         \/ \E p \in Projects : IssueStreamTicket(k, p)
         \/ \E last \in Known(ticket[k].project) : Connect(k, last)

StreamSpec == StreamInit /\ [][StreamNext]_streamVars

\* A handler whose query has returned goes on, and its sleep ends.
FairStreamSpec == StreamSpec /\ \A k \in Conns : WF_streamVars(Serve(k))

(***************************************************************************)
(* What is promised                                                        *)
(***************************************************************************)
Steps == {"idle", "ticket", "admit", "start", "send", "poll", "fetch"}
Ids == 1 .. Cardinality(Events)

\* Every variable has its type; ids and places of commits are given out once, in
\* the order of a verb; what a stream sends is committed and of its ticket's project.
StreamTypeOK ==
    /\ clock \in 0 .. MaxClock /\ hiccups \in 0 .. MaxHiccups /\ credential \in BOOLEAN
    /\ at \in [Events -> 0 .. MaxClock \cup {None}]
    /\ id \in [Events -> Ids \cup {None}] /\ done \in [Events -> Ids \cup {None}]
    /\ \A e, f \in Set(id) : id[e] = id[f] => e = f
    /\ \A e, f \in Set(done) : done[e] = done[f] => e = f
    /\ Set(done) \subseteq Set(id) /\ Set(id) \subseteq Set(at)
    /\ pc \in [Conns -> Steps]
    /\ \A k \in Conns : \A e \in sent[k] \cup {batch[k][i] : i \in DOMAIN batch[k]} :
          done[e] # None /\ Project[e] = ticket[k].project

\* "a transaction with a lower id could commit AFTER the poll has already emitted
\* a higher-id event, dropping the lower one" (events.ts).  An event is passed over
\* only if one with a higher id that was sent had committed before it, or because
\* rows come by created_at and the cursor goes by id: a row behind an older one with
\* a higher id, cut off by the limit, is lost as well.
MissedOnlyIfOvertaken ==
    \A k \in Conns : \A e \in Committed(ticket[k].project) :
        (from[k] # None /\ from[k] < id[e] /\ id[e] < cursor[k])
            => \/ e \in sent[k]
               \/ \E i \in DOMAIN batch[k] : batch[k][i] = e
               \/ \E f \in sent[k] : /\ id[e] < id[f]
                                     /\ done[f] < done[e] \/ at[f] < at[e]

\* A stream that stays open gets to every event after its cursor.
Due(k, e) ==
    /\ Open(k) /\ cursor[k] # None
    /\ e \in Committed(ticket[k].project) /\ cursor[k] < id[e]
Passed(k, e) == e \in sent[k] \/ ~Due(k, e)
EventsArrive ==
    \A k \in Conns, e \in Events : Due(k, e) ~> Passed(k, e)

\* "Without this, `listEventsAfter` would short-circuit on null forever and the
\* client would never receive a live event" (sse.ts): the newest event of a project,
\* younger than what the stream began with, arrives.
Follows(k, e) ==
    /\ Open(k) /\ e \in Committed(ticket[k].project)
    /\ from[k] = None \/ from[k] < id[e]
    /\ \A f \in Committed(ticket[k].project) \ {e} : Before(f, e) /\ id[f] < id[e]
LiveEventsArrive ==
    \A k \in Conns, e \in Events : Follows(k, e) ~> (e \in sent[k] \/ ~Follows(k, e))

\* "Revoking an actor's bearer token therefore invalidates both stale tickets and
\* already-open event streams" (TECHNICAL.md).
RevokedStreamsEnd ==
    \A k \in Conns : (~credential /\ pc[k] \in {"admit", "send", "poll", "fetch"}) ~> pc[k] = "idle"
==============================================================================
