---------------------------- MODULE ActivityFeed ----------------------------
(***************************************************************************)
(* The activity feed of the web client: it loads the newest events, opens  *)
(* a stream, polls while it has none, and starts anew when the user picks  *)
(* another project, with requests of the project before still under way.   *)
(*                                                                         *)
(* The server's side of a stream is EventStream; one connection of it is   *)
(* one run of openSse, from its request for a ticket to its EventSource.   *)
(* A callback of the client is one step, up to its next await.  The number *)
(* of loads and connections under way at once is bounded.  Events come one *)
(* after another here and no query fails: that is EventStream's matter.    *)
(***************************************************************************)
EXTENDS EventStream

CONSTANTS
    Loads,       \* calls of initialLoad under way
    MaxEvents,   \* MAX_EVENTS
    LoadLimit,   \* the limit that initialLoad asks for
    MaxSelects   \* bound: how often the user picks another project

ASSUME FeedAssumption ==
    /\ MaxEvents \in Nat \ {0} /\ LoadLimit \in 1 .. MaxEvents /\ MaxSelects \in Nat
    /\ None \notin Conns

VARIABLES
    selected,  \* the project to show, a property of the component: None is the empty one
    mounted,   \* ~cancelledRef.current
    events,    \* the list shown, newest first
    loaded,    \* the list is shown, rather than "loading activity"
    lastEvent, \* lastEventIdRef.current
    current,   \* esRef.current: the connection of an EventSource
    polling,   \* pollTimerRef.current: the project the timer loads
    load,      \* per call of initialLoad: what it waits for
    selects,   \* how often another project was picked
    mixed      \* history: another was picked while something else was under way

view == <<selected, mounted, events, loaded, lastEvent, selects, mixed>>
refs == <<current, polling>>
feedVars == <<view, refs, load, streamVars>>

\* opens: openSse follows, as after a mount; a poll only loads.
NoLoad == [pc |-> "idle", project |-> None, opens |-> FALSE, rows |-> <<>>]
StartLoad(p, opens) == [NoLoad EXCEPT !.pc = "sent", !.project = p, !.opens = opens]

Live(k) == pc[k] \in {"admit", "start"} \/ Open(k)

FeedInit ==
    /\ StreamInit
    /\ selected \in Projects
    /\ mounted = TRUE
    /\ events = <<>>
    /\ loaded = FALSE
    /\ lastEvent = None
    /\ current = None
    /\ polling = None
    /\ \E l \in Loads : load = [x \in Loads |-> IF x = l THEN StartLoad(selected, TRUE) ELSE NoLoad]
    /\ selects = 0
    /\ mixed = FALSE

(***************************************************************************)
(* What the callbacks share                                                *)
(***************************************************************************)
\* There, if only to show nothing.  Unmounted with a project selected, it is gone.
Present == mounted \/ selected = None

\* Whether the feed is there or not: a timer started after a clean-up is stopped
\* by no one but the next stream that opens or the next clean-up.
StartPolling(p) == polling' = IF polling = None THEN p ELSE polling
\* Where cancelledRef is looked at first.
FallBack(p) == IF mounted THEN StartPolling(p) ELSE UNCHANGED polling

\* Mutant: a ticket that is refused starts nothing.
OpenSse_NoFallback(p) ==
    \/ /\ current # None \/ ~mounted \/ ~credential
       /\ UNCHANGED <<polling, streamVars>>
    \/ /\ current = None /\ mounted /\ credential
       /\ \E k \in Conns : IssueStreamTicket(k, p)
       /\ UNCHANGED polling
\* openSse of the render that showed p, up to the answer for its ticket: an
\* EventSource that exists is kept, whichever project it is for.
OpenSse(p) ==
    \/ /\ current # None \/ ~mounted
       /\ UNCHANGED <<polling, streamVars>>
    \/ /\ current = None /\ mounted /\ credential
       /\ \E k \in Conns : IssueStreamTicket(k, p)
       /\ UNCHANGED polling
    \/ /\ current = None /\ mounted /\ ~credential
       /\ StartPolling(p)
       /\ UNCHANGED streamVars

\* es.onerror of connection k.
OnError(k) ==
    /\ current' = None
    /\ FallBack(ticket[k].project)
    /\ UNCHANGED <<view, load>>

(***************************************************************************)
(* initialLoad                                                             *)
(***************************************************************************)
Reversed(s) == [i \in 1 .. Len(s) |-> s[Len(s) + 1 - i]]

\* listEvents: ORDER BY created_at DESC, id DESC LIMIT.
ListEvents(p) == FirstOf(Reversed(Ordered(Committed(p))), LoadLimit)

AnswerLoad(l) ==
    /\ load[l].pc = "sent" /\ credential
    /\ load' = [load EXCEPT ![l].pc = "answered", ![l].rows = ListEvents(load[l].project)]
    /\ UNCHANGED <<view, refs, streamVars>>

\* Whatever project is selected by now, or none.
FinishLoad(l) ==
    /\ load[l].pc = "answered"
    /\ load' = [load EXCEPT ![l] = NoLoad]
    /\ IF Present
       THEN /\ events' = load[l].rows
            /\ lastEvent' = IF load[l].rows = <<>> THEN None ELSE id[Head(load[l].rows)]
            /\ loaded' = TRUE
       ELSE UNCHANGED <<events, lastEvent, loaded>>
    /\ IF load[l].opens THEN OpenSse(load[l].project) ELSE UNCHANGED <<polling, streamVars>>
    /\ UNCHANGED <<selected, mounted, selects, mixed, current>>

\* A mount's load that fails starts the polling, of a feed that is gone too; a poll's
\* is tried again.
FailLoad(l) ==
    /\ load[l].pc \in {"sent", "answered"}
    /\ load' = [load EXCEPT ![l] = NoLoad]
    /\ IF load[l].opens THEN StartPolling(load[l].project) ELSE UNCHANGED polling
    /\ UNCHANGED <<view, current, streamVars>>

\* The timer: load, and try to open a stream of the project shown now.
Poll ==
    /\ polling # None
    /\ \E l \in Loads : /\ load[l].pc = "idle"
                        /\ load' = [load EXCEPT ![l] = StartLoad(polling, FALSE)]
    /\ OpenSse(selected)
    /\ UNCHANGED <<view, current>>

(***************************************************************************)
(* The stream                                                              *)
(***************************************************************************)
\* The ticket arrives: new EventSource.
OpenSource(k) ==
    /\ \/ mounted /\ Connect(k, lastEvent) /\ current' = k /\ UNCHANGED polling
       \/ ~mounted /\ pc[k] = "ticket" /\ Disconnect(k) /\ UNCHANGED refs
    /\ UNCHANGED <<view, load>>

\* No ticket.  One that is refused looks like a connection that breaks.
TicketFails(k) ==
    /\ pc[k] = "ticket"
    /\ Disconnect(k)
    /\ FallBack(ticket[k].project)
    /\ UNCHANGED <<view, current, load>>

\* es.onopen: a feed that is gone closes what it has just opened.
OnOpen(k) ==
    /\ \/ mounted /\ Admit(k) /\ polling' = None
       \/ ~mounted /\ pc[k] = "admit" /\ Disconnect(k) /\ UNCHANGED polling
    /\ UNCHANGED <<view, current, load>>

\* Mutant: whatever is sent is put in front.
Appended_Always(e) == FirstOf(<<e>> \o events, MaxEvents)
Appended(e) ==
    IF \E i \in DOMAIN events : events[i] = e THEN events ELSE FirstOf(<<e>> \o events, MaxEvents)

\* es.onmessage: appendEvent, whatever project the event is of.
OnMessage(k) ==
    /\ Send(k)
    /\ IF Present
       THEN events' = Appended(Head(batch[k])) /\ lastEvent' = id[Head(batch[k])]
       ELSE UNCHANGED <<events, lastEvent>>
    /\ UNCHANGED <<selected, mounted, loaded, selects, mixed, refs, load>>

\* The server ends the stream, or the network does.
OnEnd(k) ==
    /\ Live(k)
    /\ TurnAway(k) \/ EndRevoked(k) \/ Disconnect(k)
    /\ OnError(k)

\* The rest of the server's work does not reach the client.
Work(k) ==
    /\ Start(k) \/ Sleep(k) \/ CheckCredential(k) \/ Fetch(k)
    /\ UNCHANGED <<view, refs, load>>

(***************************************************************************)
(* The user                                                                *)
(***************************************************************************)
UnderWay ==
    \/ \E l \in Loads : load[l].pc # "idle"
    \/ \E k \in Conns \ {current} : pc[k] # "idle"

\* closeSse, of the EventSource the feed knows of.
CloseSse == IF current = None THEN UNCHANGED streamVars ELSE Disconnect(current)

\* Mutant: the clean-up of the effect leaves the stream open.
Select_KeepsStream(p) ==
    /\ Present /\ p # selected /\ selects < MaxSelects
    /\ selected' = p /\ mounted' = TRUE
    /\ selects' = selects + 1
    /\ mixed' = (mixed \/ UnderWay)
    /\ current' = None
    /\ polling' = IF mounted THEN None ELSE polling
    /\ loaded' = FALSE
    /\ \E l \in Loads : load[l].pc = "idle" /\ load' = [load EXCEPT ![l] = StartLoad(p, TRUE)]
    /\ UNCHANGED <<events, lastEvent, streamVars>>
\* The clean-up of the effect, and the effect again.  The list and the cursor stay
\* until the load arrives, and requests under way go on.  The effect that showed no
\* project has left no clean-up.
Select(p) ==
    /\ Present /\ p # selected /\ selects < MaxSelects
    /\ selected' = p /\ mounted' = TRUE
    /\ selects' = selects + 1
    /\ mixed' = (mixed \/ UnderWay)
    /\ CloseSse
    /\ current' = None
    /\ polling' = IF mounted THEN None ELSE polling
    /\ loaded' = FALSE
    /\ \E l \in Loads : load[l].pc = "idle" /\ load' = [load EXCEPT ![l] = StartLoad(p, TRUE)]
    /\ UNCHANGED <<events, lastEvent>>

\* The effect with no project to show, after the clean-up of the one before.
Deselect ==
    /\ mounted
    /\ selected' = None /\ mounted' = FALSE
    /\ mixed' = (mixed \/ UnderWay)
    /\ CloseSse
    /\ current' = None /\ polling' = None
    /\ events' = <<>> /\ loaded' = FALSE
    /\ UNCHANGED <<lastEvent, selects, load>>

\* The user turns to another view.
Unmount ==
    /\ mounted
    /\ mounted' = FALSE
    /\ CloseSse
    /\ current' = None /\ polling' = None
    /\ UNCHANGED <<selected, events, loaded, lastEvent, selects, mixed, load>>

\* A verb appends an event.
AppendEvent(e) ==
    /\ at[e] = None
    /\ at' = [at EXCEPT ![e] = clock]
    /\ id' = [id EXCEPT ![e] = Cardinality(Set(id)) + 1]
    /\ done' = [done EXCEPT ![e] = Cardinality(Set(done)) + 1]
    /\ UNCHANGED <<clock, credential, hiccups, conns>>

Browser ==
    \/ Poll
    \/ \E l \in Loads : FinishLoad(l)
    \/ \E k \in Conns : OpenSource(k)
Server ==
    \/ \E l \in Loads : AnswerLoad(l)
    \/ \E k \in Conns : OnOpen(k) \/ OnMessage(k) \/ OnEnd(k) \/ Work(k)

FeedNext ==
    \/ Browser \/ Server \/ Deselect \/ Unmount
    \/ \E l \in Loads : FailLoad(l)
    \/ \E k \in Conns : TicketFails(k)
    \/ \E p \in Projects : Select(p)
    \/ ((\E e \in Events : AppendEvent(e)) \/ Revoke) /\ UNCHANGED <<view, refs, load>>

FeedSpec == FeedInit /\ [][FeedNext]_feedVars

(***************************************************************************)
(* What is promised                                                        *)
(***************************************************************************)
\* Every variable has its type, the list has no repeats although the server sends
\* rows again, and the EventSource the feed knows of is one that is not closed.
FeedTypeOK ==
    /\ selected \in Projects \cup {None} /\ {mounted, loaded, mixed} \subseteq BOOLEAN
    /\ mounted => selected # None
    /\ Len(events) <= MaxEvents /\ \A i \in DOMAIN events : events[i] \in Set(done)
    /\ \A i, j \in DOMAIN events : events[i] = events[j] => i = j
    /\ lastEvent \in Ids \cup {None}
    /\ current # None => Live(current)
    /\ polling \in Projects \cup {None}
    /\ \A l \in Loads : load[l].pc \in {"idle", "sent", "answered"}
    /\ selects \in 0 .. MaxSelects

\* "Activity feed for the currently selected project": what it shows, and where it
\* gets more from, is of that project, unless another was picked while a load, a
\* ticket or an EventSource the feed has lost sight of was under way.
OfSelected(p) == p \in {selected, None}
ShowsSelectedUnlessMixed ==
    (mounted /\ ~mixed) =>
        /\ loaded => \A i \in DOMAIN events : OfSelected(Project[events[i]])
        /\ OfSelected(polling)
        /\ \A k \in Conns : Live(k) => OfSelected(ticket[k].project)

\* "fall back to polling so the user still gets updates instead of a stuck
\* connecting indicator": with nothing under way there is a stream or a timer.
SomeChannel ==
    \/ ~mounted \/ polling # None
    \/ \E k \in Conns : Live(k) \/ pc[k] = "ticket"
    \/ \E l \in Loads : load[l].opens
==============================================================================
