----------------------------- MODULE TaskLedger -----------------------------
(***************************************************************************)
(* What the task verbs promise a client that retries: an operation takes   *)
(* effect in one step, which appends its event (and those of the rules it  *)
(* sets off) to the history of one task, moves the task's version with it  *)
(* and leaves a receipt; whoever is told of success is told the place of   *)
(* that event; and while the receipt is kept, expired or not, the          *)
(* operation takes no effect again.                                        *)
(***************************************************************************)
EXTENDS Integers, Sequences

CONSTANTS
    Tasks, Ops,
    External,   \* the operation of an event no client asked for
    None        \* no receipt

VARIABLES
    history,    \* per task: the operation of each of its events
    version,    \* per task: its version, 0 if there is no task
    receipt,    \* per operation: where it took effect, and whether it is live
    told        \* every success a client was told of: <<operation, place>>

lvars == <<history, version, receipt, told>>

Init ==
    /\ history \in [Tasks -> {<<>>, <<External>>}]
    /\ version = [t \in Tasks |-> Len(history[t])]
    /\ receipt = [o \in Ops |-> None]
    /\ told = {}

\* new is old, then the event of o, then events no client asked for.
Appends(old, new, o) ==
    /\ Len(new) > Len(old)
    /\ \A i \in 1 .. Len(new) :
         new[i] = IF i <= Len(old) THEN old[i] ELSE IF i = Len(old) + 1 THEN o ELSE External

Apply(o, t) ==
    LET place == <<t, Len(history[t]) + 1>>
    IN  /\ receipt[o] = None
        /\ Appends(history[t], history'[t], o)
        /\ \A u \in Tasks \ {t} : history'[u] = history[u]
        /\ version' = [version EXCEPT ![t] = Len(history'[t])]
        /\ receipt' = [receipt EXCEPT ![o] = [place |-> place, live |-> TRUE]]
        /\ told' = told \cup {<<o, place>>}

Tell(o) ==
    /\ receipt[o] # None /\ receipt[o].live
    /\ told' = told \cup {<<o, receipt[o].place>>}
    /\ UNCHANGED <<history, version, receipt>>

Expire(o) ==
    /\ receipt[o] # None /\ receipt[o].live
    /\ receipt' = [receipt EXCEPT ![o].live = FALSE]
    /\ UNCHANGED <<history, version, told>>

Forget ==
    /\ receipt' = [o \in Ops |-> IF receipt[o] # None /\ ~receipt[o].live
                                 THEN None ELSE receipt[o]]
    /\ UNCHANGED <<history, version, told>>

Next ==
    \/ \E o \in Ops : (\E t \in Tasks : Apply(o, t)) \/ Tell(o) \/ Expire(o)
    \/ Forget

Spec == Init /\ [][Next]_lvars
============================================================================
