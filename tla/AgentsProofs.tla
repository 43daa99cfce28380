---------------------------- MODULE AgentsProofs ----------------------------
(***************************************************************************)
(* Theorems about Agents, for every environment, set of calls and clock:   *)
(* its types, that an agent is inactive for good, that the job takes only  *)
(* the silent, and what a boot leaves behind.                              *)
(***************************************************************************)
EXTENDS Agents, FiniteSetTheorems, SequenceTheorems, TLAPS

(***************************************************************************)
(* The inductive invariant.  A row that is locked is the row of an agent   *)
(* as its holder has found it; a boot that is alone has settled the tokens *)
(* of the entries it is through with.                                      *)
(***************************************************************************)
ActorRows == [kind : Kinds, source : {"env", "db"}, state : {"active", "inactive"},
              made : Times, beat : Times \cup {None}, gone : Times \cup {None}]
TokenRows == [actor : Ids \cup {None}, source : {"env", "db", None}, active : BOOLEAN]
Answers == Refusals \cup BootFailures \cup {"none", "ok", "lost"}

Types ==
    /\ actors \in [Ids -> ActorRows \cup {NoActor}]
    /\ tokens \in [Hashes -> TokenRows]
    /\ lock \in [Ids -> Calls \cup {None}]
    /\ clock \in Times
    /\ pc \in [Calls -> Steps]
    /\ DOMAIN req = Calls /\ DOMAIN found = Calls /\ DOMAIN todo = Calls
    /\ now \in [Calls -> Times \cup {None}]
    /\ heard \in [Ids -> Times \cup {None}]
    /\ alone \in [Calls -> BOOLEAN]
    /\ answer \in [Calls -> Answers]

\* The row of an actor: its two marks of the end agree, and a heartbeat that was
\* answered has left its time.
RowIsSound(a) ==
    /\ Exists(a) => (actors[a].state = "active" <=> actors[a].gone = None)
    /\ ~Exists(a) \/ actors[a].beat = None => heard[a] = None

TokensAreSound ==
    /\ \A h \in Hashes : tokens[h].active => tokens[h].actor \in Ids /\ Exists(tokens[h].actor)
    /\ \A h, i \in Hashes : (tokens[h].active /\ tokens[i].active
                               /\ tokens[h].actor = tokens[i].actor) => h = i

\* The steps of a verb.
Beating(c) == req[c] \in Heartbeat /\ pc[c] \in {"lock", "commit"} /\ now[c] \in Times
Stopping(c) == /\ req[c] \in Deactivate
               /\ pc[c] \in {"check", "target", "lock", "record", "commit", "recheck"}
               /\ pc[c] \in {"lock", "record", "commit"} => now[c] \in Times
Expiring(c) == req[c] \in Expire /\ pc[c] \in {"scan", "expireRow", "expired"} /\ now[c] \in Times
IsBooting(c) == Boots(req[c]) /\ pc[c] \in {"upsert", "token", "revoke", "insert"}

OfItsVerb(c) ==
    /\ InFlight(c) => /\ req[c] \in Requests[c]
                      /\ Beating(c) \/ Stopping(c) \/ Expiring(c) \/ IsBooting(c)
    /\ pc[c] \notin {"answered", "recheck"} => answer[c] = "none"

\* Whose row a call holds, and what it knows of it.
Holds(c, a) ==
    /\ InFlight(c) /\ Exists(a) /\ actors[a].kind = "agent"
    /\ \/ Verb(c) \in {"heartbeat", "deactivate"} /\ a = Actor(c) /\ pc[c] \in {"record", "commit"}
       \/ Verb(c) = "expire" /\ pc[c] \in {"expireRow", "expired"} /\ Stale(a, Cutoff(c))

KnowsItsRows(c) ==
    /\ \A a \in Ids : lock[a] = c => Holds(c, a)
    /\ pc[c] \in {"record", "commit"} =>
          /\ lock[Actor(c)] = c /\ found[c] = actors[Actor(c)].state
          /\ Verb(c) = "heartbeat" => found[c] = "active"

\* t is how the list s ends.
Remains(t, s) ==
    Len(t) <= Len(s) /\ \A i \in 1 .. Len(t) : t[i] = s[(Len(s) - Len(t)) + i]

\* How many entries of its environment a boot is through with.
Through(c) == Len(req[c].env) - Len(todo[c])
Settled(e) == tokens[e.hash].active \/ tokens[e.hash].actor # e.actor

KnowsItsEntries(c) ==
    IsBooting(c) =>
        /\ todo[c] \in Seq(Entry) /\ Remains(todo[c], req[c].env)
        /\ pc[c] \in {"token", "revoke", "insert"} => todo[c] # <<>> /\ Exists(Head(todo[c]).actor)
        /\ alone[c] => /\ \A i \in 1 .. Through(c) : Settled(req[c].env[i])
                       /\ \A d \in Calls \ {c} : ~IsBooting(d)

IInv ==
    /\ Types
    /\ \A a \in Ids : RowIsSound(a)
    /\ TokensAreSound
    /\ \A c \in Calls : OfItsVerb(c) /\ KnowsItsRows(c) /\ KnowsItsEntries(c)

(***************************************************************************)
(* Facts about the shapes                                                  *)
(***************************************************************************)

LEMMA RequestShape ==
  /\ \A q \in Heartbeat : q.verb = "heartbeat" /\ q.caller \in Ids /\ q.actor \in Ids
  /\ \A q \in Deactivate : /\ q.verb = "deactivate" /\ q.caller \in Ids /\ q.actor \in Ids
                           /\ q.op \in Ops
  /\ \A q \in Expire : q.verb = "expire"
  BY DEF Heartbeat, Deactivate, Expire

LEMMA RowShape == \A r \in ActorRows : r # NoActor /\ r.kind \in Kinds
  BY AgentsAssumption DEF ActorRows, NoActor

\* The verb of a call in flight, told from its step.
LEMMA VerbOfStep ==
  ASSUME IInv, NEW c \in Calls
  PROVE  /\ pc[c] \in {"check", "target", "record", "recheck"} => Stopping(c)
         /\ pc[c] \in {"lock", "commit"} => Beating(c) \/ Stopping(c)
         /\ pc[c] \in {"scan", "expireRow", "expired"} => Expiring(c)
         /\ pc[c] \in {"upsert", "token", "revoke", "insert"} => IsBooting(c)
         /\ Beating(c) => Verb(c) = "heartbeat" /\ Actor(c) \in Ids
         /\ Stopping(c) => Verb(c) = "deactivate" /\ Actor(c) \in Ids
         /\ Expiring(c) => Verb(c) = "expire"
         /\ IsBooting(c) => Verb(c) = "boot"
         /\ InFlight(c) => Verb(c) \in {"heartbeat", "deactivate", "expire", "boot"}
  <1>1. /\ Beating(c) => Verb(c) = "heartbeat" /\ Actor(c) \in Ids
        /\ Stopping(c) => Verb(c) = "deactivate" /\ Actor(c) \in Ids
        /\ Expiring(c) => Verb(c) = "expire"
        /\ IsBooting(c) => Verb(c) = "boot"
    BY RequestShape DEF Beating, Stopping, Expiring, IsBooting, Boots, Verb, Actor
  <1>2. InFlight(c) => Beating(c) \/ Stopping(c) \/ Expiring(c) \/ IsBooting(c)
    BY DEF IInv, OfItsVerb
  <1>3. pc[c] \notin {"idle", "answered"} => InFlight(c)
    BY DEF InFlight
  <1> QED BY <1>1, <1>2, <1>3 DEF Beating, Stopping, Expiring, IsBooting

LEMMA InitEstablishesIInv == Init => IInv
  <1> SUFFICES ASSUME Init PROVE IInv
    OBVIOUS
  <1> USE DEF Init
  <1>1. Types
    <2>1. actors \in [Ids -> ActorRows \cup {NoActor}]
      BY AgentsAssumption DEF ActorRows, NewActor, Times
    <2>2. tokens \in [Hashes -> TokenRows]
      BY AgentsAssumption DEF TokenRows, NoToken
    <2> QED BY <2>1, <2>2, AgentsAssumption DEF Types, Times, Steps, Answers
  <1>2. \A a \in Ids : RowIsSound(a)
    BY DEF RowIsSound, NewActor, Exists
  <1>3. TokensAreSound
    BY AgentsAssumption, RowShape DEF TokensAreSound, Exists, NoToken, NewActor, NoActor
  <1>4. \A c \in Calls : OfItsVerb(c) /\ KnowsItsRows(c) /\ KnowsItsEntries(c)
    BY AgentsAssumption DEF OfItsVerb, KnowsItsRows, KnowsItsEntries, InFlight, IsBooting
  <1> QED BY <1>1, <1>2, <1>3, <1>4 DEF IInv

(***************************************************************************)
(* What a step of one call leaves alone                                    *)
(***************************************************************************)

\* A step of c changes no row that another call has locked, and tokens only if c
\* boots; then it only has to be right for c and for the tables.
LEMMA StepOfOneCall ==
  ASSUME IInv, NEW c \in Calls, InFlight(c), UNCHANGED <<req, alone>>,
         \A d \in Calls \ {c} :
             /\ pc'[d] = pc[d] /\ now'[d] = now[d] /\ found'[d] = found[d]
             /\ todo'[d] = todo[d] /\ answer'[d] = answer[d],
         \A a \in Ids : lock'[a] # lock[a] => lock[a] \in {c, None} /\ lock'[a] \in {c, None},
         \A a \in Ids : actors'[a] # actors[a] => lock[a] \in {c, None},
         \A a \in Ids : Exists(a) => Exists(a)',
         tokens' = tokens \/ IsBooting(c),
         Types', \A a \in Ids : RowIsSound(a)', TokensAreSound',
         OfItsVerb(c)', KnowsItsRows(c)', KnowsItsEntries(c)'
  PROVE  IInv'
  <1> USE DEF IInv
  <1>1. ASSUME NEW d \in Calls \ {c}
        PROVE  OfItsVerb(d)'
    BY DEF OfItsVerb, InFlight, Beating, Stopping, Expiring, IsBooting
  <1>2. ASSUME NEW d \in Calls \ {c}
        PROVE  KnowsItsRows(d)'
    <2>1. \A a \in Ids : lock'[a] = d <=> lock[a] = d
      BY AgentsAssumption
    <2>2. \A a \in Ids : lock[a] = d => actors'[a] = actors[a]
      BY AgentsAssumption
    <2>3. ASSUME NEW a \in Ids, lock'[a] = d
          PROVE  Holds(d, a)'
      BY <2>1, <2>2, <2>3
         DEF KnowsItsRows, Holds, InFlight, Exists, Verb, Actor, Stale, Cutoff
    <2>4. ASSUME pc[d] \in {"record", "commit"}
          PROVE  Actor(d) \in Ids
      BY <2>4, VerbOfStep
    <2> QED BY <2>1, <2>2, <2>3, <2>4 DEF KnowsItsRows, Verb, Actor
  <1>3. ASSUME NEW d \in Calls \ {c}
        PROVE  KnowsItsEntries(d)'
    <2> SUFFICES ASSUME IsBooting(d)' PROVE KnowsItsEntries(d)'
      BY DEF KnowsItsEntries
    <2>1. IsBooting(d) /\ req' = req /\ todo'[d] = todo[d] /\ pc'[d] = pc[d] /\ Through(d)' = Through(d)
      BY DEF IsBooting, Through
    <2>2. ASSUME todo[d] # <<>>, Exists(Head(todo[d]).actor)
          PROVE  Exists(Head(todo[d]).actor)'
      <3>1. Head(todo[d]) \in Entry
        BY <2>1, <2>2 DEF KnowsItsEntries
      <3> QED BY <2>1, <2>2, <3>1 DEF Entry, Exists
    <2>3. ASSUME alone[d]
          PROVE  tokens' = tokens /\ \A e \in Calls \ {d} : ~IsBooting(e)'
      <3>1. \A e \in Calls \ {d} : ~IsBooting(e)
        BY <2>1, <2>3 DEF KnowsItsEntries
      <3>2. IsBooting(c)' => IsBooting(c)
        BY VerbOfStep DEF IsBooting, Beating, Stopping, Expiring, Verb, Boots, OfItsVerb
      <3> QED BY <3>1, <3>2 DEF IsBooting
    <2> QED BY <2>1, <2>2, <2>3 DEF KnowsItsEntries, Settled
  <1> QED BY <1>1, <1>2, <1>3

\* The same for a step that writes no table: it takes and gives up locks.
LEMMA QuietStep ==
  ASSUME IInv, NEW c \in Calls, InFlight(c), UNCHANGED <<tables, clock, req, heard, alone>>,
         NEW to \in Steps, pc' = [pc EXCEPT ![c] = to],
         now' \in [Calls -> Times \cup {None}], answer' \in [Calls -> Answers],
         DOMAIN found' = Calls, DOMAIN todo' = Calls,
         \A d \in Calls \ {c} : /\ now'[d] = now[d] /\ found'[d] = found[d]
                                /\ todo'[d] = todo[d] /\ answer'[d] = answer[d],
         lock' \in [Ids -> Calls \cup {None}],
         \A a \in Ids : lock'[a] # lock[a] => lock[a] \in {c, None} /\ lock'[a] \in {c, None},
         OfItsVerb(c)', KnowsItsRows(c)', KnowsItsEntries(c)'
  PROVE  IInv'
  <1>1. Types'
    BY DEF IInv, Types, tables
  <1>2. /\ \A a \in Ids : RowIsSound(a)'
        /\ TokensAreSound'
        /\ \A a \in Ids : Exists(a) => Exists(a)'
    BY DEF IInv, RowIsSound, TokensAreSound, Exists, tables
  <1>3. \A d \in Calls \ {c} : pc'[d] = pc[d]
    BY DEF IInv, Types
  <1> QED BY <1>1, <1>2, <1>3, StepOfOneCall DEF tables

\* A call that ends, or whose transaction is rolled back, gives up its rows.
LEMMA EndKeepsIInv ==
  ASSUME IInv, NEW c \in Calls, InFlight(c), UNCHANGED <<tables, clock, req, heard, alone>>,
         NEW to \in {"answered", "recheck"}, to = "recheck" => Stopping(c),
         NEW ans \in Answers,
         pc' = [pc EXCEPT ![c] = to], answer' = [answer EXCEPT ![c] = ans],
         now' \in [Calls -> Times \cup {None}],
         DOMAIN found' = Calls, DOMAIN todo' = Calls,
         \A d \in Calls \ {c} : now'[d] = now[d] /\ found'[d] = found[d] /\ todo'[d] = todo[d],
         Release(c)
  PROVE  IInv'
  <1>1. /\ lock' \in [Ids -> Calls \cup {None}]
        /\ \A a \in Ids : lock'[a] # c
        /\ \A a \in Ids : lock'[a] # lock[a] => lock[a] \in {c, None} /\ lock'[a] \in {c, None}
    BY AgentsAssumption DEF Release, IInv, Types
  <1>2. pc'[c] = to /\ to \in Steps
    BY DEF IInv, Types, Steps
  <1>3. OfItsVerb(c)'
    BY <1>2 DEF IInv, OfItsVerb, InFlight, Stopping
  <1>4. KnowsItsRows(c)' /\ KnowsItsEntries(c)'
    BY <1>1, <1>2 DEF KnowsItsRows, KnowsItsEntries, IsBooting
  <1>5. answer' \in [Calls -> Answers] /\ \A d \in Calls \ {c} : answer'[d] = answer[d]
    BY DEF IInv, Types
  <1> QED BY <1>1, <1>2, <1>3, <1>4, <1>5, QuietStep

\* What every call is left with that is not c, when c answers.
LEMMA AnswerShape ==
  ASSUME IInv, NEW c \in Calls, NEW ans \in Answers, Answer(c, ans)
  PROVE  /\ pc' = [pc EXCEPT ![c] = "answered"] /\ answer' = [answer EXCEPT ![c] = ans]
         /\ now' \in [Calls -> Times \cup {None}]
         /\ DOMAIN found' = Calls /\ DOMAIN todo' = Calls
         /\ \A d \in Calls \ {c} :
               now'[d] = now[d] /\ found'[d] = found[d] /\ todo'[d] = todo[d]
         /\ UNCHANGED <<clock, req, alone>> /\ Release(c)
  BY DEF Answer, IInv, Types

LEMMA RefuseKeepsIInv ==
  ASSUME IInv, NEW c \in Calls, InFlight(c), NEW err \in Answers, Refuse(c, err)
  PROVE  IInv'
  BY AnswerShape, EndKeepsIInv DEF Refuse

LEMMA AbortKeepsIInv ==
  ASSUME IInv, NEW c \in Calls, Beating(c) \/ Stopping(c), NEW err \in Answers, Abort(c, err)
  PROVE  IInv'
  <1>1. InFlight(c) /\ (Verb(c) # "heartbeat" => Stopping(c))
    BY VerbOfStep DEF Beating, Stopping, InFlight
  <1>2. PICK to \in {"answered", "recheck"} :
           (to = "recheck" => Stopping(c)) /\ pc' = [pc EXCEPT ![c] = to]
    BY <1>1 DEF Abort
  <1>3. now' \in [Calls -> Times \cup {None}] /\ DOMAIN found' = Calls /\ DOMAIN todo' = Calls
    BY DEF Abort, IInv, Types, locals
  <1> QED BY <1>1, <1>2, <1>3, EndKeepsIInv DEF Abort, locals

LEMMA ReceiptStepKeepsIInv ==
  ASSUME IInv, NEW c \in Calls, InFlight(c), AnswerFromReceipt(c)
  PROVE  IInv'
  BY RefuseKeepsIInv DEF AnswerFromReceipt, Answers, Refusals

\* c goes on with the rows it has.
LEMMA GoKeepsIInv ==
  ASSUME IInv, NEW c \in Calls, InFlight(c), NEW to \in Steps, Go(c, to), UNCHANGED tables,
         OfItsVerb(c)', KnowsItsRows(c)', KnowsItsEntries(c)'
  PROVE  IInv'
  <1>1. UNCHANGED <<tables, clock, req, heard, alone, lock, now, found, todo, answer>>
        /\ pc' = [pc EXCEPT ![c] = to]
    BY DEF Go, locals
  <1> QED BY <1>1, QuietStep DEF IInv, Types

(***************************************************************************)
(* Arrival                                                                 *)
(***************************************************************************)

\* What arrives is of one of the four kinds, and at its first step.
LEMMA Arrival ==
  ASSUME IInv, NEW c \in Calls, NEW q \in Requests[c], Submit(c, q)
  PROVE  /\ pc[c] = "idle" /\ pc'[c] = FirstStep(q) /\ req'[c] = q /\ FirstStep(q) \in Steps
         /\ \/ pc'[c] = "answered"
            \/ q \in Heartbeat /\ pc'[c] = "lock" /\ now'[c] = clock /\ answer'[c] = answer[c]
            \/ q \in Deactivate /\ pc'[c] = "check" /\ answer'[c] = answer[c]
            \/ q \in Expire /\ pc'[c] = "scan" /\ now'[c] = clock /\ answer'[c] = answer[c]
            \/ Boots(q) /\ pc'[c] = "upsert" /\ todo'[c] = q.env /\ answer'[c] = answer[c]
  <1>1. q \in Heartbeat \cup Deactivate \cup Expire \/ Boots(q)
    BY AgentsAssumption
  <1>2. /\ pc[c] = "idle" /\ pc'[c] = FirstStep(q) /\ req'[c] = q
        /\ now'[c] = IF q.verb \in {"heartbeat", "expire"} THEN clock ELSE None
        /\ answer'[c] = IF Forbidden(q) THEN "forbidden" ELSE answer[c]
        /\ todo'[c] = IF q.verb = "boot" THEN q.env ELSE <<>>
    BY DEF Submit, IInv, Types
  <1>3. CASE Forbidden(q)
    BY <1>2, <1>3 DEF FirstStep, Steps
  <1>4. CASE ~Forbidden(q) /\ q \in Heartbeat
    BY <1>2, <1>4, RequestShape DEF FirstStep, Steps
  <1>5. CASE ~Forbidden(q) /\ q \in Deactivate
    BY <1>2, <1>5, RequestShape DEF FirstStep, Steps
  <1>6. CASE ~Forbidden(q) /\ q \in Expire
    BY <1>2, <1>6, RequestShape DEF FirstStep, Steps
  <1>7. CASE ~Forbidden(q) /\ Boots(q)
    BY <1>2, <1>7 DEF FirstStep, Steps, Boots
  <1> QED BY <1>1, <1>3, <1>4, <1>5, <1>6, <1>7

LEMMA SubmitKeepsIInv ==
  ASSUME IInv, NEW c \in Calls, NEW q \in Requests[c], Submit(c, q)
  PROVE  IInv'
  <1> USE DEF IInv
  <1>1. /\ pc[c] = "idle" /\ pc' = [pc EXCEPT ![c] = FirstStep(q)] /\ req' = [req EXCEPT ![c] = q]
        /\ FirstStep(q) \in Steps
        /\ UNCHANGED <<actors, tokens, receipts, lock, clock, found, heard>>
    BY Arrival DEF Submit, tables
  <1>2. /\ now' \in [Calls -> Times \cup {None}] /\ DOMAIN todo' = Calls
        /\ answer' \in [Calls -> Answers] /\ alone' \in [Calls -> BOOLEAN]
        /\ \A d \in Calls \ {c} :
              now'[d] = now[d] /\ todo'[d] = todo[d] /\ answer'[d] = answer[d]
    BY DEF Submit, Types, Answers, Refusals
  <1>3. Types' /\ (\A a \in Ids : RowIsSound(a)') /\ TokensAreSound'
    BY <1>1, <1>2 DEF Types, RowIsSound, TokensAreSound, Exists
  <1>4. ASSUME NEW d \in Calls \ {c}
        PROVE  OfItsVerb(d)' /\ KnowsItsRows(d)'
    <2>1. pc'[d] = pc[d] /\ req'[d] = req[d]
      BY <1>1 DEF Types
    <2>2. OfItsVerb(d)'
      BY <1>2, <2>1 DEF OfItsVerb, InFlight, Beating, Stopping, Expiring, IsBooting
    <2>3. KnowsItsRows(d)'
      BY <1>1, <1>2, <2>1
         DEF KnowsItsRows, Holds, InFlight, Exists, Verb, Actor, Stale, Cutoff
    <2> QED BY <2>2, <2>3
  <1>5. OfItsVerb(c)'
    <2>1. answer[c] = "none" /\ clock \in Times
      BY <1>1 DEF OfItsVerb, Types
    <2> QED BY <1>1, <2>1, Arrival
            DEF OfItsVerb, InFlight, Beating, Stopping, Expiring, IsBooting
  <1>6. KnowsItsRows(c)'
    <2>1. \A a \in Ids : lock[a] # c
      BY <1>1 DEF KnowsItsRows, Holds, InFlight
    <2>2. pc'[c] \notin {"record", "commit"}
      BY Arrival
    <2> QED BY <1>1, <2>1, <2>2 DEF KnowsItsRows
  <1>7. ASSUME NEW d \in Calls, IsBooting(d), alone'[d]
        PROVE  alone[d] /\ ~IsBooting(c)'
    <2>1. d \in Booting /\ d # c
      BY <1>1, <1>7, VerbOfStep DEF Booting, InFlight, IsBooting
    <2>2. q.verb # "boot" /\ alone' = alone
      BY <1>7, <2>1 DEF Submit, Types
    <2> QED BY <1>1, <1>7, <2>2 DEF IsBooting, Boots, Types
  <1>8. ASSUME NEW d \in Calls \ {c}
        PROVE  KnowsItsEntries(d)'
    <2> SUFFICES ASSUME IsBooting(d)' PROVE KnowsItsEntries(d)'
      BY DEF KnowsItsEntries
    <2>1. /\ pc'[d] = pc[d] /\ req'[d] = req[d] /\ todo'[d] = todo[d] /\ IsBooting(d)
          /\ Through(d)' = Through(d)
      BY <1>1, <1>2 DEF Types, IsBooting, Through
    <2>2. alone'[d] => alone[d] /\ \A e \in Calls \ {d} : ~IsBooting(e)'
      <3> SUFFICES ASSUME alone'[d], NEW e \in Calls \ {d}, alone[d] PROVE ~IsBooting(e)'
        BY <1>7, <2>1
      <3>1. CASE e = c
        BY <1>7, <2>1, <3>1
      <3>2. CASE e # c
        <4>1. ~IsBooting(e)
          BY <2>1 DEF KnowsItsEntries
        <4> QED BY <1>1, <3>2, <4>1 DEF IsBooting, Types
      <3> QED BY <3>1, <3>2
    <2> QED BY <1>1, <2>1, <2>2 DEF KnowsItsEntries, Settled, Exists
  <1>9. KnowsItsEntries(c)'
    <2> SUFFICES ASSUME IsBooting(c)' PROVE KnowsItsEntries(c)'
      BY DEF KnowsItsEntries
    <2>1. pc'[c] = "upsert" /\ todo'[c] = q.env /\ req'[c] = q /\ q.env \in Seq(Entry)
      BY Arrival, RequestShape DEF IsBooting, Boots
    <2>2. Through(c)' = 0 /\ Remains(q.env, q.env)
      BY <2>1 DEF Through, Remains
    <2>3. alone'[c] => \A d \in Calls \ {c} : ~IsBooting(d)'
      <3> SUFFICES ASSUME alone'[c], NEW d \in Calls \ {c}, IsBooting(d)' PROVE FALSE
        OBVIOUS
      <3>1. q.verb = "boot" /\ alone'[c] = (Booting = {})
        BY <2>1 DEF Submit, Types, IsBooting, Boots
      <3>2. d \in Booting
        BY <1>1, VerbOfStep DEF Booting, IsBooting, InFlight, Types
      <3> QED BY <3>1, <3>2
    <2> QED BY <2>1, <2>2, <2>3 DEF KnowsItsEntries
  <1> QED BY <1>3, <1>4, <1>5, <1>6, <1>8, <1>9

(***************************************************************************)
(* The steps that write no table                                           *)
(***************************************************************************)

LEMMA CheckKeepsIInv ==
  ASSUME IInv, NEW c \in Calls, Check(c)
  PROVE  IInv'
  <1>1. pc[c] = "check" /\ Stopping(c) /\ InFlight(c)
    BY VerbOfStep DEF Check, InFlight
  <1>2. CASE AnswerFromReceipt(c)
    BY <1>1, <1>2, ReceiptStepKeepsIInv
  <1>3. CASE Go(c, "target") /\ UNCHANGED tables
    <2>1. /\ pc'[c] = "target" /\ answer' = answer /\ now' = now /\ req' = req /\ lock' = lock
          /\ answer[c] = "none" /\ req[c] \in Requests[c]
      BY <1>1, <1>3 DEF Go, IInv, Types, OfItsVerb, locals
    <2>2. OfItsVerb(c)' /\ KnowsItsEntries(c)'
      BY <1>1, <2>1 DEF OfItsVerb, InFlight, Stopping, KnowsItsEntries, IsBooting
    <2>3. KnowsItsRows(c)'
      BY <1>1, <2>1, VerbOfStep DEF IInv, KnowsItsRows, Holds
    <2> QED BY <1>1, <1>3, <2>2, <2>3, GoKeepsIInv DEF Steps
  <1> QED BY <1>2, <1>3 DEF Check

LEMMA RecheckKeepsIInv ==
  ASSUME IInv, NEW c \in Calls, Recheck(c)
  PROVE  IInv'
  <1>1. InFlight(c) /\ answer[c] \in Answers
    BY DEF Recheck, InFlight, IInv, Types
  <1> QED BY <1>1, ReceiptStepKeepsIInv, RefuseKeepsIInv DEF Recheck

LEMMA ReadTargetKeepsIInv ==
  ASSUME IInv, NEW c \in Calls, ReadTarget(c)
  PROVE  IInv'
  <1>1. pc[c] = "target" /\ Stopping(c) /\ InFlight(c)
    BY VerbOfStep DEF ReadTarget, InFlight
  <1>2. CASE Refuse(c, "notFound")
    BY <1>1, <1>2, RefuseKeepsIInv DEF Answers, Refusals
  <1>3. CASE /\ now' = [now EXCEPT ![c] = clock] /\ pc' = [pc EXCEPT ![c] = "lock"]
             /\ UNCHANGED <<tables, lock, clock, req, found, todo, heard, alone, answer>>
    <2>1. /\ pc'[c] = "lock" /\ now'[c] \in Times /\ answer'[c] = "none"
          /\ req' = req /\ req[c] \in Requests[c] /\ now' \in [Calls -> Times \cup {None}]
      BY <1>1, <1>3 DEF IInv, Types, OfItsVerb
    <2>2. OfItsVerb(c)' /\ KnowsItsEntries(c)'
      BY <1>1, <2>1 DEF OfItsVerb, InFlight, Stopping, KnowsItsEntries, IsBooting
    <2>3. KnowsItsRows(c)'
      BY <1>1, <1>3, <2>1, VerbOfStep DEF IInv, KnowsItsRows, Holds
    <2>4. "lock" \in Steps
      BY DEF Steps
    <2> QED BY <1>1, <1>3, <2>1, <2>2, <2>3, <2>4, QuietStep DEF IInv, Types
  <1> QED BY <1>2, <1>3 DEF ReadTarget

\* SELECT ... FOR UPDATE goes past a row only that nobody else holds.
LEMMA FreeRow ==
  ASSUME IInv, NEW c \in Calls, Free(c), NEW a \in Row(c), a \in Ids
  PROVE  lock[a] \in {c, None}
  BY DEF Free, Blockers

LEMMA LockActorKeepsIInv ==
  ASSUME IInv, NEW c \in Calls, LockActor(c)
  PROVE  IInv'
  <1> DEFINE a == actors[Actor(c)]
             to == IF Verb(c) = "heartbeat" THEN "commit" ELSE "record"
  <1>1. pc[c] = "lock" /\ InFlight(c) /\ (Beating(c) \/ Stopping(c)) /\ Actor(c) \in Ids
    BY VerbOfStep DEF LockActor, InFlight
  <1>2. lock[Actor(c)] \in {c, None}
    BY <1>1, FreeRow DEF LockActor, Row
  <1>3. CASE \E err \in {"kindNotAgent", "invalidTransition"} : Abort(c, err)
    BY <1>1, <1>3, AbortKeepsIInv DEF Answers, Refusals
  <1>4. CASE /\ a.kind = "agent" /\ (Verb(c) = "heartbeat" => a.state = "active")
             /\ lock' = [lock EXCEPT ![Actor(c)] = c] /\ found' = [found EXCEPT ![c] = a.state]
             /\ pc' = [pc EXCEPT ![c] = to]
             /\ UNCHANGED <<tables, clock, req, now, todo, heard, alone, answer>>
    <2>1. /\ pc'[c] = to /\ to \in Steps /\ answer'[c] = "none" /\ req[c] \in Requests[c]
          /\ found'[c] = a.state /\ DOMAIN found' = Calls
          /\ \A d \in Calls \ {c} : found'[d] = found[d]
      BY <1>1, <1>4 DEF IInv, Types, OfItsVerb, Steps
    <2>2. OfItsVerb(c)' /\ KnowsItsEntries(c)'
      BY <1>1, <1>4, <2>1, VerbOfStep
         DEF OfItsVerb, InFlight, Beating, Stopping, KnowsItsEntries, IsBooting
    <2>3. lock' \in [Ids -> Calls \cup {None}] /\ lock'[Actor(c)] = c
          /\ \A b \in Ids : b # Actor(c) => lock'[b] = lock[b] /\ lock[b] # c
      BY <1>1, <1>4, VerbOfStep DEF IInv, Types, KnowsItsRows, Holds
    <2>4. Exists(Actor(c))
      BY <1>1, <1>4, AgentsAssumption DEF Exists, NoActor, Kinds
    <2>5. Verb(c) \in {"heartbeat", "deactivate"} /\ Verb(c)' = Verb(c) /\ Actor(c)' = Actor(c)
          /\ actors' = actors /\ pc'[c] \in {"record", "commit"}
      BY <1>1, <1>4, <2>1, VerbOfStep DEF Verb, Actor, tables
    <2>6. Holds(c, Actor(c))'
      BY <1>4, <2>4, <2>5 DEF Holds, InFlight, Exists
    <2>7. KnowsItsRows(c)'
      BY <1>4, <2>1, <2>3, <2>5, <2>6 DEF KnowsItsRows
    <2>8. \A b \in Ids : lock'[b] # lock[b] => lock[b] \in {c, None} /\ lock'[b] \in {c, None}
      BY <1>2, <2>3
    <2> HIDE DEF a, to
    <2> QED BY <1>1, <1>4, <2>1, <2>2, <2>3, <2>7, <2>8, QuietStep DEF IInv, Types
  <1> QED BY <1>3, <1>4 DEF LockActor

LEMMA RecordKeepsIInv ==
  ASSUME IInv, NEW c \in Calls, Record(c)
  PROVE  IInv'
  <1>1. pc[c] = "record" /\ Stopping(c) /\ InFlight(c)
    BY VerbOfStep DEF Record, InFlight
  <1>2. CASE Abort(c, "operationExists")
    BY <1>1, <1>2, AbortKeepsIInv DEF Answers, Refusals
  <1>3. CASE Go(c, "commit") /\ UNCHANGED tables
    <2>1. /\ pc'[c] = "commit" /\ answer' = answer /\ answer[c] = "none" /\ req[c] \in Requests[c]
          /\ UNCHANGED <<tables, lock, now, req, found>>
      BY <1>1, <1>3 DEF Go, IInv, Types, OfItsVerb, locals
    <2>2. OfItsVerb(c)' /\ KnowsItsEntries(c)'
      BY <1>1, <2>1 DEF OfItsVerb, InFlight, Stopping, KnowsItsEntries, IsBooting
    <2>3. KnowsItsRows(c)'
      BY <1>1, <2>1, VerbOfStep
         DEF IInv, KnowsItsRows, Holds, InFlight, Exists, Verb, Actor, tables
    <2> QED BY <1>1, <1>3, <2>2, <2>3, GoKeepsIInv DEF Steps
  <1> QED BY <1>2, <1>3 DEF Record

LEMMA ScanStaleKeepsIInv ==
  ASSUME IInv, NEW c \in Calls, ScanStale(c)
  PROVE  IInv'
  <1>1. pc[c] = "scan" /\ Expiring(c) /\ InFlight(c)
    BY VerbOfStep DEF ScanStale, InFlight
  <1>2. PICK to \in {"expired", "expireRow"} : pc' = [pc EXCEPT ![c] = to]
    BY DEF ScanStale
  <1>3. /\ UNCHANGED <<tables, lock, clock, req, now, found, heard, alone, answer>>
        /\ DOMAIN todo' = Calls /\ \A d \in Calls \ {c} : todo'[d] = todo[d]
    BY DEF ScanStale, IInv, Types
  <1>4. /\ pc'[c] = to /\ to \in Steps /\ answer'[c] = "none" /\ req[c] \in Requests[c]
    BY <1>1, <1>2, <1>3 DEF IInv, Types, OfItsVerb, Steps
  <1>5. OfItsVerb(c)' /\ KnowsItsEntries(c)'
    BY <1>1, <1>3, <1>4, VerbOfStep
       DEF OfItsVerb, InFlight, Expiring, KnowsItsEntries, IsBooting, Boots, Verb
  <1>6. KnowsItsRows(c)'
    BY <1>1, <1>3, <1>4, VerbOfStep DEF IInv, KnowsItsRows, Holds
  <1> QED BY <1>1, <1>2, <1>3, <1>4, <1>5, <1>6, QuietStep DEF IInv, Types

\* The UPDATE takes a row it has waited for as it is now, and only then holds it.
LEMMA LockStaleKeepsIInv ==
  ASSUME IInv, NEW c \in Calls, LockStale(c)
  PROVE  IInv'
  <1> DEFINE a == Head(todo[c])
  <1>1. pc[c] = "expireRow" /\ Expiring(c) /\ InFlight(c) /\ Verb(c) = "expire"
    BY VerbOfStep DEF LockStale, InFlight
  <1>2. PICK to \in {"expired", "expireRow"} : pc' = [pc EXCEPT ![c] = to]
    BY DEF LockStale
  <1>3. /\ UNCHANGED <<tables, clock, req, now, found, heard, alone, answer>>
        /\ DOMAIN todo' = Calls /\ \A d \in Calls \ {c} : todo'[d] = todo[d]
    BY DEF LockStale, IInv, Types
  <1>4. /\ pc'[c] = to /\ to \in Steps /\ answer'[c] = "none" /\ req[c] \in Requests[c]
    BY <1>1, <1>2, <1>3 DEF IInv, Types, OfItsVerb, Steps
  <1>5. OfItsVerb(c)' /\ KnowsItsEntries(c)'
    BY <1>1, <1>3, <1>4
       DEF OfItsVerb, InFlight, Expiring, KnowsItsEntries, IsBooting, Boots, Verb
  <1>6. /\ lock' \in [Ids -> Calls \cup {None}]
        /\ \A b \in Ids : lock'[b] # lock[b] => b = a /\ lock'[b] = c /\ Stale(b, Cutoff(c))
    BY DEF LockStale, IInv, Types, StillStale
  <1>7. a \in Ids => lock[a] \in {c, None}
    BY <1>1, FreeRow DEF LockStale, Row
  <1>8. ASSUME NEW b \in Ids, lock'[b] = c
        PROVE  Holds(c, b)'
    <2>1. Exists(b) /\ actors[b].kind = "agent" /\ Stale(b, Cutoff(c))
      <3>1. CASE lock[b] = c
        BY <1>1, <3>1 DEF IInv, KnowsItsRows, Holds
      <3>2. CASE lock[b] # c
        BY <1>6, <1>8, <3>2, AgentsAssumption DEF Stale, Exists, NoActor, Kinds
      <3> QED BY <3>1, <3>2
    <2> QED BY <1>1, <1>3, <1>4, <2>1 DEF Holds, InFlight, Exists, Verb, Stale, Cutoff, tables
  <1>9. KnowsItsRows(c)'
    BY <1>4, <1>8 DEF KnowsItsRows
  <1> HIDE DEF a
  <1> QED BY <1>1, <1>2, <1>3, <1>4, <1>5, <1>6, <1>7, <1>9, QuietStep DEF IInv, Types

(***************************************************************************)
(* The steps that write rows of actors                                     *)
(***************************************************************************)

\* A transaction that commits has written rows it holds, and gives them up.
LEMMA CommitKeepsIInv ==
  ASSUME IInv, NEW c \in Calls, InFlight(c), Answer(c, "ok"), UNCHANGED tokens,
         actors' \in [Ids -> ActorRows \cup {NoActor}], heard' \in [Ids -> Times \cup {None}],
         \A a \in Ids : actors'[a] # actors[a] => lock[a] = c,
         \A a \in Ids : Exists(a) => Exists(a)',
         \A a \in Ids : RowIsSound(a)'
  PROVE  IInv'
  <1>0. "ok" \in Answers
    BY DEF Answers
  <1>1. /\ lock' \in [Ids -> Calls \cup {None}]
        /\ \A a \in Ids : lock'[a] # c
        /\ \A a \in Ids : lock'[a] # lock[a] => lock[a] \in {c, None} /\ lock'[a] \in {c, None}
    BY AgentsAssumption DEF Answer, Release, IInv, Types
  <1>2. /\ pc' = [pc EXCEPT ![c] = "answered"] /\ answer' = [answer EXCEPT ![c] = "ok"]
        /\ now' \in [Calls -> Times \cup {None}] /\ DOMAIN found' = Calls /\ DOMAIN todo' = Calls
        /\ \A d \in Calls \ {c} :
              now'[d] = now[d] /\ found'[d] = found[d] /\ todo'[d] = todo[d]
        /\ UNCHANGED <<clock, req, alone>>
    BY <1>0, AnswerShape
  <1>3. pc'[c] = "answered" /\ \A d \in Calls \ {c} : pc'[d] = pc[d] /\ answer'[d] = answer[d]
    BY <1>2 DEF IInv, Types
  <1>4. Types'
    BY <1>0, <1>1, <1>2 DEF IInv, Types, Steps
  <1>5. TokensAreSound'
    BY DEF IInv, TokensAreSound
  <1>6. OfItsVerb(c)' /\ KnowsItsRows(c)' /\ KnowsItsEntries(c)'
    BY <1>1, <1>3 DEF OfItsVerb, InFlight, KnowsItsRows, KnowsItsEntries, IsBooting
  <1> QED BY <1>1, <1>2, <1>3, <1>4, <1>5, <1>6, StepOfOneCall

\* What the holder of a row knows of it.
LEMMA HeldRow ==
  ASSUME IInv, NEW a \in Ids, lock[a] # None
  PROVE  actors[a] \in ActorRows /\ actors[a].kind = "agent" /\ Exists(a)
  BY DEF IInv, Types, KnowsItsRows, Holds, Exists

LEMMA CommitHeartbeatKeepsIInv ==
  ASSUME IInv, NEW c \in Calls, CommitHeartbeat(c)
  PROVE  IInv'
  <1>1. InFlight(c) /\ Beating(c) /\ Actor(c) \in Ids /\ now[c] \in Times /\ now[c] # None
    BY VerbOfStep, AgentsAssumption DEF CommitHeartbeat, InFlight, Beating, Stopping, Times
  <1>2. lock[Actor(c)] = c /\ c # None
    BY AgentsAssumption DEF CommitHeartbeat, IInv, KnowsItsRows
  <1>3. actors[Actor(c)] \in ActorRows
    BY <1>1, <1>2, HeldRow
  <1> DEFINE r == [actors[Actor(c)] EXCEPT !.beat = now[c]]
  <1>4. /\ r \in ActorRows /\ r.beat = now[c]
        /\ r.state = actors[Actor(c)].state /\ r.gone = actors[Actor(c)].gone
    BY <1>1, <1>3 DEF ActorRows
  <1>5. actors' = [actors EXCEPT ![Actor(c)] = r]
    BY DEF CommitHeartbeat
  <1> HIDE DEF r
  <1>6. actors' \in [Ids -> ActorRows \cup {NoActor}]
    BY <1>4, <1>5 DEF IInv, Types
  <1>7. /\ heard' \in [Ids -> Times \cup {None}]
        /\ \A a \in Ids : a # Actor(c) => heard'[a] = heard[a]
    BY <1>1 DEF CommitHeartbeat, Later, IInv, Types
  <1>8. \A a \in Ids : a # Actor(c) => actors'[a] = actors[a]
    BY <1>5 DEF IInv, Types
  <1>9. actors'[Actor(c)] = r
    BY <1>1, <1>5 DEF IInv, Types
  <1>10. \A a \in Ids : RowIsSound(a)' /\ (Exists(a) => Exists(a)')
    <2>1. RowIsSound(Actor(c))' /\ Exists(Actor(c))'
      BY <1>1, <1>2, <1>4, <1>9, RowShape, HeldRow DEF IInv, RowIsSound, Exists, CommitHeartbeat,
              Answer, Actor
    <2>2. ASSUME NEW a \in Ids, a # Actor(c)
          PROVE  RowIsSound(a)' /\ (Exists(a) => Exists(a)')
      BY <1>7, <1>8, <2>2 DEF IInv, RowIsSound, Exists
    <2>3. Actor(c)' = Actor(c)
      BY DEF CommitHeartbeat, Answer, Actor
    <2> QED BY <2>1, <2>2, <2>3
  <1> QED BY <1>1, <1>2, <1>6, <1>7, <1>8, <1>10, CommitKeepsIInv DEF CommitHeartbeat

\* The row of an agent that was active and is deactivated.
LEMMA DeactivatedRow ==
  ASSUME NEW a \in Ids, actors[a] \in ActorRows, NEW time \in Times
  PROVE  /\ Deactivated(a, time) \in ActorRows
         /\ Deactivated(a, time).state = "inactive" /\ Deactivated(a, time).gone = time
         /\ Deactivated(a, time).beat = actors[a].beat /\ time # None
  <1>1. time # None
    BY AgentsAssumption DEF Times
  <1>2. Deactivated(a, time) = [actors[a] EXCEPT !.state = "inactive", !.gone = time]
    BY DEF Deactivated
  <1>3. Deactivated(a, time) \in ActorRows
    BY <1>2 DEF ActorRows
  <1> QED BY <1>1, <1>2, <1>3 DEF ActorRows

LEMMA CommitDeactivateKeepsIInv ==
  ASSUME IInv, NEW c \in Calls, CommitDeactivate(c)
  PROVE  IInv'
  <1>1. InFlight(c) /\ Stopping(c) /\ Actor(c) \in Ids /\ now[c] \in Times
    BY VerbOfStep DEF CommitDeactivate, InFlight, Beating, Stopping
  <1>2. lock[Actor(c)] = c /\ c # None
    BY AgentsAssumption DEF CommitDeactivate, IInv, KnowsItsRows
  <1>3. actors[Actor(c)] \in ActorRows
    BY <1>1, <1>2, HeldRow
  <1> DEFINE r == IF found[c] = "active" THEN Deactivated(Actor(c), now[c]) ELSE actors[Actor(c)]
  <1>4. /\ r \in ActorRows /\ r.beat = actors[Actor(c)].beat
        /\ r = actors[Actor(c)] \/ (r.state = "inactive" /\ r.gone # None)
    BY <1>1, <1>3, DeactivatedRow
  <1>5. actors' = [actors EXCEPT ![Actor(c)] = r]
    BY <1>1 DEF CommitDeactivate, IInv, Types
  <1> HIDE DEF r
  <1>6. actors' \in [Ids -> ActorRows \cup {NoActor}]
    BY <1>4, <1>5 DEF IInv, Types
  <1>7. heard' = heard
    BY DEF CommitDeactivate
  <1>8. \A a \in Ids : a # Actor(c) => actors'[a] = actors[a]
    BY <1>5 DEF IInv, Types
  <1>9. actors'[Actor(c)] = r
    BY <1>1, <1>5 DEF IInv, Types
  <1>10. ASSUME NEW a \in Ids
         PROVE  RowIsSound(a)' /\ (Exists(a) => Exists(a)')
    BY <1>1, <1>2, <1>4, <1>7, <1>8, <1>9, RowShape, HeldRow DEF IInv, RowIsSound, Exists
  <1> QED BY <1>1, <1>2, <1>6, <1>7, <1>8, <1>10, CommitKeepsIInv
          DEF CommitDeactivate, IInv, Types

LEMMA CommitExpireKeepsIInv ==
  ASSUME IInv, NEW c \in Calls, CommitExpire(c)
  PROVE  IInv'
  <1>1. InFlight(c) /\ now[c] \in Times /\ c # None
    BY VerbOfStep, AgentsAssumption DEF CommitExpire, InFlight, Expiring
  <1>2. ASSUME NEW a \in Ids, lock[a] = c
        PROVE  /\ actors[a] \in ActorRows /\ Exists(a)
               /\ actors'[a] = Deactivated(a, now[c])
    BY <1>1, <1>2, HeldRow DEF CommitExpire
  <1>3. \A a \in Ids : lock[a] # c => actors'[a] = actors[a]
    BY DEF CommitExpire
  <1>4. ASSUME NEW a \in Ids
        PROVE  /\ actors'[a] \in ActorRows \cup {NoActor}
               /\ RowIsSound(a)' /\ (Exists(a) => Exists(a)')
    <2>1. CASE lock[a] = c
      BY <1>1, <1>2, <2>1, DeactivatedRow, RowShape DEF CommitExpire, IInv, RowIsSound, Exists
    <2>2. CASE lock[a] # c
      BY <1>3, <2>2 DEF CommitExpire, IInv, Types, RowIsSound, Exists
    <2> QED BY <2>1, <2>2
  <1>5. actors' \in [Ids -> ActorRows \cup {NoActor}]
    BY <1>4 DEF CommitExpire
  <1> QED BY <1>1, <1>3, <1>4, <1>5, CommitKeepsIInv DEF CommitExpire, IInv, Types

(***************************************************************************)
(* The steps of a boot                                                     *)
(***************************************************************************)

\* What remains of a list, its first element, and what remains then.
LEMMA Remainder ==
  ASSUME NEW S, NEW s \in Seq(S), NEW t \in Seq(S), t # <<>>, Remains(t, s)
  PROVE  /\ Len(s) - Len(t) \in Nat /\ Len(s) - Len(t) + 1 \in 1 .. Len(s)
         /\ Head(t) = s[Len(s) - Len(t) + 1] /\ Head(t) \in S
         /\ Tail(t) \in Seq(S) /\ Remains(Tail(t), s)
         /\ Len(s) - Len(Tail(t)) = Len(s) - Len(t) + 1
  <1>1. Len(s) \in Nat /\ Len(t) \in Nat /\ Len(t) # 0
    OBVIOUS
  <1>2. PICK n \in Nat : n = Len(s) - Len(t)
    BY <1>1 DEF Remains
  <1>3. n + 1 \in 1 .. Len(s)
    BY <1>1, <1>2
  <1>4. Head(t) = s[n + 1] /\ Head(t) \in S
    BY <1>1, <1>2 DEF Remains
  <1>5. /\ Tail(t) \in Seq(S) /\ Len(Tail(t)) = Len(t) - 1
        /\ \A i \in 1 .. Len(Tail(t)) : Tail(t)[i] = t[i + 1]
    OBVIOUS
  <1>6. Len(s) - Len(Tail(t)) = n + 1 /\ Len(Tail(t)) <= Len(s)
    BY <1>1, <1>2, <1>5
  <1>7. ASSUME NEW i \in 1 .. Len(Tail(t))
        PROVE  Tail(t)[i] = s[(n + 1) + i]
    <2>1. i + 1 \in 1 .. Len(t)
      BY <1>1, <1>5
    <2>2. t[i + 1] = s[n + (i + 1)]
      BY <1>2, <2>1 DEF Remains
    <2>3. n + (i + 1) = (n + 1) + i
      BY <2>1
    <2> QED BY <1>5, <2>2, <2>3
  <1> QED BY <1>2, <1>3, <1>4, <1>5, <1>6, <1>7 DEF Remains

\* The entry a boot is at is the next of its environment, and shares neither its
\* actor nor its token with another one.
LEMMA NextOfEnvironment ==
  ASSUME IInv, NEW c \in Calls, IsBooting(c), todo[c] # <<>>
  PROVE  /\ Through(c) \in Nat /\ Through(c) + 1 \in 1 .. Len(req[c].env)
         /\ Head(todo[c]) \in Entry /\ Head(todo[c]) = req[c].env[Through(c) + 1]
         /\ Head(todo[c]).actor \in Ids /\ Head(todo[c]).hash \in Hashes
         /\ Head(todo[c]).kind \in Kinds
         /\ \A i \in 1 .. Through(c) : /\ req[c].env[i] \in Entry
                                       /\ req[c].env[i].actor # Head(todo[c]).actor
                                       /\ req[c].env[i].hash # Head(todo[c]).hash
  <1>1. PICK s \in Seq(Entry) : s = req[c].env
    BY DEF IsBooting, Boots
  <1>2. todo[c] \in Seq(Entry) /\ Remains(todo[c], s)
    BY <1>1 DEF IInv, KnowsItsEntries
  <1>3. PICK n : n = Through(c) /\ n = Len(s) - Len(todo[c])
    BY <1>1 DEF Through
  <1>4. n \in Nat /\ n + 1 \in 1 .. Len(s) /\ Head(todo[c]) \in Entry /\ Head(todo[c]) = s[n + 1]
    <2>1. PICK t \in Seq(Entry) : t = todo[c]
      BY <1>2
    <2>2. t # <<>> /\ Remains(t, s)
      BY <1>2, <2>1
    <2>3. /\ Len(s) - Len(t) \in Nat /\ Len(s) - Len(t) + 1 \in 1 .. Len(s)
          /\ Head(t) = s[Len(s) - Len(t) + 1] /\ Head(t) \in Entry
      BY <2>2, Remainder
    <2> QED BY <1>3, <2>1, <2>3
  <1>5. req[c] \in Requests[c] /\ req[c].verb = "boot"
    BY DEF IInv, OfItsVerb, IsBooting, InFlight, Boots
  <1>6. ASSUME NEW i \in 1 .. n
        PROVE  s[i] \in Entry /\ s[i].actor # Head(todo[c]).actor /\ s[i].hash # Head(todo[c]).hash
    <2>1. i \in DOMAIN s /\ n + 1 \in DOMAIN s /\ i # n + 1
      BY <1>4
    <2>2. s[i] \in Entry
      BY <2>1
    <2> QED BY <1>1, <1>4, <1>5, <2>1, <2>2, AgentsAssumption
  <1> QED BY <1>1, <1>3, <1>4, <1>6 DEF Entry

\* A boot goes on: it has undone nothing of the entries it is through with, and when it
\* takes the next entry the one it was at is settled as well.
LEMMA BootGoesOn ==
  ASSUME IInv, NEW c \in Calls, IsBooting(c), todo[c] # <<>>,
         UNCHANGED <<lock, clock, req, now, found, heard, alone, answer>>,
         NEW to \in {"upsert", "token", "revoke", "insert"}, pc' = [pc EXCEPT ![c] = to],
         todo' = IF to = "upsert" THEN [todo EXCEPT ![c] = Tail(@)] ELSE todo,
         actors' \in [Ids -> ActorRows \cup {NoActor}], tokens' \in [Hashes -> TokenRows],
         \A a \in Ids : actors'[a] # actors[a] => lock[a] \in {c, None},
         \A a \in Ids : (Exists(a) => Exists(a)') /\ RowIsSound(a)',
         TokensAreSound',
         \A i \in 1 .. Through(c) : Settled(req[c].env[i]) => Settled(req[c].env[i])',
         NEW e \in Entry, e = Head(todo[c]),
         to = "upsert" => Settled(e)', to # "upsert" => Exists(e.actor)'
  PROVE  IInv'
  <1>1. InFlight(c) /\ pc'[c] = to /\ to \in Steps /\ Verb(c) = "boot"
    BY VerbOfStep DEF IsBooting, InFlight, IInv, Types, Steps
  <1>2. /\ \A d \in Calls \ {c} : pc'[d] = pc[d] /\ todo'[d] = todo[d]
        /\ DOMAIN todo' = Calls
        /\ todo'[c] = IF to = "upsert" THEN Tail(todo[c]) ELSE todo[c]
    BY DEF IInv, Types
  <1>3. Types'
    BY <1>1, <1>2 DEF IInv, Types
  <1>4. OfItsVerb(c)'
    <2>1. Boots(req[c]) /\ answer[c] = "none" /\ req[c] \in Requests[c]
      BY <1>1 DEF IInv, OfItsVerb, IsBooting
    <2> QED BY <1>1, <2>1 DEF OfItsVerb, InFlight, IsBooting, Boots
  <1>5. KnowsItsRows(c)'
    <2>1. \A a \in Ids : lock[a] # c
      BY <1>1 DEF IInv, KnowsItsRows, Holds
    <2> QED BY <1>1, <2>1 DEF KnowsItsRows
  <1>6. KnowsItsEntries(c)'
    <2>1. PICK s \in Seq(Entry) : s = req[c].env /\ s = req'[c].env
      BY DEF IsBooting, Boots
    <2>2. PICK t \in Seq(Entry) : t = todo[c]
      BY DEF IInv, KnowsItsEntries
    <2>3. PICK n : n = Through(c) /\ n = Len(s) - Len(t)
      BY <2>1, <2>2 DEF Through
    <2>4. PICK u : u = todo'[c]
      OBVIOUS
    <2>5. Through(c)' = Len(s) - Len(u)
      BY <2>1, <2>4 DEF Through
    <2>6. /\ Remains(t, s)
          /\ alone[c] => /\ \A i \in 1 .. n : Settled(s[i])
                         /\ \A d \in Calls \ {c} : ~IsBooting(d)
      BY <2>1, <2>2, <2>3 DEF IInv, KnowsItsEntries
    <2>7. alone[c] => /\ \A i \in 1 .. n : Settled(s[i])'
                      /\ \A d \in Calls \ {c} : ~IsBooting(d)'
      BY <1>2, <2>1, <2>3, <2>6 DEF IsBooting
    <2>8. /\ u \in Seq(Entry) /\ Remains(u, s)
          /\ to # "upsert" => u = t /\ Len(s) - Len(u) = n
          /\ to = "upsert" => n \in Nat /\ Len(s) - Len(u) = n + 1 /\ e = s[n + 1]
      <3>1. CASE to # "upsert"
        BY <1>2, <2>2, <2>3, <2>4, <2>6, <3>1
      <3>2. CASE to = "upsert"
        <4>1. u = Tail(t) /\ t # <<>>
          BY <1>2, <2>2, <2>4, <3>2
        <4>2. /\ Len(s) - Len(t) \in Nat /\ Head(t) = s[Len(s) - Len(t) + 1]
              /\ Tail(t) \in Seq(Entry) /\ Remains(Tail(t), s)
              /\ Len(s) - Len(Tail(t)) = Len(s) - Len(t) + 1
          BY <2>6, <4>1, Remainder
        <4> QED BY <2>2, <2>3, <3>2, <4>1, <4>2
      <3> QED BY <3>1, <3>2
    <2>9. alone[c] => \A i \in 1 .. Through(c)' : Settled(s[i])'
      <3>1. CASE to # "upsert"
        BY <2>5, <2>7, <2>8, <3>1
      <3>2. CASE to = "upsert"
        <4>1. n \in Nat /\ Through(c)' = n + 1 /\ Settled(s[n + 1])'
          BY <2>5, <2>8, <3>2
        <4> QED BY <2>7, <4>1
      <3> QED BY <3>1, <3>2
    <2>10. to # "upsert" => u # <<>> /\ Exists(Head(u).actor)'
      BY <2>2, <2>8
    <2> QED BY <1>1, <2>1, <2>4, <2>5, <2>7, <2>8, <2>9, <2>10 DEF KnowsItsEntries
  <1> QED BY <1>1, <1>2, <1>3, <1>4, <1>5, <1>6, StepOfOneCall

LEMMA UpsertActorKeepsIInv ==
  ASSUME IInv, NEW c \in Calls, UpsertActor(c)
  PROVE  IInv'
  <1> DEFINE e == Head(todo[c])
             r == IF Exists(e.actor) THEN [actors[e.actor] EXCEPT !.kind = e.kind, !.source = "env"]
                  ELSE NewActor(e.kind, "env", clock)
  <1>1. pc[c] = "upsert" /\ todo[c] # <<>> /\ IsBooting(c) /\ e.actor \in Ids /\ e.kind \in Kinds
    BY VerbOfStep, NextOfEnvironment DEF UpsertActor
  <1>2. lock[e.actor] \in {c, None}
    BY <1>1, FreeRow DEF UpsertActor, Row
  <1>3. actors' = [actors EXCEPT ![e.actor] = r] /\ tokens' = tokens
    BY DEF UpsertActor
  <1>4. /\ r \in ActorRows
        /\ r.state = "active" <=> r.gone = None
        /\ Exists(e.actor) => r.beat = actors[e.actor].beat
    <2>1. CASE Exists(e.actor)
      <3>1. actors[e.actor] \in ActorRows
        BY <1>1, <2>1 DEF IInv, Types, Exists
      <3> QED BY <1>1, <2>1, <3>1 DEF ActorRows, IInv, RowIsSound
    <2>2. CASE ~Exists(e.actor)
      <3>1. r = NewActor(e.kind, "env", clock) /\ clock \in Times
        BY <2>2 DEF IInv, Types
      <3> QED BY <1>1, <2>2, <3>1 DEF NewActor, ActorRows
    <2> QED BY <2>1, <2>2
  <1>5. r.beat = None => heard[e.actor] = None
    BY <1>1, <1>4 DEF IInv, RowIsSound
  <1> HIDE DEF r
  <1>6. /\ actors' \in [Ids -> ActorRows \cup {NoActor}] /\ actors'[e.actor] = r
        /\ \A a \in Ids : a # e.actor => actors'[a] = actors[a]
    BY <1>1, <1>3, <1>4 DEF IInv, Types
  <1>7. heard' = heard /\ pc' = [pc EXCEPT ![c] = "token"] /\ todo' = todo
        /\ UNCHANGED <<lock, clock, req, now, found, alone, answer>>
    BY DEF UpsertActor, Go, locals
  <1> HIDE DEF e
  <1>8. PICK a0 \in Ids : a0 = e.actor
    BY <1>1
  <1>9. ASSUME NEW a \in Ids
        PROVE  RowIsSound(a)' /\ (Exists(a) => Exists(a)') /\ (a = a0 => Exists(a)')
    BY <1>4, <1>5, <1>6, <1>7, <1>8, RowShape DEF IInv, RowIsSound, Exists
  <1>10. PICK h \in Entry : h = Head(todo[c]) /\ Exists(h.actor)'
    BY <1>1, <1>8, <1>9, NextOfEnvironment DEF e
  <1>11. TokensAreSound' /\ tokens' \in [Hashes -> TokenRows]
    BY <1>3, <1>9 DEF IInv, Types, TokensAreSound
  <1>12. \A i \in 1 .. Through(c) : Settled(req[c].env[i]) => Settled(req[c].env[i])'
    BY <1>3, <1>7 DEF Settled
  <1>13. \A a \in Ids : actors'[a] # actors[a] => lock[a] \in {c, None}
    BY <1>2, <1>6
  <1> QED BY <1>1, <1>6, <1>7, <1>9, <1>10, <1>11, <1>12, <1>13, BootGoesOn

\* The boot goes on to where its entry is not settled yet.
LEMMA BootMoves ==
  ASSUME IInv, NEW c \in Calls, pc[c] \in {"token", "revoke"}, NEW to \in {"revoke", "insert"},
         Go(c, to), UNCHANGED <<actors, receipts>>,
         tokens' \in [Hashes -> TokenRows], TokensAreSound',
         \A i \in 1 .. Through(c) : Settled(req[c].env[i]) => Settled(req[c].env[i])'
  PROVE  IInv'
  <1>1. IsBooting(c) /\ todo[c] # <<>> /\ Exists(Head(todo[c]).actor)
    BY VerbOfStep DEF IInv, KnowsItsEntries
  <1>2. /\ pc' = [pc EXCEPT ![c] = to] /\ todo' = todo
        /\ UNCHANGED <<lock, clock, req, now, found, heard, alone, answer>>
    BY DEF Go, locals
  <1>3. \A a \in Ids : (Exists(a) => Exists(a)') /\ RowIsSound(a)'
    BY <1>2 DEF IInv, RowIsSound, Exists
  <1>4. PICK e \in Entry : e = Head(todo[c]) /\ Exists(e.actor)'
    BY <1>1, NextOfEnvironment DEF Exists
  <1> QED BY <1>1, <1>2, <1>3, <1>4, BootGoesOn DEF IInv, Types

\* The boot is through with its entry.
LEMMA BootIsThrough ==
  ASSUME IInv, NEW c \in Calls, pc[c] \in {"token", "insert"}, NextEntry(c),
         UNCHANGED <<actors, receipts>>,
         tokens' \in [Hashes -> TokenRows], TokensAreSound',
         \A i \in 1 .. Through(c) : Settled(req[c].env[i]) => Settled(req[c].env[i])',
         NEW h, h = Hash(c), tokens'[h].active
  PROVE  IInv'
  <1>1. IsBooting(c) /\ todo[c] # <<>>
    BY VerbOfStep DEF IInv, KnowsItsEntries
  <1>2. /\ pc' = [pc EXCEPT ![c] = "upsert"] /\ todo' = [todo EXCEPT ![c] = Tail(@)]
        /\ UNCHANGED <<lock, clock, req, now, found, heard, alone, answer>>
    BY DEF NextEntry
  <1>3. \A a \in Ids : (Exists(a) => Exists(a)') /\ RowIsSound(a)'
    BY <1>2 DEF IInv, RowIsSound, Exists
  <1>4. PICK e \in Entry : e = Head(todo[c])
    BY <1>1, NextOfEnvironment
  <1>5. Settled(e)'
    <2>1. e.hash = h
      BY <1>4 DEF Hash
    <2> QED BY <2>1 DEF Settled
  <1> QED BY <1>1, <1>2, <1>3, <1>4, <1>5, BootGoesOn DEF IInv, Types

LEMMA ReadTokenKeepsIInv ==
  ASSUME IInv, NEW c \in Calls, ReadToken(c)
  PROVE  IInv'
  <1>1. pc[c] = "token" /\ InFlight(c) /\ IsBooting(c)
    BY VerbOfStep DEF ReadToken, InFlight
  <1>2. CASE Go(c, "revoke") /\ UNCHANGED tables
    <2>1. tokens' \in [Hashes -> TokenRows] /\ TokensAreSound'
      BY <1>2 DEF IInv, Types, TokensAreSound, Exists, tables
    <2>2. \A i \in 1 .. Through(c) : Settled(req[c].env[i]) => Settled(req[c].env[i])'
      BY <1>2 DEF Settled, Go, tables, locals
    <2> QED BY <1>1, <1>2, <2>1, <2>2, BootMoves DEF tables
  <1>3. CASE Refuse(c, "revokedToken")
    BY <1>1, <1>3, RefuseKeepsIInv DEF Answers, BootFailures
  <1>4. CASE tokens[Hash(c)].active /\ NextEntry(c) /\ UNCHANGED tables
    <2>1. tokens' \in [Hashes -> TokenRows] /\ TokensAreSound'
      BY <1>4 DEF IInv, Types, TokensAreSound, Exists, tables
    <2>2. \A i \in 1 .. Through(c) : Settled(req[c].env[i]) => Settled(req[c].env[i])'
      BY <1>4 DEF Settled, NextEntry, tables
    <2>3. PICK h : h = Hash(c) /\ tokens'[h].active
      BY <1>4 DEF tables
    <2> QED BY <1>1, <1>4, <2>1, <2>2, <2>3, BootIsThrough DEF tables
  <1> QED BY <1>2, <1>3, <1>4 DEF ReadToken

\* Revoking keeps the tokens sound, and ends none but those it means.
LEMMA Revoking ==
  ASSUME IInv, NEW S, Revoke(S), actors' = actors
  PROVE  /\ tokens' \in [Hashes -> TokenRows] /\ TokensAreSound'
         /\ \A h \in Hashes : /\ tokens'[h].actor = tokens[h].actor
                              /\ tokens'[h].source = tokens[h].source
                              /\ h \in S => ~tokens'[h].active
                              /\ h \notin S => tokens'[h] = tokens[h]
  <1>1. ASSUME NEW h \in Hashes
        PROVE  /\ tokens'[h] \in TokenRows
               /\ tokens'[h].actor = tokens[h].actor /\ tokens'[h].source = tokens[h].source
               /\ h \in S => ~tokens'[h].active
               /\ h \notin S => tokens'[h] = tokens[h]
    <2>1. tokens[h] \in TokenRows
      BY DEF IInv, Types
    <2>2. CASE h \in S
      <3>1. tokens'[h] = [tokens[h] EXCEPT !.active = FALSE]
        BY <2>2 DEF Revoke
      <3> QED BY <2>1, <2>2, <3>1 DEF TokenRows
    <2>3. CASE h \notin S
      BY <2>1, <2>3 DEF Revoke
    <2> QED BY <2>2, <2>3
  <1>2. tokens' \in [Hashes -> TokenRows]
    BY <1>1 DEF Revoke
  <1>3. \A h \in Hashes : tokens'[h].active => tokens[h].active
    BY <1>1
  <1>4. TokensAreSound'
    BY <1>1, <1>3 DEF IInv, TokensAreSound, Exists
  <1> QED BY <1>1, <1>2, <1>4

LEMMA RevokeOthersKeepsIInv ==
  ASSUME IInv, NEW c \in Calls, RevokeOthers(c)
  PROVE  IInv'
  <1>1. pc[c] = "revoke" /\ IsBooting(c) /\ todo[c] # <<>> /\ Revoke(Replaced(c))
        /\ Go(c, "insert") /\ UNCHANGED <<actors, receipts>>
    BY VerbOfStep DEF RevokeOthers, IInv, KnowsItsEntries
  <1>2. /\ tokens' \in [Hashes -> TokenRows] /\ TokensAreSound'
        /\ \A h \in Hashes : /\ tokens'[h].actor = tokens[h].actor
                             /\ h \notin Replaced(c) => tokens'[h] = tokens[h]
    BY <1>1, Revoking
  <1>3. ASSUME NEW i \in 1 .. Through(c), Settled(req[c].env[i])
        PROVE  Settled(req[c].env[i])'
    <2>1. PICK e \in Entry : e = req[c].env[i] /\ e.actor # Head(todo[c]).actor
      BY <1>1, NextOfEnvironment
    <2>2. e.hash \in Hashes
      BY DEF Entry
    <2>3. req' = req
      BY <1>1 DEF Go, locals
    <2>4. tokens'[e.hash].active \/ tokens'[e.hash].actor # e.actor
      BY <1>2, <1>3, <2>1, <2>2 DEF Settled, Replaced, ActiveOf
    <2> QED BY <2>1, <2>3, <2>4 DEF Settled
  <1> QED BY <1>1, <1>2, <1>3, BootMoves

LEMMA InsertTokenKeepsIInv ==
  ASSUME IInv, NEW c \in Calls, InsertToken(c)
  PROVE  IInv'
  <1>1. /\ pc[c] = "insert" /\ InFlight(c) /\ IsBooting(c) /\ todo[c] # <<>>
        /\ Exists(Head(todo[c]).actor)
    BY VerbOfStep DEF InsertToken, InFlight, IInv, KnowsItsEntries
  <1>2. CASE Refuse(c, "uniqueViolation")
    BY <1>1, <1>2, RefuseKeepsIInv DEF Answers, BootFailures
  <1>3. CASE /\ ~Clashes(c)
             /\ tokens' = [tokens EXCEPT ![Hash(c)] =
                              [actor |-> Head(todo[c]).actor, source |-> "env", active |-> TRUE]]
             /\ NextEntry(c) /\ UNCHANGED <<actors, receipts>>
    <2>1. PICK e \in Entry : e = Head(todo[c]) /\ e.hash \in Hashes /\ e.actor \in Ids
      BY <1>1, NextOfEnvironment
    <2>2. PICK r : r = [actor |-> e.actor, source |-> "env", active |-> TRUE]
      OBVIOUS
    <2>3. r \in TokenRows /\ r.actor = e.actor /\ r.active
      BY <2>1, <2>2 DEF TokenRows
    <2>4. tokens' = [tokens EXCEPT ![e.hash] = r] /\ Hash(c) = e.hash
      BY <1>3, <2>1, <2>2 DEF Hash
    <2>5. /\ tokens' \in [Hashes -> TokenRows] /\ tokens'[e.hash] = r
          /\ \A h \in Hashes : h # e.hash => tokens'[h] = tokens[h]
      BY <2>1, <2>3, <2>4 DEF IInv, Types
    <2>6. \A h \in Hashes : tokens[h].active => tokens[h].actor # e.actor
      BY <1>3, <2>1 DEF Clashes, ActiveOf
    <2>7. actors' = actors /\ Exists(e.actor)
      BY <1>1, <1>3, <2>1
    <2>8. TokensAreSound'
      BY <2>1, <2>3, <2>5, <2>6, <2>7 DEF IInv, TokensAreSound, Exists
    <2>9. ASSUME NEW i \in 1 .. Through(c), Settled(req[c].env[i])
          PROVE  Settled(req[c].env[i])'
      <3>1. PICK f \in Entry : f = req[c].env[i] /\ f.hash # e.hash
        BY <1>1, <2>1, NextOfEnvironment
      <3>2. f.hash \in Hashes /\ req' = req
        BY <1>3 DEF Entry, NextEntry
      <3> QED BY <2>5, <2>9, <3>1, <3>2 DEF Settled
    <2> QED BY <1>1, <1>3, <2>3, <2>4, <2>5, <2>8, <2>9, BootIsThrough
  <1> QED BY <1>2, <1>3 DEF InsertToken

LEMMA SweepTokensKeepsIInv ==
  ASSUME IInv, NEW c \in Calls, SweepTokens(c)
  PROVE  IInv'
  <1>0. "ok" \in Answers
    BY DEF Answers
  <1>1. InFlight(c) /\ IsBooting(c) /\ Answer(c, "ok") /\ UNCHANGED <<actors, receipts, heard>>
    BY VerbOfStep DEF SweepTokens, InFlight
  <1>2. tokens' \in [Hashes -> TokenRows] /\ TokensAreSound'
    BY Revoking DEF SweepTokens
  <1>3. /\ lock' \in [Ids -> Calls \cup {None}]
        /\ \A a \in Ids : lock'[a] # c
        /\ \A a \in Ids : lock'[a] # lock[a] => lock[a] \in {c, None} /\ lock'[a] \in {c, None}
    BY <1>1, AgentsAssumption DEF Answer, Release, IInv, Types
  <1>4. /\ pc' = [pc EXCEPT ![c] = "answered"] /\ answer' = [answer EXCEPT ![c] = "ok"]
        /\ now' \in [Calls -> Times \cup {None}] /\ DOMAIN found' = Calls /\ DOMAIN todo' = Calls
        /\ \A d \in Calls \ {c} :
              now'[d] = now[d] /\ found'[d] = found[d] /\ todo'[d] = todo[d]
        /\ UNCHANGED <<clock, req, alone>>
    BY <1>0, <1>1, AnswerShape
  <1>5. pc'[c] = "answered" /\ \A d \in Calls \ {c} : pc'[d] = pc[d] /\ answer'[d] = answer[d]
    BY <1>4 DEF IInv, Types
  <1>6. Types'
    BY <1>0, <1>1, <1>2, <1>3, <1>4 DEF IInv, Types, Steps
  <1>7. OfItsVerb(c)' /\ KnowsItsRows(c)' /\ KnowsItsEntries(c)'
    BY <1>3, <1>5 DEF OfItsVerb, InFlight, KnowsItsRows, KnowsItsEntries, IsBooting
  <1>8. \A a \in Ids : RowIsSound(a)' /\ (Exists(a) => Exists(a)')
    BY <1>1 DEF IInv, RowIsSound, Exists
  <1> QED BY <1>1, <1>2, <1>3, <1>4, <1>5, <1>6, <1>7, <1>8, StepOfOneCall

(***************************************************************************)
(* Every step                                                              *)
(***************************************************************************)

\* A step that leaves everything but the clock alone.
LEMMA ClockKeepsIInv ==
  ASSUME IInv, clock' \in Times, UNCHANGED <<tables, lock, pc, locals, heard, alone, answer>>
  PROVE  IInv'
  <1> USE DEF IInv, tables, locals
  <1>1. Types' /\ TokensAreSound' /\ \A a \in Ids : RowIsSound(a)'
    BY DEF Types, TokensAreSound, RowIsSound, Exists
  <1>2. ASSUME NEW c \in Calls
        PROVE  OfItsVerb(c)' /\ KnowsItsRows(c)' /\ KnowsItsEntries(c)'
    <2>1. OfItsVerb(c)'
      BY DEF OfItsVerb, InFlight, Beating, Stopping, Expiring, IsBooting
    <2>2. KnowsItsRows(c)'
      BY DEF KnowsItsRows, Holds, InFlight, Exists, Verb, Actor, Stale, Cutoff
    <2>3. KnowsItsEntries(c)'
      BY DEF KnowsItsEntries, IsBooting, Through, Settled, Exists
    <2> QED BY <2>1, <2>2, <2>3
  <1> QED BY <1>1, <1>2

LEMMA HandleKeepsIInv == ASSUME IInv, NEW c \in Calls, Handle(c) PROVE IInv'
  BY CheckKeepsIInv, RecheckKeepsIInv, ReadTargetKeepsIInv, LockActorKeepsIInv,
     CommitHeartbeatKeepsIInv, RecordKeepsIInv, CommitDeactivateKeepsIInv, ScanStaleKeepsIInv,
     LockStaleKeepsIInv, CommitExpireKeepsIInv, UpsertActorKeepsIInv, ReadTokenKeepsIInv,
     RevokeOthersKeepsIInv, InsertTokenKeepsIInv, SweepTokensKeepsIInv
  DEF Handle

LEMMA NextKeepsIInv == IInv /\ [Next]_vars => IInv'
  <1> SUFFICES ASSUME IInv, [Next]_vars PROVE IInv'
    OBVIOUS
  <1>1. CASE \E c \in Calls : \E q \in Requests[c] : Submit(c, q)
    BY <1>1, SubmitKeepsIInv
  <1>2. ASSUME NEW c \in Calls, Handle(c)
        PROVE  IInv'
    BY <1>2, HandleKeepsIInv
  <1>3. ASSUME NEW c \in Calls, Die(c)
        PROVE  IInv'
    BY <1>3, RefuseKeepsIInv DEF Die, Answers
  <1>4. CASE Tick
    <2>1. clock' \in Times
      BY <1>4, AgentsAssumption DEF Tick, IInv, Types, Times
    <2> QED BY <1>4, <2>1, ClockKeepsIInv DEF Tick
  <1>5. CASE UNCHANGED vars
    BY <1>5, ClockKeepsIInv DEF vars, IInv, Types
  <1> QED BY <1>1, <1>2, <1>3, <1>4, <1>5 DEF Next

\* The inductive invariant holds of every reachable state.
THEOREM AlwaysIInv == Spec => []IInv
  BY InitEstablishesIInv, NextKeepsIInv, PTL DEF Spec

LEMMA AtMostOneToken == ASSUME IInv, NEW a \in Ids PROVE Cardinality(ActiveOf(a)) <= 1
  <1>1. \A h, i \in ActiveOf(a) : h = i
    BY DEF IInv, TokensAreSound, ActiveOf
  <1>2. CASE ActiveOf(a) = {}
    BY <1>2, FS_EmptySet
  <1>3. CASE ActiveOf(a) # {}
    <2>1. PICK h : ActiveOf(a) = {h}
      BY <1>1, <1>3
    <2>2. Cardinality({h}) = 1
      BY FS_Singleton
    <2> QED BY <2>1, <2>2
  <1> QED BY <1>2, <1>3

\* heartbeatAgent, deactivateAgent, the expiry and the seed keep their tables and
\* locks in shape: an actor has a time of deactivation exactly when it is inactive,
\* and at most one active token.
THEOREM TypeCorrect == Spec => []AgentTypeOK
  <1>1. IInv => AgentTypeOK
    <2> SUFFICES ASSUME IInv PROVE AgentTypeOK
      OBVIOUS
    <2>1. ASSUME NEW a \in Ids, Exists(a)
          PROVE  /\ actors[a].kind \in Kinds /\ actors[a].source \in {"env", "db"}
                 /\ actors[a].made \in Times /\ actors[a].beat \in Times \cup {None}
                 /\ actors[a].state = (IF actors[a].gone = None THEN "active" ELSE "inactive")
      <3>1. actors[a] \in ActorRows /\ (actors[a].state = "active" <=> actors[a].gone = None)
        BY <2>1 DEF IInv, Types, Exists, RowIsSound
      <3> QED BY <3>1 DEF ActorRows
    <2>2. \A a \in Ids : lock[a] # None => InFlight(lock[a])
      BY DEF IInv, Types, KnowsItsRows, Holds
    <2> QED BY <2>1, <2>2, AtMostOneToken
            DEF AgentTypeOK, IInv, Types, TokensAreSound, Answers
  <1> QED BY <1>1, AlwaysIInv, PTL

(***************************************************************************)
(* What a step may do                                                      *)
(***************************************************************************)

\* The four steps that write actors, and none of them touches who is inactive: a
\* heartbeat and the job hold the row of someone active, a deactivation goes by what
\* it has found under the lock, and a boot writes other columns.
LEMMA StepKeepsTheGone ==
  ASSUME IInv, [Next]_vars, NEW a \in Ids, Exists(a), actors[a].state = "inactive"
  PROVE  /\ actors'[a].state = "inactive" /\ actors'[a].gone = actors[a].gone
         /\ actors'[a].beat = actors[a].beat
  <1> USE DEF IInv
  <1>1. ASSUME NEW c \in Calls, CommitHeartbeat(c)
        PROVE  actors'[a] = actors[a]
    <2>1. Actor(c) # a
      BY <1>1, VerbOfStep DEF CommitHeartbeat, KnowsItsRows
    <2> QED BY <1>1, <2>1 DEF CommitHeartbeat, Types
  <1>2. ASSUME NEW c \in Calls, CommitDeactivate(c)
        PROVE  actors'[a] = actors[a]
    <2>1. Actor(c) = a => found[c] # "active"
      BY <1>2 DEF CommitDeactivate, KnowsItsRows
    <2> QED BY <1>2, <2>1 DEF CommitDeactivate, Types
  <1>3. ASSUME NEW c \in Calls, CommitExpire(c)
        PROVE  actors'[a] = actors[a]
    <2>1. lock[a] # c
      BY <1>3, VerbOfStep DEF CommitExpire, KnowsItsRows, Holds, Stale
    <2> QED BY <1>3, <2>1 DEF CommitExpire
  <1>4. ASSUME NEW c \in Calls, UpsertActor(c)
        PROVE  /\ actors'[a].state = "inactive" /\ actors'[a].gone = actors[a].gone
               /\ actors'[a].beat = actors[a].beat
    <2>1. actors[a] \in ActorRows
      BY DEF Types, Exists
    <2>2. CASE Head(todo[c]).actor = a
      <3>1. actors'[a] = [actors[a] EXCEPT !.kind = Head(todo[c]).kind, !.source = "env"]
        BY <1>4, <2>2 DEF UpsertActor, Types
      <3> QED BY <2>1, <3>1 DEF ActorRows
    <2>3. CASE Head(todo[c]).actor # a
      BY <1>4, <2>3 DEF UpsertActor, Types
    <2> QED BY <2>2, <2>3
  <1>5. ASSUME NEW c \in Calls, Handle(c)
        PROVE  \/ actors'[a] = actors[a]
               \/ UpsertActor(c)
    BY <1>1, <1>2, <1>3, <1>5
       DEF Handle, Check, Recheck, ReadTarget, LockActor, Record, ScanStale, LockStale, ReadToken,
           RevokeOthers, InsertToken, SweepTokens, Go, Refuse, Abort, AnswerFromReceipt, tables
  <1>6. CASE \E c \in Calls : Handle(c)
    BY <1>4, <1>5, <1>6
  <1>7. CASE (\E c \in Calls : \E q \in Requests[c] : Submit(c, q)) \/ (\E c \in Calls : Die(c))
             \/ Tick \/ UNCHANGED vars
    BY <1>7 DEF Submit, Die, Refuse, Tick, vars, tables
  <1> QED BY <1>6, <1>7 DEF Next

\* Nothing brings an agent back that is inactive, or writes to its record of when it
\* was last heard from and when it went.
THEOREM InactiveForGood == Spec => GoneForGood
  <1>1. IInv /\ [Next]_vars =>
          [\A a \in Ids : (Exists(a) /\ actors[a].state = "inactive") =>
              /\ actors'[a].state = "inactive" /\ actors'[a].gone = actors[a].gone
              /\ actors'[a].beat = actors[a].beat]_vars
    BY StepKeepsTheGone
  <1> QED BY <1>1, AlwaysIInv, PTL DEF Spec, GoneForGood

\* The job goes by the row it holds: who is about to be expired was last heard from
\* before the cutoff, or a later heartbeat has been overwritten.
LEMMA HeldBecauseSilent ==
  ASSUME IInv, NEW c \in Calls, NEW a \in Ids, pc[c] = "expired", lock[a] = c
  PROVE  \/ heard[a] = None \/ heard[a] < now[c] - Ttl
         \/ actors[a].beat < heard[a]
  <1>1. Exists(a) /\ Stale(a, now[c] - Ttl) /\ now[c] \in Times
    BY VerbOfStep DEF IInv, KnowsItsRows, Holds, Cutoff, Expiring
  <1>2. actors[a].beat \in Times \cup {None} /\ heard[a] \in Times \cup {None}
    BY <1>1 DEF IInv, Types, Exists, ActorRows
  <1>3. actors[a].beat = None => heard[a] = None
    BY <1>1 DEF IInv, RowIsSound
  <1>4. actors[a].beat # None => actors[a].beat < now[c] - Ttl
    BY <1>1 DEF Stale
  <1> QED BY <1>1, <1>2, <1>3, <1>4, AgentsAssumption DEF Times

\* The job expires only who has been silent for the TTL before it began, unless an
\* older heartbeat was written over a newer one.
THEOREM TheSilentExpire == Spec => OnlyTheSilentExpire
  <1>1. IInv =>
          [\A c \in Calls, a \in Ids :
              (pc[c] = "expired" /\ answer'[c] = "ok" /\ lock[a] = c) =>
                  \/ heard[a] = None \/ heard[a] < now[c] - Ttl
                  \/ actors[a].beat < heard[a]]_vars
    BY HeldBecauseSilent
  <1> QED BY <1>1, AlwaysIInv, PTL DEF OnlyTheSilentExpire

\* A boot is answered ok in one step only, which sweeps.
LEMMA BootEndsInASweep ==
  ASSUME IInv, [Next]_vars, NEW c \in Calls, Verb(c) = "boot", pc[c] = "upsert",
         answer'[c] = "ok"
  PROVE  SweepTokens(c)
  <1>1. answer[c] = "none"
    BY DEF IInv, OfItsVerb
  <1>2. ASSUME NEW d \in Calls \ {c}, NEW ans, Answer(d, ans) \/ Abort(d, ans)
        PROVE  answer'[c] = answer[c]
    BY <1>2 DEF Answer, Abort, IInv, Types
  <1>3. ASSUME NEW d \in Calls \ {c}, Handle(d) \/ Die(d)
        PROVE  answer'[c] = answer[c]
    BY <1>2, <1>3
       DEF Handle, Die, Check, Recheck, ReadTarget, LockActor, CommitHeartbeat, Record,
           CommitDeactivate, ScanStale, LockStale, CommitExpire, UpsertActor, ReadToken,
           RevokeOthers, InsertToken, SweepTokens, NextEntry, Go, Refuse, AnswerFromReceipt
  <1>4. ASSUME Die(c)
        PROVE  answer'[c] = "lost"
    BY <1>4 DEF Die, Refuse, Answer, IInv, Types
  <1>5. ASSUME NEW d \in Calls, NEW q \in Requests[d], Submit(d, q)
        PROVE  answer'[c] # "ok"
    BY <1>1, <1>5 DEF Submit, IInv, Types
  <1>6. Tick \/ UNCHANGED vars => answer' = answer
    BY DEF Tick, vars
  <1>7. UpsertActor(c) => answer' = answer
    BY DEF UpsertActor, Go
  <1>8. Handle(c) => UpsertActor(c) \/ SweepTokens(c)
    BY DEF Handle, Check, Recheck, ReadTarget, LockActor, CommitHeartbeat, Record,
           CommitDeactivate, ScanStale, LockStale, CommitExpire, ReadToken, RevokeOthers, InsertToken
  <1>9. Handle(c) \/ Die(c)
    BY <1>1, <1>3, <1>5, <1>6 DEF Next
  <1> QED BY <1>1, <1>4, <1>7, <1>8, <1>9

\* The sweep of a boot that was alone leaves its own entries settled and ends every
\* other token that came with an environment.
LEMMA SweepReconciles ==
  ASSUME IInv, NEW c \in Calls, Verb(c) = "boot", pc[c] = "upsert", alone[c], SweepTokens(c)
  PROVE  /\ \A i \in DOMAIN req[c].env :
               LET e == req[c].env[i]
               IN  tokens'[e.hash].active \/ tokens'[e.hash].actor # e.actor
         /\ \A h \in Hashes : tokens'[h].active /\ tokens'[h].source = "env" => h \in EnvHashes(c)
  <1>1. IsBooting(c) /\ todo[c] = <<>> /\ Revoke(Swept(c)) /\ actors' = actors
    BY VerbOfStep DEF SweepTokens
  <1>2. PICK s \in Seq(Entry) : s = req[c].env
    BY <1>1 DEF IsBooting, Boots
  <1>3. Through(c) = Len(s)
    BY <1>1, <1>2 DEF Through
  <1>4. \A h \in Hashes : /\ tokens'[h].actor = tokens[h].actor
                          /\ tokens'[h].source = tokens[h].source
                          /\ h \in Swept(c) => ~tokens'[h].active
                          /\ h \notin Swept(c) => tokens'[h] = tokens[h]
    BY <1>1, Revoking
  <1>5. ASSUME NEW i \in DOMAIN s
        PROVE  tokens'[s[i].hash].active \/ tokens'[s[i].hash].actor # s[i].actor
    <2>1. Settled(s[i])
      BY <1>1, <1>2, <1>3 DEF IInv, KnowsItsEntries
    <2>2. s[i].hash \in Hashes /\ s[i].hash \in EnvHashes(c)
      <3>1. s[i] \in Entry
        OBVIOUS
      <3>2. EnvHashes(c) = {s[j].hash : j \in DOMAIN s}
        BY <1>2 DEF EnvHashes
      <3> QED BY <3>1, <3>2 DEF Entry
    <2>3. s[i].hash \notin Swept(c)
      BY <2>2 DEF Swept
    <2> QED BY <1>4, <2>1, <2>2, <2>3 DEF Settled
  <1>6. ASSUME NEW h \in Hashes, tokens'[h].active, tokens'[h].source = "env", h \notin EnvHashes(c)
        PROVE  FALSE
    BY <1>4, <1>6 DEF Swept
  <1> QED BY <1>2, <1>5, <1>6

\* A boot that comes to its end alone has reconciled the tokens with its environment.
THEOREM BootsReconcile == Spec => BootReconciles
  <1>1. IInv /\ [Next]_vars =>
          [\A c \in Calls :
              (Verb(c) = "boot" /\ pc[c] = "upsert" /\ answer'[c] = "ok" /\ alone[c]) =>
                  /\ \A i \in DOMAIN req[c].env :
                        LET e == req[c].env[i]
                        IN  tokens'[e.hash].active \/ tokens'[e.hash].actor # e.actor
                  /\ \A h \in Hashes : tokens'[h].active /\ tokens'[h].source = "env" =>
                                          h \in EnvHashes(c)]_vars
    BY BootEndsInASweep, SweepReconciles
  <1> QED BY <1>1, AlwaysIInv, PTL DEF Spec, BootReconciles
=============================================================================
