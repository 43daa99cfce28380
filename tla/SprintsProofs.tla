---------------------------- MODULE SprintsProofs ----------------------------
(***************************************************************************)
(* Theorems about Sprints, for every set of sprints, tasks, calls and      *)
(* requests: its types and that no calls wait for each other in a circle,  *)
(* that sprints come to exclude each other by a race of two checks only,   *)
(* that nothing slips past a close, and what records and log tell.         *)
(***************************************************************************)
EXTENDS Sprints, TLAPS

(***************************************************************************)
(* The inductive invariant.  Who transitions a sprint holds it; whoever is *)
(* past a check knows by it, or by the call it has raced, of every sprint  *)
(* and task that the check is about.                                       *)
(***************************************************************************)
Steps == {"idle", "answered", "check", "recheck", "lock", "active", "members", "tasks", "record",
          "commit", "read", "guard", "insert", "reference", "enter", "delete", "event"}
HoldSteps == {"active", "members", "tasks", "record", "commit"}
UncheckedSteps == {"idle", "check", "lock", "active", "read", "guard"}
Outcomes == Refusals \cup {"none", "ok", "lost"}
Told == [outcome : Outcomes, sprint : Sprints \cup {None}, version : Nat,
         carry : SUBSET DOMAIN Home]
Receipts == [req : Request, answer : Told]
Events == [by : Calls, task : DOMAIN Home, sprint : Sprints \cup {None}]

Types ==
    /\ sprints \in [Sprints -> Sprint \cup {NoSprint}]
    /\ members \subseteq Sprints \X (DOMAIN Home)
    /\ done \subseteq DOMAIN Home
    /\ log \subseteq Events
    /\ receipts \in [Ops -> Receipts \cup {NoReceipt}]
    /\ sprintLock \in [Sprints -> Calls \cup {None}]
    /\ pc \in [Calls -> Steps]
    /\ req \in [Calls -> Request \cup {NoRequest}]
    /\ found \in [Calls -> SUBSET DOMAIN Home]
    /\ carry \in [Calls -> SUBSET DOMAIN Home]
    /\ fresh \in [Calls -> BOOLEAN]
    /\ beside \in [Calls -> SUBSET Calls]
    /\ answer \in [Calls -> Told]

\* The handler that stands at each step.
OfItsVerb(c) ==
    /\ pc[c] = "idle" => req[c] = NoRequest
    /\ pc[c] # "idle" => req[c] \in Request /\ req[c] \in Requests[c]
    /\ pc[c] \in {"check", "recheck", "record", "commit"} => req[c].verb \in Recorded
    /\ pc[c] = "lock" => req[c].verb \in {"activate", "close"}
    /\ pc[c] = "active" => req[c].verb = "activate"
    /\ pc[c] \in {"members", "tasks"} => req[c].verb = "close"
    /\ pc[c] \in {"read", "guard", "insert", "reference", "enter"} => req[c].verb = "assign"
    /\ pc[c] \in {"delete", "event"} => req[c].verb = "remove"

\* What a handler has come to know, at its step.
KnowsByItsStep(c) ==
    /\ pc[c] \in {"guard", "insert", "reference", "enter"} =>
          /\ Exists(req[c].sprint) /\ req[c].task \in DOMAIN Home
          /\ sprints[req[c].sprint].project = Home[req[c].task]
    /\ fresh[c] => pc[c] \in {"reference", "enter"}
    /\ pc[c] = "reference" => fresh[c]
    /\ carry[c] \subseteq found[c]
    /\ found[c] # {} => pc[c] \in {"tasks", "record", "commit", "recheck"}
    /\ carry[c] # {} => pc[c] \in {"record", "commit", "recheck"}
    /\ beside[c] # {} => pc[c] \notin UncheckedSteps
    /\ \A d \in beside[c] : pc[d] # "idle"
    /\ pc[c] \notin {"answered", "recheck"} => answer[c].outcome = "none"
    /\ pc[c] = "recheck" => answer[c].outcome \in Refusals
    /\ pc[c] = "commit" => ~Seen(c)

\* A transition holds its sprint from the row it has read to COMMIT, and a close has
\* found all that is in it.
HoldsItsSprint(c) ==
    /\ (pc[c] \in HoldSteps /\ req[c].verb # "create") =>
          sprintLock[req[c].sprint] = c /\ Exists(req[c].sprint) /\ MayTransition(c)
    /\ (pc[c] \in {"tasks", "record", "commit"} /\ req[c].verb = "close") =>
          \A m \in members : m[1] = req[c].sprint => m[2] \in found[c]

\* Who holds a sprint is at work on it, and no new row refers to it meanwhile.
LockIsHeld(s) ==
    /\ sprintLock[s] # None =>
          /\ sprintLock[s] \in Calls /\ req[sprintLock[s]].sprint = s
          /\ pc[sprintLock[s]] \in HoldSteps
    /\ \A c \in Calls : (pc[c] = "enter" /\ fresh[c] /\ req[c].sprint = s) => sprintLock[s] = None

IsActivation(c, s) == req[c].verb = "activate" /\ req[c].sprint = s
Activates(c) == req[c].verb = "activate" /\ pc[c] \in {"record", "commit"}
ActivatesAlone(c) ==
    Activates(c) =>
        /\ \A s \in Sprints \ {req[c].sprint} :
              (sprints[s].status = "active" /\ sprints[s].project = sprints[req[c].sprint].project)
                 => \E d \in Calls : Overlapped(c, d) /\ IsActivation(d, s)
        /\ \A d \in Calls \ {c} : Activates(d) => Overlapped(c, d)

IsAssignment(c, s, t) == req[c].sprint = s /\ req[c].task = t
Assigns(c) == pc[c] \in {"insert", "reference", "enter"}
AssignsAlone(c) ==
    Assigns(c) =>
        /\ \A s \in OtherOpen(c) :
              \E d \in Calls : Overlapped(c, d) /\ IsAssignment(d, s, req[c].task)
        /\ \A d \in Calls \ {c} : Assigns(d) => Overlapped(c, d)

\* What is told of an operation is what is recorded of it, and so is what it has made.
IsRecorded(c) ==
    /\ (answer[c].outcome = "ok" /\ req[c].op # None) =>
          Seen(c) /\ receipts[req[c].op].answer = answer[c]
    /\ Exists(c) => req[c].op \in Ops /\ Seen(c) /\ receipts[req[c].op].answer.sprint = c
    /\ \A d \in Calls \ {c} : pc[c] = "commit" /\ pc[d] = "commit" => req[c].op # req[d].op

CallIsSound(c) ==
    /\ OfItsVerb(c) /\ KnowsByItsStep(c) /\ HoldsItsSprint(c)
    /\ ActivatesAlone(c) /\ AssignsAlone(c) /\ IsRecorded(c)

IInv ==
    /\ Types
    /\ \A m \in members : sprints[m[1]].project = Home[m[2]]
    /\ \A c \in Calls : CallIsSound(c)
    /\ \A s \in Sprints : LockIsHeld(s)
    /\ ConflictsOnlyByRace
    /\ MovesAreLogged

(***************************************************************************)
(* Shapes                                                                  *)
(***************************************************************************)

\* What a request asks for has the types of its verb.
LEMMA RequestShape ==
  ASSUME NEW q \in Request
  PROVE  /\ q.verb \in {"create", "activate", "close", "assign", "remove"}
         /\ q.verb \in Recorded => q.op \in Ops /\ q.op # None
         /\ q.verb \notin Recorded => q.op = None /\ q.task \in Tasks
         /\ q.verb = "create" => q.project \in Projects /\ q.sprint = None
         /\ q.verb # "create" => q.sprint \in Sprints /\ q.sprint # None
  BY SprintsAssumption
     DEF Request, CreateRequest, TransitionRequest, AssignRequest, RemoveRequest, Recorded

LEMMA SprintShape ==
  /\ \A r \in Sprint : /\ r # NoSprint /\ r.project \in Projects /\ r.version \in Nat
                       /\ r.status \in {"planning", "active", "completed"}
  /\ NoSprint.status \notin {"planning", "active"} /\ NoSprint.project \notin Projects
  /\ \A p \in Projects : \A st \in {"planning", "active", "completed"} : \A v \in Nat :
        [project |-> p, status |-> st, version |-> v] \in Sprint
  <1>1. \A r \in Sprint : /\ r # NoSprint /\ r.project \in Projects /\ r.version \in Nat
                           /\ r.status \in {"planning", "active", "completed"}
    BY SprintsAssumption DEF Sprint, NoSprint
  <1>2. NoSprint.status \notin {"planning", "active"} /\ NoSprint.project \notin Projects
    BY SprintsAssumption DEF NoSprint
  <1> QED BY <1>1, <1>2 DEF Sprint

\* The row that a transition writes.
Moved(r, st) == [r EXCEPT !.status = st, !.version = @ + 1]

LEMMA TransitionShape ==
  ASSUME NEW r \in Sprint, NEW st \in {"planning", "active", "completed"}
  PROVE  /\ Moved(r, st) \in Sprint /\ Moved(r, st).status = st
         /\ Moved(r, st).project = r.project
  <1> DEFINE p == [r EXCEPT !.status = st]
  <1>1. p \in Sprint /\ \A v \in Nat : [p EXCEPT !.version = v] \in Sprint
    <2>1. p \in Sprint
      BY DEF Sprint
    <2>2. \A q \in Sprint : \A v \in Nat : [q EXCEPT !.version = v] \in Sprint
      BY DEF Sprint
    <2> QED BY <2>1, <2>2
  <1> r.version + 1 \in Nat
    BY DEF Sprint
  <1>2. Moved(r, st) = [p EXCEPT !.version = r.version + 1]
    BY DEF Sprint, Moved
  <1>3. Moved(r, st).status = st
    BY DEF Sprint, Moved
  <1>4. Moved(r, st).project = r.project
    BY DEF Sprint, Moved
  <1> HIDE DEF p
  <1> QED BY <1>1, <1>2, <1>3, <1>4

LEMMA ToldShape ==
  /\ NoAnswer \in Told /\ NoAnswer.outcome = "none"
  /\ \A a \in Told : \A e \in Outcomes :
        [a EXCEPT !.outcome = e] \in Told /\ [a EXCEPT !.outcome = e].outcome = e
  BY DEF NoAnswer, Told, Outcomes

LEMMA ReceiptShape ==
  /\ \A r \in Receipts : r # NoReceipt /\ r.req \in Request /\ r.answer \in Told
  /\ \A q \in Request : \A a \in Told : /\ [req |-> q, answer |-> a] \in Receipts
                                        /\ [req |-> q, answer |-> a].answer = a
  <1>1. \A r \in Receipts : "answer" \in DOMAIN r
    BY DEF Receipts
  <1>2. "answer" \notin DOMAIN NoReceipt
    BY DEF NoReceipt
  <1> QED BY <1>1, <1>2 DEF Receipts

\* The sprint of a call that is past the lookup of its rows.
LEMMA SprintOfStep ==
  ASSUME IInv, NEW c \in Calls, pc[c] # "idle"
  PROVE  /\ req[c] \in Request /\ req[c] \in Requests[c]
         /\ req[c].verb # "create" => req[c].sprint \in Sprints
         /\ req[c].verb \in Recorded => req[c].op \in Ops
         /\ req[c].verb \notin Recorded => req[c].op = None
         /\ (pc[c] \in HoldSteps /\ req[c].verb # "create")
               => sprints[req[c].sprint] \in Sprint /\ req[c].verb \in {"activate", "close"}
  <1>1. req[c] \in Request /\ req[c] \in Requests[c]
    BY DEF IInv, CallIsSound, OfItsVerb
  <1>2. /\ req[c].verb # "create" => req[c].sprint \in Sprints
        /\ req[c].verb \in Recorded => req[c].op \in Ops
        /\ req[c].verb \notin Recorded => req[c].op = None
    BY <1>1, RequestShape
  <1>3. ASSUME pc[c] \in HoldSteps, req[c].verb # "create"
        PROVE  sprints[req[c].sprint] \in Sprint /\ req[c].verb \in {"activate", "close"}
    BY <1>2, <1>3 DEF IInv, CallIsSound, OfItsVerb, HoldsItsSprint, HoldSteps, Exists, Types, Recorded
  <1> QED BY <1>1, <1>2, <1>3

LEMMA InitEstablishesIInv == Init => IInv
  <1> SUFFICES ASSUME Init PROVE IInv
    OBVIOUS
  <1> USE DEF Init
  <1>1. Types
    <2>1. sprints \in [Sprints -> Sprint \cup {NoSprint}]
      BY SprintsAssumption DEF Sprints
    <2>2. members \subseteq Sprints \X (DOMAIN Home)
      BY SprintsAssumption DEF Sprints
    <2> QED BY <2>1, <2>2, ToldShape DEF Types, Steps
  <1>2. \A s \in Sprints : Exists(s) => s \in DOMAIN Start /\ sprints[s] = Start[s]
    BY DEF Exists
  <1>3. ASSUME NEW m \in members
        PROVE  /\ m = <<m[1], m[2]>> /\ m[1] \in DOMAIN Start /\ m[2] \in DOMAIN Home
               /\ m \in StartMembers /\ sprints[m[1]] = Start[m[1]]
               /\ sprints[m[1]].project = Home[m[2]]
    <2>1. m \in StartMembers /\ m \in (DOMAIN Start) \X (DOMAIN Home)
      BY SprintsAssumption
    <2> QED BY <2>1, SprintsAssumption DEF Sprints
  <1>4. ASSUME NEW c \in Calls
        PROVE  CallIsSound(c)
    <2>1. ~Exists(c)
      BY SprintsAssumption, <1>2 DEF Sprints
    <2>2. OfItsVerb(c) /\ KnowsByItsStep(c) /\ HoldsItsSprint(c)
      BY ToldShape DEF OfItsVerb, KnowsByItsStep, HoldsItsSprint, HoldSteps
    <2>3. ActivatesAlone(c) /\ AssignsAlone(c) /\ IsRecorded(c)
      BY <2>1, ToldShape DEF ActivatesAlone, AssignsAlone, IsRecorded, Activates, Assigns
    <2> QED BY <2>2, <2>3 DEF CallIsSound
  <1>5. \A s \in Sprints : LockIsHeld(s)
    BY DEF LockIsHeld
  <1>6. OneActiveUnlessRaced
    <2> SUFFICES ASSUME NEW s \in Sprints, NEW u \in Sprints, s # u,
                        sprints[s].project = sprints[u].project,
                        sprints[s].status = "active", sprints[u].status = "active"
                 PROVE  FALSE
      BY DEF OneActiveUnlessRaced
    <2>1. Exists(s) /\ Exists(u)
      BY SprintShape DEF Exists
    <2>2. {Start[s].status, Start[u].status} = {"active"}
      BY <1>2, <2>1
    <2> QED BY <1>2, <2>1, <2>2, SprintsAssumption
  <1>7. OneOpenUnlessRaced
    <2> SUFFICES ASSUME NEW s \in Sprints, NEW u \in Sprints, NEW t \in DOMAIN Home, s # u,
                        IsOpen(s), IsOpen(u), <<s, t>> \in members, <<u, t>> \in members
                 PROVE  FALSE
      BY DEF OneOpenUnlessRaced
    <2>1. /\ Start[s].status # "completed" /\ Start[u].status # "completed"
          /\ <<s, t>> \in StartMembers /\ <<u, t>> \in StartMembers
      BY <1>3 DEF IsOpen
    <2>2. "completed" \in {Start[s].status, Start[u].status}
      <3> DEFINE m == <<s, t>>
                 n == <<u, t>>
      <3>1. m # n /\ m[2] = n[2] /\ m[1] = s /\ n[1] = u
        OBVIOUS
      <3> HIDE DEF m, n
      <3>2. m \in StartMembers /\ n \in StartMembers
        BY <2>1 DEF m, n
      <3> QED BY <3>1, <3>2, SprintsAssumption
    <2> QED BY <2>1, <2>2
  <1> QED BY <1>1, <1>3, <1>4, <1>5, <1>6, <1>7 DEF IInv, ConflictsOnlyByRace, MovesAreLogged

(***************************************************************************)
(* What a step of one call leaves alone                                    *)
(***************************************************************************)

\* What has raced stays raced.
LEMMA OverlapStays ==
  ASSUME NEW c, NEW d, beside[c] \subseteq beside'[c], beside[d] \subseteq beside'[d],
         Overlapped(c, d)
  PROVE  Overlapped(c, d)'
  BY DEF Overlapped

\* Nobody has raced a call that is yet to come.
LEMMA OnlyTheArrivedRace ==
  ASSUME IInv, NEW c \in Calls, NEW d \in Calls, Overlapped(c, d)
  PROVE  pc[c] # "idle" /\ pc[d] # "idle"
  BY DEF IInv, CallIsSound, KnowsByItsStep, Overlapped, UncheckedSteps

\* The conflicts that there may be stay explained while the tables stand and no call
\* that is in flight or has ended changes what it asks.
LEMMA ConflictsStand ==
  ASSUME IInv, UNCHANGED <<sprints, members>>,
         \A d \in Calls : beside[d] \subseteq beside'[d],
         \A d \in Calls : pc[d] # "idle" => req'[d] = req[d]
  PROVE  ConflictsOnlyByRace'
  <1>1. OneActiveUnlessRaced'
    <2> SUFFICES ASSUME NEW s \in Sprints, NEW u \in Sprints, s # u,
                        sprints[s].project = sprints[u].project,
                        sprints[s].status = "active", sprints[u].status = "active"
                 PROVE  \E c, d \in Calls : /\ Overlapped(c, d)'
                                            /\ req'[c].verb = "activate" /\ req'[c].sprint = s
                                            /\ req'[d].verb = "activate" /\ req'[d].sprint = u
      BY DEF OneActiveUnlessRaced
    <2>1. PICK c \in Calls, d \in Calls : /\ Overlapped(c, d)
                                          /\ req[c].verb = "activate" /\ req[c].sprint = s
                                          /\ req[d].verb = "activate" /\ req[d].sprint = u
      BY DEF IInv, ConflictsOnlyByRace, OneActiveUnlessRaced
    <2>2. Overlapped(c, d)' /\ req'[c] = req[c] /\ req'[d] = req[d]
      BY <2>1, OverlapStays, OnlyTheArrivedRace
    <2> QED BY <2>1, <2>2
  <1>2. OneOpenUnlessRaced'
    <2> SUFFICES ASSUME NEW s \in Sprints, NEW u \in Sprints, NEW t \in DOMAIN Home, s # u,
                        IsOpen(s), IsOpen(u), {<<s, t>>, <<u, t>>} \subseteq members
                 PROVE  \E c, d \in Calls : /\ Overlapped(c, d)'
                                            /\ req'[c].sprint = s /\ req'[d].sprint = u
                                            /\ req'[c].task = t /\ req'[d].task = t
      BY DEF OneOpenUnlessRaced, IsOpen
    <2>1. PICK c \in Calls, d \in Calls : /\ Overlapped(c, d)
                                          /\ req[c].sprint = s /\ req[d].sprint = u
                                          /\ req[c].task = t /\ req[d].task = t
      BY DEF IInv, ConflictsOnlyByRace, OneOpenUnlessRaced
    <2>2. Overlapped(c, d)' /\ req'[c] = req[c] /\ req'[d] = req[d]
      BY <2>1, OverlapStays, OnlyTheArrivedRace
    <2> QED BY <2>1, <2>2
  <1> QED BY <1>1, <1>2 DEF ConflictsOnlyByRace

\* A step of c alone that changes no sprint, membership or receipt.
LEMMA QuietStep ==
  ASSUME IInv, NEW c \in Calls, pc[c] # "idle", pc'[c] # "idle",
         UNCHANGED <<sprints, members, receipts, req>>, log \subseteq log',
         \A d \in Calls \ {c} :
             /\ pc'[d] = pc[d] /\ found'[d] = found[d] /\ carry'[d] = carry[d]
             /\ fresh'[d] = fresh[d] /\ beside'[d] = beside[d] /\ answer'[d] = answer[d],
         beside[c] \subseteq beside'[c],
         \A s \in Sprints : sprintLock'[s] # sprintLock[s] =>
             sprintLock[s] \in {c, None} /\ sprintLock'[s] \in {c, None},
         (pc[c] = "event" /\ req[c].task \in DOMAIN Home) => Event(c) \in log',
         answer[c].outcome # "lost",
         Types', CallIsSound(c)', \A s \in Sprints : LockIsHeld(s)'
  PROVE  IInv'
  <1> USE DEF IInv
  <1>1. \A d \in Calls : beside[d] \subseteq beside'[d] /\ (pc[d] = "idle" <=> pc'[d] = "idle")
    OBVIOUS
  <1>2. ASSUME NEW d \in Calls \ {c}
        PROVE  CallIsSound(d)'
    <2>1. OfItsVerb(d)' /\ KnowsByItsStep(d)'
      <3>1. OfItsVerb(d) /\ KnowsByItsStep(d)
        BY DEF CallIsSound
      <3>2. OfItsVerb(d)'
        BY <3>1 DEF OfItsVerb
      <3>3. \A e \in Calls : pc[e] # "idle" => pc'[e] # "idle"
        BY <1>1
      <3>4. beside[d] \subseteq Calls
        BY DEF Types
      <3>5. Exists(req[d].sprint)' = Exists(req[d].sprint) /\ Seen(d)' = Seen(d)
        BY DEF Exists, Seen
      <3>6. KnowsByItsStep(d)'
        BY <3>1, <3>3, <3>4, <3>5 DEF KnowsByItsStep
      <3> QED BY <3>2, <3>6
    <2>2. HoldsItsSprint(d)'
      <3>1. HoldsItsSprint(d)
        BY DEF CallIsSound
      <3>2. (pc[d] \in HoldSteps /\ req[d].verb # "create") => sprintLock'[req[d].sprint] = d
        BY <3>1, SprintOfStep, SprintsAssumption DEF HoldsItsSprint, HoldSteps, Sprints
      <3> QED BY <3>1, <3>2 DEF HoldsItsSprint, Exists, MayTransition
    <2>3. ActivatesAlone(d)'
      <3> SUFFICES ASSUME Activates(d)' PROVE ActivatesAlone(d)'
        BY DEF ActivatesAlone
      <3>1. Activates(d) /\ ActivatesAlone(d)
        BY DEF Activates, CallIsSound
      <3>2. ASSUME NEW s \in Sprints \ {req[d].sprint}, sprints[s].status = "active",
                   sprints[s].project = sprints[req[d].sprint].project
            PROVE  \E e \in Calls : (Overlapped(d, e) /\ IsActivation(e, s))'
        <4>1. PICK e \in Calls : Overlapped(d, e) /\ IsActivation(e, s)
          BY <3>1, <3>2 DEF ActivatesAlone
        <4> QED BY <1>1, <4>1, OverlapStays DEF IsActivation
      <3>3. ASSUME NEW e \in Calls \ {d}, Activates(e)'
            PROVE  Overlapped(d, e)'
        <4>1. CASE e = c
          BY <3>1, <3>3, <4>1 DEF CallIsSound, ActivatesAlone, Overlapped, Activates
        <4>2. CASE e # c
          BY <1>1, <3>1, <3>3, <4>2, OverlapStays DEF ActivatesAlone, Activates
        <4> QED BY <4>1, <4>2
      <3> QED BY <3>2, <3>3 DEF ActivatesAlone
    <2>4. AssignsAlone(d)'
      <3> SUFFICES ASSUME Assigns(d)' PROVE AssignsAlone(d)'
        BY DEF AssignsAlone
      <3>1. Assigns(d) /\ AssignsAlone(d) /\ OtherOpen(d)' = OtherOpen(d)
        BY DEF Assigns, CallIsSound, OtherOpen, IsOpen
      <3>2. ASSUME NEW s \in OtherOpen(d)
            PROVE  \E e \in Calls : (Overlapped(d, e) /\ IsAssignment(e, s, req[d].task))'
        <4>1. PICK e \in Calls : Overlapped(d, e) /\ IsAssignment(e, s, req[d].task)
          BY <3>1, <3>2 DEF AssignsAlone
        <4> QED BY <1>1, <4>1, OverlapStays DEF IsAssignment
      <3>3. ASSUME NEW e \in Calls \ {d}, Assigns(e)'
            PROVE  Overlapped(d, e)'
        <4>1. CASE e = c
          BY <3>1, <3>3, <4>1 DEF CallIsSound, AssignsAlone, Overlapped, Assigns
        <4>2. CASE e # c
          BY <1>1, <3>1, <3>3, <4>2, OverlapStays DEF AssignsAlone, Assigns
        <4> QED BY <4>1, <4>2
      <3> QED BY <3>1, <3>2, <3>3 DEF AssignsAlone
    <2>5. IsRecorded(d)'
      <3>1. IsRecorded(d) /\ IsRecorded(c)'
        BY DEF CallIsSound
      <3>2. \A e \in Calls \ {d} : (pc'[d] = "commit" /\ pc'[e] = "commit") => req'[d].op # req'[e].op
        BY <3>1 DEF IsRecorded
      <3> QED BY <3>1, <3>2 DEF IsRecorded, Seen, Exists
    <2> QED BY <2>1, <2>2, <2>3, <2>4, <2>5 DEF CallIsSound
  <1>3. ConflictsOnlyByRace'
    BY <1>1, ConflictsStand
  <1>4. MovesAreLogged'
    <2>1. \A m \in members' \ StartMembers : \E e \in log' : e.sprint = m[1] /\ e.task = m[2]
      BY DEF MovesAreLogged
    <2>2. ASSUME NEW m \in StartMembers \ members'
          PROVE  \E d \in Calls : /\ req'[d].verb = "remove" /\ req'[d].sprint = m[1] /\ req'[d].task = m[2]
                                  /\ pc'[d] = "event" \/ answer'[d].outcome = "lost" \/ Event(d)' \in log'
      <3>1. PICK d \in Calls : /\ req[d].verb = "remove" /\ req[d].sprint = m[1] /\ req[d].task = m[2]
                               /\ pc[d] = "event" \/ answer[d].outcome = "lost" \/ Event(d) \in log
        BY <2>2 DEF MovesAreLogged
      <3>2. m[2] \in DOMAIN Home
        BY <2>2, SprintsAssumption
      <3>3. Event(d)' = Event(d)
        BY DEF Event
      <3> QED BY <3>1, <3>2, <3>3
    <2> QED BY <2>1, <2>2 DEF MovesAreLogged
  <1> QED BY <1>2, <1>3, <1>4

(***************************************************************************)
(* The end of a call, and of a transaction that is rolled back             *)
(***************************************************************************)

LEMMA EndKeepsIInv ==
  ASSUME IInv, NEW c \in Calls, pc[c] \notin {"idle", "answered"},
         UNCHANGED <<sprints, members, done, receipts, req, beside>>,
         log \subseteq log', log' \subseteq Events,
         NEW to \in {"answered", "recheck"}, pc' = [pc EXCEPT ![c] = to],
         NEW ans \in Told, answer' = [answer EXCEPT ![c] = ans],
         to = "recheck" => req[c].verb \in Recorded /\ ans.outcome \in Refusals,
         (ans.outcome = "ok" /\ req[c].op # None) => Seen(c) /\ receipts[req[c].op].answer = ans,
         found' \in [Calls -> SUBSET DOMAIN Home], carry' \in [Calls -> SUBSET DOMAIN Home],
         fresh' \in [Calls -> BOOLEAN],
         \A d \in Calls \ {c} :
             found'[d] = found[d] /\ carry'[d] = carry[d] /\ fresh'[d] = fresh[d],
         ~fresh'[c], carry'[c] \subseteq found'[c],
         to = "answered" => found'[c] = {} /\ carry'[c] = {},
         sprintLock' = sprintLock \/ Release(c),
         to = "recheck" => Release(c),
         (pc[c] = "event" /\ req[c].task \in DOMAIN Home) => Event(c) \in log',
         pc[c] \in HoldSteps => Release(c)
  PROVE  IInv'
  <1> USE DEF IInv
  <1>1. pc'[c] = to /\ answer'[c] = ans /\ req[c] \in Request /\ req[c] \in Requests[c]
    BY SprintOfStep DEF Types
  <1>2. /\ sprintLock' \in [Sprints -> Calls \cup {None}]
        /\ \A s \in Sprints : sprintLock'[s] # c
        /\ \A s \in Sprints : sprintLock'[s] # sprintLock[s] =>
              sprintLock[s] = c /\ sprintLock'[s] = None
    <2>1. CASE Release(c)
      BY <2>1, SprintsAssumption DEF Release, Types, Sprints
    <2>2. CASE ~Release(c)
      <3>1. sprintLock' = sprintLock /\ \A s \in Sprints : sprintLock[s] # c
        BY <2>2, SprintsAssumption DEF LockIsHeld, Sprints
      <3> QED BY <3>1 DEF Types
    <2> QED BY <2>1, <2>2
  <1>3. Types'
    BY <1>2 DEF Types, Steps
  <1>4. OfItsVerb(c)'
    BY <1>1 DEF OfItsVerb
  <1>5. KnowsByItsStep(c)'
    <2>1. ASSUME NEW d \in beside[c] PROVE pc'[d] # "idle"
      BY <1>1 DEF CallIsSound, KnowsByItsStep, Types
    <2> QED BY <1>1, <2>1 DEF KnowsByItsStep, CallIsSound, UncheckedSteps
  <1>6. HoldsItsSprint(c)' /\ ActivatesAlone(c)' /\ AssignsAlone(c)'
    BY <1>1 DEF HoldsItsSprint, ActivatesAlone, AssignsAlone, Activates, Assigns, HoldSteps
  <1>7. IsRecorded(c)'
    BY <1>1 DEF IsRecorded, CallIsSound, Seen, Exists
  <1>8. ASSUME NEW s \in Sprints
        PROVE  LockIsHeld(s)'
    <2>1. LockIsHeld(s)
      OBVIOUS
    <2>2. ASSUME sprintLock'[s] # None
          PROVE  /\ sprintLock'[s] \in Calls /\ req'[sprintLock'[s]].sprint = s
                 /\ pc'[sprintLock'[s]] \in HoldSteps
      BY <1>2, <2>1, <2>2 DEF LockIsHeld, Types
    <2>3. ASSUME NEW d \in Calls, pc'[d] = "enter", fresh'[d], req'[d].sprint = s
          PROVE  sprintLock'[s] = None
      <3>1. d # c
        BY <2>3
      <3> QED BY <1>2, <2>1, <2>3, <3>1 DEF LockIsHeld, Types
    <2> QED BY <2>2, <2>3 DEF LockIsHeld
  <1>9. \A d \in Calls \ {c} : pc'[d] = pc[d] /\ answer'[d] = answer[d]
    BY DEF Types
  <1>10. answer[c].outcome # "lost"
    BY DEF CallIsSound, KnowsByItsStep, Refusals
  <1>11. CallIsSound(c)'
    BY <1>4, <1>5, <1>6, <1>7 DEF CallIsSound
  <1>12. \A s \in Sprints : sprintLock'[s] # sprintLock[s] =>
             sprintLock[s] \in {c, None} /\ sprintLock'[s] \in {c, None}
    BY <1>2
  <1> HIDE DEF IInv
  <1>13. pc[c] # "idle" /\ pc'[c] # "idle"
    BY <1>1
  <1> QED BY <1>3, <1>8, <1>9, <1>10, <1>11, <1>12, <1>13, QuietStep

LEMMA ForgetShape ==
  ASSUME IInv, NEW c \in Calls, Forget({c})
  PROVE  /\ found' \in [Calls -> SUBSET DOMAIN Home] /\ carry' \in [Calls -> SUBSET DOMAIN Home]
         /\ fresh' \in [Calls -> BOOLEAN] /\ ~fresh'[c] /\ found'[c] = {} /\ carry'[c] = {}
         /\ \A d \in Calls \ {c} :
               found'[d] = found[d] /\ carry'[d] = carry[d] /\ fresh'[d] = fresh[d]
         /\ beside' = beside
  BY DEF Forget, IInv, Types

\* An answer without a write: a refusal, or what an earlier call has recorded.
LEMMA AnswerKeepsIInv ==
  ASSUME IInv, NEW c \in Calls, pc[c] \notin HoldSteps \cup {"idle", "answered", "event"},
         NEW ans \in Told, Answer(c, ans), UNCHANGED <<tables, sprintLock>>,
         (ans.outcome = "ok" /\ req[c].op # None) => Seen(c) /\ receipts[req[c].op].answer = ans
  PROVE  IInv'
  <1>1. pc' = [pc EXCEPT ![c] = "answered"] /\ answer' = [answer EXCEPT ![c] = ans] /\ req' = req
    BY DEF Answer
  <1>2. UNCHANGED <<sprints, members, done, log, receipts>>
    BY DEF tables
  <1>3. log \subseteq log' /\ log' \subseteq Events
    BY <1>2 DEF IInv, Types
  <1>4. Forget({c})
    BY DEF Answer
  <1>5. carry'[c] \subseteq found'[c]
    BY <1>4, ForgetShape
  <1> QED BY <1>1, <1>2, <1>3, <1>4, <1>5, ForgetShape, EndKeepsIInv

LEMMA RefuseKeepsIInv ==
  ASSUME IInv, NEW c \in Calls, pc[c] \notin HoldSteps \cup {"idle", "answered", "event"},
         NEW err \in Refusals, Refuse(c, err)
  PROVE  IInv'
  <1>1. [NoAnswer EXCEPT !.outcome = err] \in Told /\ [NoAnswer EXCEPT !.outcome = err].outcome # "ok"
    BY ToldShape DEF Outcomes, Refusals
  <1> QED BY <1>1, AnswerKeepsIInv DEF Refuse

LEMMA FromReceiptKeepsIInv ==
  ASSUME IInv, NEW c \in Calls, pc[c] \in {"check", "recheck"}, AnswerFromReceipt(c)
  PROVE  IInv'
  <1>1. pc[c] \notin HoldSteps \cup {"idle", "answered", "event"} /\ req[c].op \in Ops
    BY SprintOfStep DEF HoldSteps, IInv, CallIsSound, OfItsVerb
  <1>2. receipts[req[c].op].answer \in Told
    BY <1>1, ReceiptShape DEF AnswerFromReceipt, Seen, IInv, Types
  <1>3. CASE Answer(c, receipts[req[c].op].answer)
    BY <1>1, <1>2, <1>3, AnswerKeepsIInv DEF AnswerFromReceipt
  <1>4. CASE Answer(c, [NoAnswer EXCEPT !.outcome = "idempotencyConflict"])
    BY <1>1, <1>4, RefuseKeepsIInv DEF AnswerFromReceipt, Refuse, Refusals
  <1> QED BY <1>3, <1>4 DEF AnswerFromReceipt

LEMMA AbortKeepsIInv ==
  ASSUME IInv, NEW c \in Calls, pc[c] \in HoldSteps \cup {"lock"}, req[c].verb \in Recorded,
         NEW err \in Refusals, Abort(c, err)
  PROVE  IInv'
  <1>1. pc[c] \notin {"idle", "answered", "event", "enter", "reference"}
    BY DEF HoldSteps
  <1> DEFINE ans == [answer[c] EXCEPT !.outcome = err]
  <1>2. ans \in Told /\ ans.outcome = err /\ err # "ok"
    BY ToldShape DEF IInv, Types, Outcomes, Refusals
  <1>3. answer' = [answer EXCEPT ![c] = ans]
    BY DEF Abort
  <1> HIDE DEF ans
  <1>4. /\ pc' = [pc EXCEPT ![c] = "recheck"] /\ Release(c)
        /\ UNCHANGED <<sprints, members, done, log, receipts, req, found, carry, fresh, beside>>
    BY DEF Abort, tables, local
  <1>5. ~fresh[c] /\ carry[c] \subseteq found[c]
    BY <1>1 DEF IInv, CallIsSound, KnowsByItsStep
  <1>6. /\ found' \in [Calls -> SUBSET DOMAIN Home] /\ carry' \in [Calls -> SUBSET DOMAIN Home]
        /\ fresh' \in [Calls -> BOOLEAN] /\ log \subseteq log' /\ log' \subseteq Events
    BY <1>4 DEF IInv, Types
  <1> QED BY <1>1, <1>2, <1>3, <1>4, <1>5, <1>6, EndKeepsIInv

(***************************************************************************)
(* Steps that go on                                                        *)
(***************************************************************************)

LEMMA GoKeepsIInv ==
  ASSUME IInv, NEW c \in Calls, pc[c] \notin {"idle", "answered", "recheck", "event"},
         NEW to \in Steps \ {"idle", "answered", "recheck"}, Go(c, to), UNCHANGED tables,
         found' \in [Calls -> SUBSET DOMAIN Home], carry' \in [Calls -> SUBSET DOMAIN Home],
         fresh' \in [Calls -> BOOLEAN], beside' \in [Calls -> SUBSET Calls],
         sprintLock' \in [Sprints -> Calls \cup {None}],
         \A d \in Calls \ {c} : /\ found'[d] = found[d] /\ carry'[d] = carry[d]
                                /\ fresh'[d] = fresh[d] /\ beside'[d] = beside[d],
         beside[c] \subseteq beside'[c],
         \A s \in Sprints : sprintLock'[s] # sprintLock[s] =>
             /\ sprintLock[s] = None /\ sprintLock'[s] = c /\ req[c].sprint = s
             /\ \A d \in Calls : pc[d] = "enter" /\ fresh[d] => req[d].sprint # s,
         \A s \in Sprints : sprintLock'[s] = c => to \in HoldSteps,
         (to = "enter" /\ fresh'[c]) => sprintLock'[req[c].sprint] = None,
         to = "commit" => \A d \in Calls \ {c} : pc[d] = "commit" => req[d].op # req[c].op,
         OfItsVerb(c)', KnowsByItsStep(c)', HoldsItsSprint(c)', ActivatesAlone(c)', AssignsAlone(c)'
  PROVE  IInv'
  <1> USE DEF IInv
  <1>1. /\ pc' = [pc EXCEPT ![c] = to] /\ pc'[c] = to /\ \A d \in Calls \ {c} : pc'[d] = pc[d]
        /\ UNCHANGED <<sprints, members, done, log, receipts, req, answer>>
    BY DEF Go, Types, tables
  <1>2. Types'
    BY <1>1 DEF Types
  <1>3. IsRecorded(c)'
    <2>1. IsRecorded(c)
      BY DEF CallIsSound
    <2>2. \A d \in Calls \ {c} : pc'[c] = "commit" /\ pc'[d] = "commit" => req'[c].op # req'[d].op
      BY <1>1
    <2> QED BY <1>1, <2>1, <2>2 DEF IsRecorded, Seen, Exists
  <1>4. CallIsSound(c)'
    BY <1>3 DEF CallIsSound
  <1>5. ASSUME NEW s \in Sprints
        PROVE  LockIsHeld(s)'
    <2>1. LockIsHeld(s)
      OBVIOUS
    <2>2. ASSUME sprintLock'[s] # None
          PROVE  /\ sprintLock'[s] \in Calls /\ req'[sprintLock'[s]].sprint = s
                 /\ pc'[sprintLock'[s]] \in HoldSteps
      BY <1>1, <2>1, <2>2 DEF LockIsHeld, Types
    <2>3. ASSUME NEW d \in Calls, pc'[d] = "enter", fresh'[d], req'[d].sprint = s
          PROVE  sprintLock'[s] = None
      <3>1. CASE d = c
        BY <1>1, <2>3, <3>1
      <3>2. CASE d # c
        BY <1>1, <2>1, <2>3, <3>2 DEF LockIsHeld
      <3> QED BY <3>1, <3>2
    <2> QED BY <2>2, <2>3 DEF LockIsHeld
  <1>6. answer[c].outcome # "lost"
    BY DEF CallIsSound, KnowsByItsStep
  <1>7. \A s \in Sprints : sprintLock'[s] # sprintLock[s] =>
             sprintLock[s] \in {c, None} /\ sprintLock'[s] \in {c, None}
    OBVIOUS
  <1> HIDE DEF IInv
  <1>8. pc'[c] # "idle" /\ log \subseteq log' /\ \A d \in Calls \ {c} : answer'[d] = answer[d]
    BY <1>1
  <1> QED BY <1>1, <1>2, <1>4, <1>5, <1>6, <1>7, <1>8, QuietStep

\* A step that only moves on; what there is to show is what it has come to know.
LEMMA PlainGoKeepsIInv ==
  ASSUME IInv, NEW c \in Calls, pc[c] \notin {"idle", "answered", "recheck", "event"},
         NEW to \in Steps \ {"idle", "answered", "recheck"},
         Go(c, to), UNCHANGED <<tables, sprintLock, local>>,
         pc[c] \in HoldSteps => to \in HoldSteps,
         (to = "enter" /\ fresh[c]) => sprintLock[req[c].sprint] = None,
         to = "commit" => \A d \in Calls \ {c} : pc[d] = "commit" => req[d].op # req[c].op,
         OfItsVerb(c)', KnowsByItsStep(c)', HoldsItsSprint(c)',
         Activates(c)' => Activates(c), Assigns(c)' => Assigns(c)
  PROVE  IInv'
  <1>1. UNCHANGED <<sprints, members, done, log, receipts, req, answer, sprintLock, found, carry,
                    fresh, beside>>
    BY DEF Go, tables, local
  <1>2. \A s \in Sprints : sprintLock'[s] = c => to \in HoldSteps
    BY <1>1, SprintsAssumption DEF IInv, LockIsHeld, Sprints
  <1>3. \A d \in Calls \ {c} : pc'[d] = pc[d]
    BY DEF Go, IInv, Types
  <1>4. \A d \in Calls : Overlapped(c, d)' <=> Overlapped(c, d)
    BY <1>1 DEF Overlapped
  <1>5. ActivatesAlone(c)'
    <2>1. ActivatesAlone(c)
      BY DEF IInv, CallIsSound
    <2>2. \A d \in Calls \ {c} : Activates(d)' <=> Activates(d)
      BY <1>1, <1>3 DEF Activates
    <2>3. \A d \in Calls : \A s : IsActivation(d, s)' <=> IsActivation(d, s)
      BY <1>1 DEF IsActivation
    <2> QED BY <1>1, <1>4, <2>1, <2>2, <2>3 DEF ActivatesAlone
  <1>6. AssignsAlone(c)'
    <2>1. AssignsAlone(c) /\ OtherOpen(c)' = OtherOpen(c)
      BY <1>1 DEF IInv, CallIsSound, OtherOpen, IsOpen
    <2>2. \A d \in Calls \ {c} : Assigns(d)' <=> Assigns(d)
      BY <1>1, <1>3 DEF Assigns
    <2>3. \A d \in Calls : \A s, t : IsAssignment(d, s, t)' <=> IsAssignment(d, s, t)
      BY <1>1 DEF IsAssignment
    <2> QED BY <1>1, <1>4, <2>1, <2>2, <2>3 DEF AssignsAlone
  <1> QED BY <1>1, <1>2, <1>5, <1>6, GoKeepsIInv DEF IInv, Types

(***************************************************************************)
(* The steps of transitions and creations                                  *)
(***************************************************************************)

LEMMA CheckKeepsIInv ==
  ASSUME IInv, NEW c \in Calls, Check(c)
  PROVE  IInv'
  <1>1. CASE AnswerFromReceipt(c)
    BY <1>1, FromReceiptKeepsIInv DEF Check
  <1>2. CASE /\ ~Seen(c) /\ UNCHANGED <<tables, sprintLock, local>>
             /\ Go(c, IF req[c].verb = "create" THEN "record" ELSE "lock")
    <2> DEFINE to == IF req[c].verb = "create" THEN "record" ELSE "lock"
    <2>1. /\ pc[c] = "check" /\ req[c].verb \in Recorded /\ to \in {"record", "lock"}
          /\ pc'[c] = to /\ UNCHANGED <<req, answer, sprints, members, receipts, found, carry, fresh, beside>>
      BY <1>2, SprintOfStep DEF Check, Go, IInv, CallIsSound, OfItsVerb, Types, tables, local
    <2>2. OfItsVerb(c)'
      BY <2>1 DEF IInv, CallIsSound, OfItsVerb, Recorded
    <2>3. KnowsByItsStep(c)'
      <3>1. KnowsByItsStep(c) /\ beside[c] = {}
        BY <2>1 DEF IInv, CallIsSound, KnowsByItsStep, UncheckedSteps
      <3> QED BY <2>1, <3>1 DEF KnowsByItsStep
    <2>4. HoldsItsSprint(c)' /\ ~Activates(c)' /\ ~Assigns(c)'
      BY <2>1 DEF HoldsItsSprint, Activates, Assigns, HoldSteps
    <2>5. Go(c, to) /\ to \in Steps \ {"idle", "answered", "recheck", "commit", "enter"}
      BY <1>2, <2>1 DEF Steps
    <2> HIDE DEF to
    <2> QED BY <1>2, <2>1, <2>2, <2>3, <2>4, <2>5, PlainGoKeepsIInv DEF HoldSteps
  <1> QED BY <1>1, <1>2 DEF Check

LEMMA RecheckKeepsIInv ==
  ASSUME IInv, NEW c \in Calls, Recheck(c)
  PROVE  IInv'
  <1>1. CASE AnswerFromReceipt(c)
    BY <1>1, FromReceiptKeepsIInv DEF Recheck
  <1>2. CASE Refuse(c, answer[c].outcome)
    <2>1. pc[c] = "recheck" /\ answer[c].outcome \in Refusals
      BY DEF Recheck, IInv, CallIsSound, KnowsByItsStep
    <2>2. pc[c] \notin HoldSteps \cup {"idle", "answered", "event"}
      BY <2>1 DEF HoldSteps
    <2> QED BY <1>2, <2>1, <2>2, RefuseKeepsIInv
  <1> QED BY <1>1, <1>2 DEF Recheck

LEMMA LockSprintKeepsIInv ==
  ASSUME IInv, NEW c \in Calls, LockSprint(c)
  PROVE  IInv'
  <1> DEFINE s == req[c].sprint
             to == IF req[c].verb = "activate" THEN "active" ELSE "members"
  <1>1. /\ pc[c] = "lock" /\ req[c].verb \in {"activate", "close"} /\ req[c].verb \in Recorded
        /\ s \in Sprints
    BY SprintOfStep DEF LockSprint, IInv, CallIsSound, OfItsVerb, Recorded
  <1>2. CASE \E err \in Refusals : Abort(c, err)
    BY <1>1, <1>2, AbortKeepsIInv
  <1>3. CASE /\ Exists(s) /\ Free(c) /\ MayTransition(c)
             /\ sprintLock' = [sprintLock EXCEPT ![s] = c]
             /\ Go(c, to) /\ UNCHANGED <<tables, local>>
    <2>1. UNCHANGED <<req, answer, sprints, members, receipts, found, carry, fresh, beside>>
      BY <1>3 DEF Go, tables, local
    <2>2. /\ to \in Steps \ {"idle", "answered", "recheck"} /\ to \in HoldSteps
          /\ to # "commit" /\ to # "enter" /\ pc'[c] = to
      BY <1>3 DEF Steps, HoldSteps, Go, IInv, Types
    <2>3. /\ sprintLock[s] \in {None, c}
          /\ \A d \in Calls : pc[d] = "enter" /\ fresh[d] => req[d].sprint # s
      <3>1. {sprintLock[s]} \cup {d \in Calls : pc[d] = "enter" /\ fresh[d] /\ req[d].sprint = s}
              \subseteq {None, c}
        BY <1>1, <1>3 DEF Free, Blockers
      <3>2. \A d \in Calls : d # None
        BY SprintsAssumption DEF Sprints
      <3> QED BY <1>1, <3>1, <3>2
    <2>4. sprintLock[s] = None
      BY <1>1, <2>3, SprintsAssumption DEF IInv, LockIsHeld, HoldSteps, Sprints
    <2>5. /\ sprintLock' \in [Sprints -> Calls \cup {None}] /\ sprintLock'[s] = c
          /\ \A u \in Sprints : sprintLock'[u] # sprintLock[u] => u = s
      BY <1>1, <1>3 DEF IInv, Types
    <2>6. OfItsVerb(c)'
      BY <1>1, <2>1, <2>2 DEF IInv, CallIsSound, OfItsVerb
    <2>7. KnowsByItsStep(c)'
      <3>1. KnowsByItsStep(c) /\ beside[c] = {}
        BY <1>1 DEF IInv, CallIsSound, KnowsByItsStep, UncheckedSteps
      <3> QED BY <1>1, <2>1, <2>2, <3>1 DEF KnowsByItsStep
    <2>8. HoldsItsSprint(c)'
      BY <1>1, <1>3, <2>1, <2>2, <2>5 DEF HoldsItsSprint, Exists, MayTransition
    <2>9. ActivatesAlone(c)' /\ AssignsAlone(c)'
      BY <2>2 DEF ActivatesAlone, AssignsAlone, Activates, Assigns
    <2>10. \A u \in Sprints : sprintLock'[u] # sprintLock[u] =>
             /\ sprintLock[u] = None /\ sprintLock'[u] = c /\ req[c].sprint = u
             /\ \A d \in Calls : pc[d] = "enter" /\ fresh[d] => req[d].sprint # u
      BY <2>3, <2>4, <2>5
    <2>11. Go(c, to) /\ UNCHANGED tables
      BY <1>3
    <2> HIDE DEF to
    <2> QED BY <1>1, <2>1, <2>2, <2>5, <2>6, <2>7, <2>8, <2>9, <2>10, <2>11, GoKeepsIInv DEF IInv, Types
  <1> QED BY <1>2, <1>3 DEF LockSprint, Refusals

LEMMA ReadActiveKeepsIInv ==
  ASSUME IInv, NEW c \in Calls, ReadActive(c)
  PROVE  IInv'
  <1>1. pc[c] = "active" /\ req[c].verb = "activate" /\ req[c].verb \in Recorded
    BY DEF ReadActive, IInv, CallIsSound, OfItsVerb, Recorded
  <1>2. CASE Abort(c, "alreadyActive")
    BY <1>1, <1>2, AbortKeepsIInv DEF Refusals, HoldSteps
  <1>3. CASE /\ ActiveSprints(c) = {} /\ Go(c, "record")
             /\ beside' = [beside EXCEPT ![c] =
                             {d \in Calls : req[d].verb = "activate" /\ pc[d] \in {"record", "commit"}}]
             /\ UNCHANGED <<tables, sprintLock, found, carry, fresh>>
    <2>1. UNCHANGED <<req, answer, sprints, members, receipts, found, carry, fresh, sprintLock>>
      BY <1>3 DEF Go, tables
    <2>2. pc'[c] = "record" /\ \A d \in Calls \ {c} : pc'[d] = pc[d]
      BY <1>3 DEF Go, IInv, Types
    <2>3. /\ beside[c] = {} /\ beside' \in [Calls -> SUBSET Calls]
          /\ beside'[c] = {d \in Calls : Activates(d)}
          /\ \A d \in Calls \ {c} : beside'[d] = beside[d]
      <3>1. beside[c] = {}
        BY <1>1 DEF IInv, CallIsSound, KnowsByItsStep, UncheckedSteps
      <3> QED BY <1>3, <3>1 DEF IInv, Types, Activates
    <2>4. OfItsVerb(c)'
      BY <1>1, <2>1, <2>2 DEF IInv, CallIsSound, OfItsVerb
    <2>5. KnowsByItsStep(c)'
      <3>1. KnowsByItsStep(c)
        BY DEF IInv, CallIsSound
      <3>2. ASSUME NEW d \in beside'[c] PROVE pc'[d] # "idle"
        BY <2>2, <2>3, <3>2 DEF Activates
      <3> QED BY <1>1, <2>1, <2>2, <3>1, <3>2 DEF KnowsByItsStep, UncheckedSteps
    <2>6. HoldsItsSprint(c)'
      BY <1>1, <2>1, <2>2 DEF IInv, CallIsSound, HoldsItsSprint, HoldSteps, Exists, MayTransition
    <2>7. ActivatesAlone(c)'
      <3>1. ASSUME NEW d \in Calls \ {c}, Activates(d)'
            PROVE  Overlapped(c, d)'
        BY <2>1, <2>2, <2>3, <3>1 DEF Activates, Overlapped
      <3> QED BY <1>3, <2>1, <3>1 DEF ActivatesAlone, ActiveSprints
    <2>8. AssignsAlone(c)'
      BY <2>2 DEF AssignsAlone, Assigns
    <2>9. \A s \in Sprints : sprintLock'[s] = c => "record" \in HoldSteps
      BY DEF HoldSteps
    <2>10. "record" \in Steps /\ Go(c, "record") /\ UNCHANGED tables
      BY <1>3 DEF Steps
    <2> QED BY <1>1, <2>1, <2>3, <2>4, <2>5, <2>6, <2>7, <2>8, <2>9, <2>10, GoKeepsIInv DEF IInv, Types
  <1> QED BY <1>2, <1>3 DEF ReadActive

LEMMA ReadMembersKeepsIInv ==
  ASSUME IInv, NEW c \in Calls, ReadMembers(c)
  PROVE  IInv'
  <1>1. pc[c] = "members" /\ req[c].verb = "close" /\ req[c].sprint \in Sprints
    BY SprintOfStep DEF ReadMembers, IInv, CallIsSound, OfItsVerb
  <1>2. UNCHANGED <<req, answer, sprints, members, receipts, carry, fresh, beside, sprintLock>>
    BY DEF ReadMembers, Go, tables
  <1>3. pc'[c] = "tasks" /\ Go(c, "tasks") /\ UNCHANGED tables
    BY DEF ReadMembers, Go, IInv, Types
  <1>4. \A m \in members : m[2] \in Tasks /\ m[2] \in DOMAIN Home /\ m = <<m[1], m[2]>>
    BY SprintsAssumption DEF IInv, Types
  <1>5. {t \in Tasks : <<req[c].sprint, t>> \in members} \subseteq DOMAIN Home
    BY DEF IInv, Types
  <1>6. /\ found'[c] = {t \in Tasks : <<req[c].sprint, t>> \in members}
        /\ \A d \in Calls \ {c} : found'[d] = found[d]
        /\ found' \in [Calls -> SUBSET DOMAIN Home]
    BY <1>5 DEF ReadMembers, IInv, Types
  <1>7. OfItsVerb(c)'
    BY <1>1, <1>2, <1>3 DEF IInv, CallIsSound, OfItsVerb
  <1>8. KnowsByItsStep(c)'
    <2>1. KnowsByItsStep(c) /\ carry[c] = {} /\ ~fresh[c]
      BY <1>1 DEF IInv, CallIsSound, KnowsByItsStep
    <2>2. ASSUME NEW d \in beside'[c] PROVE pc'[d] # "idle"
      BY <1>2, <1>3, <2>1 DEF KnowsByItsStep, Go, IInv, Types
    <2> QED BY <1>1, <1>2, <1>3, <2>1, <2>2 DEF KnowsByItsStep, UncheckedSteps
  <1>9. HoldsItsSprint(c)'
    <2>1. \A m \in members : m[1] = req[c].sprint => m[2] \in found'[c]
      BY <1>4, <1>6
    <2> QED BY <1>1, <1>2, <1>3, <2>1
            DEF IInv, CallIsSound, HoldsItsSprint, HoldSteps, Exists, MayTransition
  <1>10. ActivatesAlone(c)' /\ AssignsAlone(c)'
    BY <1>3 DEF ActivatesAlone, AssignsAlone, Activates, Assigns
  <1>11. "tasks" \in HoldSteps /\ "tasks" \in Steps
    BY DEF HoldSteps, Steps
  <1> QED BY <1>1, <1>2, <1>3, <1>6, <1>7, <1>8, <1>9, <1>10, <1>11, GoKeepsIInv DEF IInv, Types

LEMMA ReadTasksKeepsIInv ==
  ASSUME IInv, NEW c \in Calls, ReadTasks(c)
  PROVE  IInv'
  <1>1. pc[c] = "tasks" /\ req[c].verb = "close" /\ req[c].verb \in Recorded
    BY DEF ReadTasks, IInv, CallIsSound, OfItsVerb, Recorded
  <1>2. UNCHANGED <<req, answer, sprints, members, receipts, found, fresh, beside, sprintLock>>
    BY DEF ReadTasks, Go, tables
  <1>3. pc'[c] = "record" /\ Go(c, "record") /\ UNCHANGED tables
    BY DEF ReadTasks, Go, IInv, Types
  <1>4. /\ carry'[c] \subseteq found'[c] /\ \A d \in Calls \ {c} : carry'[d] = carry[d]
        /\ carry' \in [Calls -> SUBSET DOMAIN Home]
    BY DEF ReadTasks, IInv, Types
  <1>5. OfItsVerb(c)'
    BY <1>1, <1>2, <1>3 DEF IInv, CallIsSound, OfItsVerb
  <1>6. KnowsByItsStep(c)'
    <2>1. KnowsByItsStep(c)
      BY DEF IInv, CallIsSound
    <2>2. ASSUME NEW d \in beside'[c] PROVE pc'[d] # "idle"
      BY <1>2, <1>3, <2>1 DEF KnowsByItsStep, Go, IInv, Types
    <2> QED BY <1>1, <1>2, <1>3, <1>4, <2>1, <2>2 DEF KnowsByItsStep, UncheckedSteps
  <1>7. HoldsItsSprint(c)'
    BY <1>1, <1>2, <1>3 DEF IInv, CallIsSound, HoldsItsSprint, HoldSteps, Exists, MayTransition
  <1>8. ActivatesAlone(c)' /\ AssignsAlone(c)'
    BY <1>1, <1>2, <1>3 DEF ActivatesAlone, AssignsAlone, Activates, Assigns
  <1>9. "record" \in HoldSteps /\ "record" \in Steps
    BY DEF HoldSteps, Steps
  <1> QED BY <1>1, <1>2, <1>3, <1>4, <1>5, <1>6, <1>7, <1>8, <1>9, GoKeepsIInv DEF IInv, Types

LEMMA RecordKeepsIInv ==
  ASSUME IInv, NEW c \in Calls, Record(c)
  PROVE  IInv'
  <1>1. pc[c] = "record" /\ req[c].verb \in Recorded /\ req[c].op \in Ops
    BY SprintOfStep DEF Record, IInv, CallIsSound, OfItsVerb
  <1>2. CASE Abort(c, "operationExists")
    BY <1>1, <1>2, AbortKeepsIInv DEF Refusals, HoldSteps
  <1>3. CASE ~Seen(c) /\ Go(c, "commit") /\ UNCHANGED <<tables, sprintLock, local>>
    <2>1. /\ pc'[c] = "commit"
          /\ UNCHANGED <<req, answer, sprints, members, receipts, found, carry, fresh, beside, sprintLock>>
      BY <1>3 DEF Go, IInv, Types, tables, local
    <2>2. \A d \in Calls \ {c} : pc[d] = "commit" => req[d].op # req[c].op
      <3>1. \A d \in Calls : d # None
        BY SprintsAssumption DEF Sprints
      <3> QED BY <1>1, <3>1 DEF Record, Free, Blockers
    <2>3. OfItsVerb(c)'
      BY <1>1, <2>1 DEF IInv, CallIsSound, OfItsVerb
    <2>4. KnowsByItsStep(c)'
      <3>1. KnowsByItsStep(c)
        BY DEF IInv, CallIsSound
      <3>2. ASSUME NEW d \in beside'[c] PROVE pc'[d] # "idle"
        BY <1>3, <2>1, <3>1 DEF KnowsByItsStep, Go, IInv, Types
      <3> QED BY <1>1, <1>3, <2>1, <3>1, <3>2 DEF KnowsByItsStep, UncheckedSteps, Seen
    <2>5. HoldsItsSprint(c)'
      BY <1>1, <2>1 DEF IInv, CallIsSound, HoldsItsSprint, HoldSteps, Exists, MayTransition
    <2>6. (Activates(c)' => Activates(c)) /\ ~Assigns(c)'
      BY <1>1, <2>1 DEF Activates, Assigns
    <2>7. "commit" \in HoldSteps /\ "commit" \in Steps
      BY DEF HoldSteps, Steps
    <2> QED BY <1>1, <1>3, <2>1, <2>2, <2>3, <2>4, <2>5, <2>6, <2>7, PlainGoKeepsIInv
  <1> QED BY <1>2, <1>3 DEF Record

(***************************************************************************)
(* The steps of assignments before they are committed                      *)
(***************************************************************************)

LEMMA ReadBothKeepsIInv ==
  ASSUME IInv, NEW c \in Calls, ReadBoth(c)
  PROVE  IInv'
  <1>1. pc[c] = "read" /\ req[c].verb = "assign"
    BY DEF ReadBoth, IInv, CallIsSound, OfItsVerb
  <1>2. CASE \E err \in Refusals : Refuse(c, err)
    BY <1>1, <1>2, RefuseKeepsIInv DEF HoldSteps
  <1>3. CASE /\ Exists(req[c].sprint) /\ req[c].task \in DOMAIN Home
             /\ sprints[req[c].sprint].project = Home[req[c].task]
             /\ Go(c, "guard") /\ UNCHANGED <<tables, sprintLock, local>>
    <2>1. /\ pc'[c] = "guard"
          /\ UNCHANGED <<req, answer, sprints, members, receipts, found, carry, fresh, beside>>
      BY <1>3 DEF Go, IInv, Types, tables, local
    <2>2. OfItsVerb(c)'
      BY <1>1, <2>1 DEF IInv, CallIsSound, OfItsVerb
    <2>3. KnowsByItsStep(c)'
      <3>1. KnowsByItsStep(c) /\ beside[c] = {}
        BY <1>1 DEF IInv, CallIsSound, KnowsByItsStep, UncheckedSteps
      <3> QED BY <1>1, <1>3, <2>1, <3>1 DEF KnowsByItsStep, Exists
    <2>4. HoldsItsSprint(c)' /\ ~Activates(c)' /\ ~Assigns(c)'
      BY <2>1 DEF HoldsItsSprint, Activates, Assigns, HoldSteps
    <2>5. "guard" \in Steps \ {"idle", "answered", "recheck"} /\ pc[c] \notin HoldSteps
      BY <1>1 DEF Steps, HoldSteps
    <2> QED BY <1>1, <1>3, <2>1, <2>2, <2>3, <2>4, <2>5, PlainGoKeepsIInv
  <1> QED BY <1>2, <1>3 DEF ReadBoth, Refusals

LEMMA GuardAssignKeepsIInv ==
  ASSUME IInv, NEW c \in Calls, GuardAssign(c)
  PROVE  IInv'
  <1>1. pc[c] = "guard" /\ req[c].verb = "assign"
    BY DEF GuardAssign, IInv, CallIsSound, OfItsVerb
  <1>2. CASE Refuse(c, "alreadyInSprint")
    BY <1>1, <1>2, RefuseKeepsIInv DEF HoldSteps, Refusals
  <1>3. CASE /\ OtherOpen(c) = {} /\ Go(c, "insert")
             /\ beside' = [beside EXCEPT ![c] =
                             {d \in Calls : pc[d] \in {"insert", "reference", "enter"}}]
             /\ UNCHANGED <<tables, sprintLock, found, carry, fresh>>
    <2>1. UNCHANGED <<req, answer, sprints, members, receipts, found, carry, fresh, sprintLock>>
      BY <1>3 DEF Go, tables
    <2>2. pc'[c] = "insert" /\ \A d \in Calls \ {c} : pc'[d] = pc[d]
      BY <1>3 DEF Go, IInv, Types
    <2>3. /\ beside[c] = {} /\ beside' \in [Calls -> SUBSET Calls]
          /\ beside'[c] = {d \in Calls : Assigns(d)}
          /\ \A d \in Calls \ {c} : beside'[d] = beside[d]
      <3>1. beside[c] = {}
        BY <1>1 DEF IInv, CallIsSound, KnowsByItsStep, UncheckedSteps
      <3> QED BY <1>3, <3>1 DEF IInv, Types, Assigns
    <2>4. OfItsVerb(c)'
      BY <1>1, <2>1, <2>2 DEF IInv, CallIsSound, OfItsVerb
    <2>5. KnowsByItsStep(c)'
      <3>1. KnowsByItsStep(c)
        BY DEF IInv, CallIsSound
      <3>2. ASSUME NEW d \in beside'[c] PROVE pc'[d] # "idle"
        BY <2>2, <2>3, <3>2 DEF Assigns
      <3> QED BY <1>1, <2>1, <2>2, <3>1, <3>2 DEF KnowsByItsStep, UncheckedSteps, Exists
    <2>6. HoldsItsSprint(c)' /\ ActivatesAlone(c)'
      BY <2>2 DEF HoldsItsSprint, HoldSteps, ActivatesAlone, Activates
    <2>7. AssignsAlone(c)'
      <3>1. ASSUME NEW d \in Calls \ {c}, Assigns(d)'
            PROVE  Overlapped(c, d)'
        BY <2>2, <2>3, <3>1 DEF Assigns, Overlapped
      <3>2. OtherOpen(c)' = {}
        BY <1>3, <2>1 DEF OtherOpen, IsOpen
      <3> QED BY <3>1, <3>2 DEF AssignsAlone
    <2>8. \A s \in Sprints : sprintLock'[s] # c
      BY <1>1, <2>1, SprintsAssumption DEF IInv, LockIsHeld, HoldSteps, Sprints
    <2>9. "insert" \in Steps /\ Go(c, "insert") /\ UNCHANGED tables
      BY <1>3 DEF Steps
    <2> QED BY <1>1, <2>1, <2>3, <2>4, <2>5, <2>6, <2>7, <2>8, <2>9, GoKeepsIInv DEF IInv, Types
  <1> QED BY <1>2, <1>3 DEF GuardAssign

LEMMA InsertMemberKeepsIInv ==
  ASSUME IInv, NEW c \in Calls, InsertMember(c)
  PROVE  IInv'
  <1> DEFINE isNew == <<req[c].sprint, req[c].task>> \notin members
             to == IF isNew THEN "reference" ELSE "enter"
  <1>1. pc[c] = "insert" /\ req[c].verb = "assign"
    BY DEF InsertMember, IInv, CallIsSound, OfItsVerb
  <1>2. /\ UNCHANGED <<req, answer, sprints, members, receipts, found, carry, beside, sprintLock>>
        /\ Go(c, to) /\ UNCHANGED tables
    BY DEF InsertMember, Go, tables
  <1>3. /\ fresh'[c] = isNew /\ pc'[c] = to /\ fresh' \in [Calls -> BOOLEAN]
        /\ \A d \in Calls \ {c} : fresh'[d] = fresh[d] /\ pc'[d] = pc[d]
    BY <1>2 DEF InsertMember, Go, IInv, Types
  <1>4. to \in {"reference", "enter"} /\ (to = "enter" => ~fresh'[c]) /\ (to = "reference" => fresh'[c])
    BY <1>3
  <1> HIDE DEF to, isNew
  <1>5. OfItsVerb(c)'
    BY <1>1, <1>2, <1>3, <1>4 DEF IInv, CallIsSound, OfItsVerb
  <1>6. KnowsByItsStep(c)'
    <2>1. KnowsByItsStep(c)
      BY DEF IInv, CallIsSound
    <2>2. ASSUME NEW d \in beside'[c] PROVE pc'[d] # "idle"
      BY <1>2, <1>3, <1>4, <2>1 DEF KnowsByItsStep, IInv, Types
    <2>3. /\ Exists(req[c].sprint)' /\ req'[c].task \in DOMAIN Home
          /\ sprints'[req'[c].sprint].project = Home[req'[c].task]
      BY <1>1, <1>2, <2>1 DEF KnowsByItsStep, Exists
    <2>4. found'[c] = {} /\ carry'[c] = {} /\ answer'[c].outcome = "none"
      BY <1>1, <1>2, <2>1 DEF KnowsByItsStep
    <2> QED BY <1>3, <1>4, <2>2, <2>3, <2>4 DEF KnowsByItsStep, UncheckedSteps
  <1>7. HoldsItsSprint(c)' /\ ActivatesAlone(c)'
    BY <1>3, <1>4 DEF HoldsItsSprint, HoldSteps, ActivatesAlone, Activates
  <1>8. AssignsAlone(c)'
    <2>1. AssignsAlone(c) /\ Assigns(c)
      BY <1>1 DEF IInv, CallIsSound, Assigns
    <2>2. \A d \in Calls : Overlapped(c, d)' <=> Overlapped(c, d)
      BY <1>2 DEF Overlapped
    <2>3. OtherOpen(c)' = OtherOpen(c)
      BY <1>2 DEF OtherOpen, IsOpen
    <2>4. \A d \in Calls \ {c} : Assigns(d)' <=> Assigns(d)
      BY <1>3 DEF Assigns
    <2>5. \A d \in Calls : \A s, t : IsAssignment(d, s, t)' <=> IsAssignment(d, s, t)
      BY <1>2 DEF IsAssignment
    <2> QED BY <1>2, <2>1, <2>2, <2>3, <2>4, <2>5 DEF AssignsAlone
  <1>9. \A s \in Sprints : sprintLock'[s] # c
    BY <1>1, <1>2, SprintsAssumption DEF IInv, LockIsHeld, HoldSteps, Sprints
  <1>10. to \in Steps \ {"idle", "answered", "recheck", "commit"}
    BY <1>4 DEF Steps
  <1> QED BY <1>1, <1>2, <1>3, <1>4, <1>5, <1>6, <1>7, <1>8, <1>9, <1>10, GoKeepsIInv DEF IInv, Types

LEMMA ReferToSprintKeepsIInv ==
  ASSUME IInv, NEW c \in Calls, ReferToSprint(c)
  PROVE  IInv'
  <1>1. pc[c] = "reference" /\ req[c].verb = "assign" /\ req[c].sprint \in Sprints
    BY SprintOfStep DEF ReferToSprint, IInv, CallIsSound, OfItsVerb
  <1>2. /\ UNCHANGED <<req, answer, sprints, members, receipts, found, carry, fresh, beside, sprintLock>>
        /\ pc'[c] = "enter" /\ Go(c, "enter") /\ UNCHANGED <<tables, sprintLock, local>>
        /\ \A d \in Calls : pc[d] # "idle" => pc'[d] # "idle"
    BY DEF ReferToSprint, Go, tables, local, IInv, Types
  <1>3. sprintLock[req[c].sprint] = None
    <2>1. sprintLock[req[c].sprint] \in {None, c}
      BY <1>1 DEF ReferToSprint, Free, Blockers
    <2>2. sprintLock[req[c].sprint] # c
      BY <1>1, SprintsAssumption DEF IInv, LockIsHeld, HoldSteps, Sprints
    <2> QED BY <2>1, <2>2
  <1>4. OfItsVerb(c)'
    BY <1>1, <1>2 DEF IInv, CallIsSound, OfItsVerb
  <1>5. KnowsByItsStep(c)'
    <2>1. KnowsByItsStep(c) /\ beside[c] \subseteq Calls
      BY DEF IInv, CallIsSound, Types
    <2>2. Exists(req[c].sprint)' = Exists(req[c].sprint)
      BY <1>2 DEF Exists
    <2> QED BY <1>1, <1>2, <2>1, <2>2 DEF KnowsByItsStep, UncheckedSteps
  <1>6. HoldsItsSprint(c)' /\ ~Activates(c)' /\ Assigns(c)
    BY <1>1, <1>2 DEF HoldsItsSprint, Activates, Assigns, HoldSteps
  <1>7. "enter" \in Steps /\ pc[c] \notin HoldSteps
    BY <1>1 DEF Steps, HoldSteps
  <1> QED BY <1>1, <1>2, <1>3, <1>4, <1>5, <1>6, <1>7, PlainGoKeepsIInv

(***************************************************************************)
(* Arrival, and what happens beside the calls                              *)
(***************************************************************************)

\* Calls that are past their arrival are what a new call does not change.
LEMMA SubmitKeepsIInv ==
  ASSUME IInv, NEW c \in Calls, NEW q \in Requests[c], Submit(c, q)
  PROVE  IInv'
  <1> USE DEF IInv
  <1>1. q \in Request
    BY SprintsAssumption
  <1>2. /\ pc[c] = "idle" /\ pc' = [pc EXCEPT ![c] = FirstStep(q.verb)]
        /\ req' = [req EXCEPT ![c] = q]
        /\ UNCHANGED <<sprints, members, done, log, receipts, sprintLock, found, carry, fresh, beside, answer>>
    BY DEF Submit, tables, local
  <1>3. /\ FirstStep(q.verb) \in {"check", "read", "delete"}
        /\ FirstStep(q.verb) = "check" => q.verb \in Recorded
        /\ FirstStep(q.verb) = "read" => q.verb = "assign"
        /\ FirstStep(q.verb) = "delete" => q.verb = "remove"
    BY <1>1, RequestShape DEF FirstStep, Recorded
  <1>4. /\ pc'[c] = FirstStep(q.verb) /\ req'[c] = q
        /\ \A d \in Calls \ {c} : pc'[d] = pc[d] /\ req'[d] = req[d]
    BY <1>2 DEF Types
  <1>5. Types'
    BY <1>1, <1>2, <1>3 DEF Types, Steps
  <1>6. /\ ~Exists(c) /\ req[c] = NoRequest /\ NoRequest.verb = None /\ NoRequest.op = None
        /\ beside[c] = {} /\ found[c] = {} /\ carry[c] = {} /\ ~fresh[c] /\ answer[c].outcome = "none"
    <2>1. req[c] = NoRequest /\ NoRequest.verb = None /\ NoRequest.op = None
      BY <1>2 DEF CallIsSound, OfItsVerb, NoRequest
    <2>2. ~Exists(c)
      BY <2>1, SprintsAssumption DEF CallIsSound, IsRecorded
    <2> QED BY <1>2, <2>1, <2>2 DEF CallIsSound, KnowsByItsStep, UncheckedSteps
  <1>7. CallIsSound(c)'
    <2>1. OfItsVerb(c)'
      BY <1>1, <1>3, <1>4 DEF OfItsVerb
    <2>2. KnowsByItsStep(c)'
      BY <1>2, <1>3, <1>4, <1>6 DEF KnowsByItsStep
    <2>3. HoldsItsSprint(c)' /\ ActivatesAlone(c)' /\ AssignsAlone(c)'
      BY <1>3, <1>4 DEF HoldsItsSprint, HoldSteps, ActivatesAlone, Activates, AssignsAlone, Assigns
    <2>4. IsRecorded(c)'
      BY <1>2, <1>3, <1>4, <1>6 DEF IsRecorded, Exists
    <2> QED BY <2>1, <2>2, <2>3, <2>4 DEF CallIsSound
  <1>8. ASSUME NEW d \in Calls \ {c}
        PROVE  CallIsSound(d)'
    <2>1. CallIsSound(d) /\ UNCHANGED <<pc[d], req[d]>>
      BY <1>4
    <2>2. OfItsVerb(d)'
      BY <2>1 DEF CallIsSound, OfItsVerb
    <2>3. KnowsByItsStep(d)'
      <3>1. KnowsByItsStep(d) /\ beside[d] \subseteq Calls /\ Seen(d)' = Seen(d)
        BY <1>2, <2>1 DEF CallIsSound, Seen, Types
      <3>2. ASSUME NEW e \in beside'[d] PROVE pc'[e] # "idle"
        BY <1>2, <1>3, <1>4, <3>1 DEF KnowsByItsStep
      <3> QED BY <1>2, <2>1, <3>1, <3>2 DEF KnowsByItsStep, Exists
    <2>4. HoldsItsSprint(d)'
      BY <1>2, <2>1 DEF CallIsSound, HoldsItsSprint, Exists, MayTransition
    <2>5. ActivatesAlone(d)'
      <3> SUFFICES ASSUME Activates(d)' PROVE ActivatesAlone(d)'
        BY DEF ActivatesAlone
      <3>1. Activates(d) /\ ActivatesAlone(d)
        BY <2>1 DEF Activates, CallIsSound
      <3>2. ASSUME NEW s \in Sprints \ {req[d].sprint}, sprints[s].status = "active",
                   sprints[s].project = sprints[req[d].sprint].project
            PROVE  \E e \in Calls : (Overlapped(d, e) /\ IsActivation(e, s))'
        <4>1. PICK e \in Calls : Overlapped(d, e) /\ IsActivation(e, s)
          BY <3>1, <3>2 DEF ActivatesAlone
        <4>2. e # c
          BY <1>2, <4>1, OnlyTheArrivedRace
        <4> QED BY <1>2, <1>4, <4>1, <4>2 DEF IsActivation, Overlapped
      <3>3. \A e \in Calls \ {d} : Activates(e)' => Activates(e)
        BY <1>3, <1>4 DEF Activates
      <3> QED BY <1>2, <2>1, <3>1, <3>2, <3>3 DEF ActivatesAlone, Overlapped
    <2>6. AssignsAlone(d)'
      <3> SUFFICES ASSUME Assigns(d)' PROVE AssignsAlone(d)'
        BY DEF AssignsAlone
      <3>1. Assigns(d) /\ AssignsAlone(d) /\ OtherOpen(d)' = OtherOpen(d)
        BY <1>2, <2>1 DEF Assigns, CallIsSound, OtherOpen, IsOpen
      <3>2. ASSUME NEW s \in OtherOpen(d)
            PROVE  \E e \in Calls : (Overlapped(d, e) /\ IsAssignment(e, s, req[d].task))'
        <4>1. PICK e \in Calls : Overlapped(d, e) /\ IsAssignment(e, s, req[d].task)
          BY <3>1, <3>2 DEF AssignsAlone
        <4>2. e # c
          BY <1>2, <4>1, OnlyTheArrivedRace
        <4> QED BY <1>2, <1>4, <2>1, <4>1, <4>2 DEF IsAssignment, Overlapped
      <3>3. \A e \in Calls \ {d} : Assigns(e)' => Assigns(e)
        BY <1>3, <1>4 DEF Assigns
      <3> QED BY <1>2, <3>1, <3>2, <3>3 DEF AssignsAlone, Overlapped
    <2>7. IsRecorded(d)'
      <3>1. IsRecorded(d) /\ pc'[c] # "commit"
        BY <1>3, <1>4, <2>1 DEF CallIsSound
      <3> QED BY <1>2, <1>4, <2>1, <3>1 DEF IsRecorded, Exists, Seen
    <2> QED BY <2>2, <2>3, <2>4, <2>5, <2>6, <2>7 DEF CallIsSound
  <1>9. ASSUME NEW s \in Sprints
        PROVE  LockIsHeld(s)'
    <2>1. sprintLock[s] # c
      BY <1>2, SprintsAssumption DEF LockIsHeld, HoldSteps, Sprints
    <2>2. LockIsHeld(s) /\ pc'[c] # "enter"
      BY <1>3, <1>4
    <2> QED BY <1>2, <1>4, <2>1, <2>2 DEF LockIsHeld
  <1>10. ConflictsOnlyByRace'
    <2>1. \A d \in Calls : pc[d] # "idle" => req'[d] = req[d]
      BY <1>2, <1>4
    <2> QED BY <1>2, <2>1, ConflictsStand
  <1>11. MovesAreLogged'
    <2>1. ASSUME NEW m \in StartMembers \ members'
          PROVE  \E d \in Calls : /\ req'[d].verb = "remove" /\ req'[d].sprint = m[1] /\ req'[d].task = m[2]
                                  /\ pc'[d] = "event" \/ answer'[d].outcome = "lost" \/ Event(d)' \in log'
      <3>1. PICK d \in Calls : /\ req[d].verb = "remove" /\ req[d].sprint = m[1] /\ req[d].task = m[2]
                               /\ pc[d] = "event" \/ answer[d].outcome = "lost" \/ Event(d) \in log
        BY <1>2, <2>1 DEF MovesAreLogged
      <3>2. d # c
        BY <1>6, <3>1, SprintsAssumption
      <3>3. Event(d)' = Event(d)
        BY <1>4, <3>2 DEF Event
      <3> QED BY <1>2, <1>4, <3>1, <3>2, <3>3
    <2> QED BY <1>2, <2>1 DEF MovesAreLogged
  <1> QED BY <1>2, <1>5, <1>7, <1>8, <1>9, <1>10, <1>11

LEMMA LogRemovalKeepsIInv ==
  ASSUME IInv, NEW c \in Calls, LogRemoval(c)
  PROVE  IInv'
  <1> DEFINE ans == [NoAnswer EXCEPT !.outcome = "ok"]
  <1>1. /\ pc[c] = "event" /\ req[c].verb = "remove" /\ req[c].op = None
        /\ req[c].sprint \in Sprints
    BY SprintOfStep DEF LogRemoval, IInv, CallIsSound, OfItsVerb, Recorded
  <1>2. /\ pc' = [pc EXCEPT ![c] = "answered"] /\ answer' = [answer EXCEPT ![c] = ans] /\ Forget({c})
        /\ UNCHANGED <<sprints, members, done, receipts, req, sprintLock>>
    BY DEF LogRemoval, Answer
  <1>3. ans \in Told
    BY ToldShape DEF Outcomes
  <1>4. /\ log \subseteq log' /\ log' \subseteq Events
        /\ req[c].task \in DOMAIN Home => Event(c) \in log'
    <2>1. req[c].task \in DOMAIN Home => Event(c) \in Events
      BY <1>1 DEF Event, Events
    <2> QED BY <2>1 DEF LogRemoval, IInv, Types
  <1>5. pc[c] \notin HoldSteps /\ carry'[c] \subseteq found'[c]
    BY <1>1, <1>2, ForgetShape DEF HoldSteps
  <1> HIDE DEF ans
  <1> QED BY <1>1, <1>2, <1>3, <1>4, <1>5, ForgetShape, EndKeepsIInv

\* A task that is finished or reopened concerns none of what is known.
LEMMA ChangeStatusKeepsIInv ==
  ASSUME IInv, NEW t \in Worked, ChangeStatus(t)
  PROVE  IInv'
  <1> USE DEF IInv
  <1>1. UNCHANGED <<sprints, members, log, receipts, sprintLock, pc, req, found, carry, fresh,
                    beside, answer>>
    BY DEF ChangeStatus, local
  <1>2. Types'
    BY <1>1, SprintsAssumption DEF ChangeStatus, Types
  <1>3. ASSUME NEW c \in Calls
        PROVE  CallIsSound(c)'
    <2>1. OfItsVerb(c)' /\ KnowsByItsStep(c)' /\ HoldsItsSprint(c)' /\ IsRecorded(c)'
      BY <1>1 DEF CallIsSound, OfItsVerb, KnowsByItsStep, HoldsItsSprint, IsRecorded, Exists,
                  Seen, MayTransition
    <2>2. ActivatesAlone(c)'
      BY <1>1 DEF CallIsSound, ActivatesAlone, Activates, IsActivation, Overlapped
    <2>3. AssignsAlone(c)'
      BY <1>1 DEF CallIsSound, AssignsAlone, Assigns, IsAssignment, Overlapped, OtherOpen, IsOpen
    <2> QED BY <2>1, <2>2, <2>3 DEF CallIsSound
  <1>4. \A s \in Sprints : LockIsHeld(s)'
    BY <1>1 DEF LockIsHeld
  <1>5. ConflictsOnlyByRace'
    BY <1>1, ConflictsStand
  <1>6. MovesAreLogged'
    BY <1>1 DEF MovesAreLogged, Event
  <1> QED BY <1>1, <1>2, <1>3, <1>4, <1>5, <1>6

LEMMA CrashKeepsIInv ==
  ASSUME IInv, Crash
  PROVE  IInv'
  <1> USE DEF IInv
  <1>1. /\ UNCHANGED <<sprints, members, done, log, receipts, req, beside>>
        /\ \A c \in Calls : /\ pc'[c] = IF InFlight(c) THEN "answered" ELSE pc[c]
                            /\ InFlight(c) => answer'[c].outcome = "lost"
                            /\ ~InFlight(c) => answer'[c] = answer[c]
                            /\ found'[c] = {} /\ carry'[c] = {} /\ ~fresh'[c]
        /\ \A s \in Sprints : sprintLock'[s] = None
    <2>1. [NoAnswer EXCEPT !.outcome = "lost"].outcome = "lost"
      BY ToldShape DEF Outcomes
    <2> QED BY <2>1 DEF Crash, Forget, tables
  <1>2. Types'
    <2>1. [NoAnswer EXCEPT !.outcome = "lost"] \in Told
      BY ToldShape DEF Outcomes
    <2>2. answer' \in [Calls -> Told] /\ pc' \in [Calls -> Steps]
      BY <2>1 DEF Crash, Types, Steps
    <2>3. /\ found' \in [Calls -> SUBSET DOMAIN Home] /\ carry' \in [Calls -> SUBSET DOMAIN Home]
          /\ fresh' \in [Calls -> BOOLEAN] /\ sprintLock' \in [Sprints -> Calls \cup {None}]
      BY DEF Crash, Forget, Types
    <2> QED BY <1>1, <2>2, <2>3 DEF Types
  <1>3. \A c \in Calls : pc'[c] \in {"idle", "answered"} /\ (pc'[c] = "idle" <=> pc[c] = "idle")
    BY <1>1 DEF InFlight
  <1>4. ASSUME NEW c \in Calls
        PROVE  CallIsSound(c)'
    <2>1. OfItsVerb(c)'
      BY <1>1, <1>3 DEF CallIsSound, OfItsVerb
    <2>2. KnowsByItsStep(c)'
      <3>1. KnowsByItsStep(c) /\ beside[c] \subseteq Calls
        BY DEF CallIsSound, Types
      <3>2. ASSUME NEW d \in beside'[c] PROVE pc'[d] # "idle"
        BY <1>1, <1>3, <3>1 DEF KnowsByItsStep
      <3>3. beside'[c] # {} => pc'[c] \notin UncheckedSteps
        BY <1>1, <1>3, <3>1 DEF KnowsByItsStep, UncheckedSteps
      <3>4. pc'[c] \notin {"answered", "recheck"} => answer'[c].outcome = "none"
        BY <1>1, <1>3, <3>1 DEF KnowsByItsStep, InFlight
      <3> QED BY <1>1, <1>3, <3>2, <3>3, <3>4 DEF KnowsByItsStep
    <2>3. HoldsItsSprint(c)' /\ ActivatesAlone(c)' /\ AssignsAlone(c)'
      BY <1>3 DEF HoldsItsSprint, HoldSteps, ActivatesAlone, Activates, AssignsAlone, Assigns
    <2>4. IsRecorded(c)'
      <3>1. answer'[c].outcome = "ok" => answer'[c] = answer[c]
        BY <1>1
      <3> QED BY <1>1, <1>3, <3>1 DEF CallIsSound, IsRecorded, Exists, Seen
    <2> QED BY <2>1, <2>2, <2>3, <2>4 DEF CallIsSound
  <1>5. \A s \in Sprints : LockIsHeld(s)'
    BY <1>1, <1>3 DEF LockIsHeld
  <1>6. ConflictsOnlyByRace'
    BY <1>1, ConflictsStand
  <1>7. MovesAreLogged'
    <2>1. ASSUME NEW m \in StartMembers \ members'
          PROVE  \E d \in Calls : /\ req'[d].verb = "remove" /\ req'[d].sprint = m[1] /\ req'[d].task = m[2]
                                  /\ pc'[d] = "event" \/ answer'[d].outcome = "lost" \/ Event(d)' \in log'
      <3>1. PICK d \in Calls : /\ req[d].verb = "remove" /\ req[d].sprint = m[1] /\ req[d].task = m[2]
                               /\ pc[d] = "event" \/ answer[d].outcome = "lost" \/ Event(d) \in log
        BY <1>1, <2>1 DEF MovesAreLogged
      <3>2. Event(d)' = Event(d)
        BY <1>1 DEF Event
      <3>3. pc[d] = "event" => InFlight(d)
        BY DEF InFlight
      <3> QED BY <1>1, <3>1, <3>2, <3>3
    <2> QED BY <1>1, <2>1 DEF MovesAreLogged
  <1> QED BY <1>1, <1>2, <1>4, <1>5, <1>6, <1>7

(***************************************************************************)
(* The steps that change who is in a sprint                                *)
(***************************************************************************)

\* Conflicts and moves aside, a step of c that writes members and the log.
LEMMA MembersStep ==
  ASSUME IInv, NEW c \in Calls, pc[c] \in {"delete", "enter"},
         NEW to \in {"answered", "event"}, pc' = [pc EXCEPT ![c] = to],
         UNCHANGED <<sprints, done, receipts, sprintLock, req, beside>>,
         answer' \in [Calls -> Told],
         members' \subseteq Sprints \X (DOMAIN Home), log' \subseteq Events,
         found' = found, carry' = carry, fresh' \in [Calls -> BOOLEAN], ~fresh'[c],
         \A d \in Calls \ {c} : fresh'[d] = fresh[d] /\ answer'[d] = answer[d],
         answer'[c] = answer[c] \/ to = "answered",
         to = "event" => req[c].verb = "remove",
         \A m \in members' \ members : /\ m[1] = req[c].sprint /\ m[2] = req[c].task
                                       /\ pc[c] = "enter" /\ fresh[c],
         ConflictsOnlyByRace', MovesAreLogged'
  PROVE  IInv'
  <1> USE DEF IInv
  <1>1. /\ pc'[c] = to /\ \A d \in Calls \ {c} : pc'[d] = pc[d]
        /\ \A d \in Calls : pc[d] # "idle" => pc'[d] # "idle"
    BY DEF Types
  <1>2. Types'
    BY DEF Types, Steps
  <1>3. ASSUME NEW m \in members'
        PROVE  sprints'[m[1]].project = Home[m[2]]
    BY <1>3 DEF CallIsSound, KnowsByItsStep
  <1>4. req[c].op = None
    BY SprintOfStep DEF CallIsSound, OfItsVerb, Recorded
  <1>5. ASSUME NEW d \in Calls
        PROVE  OfItsVerb(d)'
    BY <1>1 DEF CallIsSound, OfItsVerb
  <1>6. ASSUME NEW d \in Calls
        PROVE  KnowsByItsStep(d)'
    <2>1. KnowsByItsStep(d) /\ beside[d] \subseteq Calls
      BY DEF CallIsSound, Types
    <2>2. ASSUME NEW e \in beside'[d] PROVE pc'[e] # "idle"
      BY <1>1, <2>1 DEF KnowsByItsStep
    <2>3. CASE d = c
      BY <1>1, <2>1, <2>2, <2>3 DEF KnowsByItsStep, UncheckedSteps
    <2>4. CASE d # c
      BY <1>1, <2>1, <2>2, <2>4 DEF KnowsByItsStep, Exists, Seen
    <2> QED BY <2>3, <2>4
  <1>7. ASSUME NEW d \in Calls
        PROVE  HoldsItsSprint(d)'
    <2>1. CASE d = c
      BY <1>1, <2>1 DEF HoldsItsSprint, HoldSteps
    <2>2. CASE d # c
      <3>1. HoldsItsSprint(d) /\ pc'[d] = pc[d]
        BY <1>1, <2>2 DEF CallIsSound
      <3>2. ASSUME pc[d] \in {"tasks", "record", "commit"}, req[d].verb = "close",
                   NEW m \in members', m[1] = req[d].sprint
            PROVE  m[2] \in found[d]
        <4>1. CASE m \in members
          BY <3>1, <3>2, <4>1 DEF HoldsItsSprint
        <4>2. CASE m \notin members
          <5>1. pc[c] = "enter" /\ fresh[c] /\ req[c].sprint = m[1] /\ m[1] \in Sprints
            BY <4>2
          <5>2. sprintLock[m[1]] = None
            BY <5>1 DEF LockIsHeld
          <5>3. sprintLock[m[1]] = d
            BY <3>1, <3>2 DEF HoldsItsSprint, HoldSteps
          <5> QED BY <5>2, <5>3, SprintsAssumption DEF Sprints
        <4> QED BY <4>1, <4>2
      <3> QED BY <3>1, <3>2 DEF HoldsItsSprint, Exists, MayTransition
    <2> QED BY <2>1, <2>2
  <1>8. ASSUME NEW d \in Calls
        PROVE  ActivatesAlone(d)'
    <2>1. ActivatesAlone(d) /\ \A e \in Calls : Activates(e)' => Activates(e)
      BY <1>1 DEF CallIsSound, Activates
    <2> QED BY <2>1 DEF ActivatesAlone, IsActivation, Overlapped
  <1>9. ASSUME NEW d \in Calls
        PROVE  AssignsAlone(d)'
    <2> SUFFICES ASSUME Assigns(d)' PROVE AssignsAlone(d)'
      BY DEF AssignsAlone
    <2>1. /\ AssignsAlone(d) /\ Assigns(d) /\ d # c
          /\ \A e \in Calls : Assigns(e)' => Assigns(e)
      BY <1>1 DEF CallIsSound, Assigns
    <2>2. ASSUME NEW s \in OtherOpen(d)'
          PROVE  \E e \in Calls : (Overlapped(d, e) /\ IsAssignment(e, s, req[d].task))'
      <3>1. s \in Sprints \ {req[d].sprint} /\ IsOpen(s) /\ <<s, req[d].task>> \in members'
        BY DEF OtherOpen, IsOpen
      <3>2. CASE <<s, req[d].task>> \in members
        BY <2>1, <3>1, <3>2 DEF AssignsAlone, OtherOpen, IsAssignment, Overlapped
      <3>3. CASE <<s, req[d].task>> \notin members
        <4>1. s = req[c].sprint /\ req[d].task = req[c].task /\ Assigns(c)
          BY <3>1, <3>3 DEF Assigns
        <4> QED BY <2>1, <4>1 DEF AssignsAlone, IsAssignment, Overlapped
      <3> QED BY <3>2, <3>3
    <2> QED BY <2>1, <2>2 DEF AssignsAlone, Overlapped
  <1>10. ASSUME NEW d \in Calls
         PROVE  IsRecorded(d)'
    <2>1. IsRecorded(d) /\ \A e \in Calls : pc'[e] = "commit" => pc[e] = "commit"
      BY <1>1 DEF CallIsSound
    <2>2. (answer'[d].outcome = "ok" /\ req[d].op # None) => answer'[d] = answer[d]
      BY <1>4
    <2> QED BY <2>1, <2>2 DEF IsRecorded, Exists, Seen
  <1>11. ASSUME NEW s \in Sprints
         PROVE  LockIsHeld(s)'
    <2>1. LockIsHeld(s)
      OBVIOUS
    <2>2. sprintLock[s] # None => sprintLock[s] # c
      BY <2>1 DEF LockIsHeld, HoldSteps
    <2> QED BY <1>1, <2>1, <2>2 DEF LockIsHeld
  <1> QED BY <1>2, <1>3, <1>5, <1>6, <1>7, <1>8, <1>9, <1>10, <1>11 DEF CallIsSound

LEMMA DeleteMemberKeepsIInv ==
  ASSUME IInv, NEW c \in Calls, DeleteMember(c)
  PROVE  IInv'
  <1>1. /\ pc[c] = "delete" /\ req[c].verb = "remove" /\ pc' = [pc EXCEPT ![c] = "event"]
        /\ members' \subseteq members
        /\ UNCHANGED <<sprints, done, log, receipts, sprintLock, req, answer, found, carry, fresh, beside>>
    BY DEF DeleteMember, Go, local, IInv, CallIsSound, OfItsVerb
  <1>2. pc'[c] = "event" /\ ~fresh[c] /\ \A d \in Calls \ {c} : pc'[d] = pc[d]
    BY <1>1 DEF IInv, CallIsSound, KnowsByItsStep, Types
  <1>3. ConflictsOnlyByRace'
    <2>1. OneActiveUnlessRaced'
      BY <1>1 DEF IInv, ConflictsOnlyByRace, OneActiveUnlessRaced, Overlapped
    <2>2. OneOpenUnlessRaced'
      <3> SUFFICES ASSUME NEW s \in Sprints, NEW u \in Sprints, NEW t \in DOMAIN Home, s # u,
                          IsOpen(s), IsOpen(u), {<<s, t>>, <<u, t>>} \subseteq members
                   PROVE  \E a, b \in Calls : /\ Overlapped(a, b)'
                                              /\ req'[a].sprint = s /\ req'[b].sprint = u
                                              /\ req'[a].task = t /\ req'[b].task = t
        BY <1>1 DEF OneOpenUnlessRaced, IsOpen
      <3> QED BY <1>1 DEF IInv, ConflictsOnlyByRace, OneOpenUnlessRaced, Overlapped
    <2> QED BY <2>1, <2>2 DEF ConflictsOnlyByRace
  <1>4. MovesAreLogged'
    <2>1. ASSUME NEW m \in StartMembers \ members'
          PROVE  \E d \in Calls : /\ req'[d].verb = "remove" /\ req'[d].sprint = m[1] /\ req'[d].task = m[2]
                                  /\ pc'[d] = "event" \/ answer'[d].outcome = "lost" \/ Event(d)' \in log'
      <3>1. CASE m \in members
        <4>1. m = <<req[c].sprint, req[c].task>>
          BY <2>1, <3>1 DEF DeleteMember
        <4> QED BY <1>1, <1>2, <4>1
      <3>2. CASE m \notin members
        <4>1. PICK d \in Calls : /\ req[d].verb = "remove" /\ req[d].sprint = m[1] /\ req[d].task = m[2]
                                 /\ pc[d] = "event" \/ answer[d].outcome = "lost" \/ Event(d) \in log
          BY <2>1, <3>2 DEF IInv, MovesAreLogged
        <4>2. Event(d)' = Event(d)
          BY <1>1 DEF Event
        <4> QED BY <1>1, <1>2, <4>1, <4>2
      <3> QED BY <3>1, <3>2
    <2> QED BY <1>1, <2>1 DEF IInv, MovesAreLogged
  <1>5. answer' \in [Calls -> Told] /\ fresh' \in [Calls -> BOOLEAN]
        /\ members' \subseteq Sprints \X (DOMAIN Home) /\ log' \subseteq Events
    BY <1>1 DEF IInv, Types
  <1> QED BY <1>1, <1>2, <1>3, <1>4, <1>5, MembersStep

LEMMA CommitAssignKeepsIInv ==
  ASSUME IInv, NEW c \in Calls, CommitAssign(c)
  PROVE  IInv'
  <1> DEFINE s == req[c].sprint
             t == req[c].task
             ans == [NoAnswer EXCEPT !.outcome = "ok"]
  <1>1. /\ pc[c] = "enter" /\ req[c].verb = "assign" /\ s \in Sprints /\ t \in DOMAIN Home
        /\ found[c] = {} /\ carry[c] = {}
    BY SprintOfStep DEF CommitAssign, IInv, CallIsSound, OfItsVerb, KnowsByItsStep
  <1>2. /\ pc' = [pc EXCEPT ![c] = "answered"] /\ answer' = [answer EXCEPT ![c] = ans] /\ Forget({c})
        /\ UNCHANGED <<sprints, done, receipts, req, sprintLock>> /\ log' = log \cup {Event(c)}
        /\ members' = IF fresh[c] THEN members \cup {<<s, t>>} ELSE members
    BY DEF CommitAssign, Answer
  <1>3. ans \in Told
    BY ToldShape DEF Outcomes
  <1> HIDE DEF ans
  <1>4. /\ answer' \in [Calls -> Told] /\ \A d \in Calls \ {c} : answer'[d] = answer[d] /\ pc'[d] = pc[d]
    BY <1>2, <1>3 DEF IInv, Types
  <1>5. /\ fresh' \in [Calls -> BOOLEAN] /\ ~fresh'[c] /\ beside' = beside
        /\ \A d \in Calls \ {c} : fresh'[d] = fresh[d]
    BY <1>2, ForgetShape
  <1>6. found' = found /\ carry' = carry
    BY <1>1, <1>2 DEF Forget, IInv, Types
  <1>7. /\ Event(c) \in Events /\ Event(c).sprint = s /\ Event(c).task = t
        /\ log' \subseteq Events /\ members' \subseteq Sprints \X (DOMAIN Home)
    <2>1. Event(c) \in Events /\ Event(c).sprint = s /\ Event(c).task = t
      BY <1>1 DEF Event, Events
    <2> QED BY <1>1, <1>2, <2>1 DEF IInv, Types
  <1>8. ConflictsOnlyByRace'
    <2>1. OneActiveUnlessRaced'
      BY <1>2, <1>5 DEF IInv, ConflictsOnlyByRace, OneActiveUnlessRaced, Overlapped
    <2>2. ASSUME NEW u \in Sprints \ {s}, IsOpen(u), <<u, t>> \in members
          PROVE  \E d \in Calls : Overlapped(c, d) /\ IsAssignment(d, u, t)
      BY <1>1, <2>2 DEF IInv, CallIsSound, AssignsAlone, Assigns, OtherOpen
    <2>3. OneOpenUnlessRaced'
      <3> SUFFICES ASSUME NEW v \in Sprints, NEW u \in Sprints, NEW k \in DOMAIN Home, v # u,
                          IsOpen(v), IsOpen(u), <<v, k>> \in members', <<u, k>> \in members'
                   PROVE  \E a, b \in Calls : /\ Overlapped(a, b)
                                              /\ req[a].sprint = v /\ req[b].sprint = u
                                              /\ req[a].task = k /\ req[b].task = k
        BY <1>2, <1>5 DEF OneOpenUnlessRaced, IsOpen, Overlapped
      <3>1. CASE <<v, k>> \in members /\ <<u, k>> \in members
        BY <3>1 DEF IInv, ConflictsOnlyByRace, OneOpenUnlessRaced
      <3>2. CASE <<v, k>> \notin members
        <4>1. v = s /\ k = t /\ <<u, k>> \in members
          BY <1>2, <3>2
        <4> QED BY <2>2, <4>1 DEF IsAssignment
      <3>3. CASE <<u, k>> \notin members
        <4>1. u = s /\ k = t /\ <<v, k>> \in members
          BY <1>2, <3>3
        <4>2. PICK d \in Calls : Overlapped(c, d) /\ IsAssignment(d, v, t)
          BY <2>2, <4>1
        <4> QED BY <4>1, <4>2 DEF IsAssignment, Overlapped
      <3> QED BY <3>1, <3>2, <3>3
    <2> QED BY <2>1, <2>3 DEF ConflictsOnlyByRace
  <1>9. MovesAreLogged'
    <2>1. ASSUME NEW m \in members' \ StartMembers
          PROVE  \E e \in log' : e.sprint = m[1] /\ e.task = m[2]
      <3>1. CASE m \in members
        BY <1>2, <2>1, <3>1 DEF IInv, MovesAreLogged
      <3>2. CASE m \notin members
        BY <1>2, <1>7, <2>1, <3>2
      <3> QED BY <3>1, <3>2
    <2>2. ASSUME NEW m \in StartMembers \ members'
          PROVE  \E d \in Calls : /\ req'[d].verb = "remove" /\ req'[d].sprint = m[1] /\ req'[d].task = m[2]
                                  /\ pc'[d] = "event" \/ answer'[d].outcome = "lost" \/ Event(d)' \in log'
      <3>1. PICK d \in Calls : /\ req[d].verb = "remove" /\ req[d].sprint = m[1] /\ req[d].task = m[2]
                               /\ pc[d] = "event" \/ answer[d].outcome = "lost" \/ Event(d) \in log
        BY <1>2, <2>2 DEF IInv, MovesAreLogged
      <3>2. d # c /\ Event(d)' = Event(d)
        BY <1>1, <1>2, <3>1 DEF Event
      <3> QED BY <1>2, <1>4, <3>1, <3>2
    <2> QED BY <2>1, <2>2 DEF MovesAreLogged
  <1>10. \A m \in members' \ members : m[1] = s /\ m[2] = t /\ fresh[c]
    BY <1>2
  <1> QED BY <1>1, <1>2, <1>4, <1>5, <1>6, <1>7, <1>8, <1>9, <1>10, MembersStep

(***************************************************************************)
(* The commit of a creation or a transition                                *)
(***************************************************************************)

\* The row that is written, and what it means for every sprint.
LEMMA CommitFacts ==
  ASSUME IInv, NEW c \in Calls, Commit(c)
  PROVE  /\ pc[c] = "commit" /\ req[c].verb \in Recorded /\ req[c].op \in Ops /\ ~Seen(c)
         /\ Subject(c) \in Sprints /\ Written(c) \in Sprint
         /\ sprints' = [sprints EXCEPT ![Subject(c)] = Written(c)]
         /\ req[c].verb = "create" => ~Exists(c)
         /\ \A s \in Sprints : Exists(s) => Exists(s)' /\ sprints'[s].project = sprints[s].project
         /\ \A d \in Calls \ {c} : Exists(d)' => Exists(d)
         /\ \A s \in Sprints : sprintLock[s] \notin {c, None} => sprints'[s] = sprints[s]
         /\ \A s \in Sprints : sprints'[s].status = "active" =>
               sprints'[s] = sprints[s] \/ IsActivation(c, s)
         /\ \A s \in Sprints : (IsOpen(s)' /\ \E t : <<s, t>> \in members) => IsOpen(s)
  <1> USE DEF IInv
  <1>1. /\ pc[c] = "commit" /\ req[c].verb \in Recorded /\ req[c].op \in Ops /\ ~Seen(c)
        /\ req[c] \in Request
        /\ sprints' = [sprints EXCEPT ![Subject(c)] = Written(c)]
    BY SprintOfStep DEF Commit, CallIsSound, OfItsVerb, KnowsByItsStep
  <1>2. CASE req[c].verb = "create"
    <2>1. Subject(c) = c /\ c \in Sprints
      BY <1>2 DEF Subject, Sprints
    <2>2. Written(c) = [project |-> req[c].project, status |-> "planning", version |-> 1]
          /\ req[c].project \in Projects
      BY <1>1, <1>2, RequestShape DEF Written
    <2>3. Written(c) \in Sprint /\ Written(c).status = "planning"
      BY <2>2 DEF Sprint
    <2>4. ~Exists(c)
      BY <1>1 DEF CallIsSound, IsRecorded
    <2>5. \A s \in Sprints : s # c => sprints'[s] = sprints[s]
      BY <1>1, <2>1 DEF Types
    <2>6. sprints'[c] = Written(c)
      BY <1>1, <2>1 DEF Types
    <2>7. sprintLock[c] \in {c, None}
      <3>1. ASSUME sprintLock[c] # None
            PROVE  FALSE
        <4>1. PICK d \in Calls : d = sprintLock[c] /\ pc[d] \in HoldSteps /\ req[d].sprint = c
          BY <2>1, <3>1 DEF LockIsHeld
        <4>2. pc[d] # "idle" /\ c # None
          BY <4>1, SprintsAssumption DEF HoldSteps, Sprints
        <4>3. req[d].verb # "create"
          BY <4>1, <4>2, SprintOfStep, RequestShape
        <4>4. sprints[c] \in Sprint
          BY <4>1, <4>2, <4>3, SprintOfStep
        <4> QED BY <2>4, <4>4, SprintShape DEF Exists
      <3> QED BY <3>1
    <2>8. ASSUME NEW t, <<c, t>> \in members
          PROVE  FALSE
      <3> DEFINE m == <<c, t>>
      <3>1. m[1] = c /\ m[2] = t /\ m \in members /\ t \in DOMAIN Home
        BY <2>8 DEF Types
      <3> HIDE DEF m
      <3>2. sprints[c].project = Home[t] /\ Home[t] \in Projects
        BY <3>1, SprintsAssumption
      <3> QED BY <2>4, <3>2, SprintShape DEF Exists
    <2>9. \A s \in Sprints : Exists(s) => Exists(s)' /\ sprints'[s].project = sprints[s].project
      BY <2>4, <2>5 DEF Exists
    <2>10. \A s \in Sprints : sprints'[s].status = "active" => sprints'[s] = sprints[s]
      BY <2>3, <2>5, <2>6
    <2>11. \A d \in Calls \ {c} : Exists(d)' => Exists(d)
      BY <2>5 DEF Exists, Sprints
    <2>12. \A s \in Sprints : (IsOpen(s)' /\ \E t : <<s, t>> \in members) => IsOpen(s)
      BY <2>5, <2>8 DEF IsOpen
    <2>13. \A s \in Sprints : sprintLock[s] \notin {c, None} => sprints'[s] = sprints[s]
      BY <2>5, <2>7
    <2> QED BY <1>1, <2>1, <2>3, <2>4, <2>9, <2>10, <2>11, <2>12, <2>13
  <1>3. CASE req[c].verb # "create"
    <2> DEFINE u == req[c].sprint
    <2>1. Subject(c) = u /\ u \in Sprints /\ sprints[u] \in Sprint /\ sprintLock[u] = c
          /\ MayTransition(c) /\ req[c].verb \in {"activate", "close"}
      <3>1. pc[c] # "idle" /\ pc[c] \in HoldSteps
        BY <1>1 DEF HoldSteps
      <3>2. u \in Sprints /\ sprints[u] \in Sprint /\ req[c].verb \in {"activate", "close"}
        BY <1>3, <3>1, SprintOfStep
      <3>3. sprintLock[u] = c /\ MayTransition(c)
        BY <1>3, <3>1 DEF CallIsSound, HoldsItsSprint
      <3> QED BY <1>3, <3>2, <3>3 DEF Subject
    <2>2. /\ Written(c) \in Sprint /\ Written(c).project = sprints[u].project
          /\ Written(c).status = IF req[c].verb = "activate" THEN "active" ELSE "completed"
      <3> DEFINE st == IF req[c].verb = "activate" THEN "active" ELSE "completed"
                 r == sprints[u]
      <3>1. Written(c) = Moved(r, st)
        BY <1>3 DEF Written, Moved
      <3>2. st \in {"planning", "active", "completed"}
        OBVIOUS
      <3>3. r \in Sprint
        BY <2>1
      <3> HIDE DEF st, r
      <3>4. Written(c) \in Sprint /\ Written(c).project = r.project /\ Written(c).status = st
        BY <3>1, <3>2, <3>3, TransitionShape
      <3> QED BY <3>4 DEF st, r
    <2>3. /\ \A s \in Sprints : s # u => sprints'[s] = sprints[s]
          /\ sprints'[u] = Written(c)
      BY <1>1, <2>1 DEF Types
    <2>4. /\ Exists(u) /\ sprints'[u] # NoSprint
      BY <2>1, <2>2, <2>3, SprintShape DEF Exists
    <2> HIDE DEF u
    <2>5. \A s \in Sprints : Exists(s) => Exists(s)' /\ sprints'[s].project = sprints[s].project
      BY <2>2, <2>3, <2>4 DEF Exists
    <2>6. \A d \in Calls \ {c} : Exists(d)' => Exists(d)
      BY <2>3, <2>4 DEF Exists, Sprints
    <2>7. \A s \in Sprints : sprintLock[s] \notin {c, None} => sprints'[s] = sprints[s]
      BY <2>1, <2>3
    <2>8. \A s \in Sprints : sprints'[s].status = "active" =>
               sprints'[s] = sprints[s] \/ IsActivation(c, s)
      BY <2>1, <2>2, <2>3 DEF IsActivation, u
    <2>9. \A s \in Sprints : IsOpen(s)' => IsOpen(s)
      BY <2>1, <2>2, <2>3 DEF IsOpen, MayTransition, u
    <2> QED BY <1>1, <1>3, <2>1, <2>2, <2>5, <2>6, <2>7, <2>8, <2>9
  <1> QED BY <1>2, <1>3

\* What it records is what it answers; nobody has recorded under its operation before.
LEMMA CommitRecords ==
  ASSUME IInv, NEW c \in Calls, Commit(c)
  PROVE  \E ans \in Told :
           /\ ans.outcome = "ok" /\ ans.sprint = Subject(c) /\ ans.carry = carry[c]
           /\ pc' = [pc EXCEPT ![c] = "answered"] /\ answer' = [answer EXCEPT ![c] = ans]
           /\ receipts'[req[c].op].answer = ans /\ receipts'[req[c].op] # NoReceipt
           /\ \A o \in Ops \ {req[c].op} : receipts'[o] = receipts[o]
           /\ receipts' \in [Ops -> Receipts \cup {NoReceipt}]
           /\ UNCHANGED <<members, done, log, req>> /\ Release(c) /\ Forget({c})
  <1> DEFINE ans == [outcome |-> "ok", sprint |-> Subject(c), version |-> Written(c).version,
                     carry |-> carry[c]]
             row == [req |-> req[c], answer |-> ans]
  <1>1. req[c].op \in Ops /\ req[c] \in Request
    BY CommitFacts, SprintOfStep
  <1>2. ans \in Told /\ ans.outcome = "ok" /\ ans.sprint = Subject(c) /\ ans.carry = carry[c]
    <2>1. Subject(c) \in Sprints /\ Written(c).version \in Nat /\ carry[c] \in SUBSET DOMAIN Home
      BY CommitFacts, SprintShape DEF IInv, Types
    <2> QED BY <2>1 DEF Told, Outcomes
  <1>3. /\ receipts' = [receipts EXCEPT ![req[c].op] = row]
        /\ pc' = [pc EXCEPT ![c] = "answered"] /\ answer' = [answer EXCEPT ![c] = ans]
        /\ UNCHANGED <<members, done, log, req>> /\ Release(c) /\ Forget({c})
    BY DEF Commit, Answer
  <1> HIDE DEF ans
  <1>4. row \in Receipts /\ row.answer = ans /\ row # NoReceipt
    BY <1>1, <1>2, ReceiptShape
  <1> HIDE DEF row
  <1>5. /\ receipts'[req[c].op] = row /\ receipts' \in [Ops -> Receipts \cup {NoReceipt}]
        /\ \A o \in Ops \ {req[c].op} : receipts'[o] = receipts[o]
    BY <1>1, <1>3, <1>4 DEF IInv, Types
  <1> QED BY <1>2, <1>3, <1>4, <1>5

LEMMA CommitKeepsIInv ==
  ASSUME IInv, NEW c \in Calls, Commit(c)
  PROVE  IInv'
  <1> USE DEF IInv
  <1>1. PICK ans \in Told :
           /\ ans.outcome = "ok" /\ ans.sprint = Subject(c)
           /\ pc' = [pc EXCEPT ![c] = "answered"] /\ answer' = [answer EXCEPT ![c] = ans]
           /\ receipts'[req[c].op].answer = ans /\ receipts'[req[c].op] # NoReceipt
           /\ \A o \in Ops \ {req[c].op} : receipts'[o] = receipts[o]
           /\ receipts' \in [Ops -> Receipts \cup {NoReceipt}]
           /\ UNCHANGED <<members, done, log, req>> /\ Release(c) /\ Forget({c})
    BY CommitRecords
  <1>2. /\ pc[c] = "commit" /\ req[c].verb \in Recorded /\ req[c].op \in Ops /\ ~Seen(c)
        /\ Subject(c) \in Sprints /\ Written(c) \in Sprint
        /\ sprints' = [sprints EXCEPT ![Subject(c)] = Written(c)]
        /\ req[c].verb = "create" => ~Exists(c)
    BY CommitFacts
  <1>3. /\ \A s \in Sprints : Exists(s) => Exists(s)' /\ sprints'[s].project = sprints[s].project
        /\ \A d \in Calls \ {c} : Exists(d)' => Exists(d)
        /\ \A s \in Sprints : sprintLock[s] \notin {c, None} => sprints'[s] = sprints[s]
    BY CommitFacts
  <1>4. /\ \A s \in Sprints : sprints'[s].status = "active" =>
               sprints'[s] = sprints[s] \/ IsActivation(c, s)
        /\ \A s \in Sprints : (IsOpen(s)' /\ \E t : <<s, t>> \in members) => IsOpen(s)
    BY CommitFacts
  <1>5. /\ pc'[c] = "answered" /\ answer'[c] = ans
        /\ \A d \in Calls \ {c} : pc'[d] = pc[d] /\ answer'[d] = answer[d]
    BY <1>1 DEF Types
  <1>6. /\ found' \in [Calls -> SUBSET DOMAIN Home] /\ carry' \in [Calls -> SUBSET DOMAIN Home]
        /\ fresh' \in [Calls -> BOOLEAN] /\ ~fresh'[c] /\ found'[c] = {} /\ carry'[c] = {}
        /\ \A d \in Calls \ {c} : found'[d] = found[d] /\ carry'[d] = carry[d] /\ fresh'[d] = fresh[d]
        /\ beside' = beside
    BY <1>1, ForgetShape
  <1>7. /\ sprintLock' \in [Sprints -> Calls \cup {None}]
        /\ \A s \in Sprints : sprintLock'[s] = IF sprintLock[s] = c THEN None ELSE sprintLock[s]
    BY <1>1 DEF Release, Types
  <1>8. Types'
    BY <1>1, <1>2, <1>6, <1>7 DEF Types, Steps
  <1>9. ASSUME NEW m \in members'
        PROVE  sprints'[m[1]].project = Home[m[2]]
    <2>1. m \in members /\ m[1] \in Sprints /\ Home[m[2]] \in Projects
      BY <1>1, <1>9, SprintsAssumption DEF Types
    <2>2. sprints[m[1]].project = Home[m[2]] /\ Exists(m[1])
      BY <2>1, SprintShape DEF Exists
    <2> QED BY <1>3, <2>1, <2>2
  <1>10. ASSUME NEW d \in Calls, Seen(d), req[d].op \in Ops
         PROVE  receipts'[req[d].op] = receipts[req[d].op]
    BY <1>1, <1>2, <1>10 DEF Seen
  <1>11. ASSUME NEW d \in Calls \ {c}
         PROVE  CallIsSound(d)'
    <2>1. /\ OfItsVerb(d) /\ KnowsByItsStep(d) /\ HoldsItsSprint(d) /\ ActivatesAlone(d)
          /\ AssignsAlone(d) /\ IsRecorded(d) /\ beside[d] \subseteq Calls
          /\ pc'[d] = pc[d] /\ req'[d] = req[d]
      BY <1>1, <1>5 DEF CallIsSound, Types
    <2>2. OfItsVerb(d)'
      BY <2>1 DEF OfItsVerb
    <2>3. KnowsByItsStep(d)'
      <3>1. ASSUME NEW e \in beside'[d] PROVE pc'[e] # "idle"
        BY <1>5, <1>6, <2>1 DEF KnowsByItsStep
      <3>2. ASSUME pc[d] \in {"guard", "insert", "reference", "enter"}
            PROVE  Exists(req[d].sprint)' /\ sprints'[req[d].sprint].project = Home[req[d].task]
        <4>1. req[d].sprint \in Sprints
          BY <2>1, <3>2, SprintOfStep DEF OfItsVerb
        <4> QED BY <1>1, <1>3, <2>1, <3>2, <4>1 DEF KnowsByItsStep
      <3>3. ASSUME pc[d] = "commit"
            PROVE  ~Seen(d)'
        <4>1. req[d].op # req[c].op /\ req[d].op \in Ops
          BY <1>2, <2>1, <3>3, SprintOfStep DEF IsRecorded, OfItsVerb
        <4> QED BY <1>1, <2>1, <3>3, <4>1 DEF KnowsByItsStep, Seen
      <3> QED BY <1>5, <1>6, <2>1, <3>1, <3>2, <3>3 DEF KnowsByItsStep
    <2>4. HoldsItsSprint(d)'
      <3>1. ASSUME pc[d] \in HoldSteps, req[d].verb # "create"
            PROVE  /\ sprints'[req[d].sprint] = sprints[req[d].sprint]
                   /\ sprintLock'[req[d].sprint] = d
        <4>1. req[d].sprint \in Sprints /\ sprintLock[req[d].sprint] = d /\ d # None
          BY <2>1, <3>1, SprintOfStep, SprintsAssumption DEF HoldsItsSprint, HoldSteps, Sprints
        <4> QED BY <1>3, <1>7, <4>1
      <3>2. (pc'[d] \in HoldSteps /\ req'[d].verb # "create") =>
               sprintLock'[req'[d].sprint] = d /\ Exists(req[d].sprint)' /\ MayTransition(d)'
        BY <2>1, <3>1 DEF HoldsItsSprint, Exists, MayTransition
      <3>3. (pc'[d] \in {"tasks", "record", "commit"} /\ req'[d].verb = "close") =>
               \A m \in members' : m[1] = req'[d].sprint => m[2] \in found'[d]
        BY <1>1, <1>6, <2>1 DEF HoldsItsSprint
      <3> QED BY <3>2, <3>3 DEF HoldsItsSprint
    <2>5. ActivatesAlone(d)'
      <3> SUFFICES ASSUME Activates(d)' PROVE ActivatesAlone(d)'
        BY DEF ActivatesAlone
      <3>1. Activates(d) /\ req[d].sprint \in Sprints /\ sprints[req[d].sprint] \in Sprint
        <4>1. Activates(d) /\ pc[d] # "idle" /\ pc[d] \in HoldSteps /\ req[d].verb # "create"
          BY <2>1 DEF Activates, HoldSteps
        <4> QED BY <4>1, SprintOfStep
      <3>2. Exists(req[d].sprint)
        BY <3>1, SprintShape DEF Exists
      <3>3. ASSUME NEW s \in Sprints \ {req[d].sprint}, sprints'[s].status = "active",
                   sprints'[s].project = sprints'[req[d].sprint].project
            PROVE  \E e \in Calls : (Overlapped(d, e) /\ IsActivation(e, s))'
        <4>1. sprints'[req[d].sprint].project = sprints[req[d].sprint].project
          BY <1>3, <3>1, <3>2
        <4>2. CASE sprints'[s] = sprints[s]
          <5>1. PICK e \in Calls : Overlapped(d, e) /\ IsActivation(e, s)
            BY <2>1, <3>1, <3>3, <4>1, <4>2 DEF ActivatesAlone
          <5> QED BY <1>1, <1>6, <5>1 DEF IsActivation, Overlapped
        <4>3. CASE IsActivation(c, s)
          <5>1. Activates(c)
            BY <1>2, <4>3 DEF IsActivation, Activates
          <5>2. Overlapped(d, c)
            BY <2>1, <3>1, <5>1 DEF ActivatesAlone
          <5> QED BY <1>1, <1>6, <4>3, <5>2 DEF IsActivation, Overlapped
        <4> QED BY <1>4, <3>3, <4>2, <4>3
      <3>4. \A e \in Calls : Activates(e)' => Activates(e)
        BY <1>1, <1>5 DEF Activates
      <3> QED BY <1>6, <2>1, <3>1, <3>3, <3>4 DEF ActivatesAlone, Overlapped
    <2>6. AssignsAlone(d)'
      <3> SUFFICES ASSUME Assigns(d)' PROVE AssignsAlone(d)'
        BY DEF AssignsAlone
      <3>1. Assigns(d) /\ \A e \in Calls : Assigns(e)' => Assigns(e)
        BY <1>5, <2>1 DEF Assigns
      <3>2. OtherOpen(d)' \subseteq OtherOpen(d)
        <4>1. ASSUME NEW s \in OtherOpen(d)' PROVE s \in OtherOpen(d)
          BY <1>1, <1>4, <2>1 DEF OtherOpen, IsOpen
        <4> QED BY <4>1
      <3>3. ASSUME NEW s \in OtherOpen(d)'
            PROVE  \E e \in Calls : (Overlapped(d, e) /\ IsAssignment(e, s, req[d].task))'
        <4>1. PICK e \in Calls : Overlapped(d, e) /\ IsAssignment(e, s, req[d].task)
          BY <2>1, <3>1, <3>2 DEF AssignsAlone
        <4> QED BY <1>1, <1>6, <4>1 DEF IsAssignment, Overlapped
      <3> QED BY <1>6, <2>1, <3>1, <3>3 DEF AssignsAlone, Overlapped
    <2>7. IsRecorded(d)'
      <3>1. ASSUME answer'[d].outcome = "ok", req'[d].op # None
            PROVE  Seen(d)' /\ receipts'[req'[d].op].answer = answer'[d]
        <4>1. Seen(d) /\ receipts[req[d].op].answer = answer[d]
          BY <1>5, <2>1, <3>1 DEF IsRecorded
        <4>2. req[d].op \in Ops
          <5>1. pc[d] # "idle"
            BY <1>5, <2>1, <3>1 DEF KnowsByItsStep
          <5> QED BY <2>1, <3>1, <5>1, SprintOfStep
        <4> QED BY <1>5, <1>10, <2>1, <4>1, <4>2 DEF Seen
      <3>2. ASSUME Exists(d)'
            PROVE  req'[d].op \in Ops /\ Seen(d)' /\ receipts'[req'[d].op].answer.sprint = d
        <4>1. Exists(d)
          BY <1>3, <3>2
        <4> QED BY <1>10, <2>1, <4>1 DEF IsRecorded, Seen
      <3>3. \A e \in Calls \ {d} : (pc'[d] = "commit" /\ pc'[e] = "commit") => req'[d].op # req'[e].op
        BY <1>1, <1>5, <2>1 DEF IsRecorded
      <3> QED BY <3>1, <3>2, <3>3 DEF IsRecorded
    <2> QED BY <2>2, <2>3, <2>4, <2>5, <2>6, <2>7 DEF CallIsSound
  <1>12. CallIsSound(c)'
    <2>1. OfItsVerb(c)'
      BY <1>1, <1>2, <1>5 DEF CallIsSound, OfItsVerb
    <2>2. KnowsByItsStep(c)'
      <3>1. KnowsByItsStep(c) /\ beside[c] \subseteq Calls
        BY DEF CallIsSound, Types
      <3>2. ASSUME NEW e \in beside'[c] PROVE pc'[e] # "idle"
        BY <1>5, <1>6, <3>1 DEF KnowsByItsStep
      <3> QED BY <1>2, <1>5, <1>6, <3>1, <3>2 DEF KnowsByItsStep, UncheckedSteps
    <2>3. HoldsItsSprint(c)' /\ ActivatesAlone(c)' /\ AssignsAlone(c)'
      BY <1>5 DEF HoldsItsSprint, HoldSteps, ActivatesAlone, Activates, AssignsAlone, Assigns
    <2>4. IsRecorded(c)'
      <3>1. Seen(c)' /\ receipts'[req'[c].op].answer = answer'[c] /\ req'[c].op \in Ops
        BY <1>1, <1>2, <1>5 DEF Seen
      <3>2. ASSUME Exists(c)'
            PROVE  receipts'[req'[c].op].answer.sprint = c
        <4>1. CASE Exists(c)
          BY <1>2, <4>1 DEF CallIsSound, IsRecorded
        <4>2. CASE ~Exists(c)
          <5>1. Subject(c) = c
            BY <1>2, <3>2, <4>2 DEF Exists, Sprints, Types
          <5> QED BY <1>1, <5>1
        <4> QED BY <4>1, <4>2
      <3> QED BY <1>5, <3>1, <3>2 DEF IsRecorded
    <2> QED BY <2>1, <2>2, <2>3, <2>4 DEF CallIsSound
  <1>13. ASSUME NEW s \in Sprints
         PROVE  LockIsHeld(s)'
    <2>1. LockIsHeld(s)
      OBVIOUS
    <2>2. ASSUME sprintLock'[s] # None
          PROVE  /\ sprintLock'[s] \in Calls /\ req'[sprintLock'[s]].sprint = s
                 /\ pc'[sprintLock'[s]] \in HoldSteps
      BY <1>1, <1>5, <1>7, <2>1, <2>2 DEF LockIsHeld
    <2>3. ASSUME NEW d \in Calls, pc'[d] = "enter", fresh'[d], req'[d].sprint = s
          PROVE  sprintLock'[s] = None
      <3>1. d # c
        BY <1>6, <2>3
      <3> QED BY <1>1, <1>5, <1>6, <1>7, <2>1, <2>3, <3>1 DEF LockIsHeld
    <2> QED BY <2>2, <2>3 DEF LockIsHeld
  <1>14. OneActiveUnlessRaced'
    <2>1. ASSUME NEW u \in Sprints, IsActivation(c, u), NEW s \in Sprints \ {u},
                 sprints'[s] = sprints[s], sprints[s].status = "active",
                 sprints'[s].project = sprints'[u].project
          PROVE  \E d \in Calls : Overlapped(c, d) /\ IsActivation(d, s)
      <3>1. Activates(c) /\ ActivatesAlone(c) /\ req[c].sprint = u
        BY <1>2, <2>1 DEF Activates, IsActivation, CallIsSound
      <3>2. sprints[u] \in Sprint
        BY <1>2, <2>1, <3>1, SprintOfStep DEF IsActivation, HoldSteps
      <3>3. sprints'[u].project = sprints[u].project
        BY <1>3, <3>2, SprintShape DEF Exists
      <3> QED BY <2>1, <3>1, <3>3 DEF ActivatesAlone
    <2> SUFFICES ASSUME NEW s \in Sprints, NEW u \in Sprints, s # u,
                        sprints'[s].project = sprints'[u].project,
                        sprints'[s].status = "active", sprints'[u].status = "active"
                 PROVE  \E a, b \in Calls : Overlapped(a, b) /\ IsActivation(a, s) /\ IsActivation(b, u)
      BY <1>1, <1>6 DEF OneActiveUnlessRaced, Overlapped, IsActivation
    <2>2. CASE sprints'[s] = sprints[s] /\ sprints'[u] = sprints[u]
      BY <2>2 DEF ConflictsOnlyByRace, OneActiveUnlessRaced, IsActivation
    <2>3. CASE IsActivation(c, u) /\ sprints'[s] = sprints[s]
      <3>1. PICK d \in Calls : Overlapped(c, d) /\ IsActivation(d, s)
        BY <2>1, <2>3
      <3> QED BY <2>3, <3>1 DEF Overlapped
    <2>4. CASE IsActivation(c, s) /\ sprints'[u] = sprints[u]
      BY <2>1, <2>4
    <2>5. ~(IsActivation(c, s) /\ IsActivation(c, u))
      BY DEF IsActivation
    <2> QED BY <1>4, <2>2, <2>3, <2>4, <2>5
  <1>15. OneOpenUnlessRaced'
    <2> SUFFICES ASSUME NEW s \in Sprints, NEW u \in Sprints, NEW t \in DOMAIN Home, s # u,
                        IsOpen(s)', IsOpen(u)', <<s, t>> \in members, <<u, t>> \in members
                 PROVE  \E a, b \in Calls : /\ Overlapped(a, b)
                                            /\ req[a].sprint = s /\ req[b].sprint = u
                                            /\ req[a].task = t /\ req[b].task = t
      BY <1>1, <1>6 DEF OneOpenUnlessRaced, Overlapped
    <2>1. IsOpen(s) /\ IsOpen(u)
      BY <1>4
    <2> QED BY <2>1 DEF ConflictsOnlyByRace, OneOpenUnlessRaced
  <1>16. MovesAreLogged'
    <2>1. ASSUME NEW m \in StartMembers \ members'
          PROVE  \E d \in Calls : /\ req'[d].verb = "remove" /\ req'[d].sprint = m[1] /\ req'[d].task = m[2]
                                  /\ pc'[d] = "event" \/ answer'[d].outcome = "lost" \/ Event(d)' \in log'
      <3>1. PICK d \in Calls : /\ req[d].verb = "remove" /\ req[d].sprint = m[1] /\ req[d].task = m[2]
                               /\ pc[d] = "event" \/ answer[d].outcome = "lost" \/ Event(d) \in log
        BY <1>1, <2>1 DEF MovesAreLogged
      <3>2. d # c /\ Event(d)' = Event(d)
        BY <1>1, <1>2, <3>1 DEF Event, Recorded
      <3> QED BY <1>1, <1>5, <3>1, <3>2
    <2> QED BY <1>1, <2>1 DEF MovesAreLogged
  <1> QED BY <1>8, <1>9, <1>11, <1>12, <1>13, <1>14, <1>15, <1>16 DEF ConflictsOnlyByRace

(***************************************************************************)
(* The theorems                                                            *)
(***************************************************************************)

LEMMA NextKeepsIInv == IInv /\ [Next]_vars => IInv'
  <1> SUFFICES ASSUME IInv, [Next]_vars PROVE IInv'
    OBVIOUS
  <1>1. CASE UNCHANGED vars
    <2>1. UNCHANGED <<sprints, members, done, log, receipts, sprintLock, pc, req, found, carry, fresh,
                      beside, answer>>
      BY <1>1 DEF vars, tables, local
    <2>2. Types'
      BY <2>1 DEF IInv, Types
    <2>3. ASSUME NEW c \in Calls
          PROVE  CallIsSound(c)'
      <3>1. OfItsVerb(c)' /\ KnowsByItsStep(c)' /\ HoldsItsSprint(c)' /\ IsRecorded(c)'
        BY <2>1 DEF IInv, CallIsSound, OfItsVerb, KnowsByItsStep, HoldsItsSprint, IsRecorded, Exists,
                    Seen, MayTransition
      <3>2. ActivatesAlone(c)' /\ AssignsAlone(c)'
        BY <2>1 DEF IInv, CallIsSound, ActivatesAlone, Activates, IsActivation, Overlapped,
                    AssignsAlone, Assigns, IsAssignment, OtherOpen, IsOpen
      <3> QED BY <3>1, <3>2 DEF CallIsSound
    <2>4. ConflictsOnlyByRace' /\ MovesAreLogged'
      BY <2>1, ConflictsStand DEF IInv, MovesAreLogged, Event
    <2> QED BY <2>1, <2>2, <2>3, <2>4 DEF IInv, LockIsHeld
  <1>2. ASSUME NEW c \in Calls, NEW q \in Requests[c], Submit(c, q)
        PROVE  IInv'
    BY <1>2, SubmitKeepsIInv
  <1>3. ASSUME NEW c \in Calls, Handle(c)
        PROVE  IInv'
    BY <1>3, CheckKeepsIInv, RecheckKeepsIInv, LockSprintKeepsIInv, ReadActiveKeepsIInv,
       ReadMembersKeepsIInv, ReadTasksKeepsIInv, RecordKeepsIInv, CommitKeepsIInv,
       ReadBothKeepsIInv, GuardAssignKeepsIInv, InsertMemberKeepsIInv, ReferToSprintKeepsIInv,
       CommitAssignKeepsIInv, DeleteMemberKeepsIInv, LogRemovalKeepsIInv DEF Handle
  <1>4. ASSUME NEW t \in Worked, ChangeStatus(t)
        PROVE  IInv'
    BY <1>4, ChangeStatusKeepsIInv
  <1>5. CASE Crash
    BY <1>5, CrashKeepsIInv
  <1> QED BY <1>1, <1>2, <1>3, <1>4, <1>5 DEF Next

\* Whatever is planned, activated, closed and moved beside each other, who transitions a
\* sprint holds it, and who is past a check knows every other by it or by their race.
THEOREM AlwaysIInv == Spec => []IInv
  BY InitEstablishesIInv, NextKeepsIInv, PTL DEF Spec

\* Of calls that wait there is always one that waits for none of the others: a call waits
\* only for calls that are further on.
LEMMA NoCircleOfWaiting ==
  ASSUME IInv, NEW S \in (SUBSET Calls) \ {{}}
  PROVE  \E c \in S : Blockers(c) \cap S = {}
  <1> DEFINE Waiting == {"lock", "reference", "insert", "record"}
  <1>1. CASE \E c \in S : pc[c] \notin Waiting
    <2>1. PICK c \in S : pc[c] \notin Waiting
      BY <1>1
    <2> QED BY <2>1 DEF Blockers
  <1>2. CASE /\ \A c \in S : pc[c] \in Waiting
             /\ \E c \in S : pc[c] = "record"
    <2>1. PICK c \in S : pc[c] = "record"
      BY <1>2
    <2>2. Blockers(c) \subseteq {d \in Calls : pc[d] = "commit"}
      BY <2>1 DEF Blockers
    <2> QED BY <1>2, <2>2
  <1>3. CASE /\ \A c \in S : pc[c] \in {"lock", "reference", "insert"}
             /\ \E c \in S : pc[c] \in {"lock", "reference"}
    <2>1. PICK c \in S : pc[c] \in {"lock", "reference"}
      BY <1>3
    <2>2. req[c].sprint \in Sprints
      BY <2>1, SprintOfStep DEF IInv, CallIsSound, OfItsVerb
    <2>3. LockIsHeld(req[c].sprint)
      BY <2>2 DEF IInv
    <2>4. \A d \in Blockers(c) : d \in Calls => pc[d] \in HoldSteps \cup {"enter"}
      BY <2>1, <2>3 DEF Blockers, LockIsHeld
    <2> QED BY <1>3, <2>1, <2>4 DEF HoldSteps
  <1>4. CASE \A c \in S : pc[c] = "insert"
    <2>1. PICK c \in S : pc[c] = "insert"
      BY <1>4
    <2>2. Blockers(c) \subseteq {d \in Calls : pc[d] \in {"reference", "enter"}}
      BY <2>1 DEF Blockers
    <2> QED BY <1>4, <2>1, <2>2
  <1> QED BY <1>1, <1>2, <1>3, <1>4

\* Sprints, memberships and locks keep their shape, a task is in sprints of its own project
\* only, and no calls wait for each other in a circle.
THEOREM TypeCorrect == Spec => []SprintsTypeOK
  <1>1. IInv => SprintsTypeOK
    <2> SUFFICES ASSUME IInv PROVE SprintsTypeOK
      OBVIOUS
    <2>1. /\ \A s \in Sprints : Exists(s) => sprints[s] \in Sprint
          /\ members \subseteq Sprints \X (DOMAIN Home)
          /\ \A m \in members : sprints[m[1]].project = Home[m[2]]
          /\ done \subseteq DOMAIN Home
          /\ log \subseteq [by : Calls, task : DOMAIN Home, sprint : Sprints \cup {None}]
      BY DEF IInv, Types, Events, Exists
    <2>2. \A s \in Sprints : sprintLock[s] # None =>
            /\ sprintLock[s] \in Calls /\ req[sprintLock[s]].sprint = s
            /\ pc[sprintLock[s]] \in {"active", "members", "tasks", "record", "commit"}
      BY DEF IInv, LockIsHeld, HoldSteps
    <2>3. \A c \in Calls : req[c] # NoRequest => req[c] \in Requests[c]
      BY DEF IInv, CallIsSound, OfItsVerb
    <2>4. \A c \in Calls : answer[c].outcome \in Refusals \cup {"none", "ok", "lost"}
      BY DEF IInv, Types, Told, Outcomes
    <2>5. \A c \in Calls : carry[c] \subseteq found[c] /\ found[c] \subseteq DOMAIN Home
      BY DEF IInv, Types, CallIsSound, KnowsByItsStep
    <2> QED BY <2>1, <2>2, <2>3, <2>4, <2>5, NoCircleOfWaiting DEF SprintsTypeOK
  <1> QED BY <1>1, AlwaysIInv, PTL

\* Two sprints of a project are active, or a task is in two open sprints, only when two
\* calls made the check against it at the same time: there is no other way to it.
THEOREM OnlyRacesConflict == Spec => []ConflictsOnlyByRace
  <1>1. IInv => ConflictsOnlyByRace
    BY DEF IInv
  <1> QED BY <1>1, AlwaysIInv, PTL

\* A request that is sent again takes effect once and is told the same, and the log tells
\* of every move but a removal that the server died in.
THEOREM RecordsTell == Spec => []RecordsAgree
  <1>1. IInv => RecordsAgree
    <2> SUFFICES ASSUME IInv PROVE RecordsAgree
      OBVIOUS
    <2>1. RetriesAgree
      <3> SUFFICES ASSUME NEW c \in Calls, NEW d \in Calls, req[c].op # None, req[c].op = req[d].op
                   PROVE  /\ Exists(c) /\ Exists(d) => c = d
                          /\ answer[c].outcome = "ok" /\ answer[d].outcome = "ok"
                               => answer[c] = answer[d]
        BY DEF RetriesAgree
      <3>1. IsRecorded(c) /\ IsRecorded(d)
        BY DEF IInv, CallIsSound
      <3> QED BY <3>1 DEF IsRecorded
    <2> QED BY <2>1 DEF RecordsAgree, IInv
  <1> QED BY <1>1, AlwaysIInv, PTL

\* A call answers a close with ok at COMMIT only, with what it has found.
LEMMA ClosesWithWhatItHas ==
  ASSUME IInv, Next, NEW c \in Calls, pc[c] = "commit", req[c].verb = "close",
         pc'[c] = "answered", answer'[c].outcome = "ok"
  PROVE  answer'[c].carry = carry[c]
  <1>1. ASSUME NEW d \in Calls \ {c}, Handle(d) \/ \E q \in Requests[d] : Submit(d, q)
        PROVE  FALSE
    <2>1. \E to : pc' = [pc EXCEPT ![d] = to]
      BY <1>1 DEF Handle, Check, Recheck, LockSprint, ReadActive, ReadMembers, ReadTasks, Record, Commit,
                  ReadBoth, GuardAssign, InsertMember, ReferToSprint, CommitAssign, DeleteMember,
                  LogRemoval, AnswerFromReceipt, Refuse, Answer, Abort, Go, Submit
    <2> QED BY <1>1, <2>1 DEF IInv, Types
  <1>2. CASE Commit(c)
    <2>1. PICK ans \in Told : ans.carry = carry[c] /\ answer' = [answer EXCEPT ![c] = ans]
      BY <1>2, CommitRecords
    <2> QED BY <2>1 DEF IInv, Types
  <1>3. CASE (Handle(c) /\ ~Commit(c)) \/ \E q \in Requests[c] : Submit(c, q)
    BY <1>3 DEF Handle, Check, Recheck, LockSprint, ReadActive, ReadMembers, ReadTasks, Record,
                ReadBoth, GuardAssign, InsertMember, ReferToSprint, CommitAssign, DeleteMember,
                LogRemoval, Submit
  <1>4. CASE \E t \in Worked : ChangeStatus(t)
    BY <1>4 DEF ChangeStatus
  <1>5. CASE Crash
    <2>1. [NoAnswer EXCEPT !.outcome = "lost"].outcome = "lost"
      BY ToldShape DEF Outcomes
    <2>2. answer'[c] = [NoAnswer EXCEPT !.outcome = "lost"]
      BY <1>5 DEF Crash, InFlight
    <2> QED BY <2>1, <2>2
  <1> QED BY <1>1, <1>2, <1>3, <1>4, <1>5 DEF Next

\* A close has found every task that is in its sprint when it commits, and reports none
\* that it has not found: what is assigned beside it is seen by it or comes after it.
THEOREM ClosesFindAll == Spec => NothingSlipsPastAClose
  <1>1. IInv /\ [Next]_vars => [ClosesOverAll]_vars
    <2> SUFFICES ASSUME IInv, Next PROVE ClosesOverAll
      OBVIOUS
    <2> SUFFICES ASSUME NEW c \in Calls, pc[c] = "commit", req[c].verb = "close",
                        pc'[c] = "answered", answer'[c].outcome = "ok"
                 PROVE  /\ \A m \in members : m[1] = req[c].sprint => m[2] \in found[c]
                        /\ answer'[c].carry \subseteq found[c]
      BY DEF ClosesOverAll
    <2>1. HoldsItsSprint(c) /\ carry[c] \subseteq found[c]
      BY DEF IInv, CallIsSound, KnowsByItsStep
    <2> QED BY <2>1, ClosesWithWhatItHas DEF HoldsItsSprint
  <1> QED BY <1>1, AlwaysIInv, PTL DEF Spec, NothingSlipsPastAClose
=============================================================================
