------------------------- MODULE CredentialsProofs -------------------------
(***************************************************************************)
(* Theorems about Credentials, for every set of actors, calls, operations  *)
(* and requests: its types, that a human keeps access unless a rotation    *)
(* has overtaken a revoke, that a token is told once, and that a revoke    *)
(* revokes.                                                                *)
(***************************************************************************)
EXTENDS Credentials, FiniteSetTheorems, SequenceTheorems, TLAPS

(***************************************************************************)
(* The inductive invariant.  What a call has locked is as the call found   *)
(* it, and what a revoke has counted still has its tokens.                 *)
(***************************************************************************)
Token == [actor : Ids \cup {None}, revoked : Calls \cup {None}]
Recorded == [req : [verb : {"registerHuman", "registerAgent", "revoke"}, about : Ids \cup {None}],
             actor : Ids, token : {None}]
Told == [outcome : Refusals \cup {"none", "ok", "lost"}, actor : Ids \cup {None},
         token : Calls \cup {None}]

Types ==
    /\ actors \in [Ids -> Actor \cup {NoActor}]
    /\ tokens \in [Ids -> Token]
    /\ receipts \in [Ops -> Recorded \cup {NoReceipt}]
    /\ actorLock \in [Ids -> Calls \cup {None}]
    /\ tokenLock \in [Ids -> Calls \cup {None}]
    /\ pc \in [Calls -> Steps]
    /\ req \in [Calls -> Request \cup {NoRequest}]
    /\ todo \in [Calls -> Seq(Ids)]
    /\ active \in [Calls -> SUBSET Ids]
    /\ pick \in [Calls -> SUBSET Ids]
    /\ answer \in [Calls -> Told]

CountSteps == {"lockActor", "lockToken"}
RevokeSteps == {"humans", "lockTarget", "guard"} \cup CountSteps
RotateSteps == {"snapshot", "insert", "reference"}
OperationSteps == {"check", "recheck", "record", "commit"}
PickSteps == {"update", "insert", "reference", "record", "commit"}
LockSteps == CountSteps \cup {"lockTarget", "guard"} \cup PickSteps

\* The handler that stands at each step, and what it has come to.
OfItsVerb(c) ==
    /\ pc[c] # "idle" => req[c] \in Request
    /\ pc[c] \in OperationSteps => req[c].verb # "rotate"
    /\ pc[c] \in RevokeSteps => req[c].verb = "revoke"
    /\ pc[c] \in RotateSteps => req[c].verb = "rotate"
    /\ pc[c] = "update" => req[c].verb \in {"revoke", "rotate"}
    /\ pc[c] \in RevokeSteps \cup RotateSteps \cup {"update"}
          \/ (pc[c] \in {"record", "commit"} /\ req[c].verb = "revoke")
       => actors[About(c)] # NoActor
    /\ pc[c] \in CountSteps \cup {"humans"} => actors[About(c)].kind = "human"
    /\ pc[c] \in CountSteps <=> todo[c] # <<>>
    /\ pc[c] \in {"idle", "check", "target", "humans"} => active[c] = {}
    /\ pick[c] # {} => pc[c] \in PickSteps /\ req[c].verb \in {"revoke", "rotate"}

\* The tokens that c has picked are its actor's; once written they are locked, and active
\* until c commits.
HoldsItsPick(c) ==
    \A x \in pick[c] :
        /\ tokens[x].actor = About(c)
        /\ pc[c] # "update" => tokenLock[x] = c /\ tokens[x].revoked = None

\* A revoke holds its actor, so no rotation gives it a token that the revoke does not see.
HoldsItsTarget(c) ==
    (pc[c] \in {"guard", "update", "record", "commit"} /\ req[c].verb = "revoke") =>
        /\ actorLock[About(c)] = c
        /\ pc[c] # "guard" => Active(About(c)) \subseteq pick[c]

\* One rotation at a time has inserted a token of an actor, and it replaces all others.
InsertsAlone(c) ==
    pc[c] = "reference" =>
        /\ Active(About(c)) \subseteq pick[c]
        /\ \A d \in Calls \ {c} : pc[d] = "reference" => About(d) # About(c)

IsInTodo(c, x) == \E i \in DOMAIN todo[c] : todo[c][i] = x
IsRotated(x) == x \in Calls /\ req[x] # NoRequest /\ req[x].verb = "rotate"
IsHeldBy(c, h) == \E x \in Ids : /\ tokens[x] = [actor |-> h, revoked |-> None]
                                 /\ tokenLock[x] = c

\* A revoke that concerns a human has the tokens of those it has counted locked; a token
\* of the human it has not come to is yet to be locked or is of a rotation.
CountsHumans(c) ==
    /\ pc[c] \in CountSteps =>
          \A i \in DOMAIN todo[c] : /\ tokens[todo[c][i]] # NoToken
                                    /\ actors[tokens[todo[c][i]].actor].kind = "human"
    /\ (/\ pc[c] \in CountSteps \cup {"lockTarget", "guard", "update", "record", "commit"}
        /\ req[c].verb = "revoke" /\ actors[About(c)].kind = "human") =>
          /\ \A h \in active[c] : actors[h].kind = "human" /\ IsHeldBy(c, h)
          /\ \A x \in Active(About(c)) :
                About(c) \in active[c] \/ IsInTodo(c, x) \/ IsRotated(x)
          /\ pc[c] \in {"update", "record", "commit"} => active[c] # {About(c)}

\* Whoever is told a token is told the one it has made.
IsToldItsOwn(c) ==
    answer[c].token # None => answer[c].token = c /\ tokens[c].actor = answer[c].actor

CallIsSound(c) ==
    /\ OfItsVerb(c) /\ HoldsItsPick(c) /\ HoldsItsTarget(c) /\ InsertsAlone(c)
    /\ CountsHumans(c) /\ IsToldItsOwn(c)

\* Rows are made and revoked by calls that have ended.
RowIsKept(x) ==
    /\ tokens[x] # NoToken => tokens[x].actor \in Ids /\ actors[tokens[x].actor] # NoActor
    /\ tokens[x].revoked # None => pc[tokens[x].revoked] = "answered"
    /\ x \in Calls /\ (tokens[x] # NoToken \/ actors[x] # NoActor) => pc[x] = "answered"
    /\ actorLock[x] # None => pc[actorLock[x]] \in LockSteps
    /\ tokenLock[x] # None => pc[tokenLock[x]] \in LockSteps

OneActive == \A x, y \in Ids :
    (/\ tokens[x].actor = tokens[y].actor /\ tokens[x].actor # None
     /\ tokens[x].revoked = None /\ tokens[y].revoked = None) => x = y

IInv ==
    /\ Types
    /\ \A c \in Calls : CallIsSound(c)
    /\ \A x \in Ids : RowIsKept(x)
    /\ OneActive
    /\ SomeHumanUnlessOvertaken

(***************************************************************************)
(* Shapes                                                                  *)
(***************************************************************************)

\* What a request asks for has the types of its verb.
LEMMA RequestShape ==
  ASSUME NEW q \in Request
  PROVE  /\ q.verb \in {"registerHuman", "registerAgent", "revoke", "rotate"}
         /\ q.caller \in Ids /\ q.about \in Ids \cup {None}
         /\ q.verb # "registerHuman" => q.about \in Ids
         /\ q.verb = "rotate" => q.op = None
         /\ q.verb # "rotate" => q.op \in Ops /\ q.op # None
  BY CredentialsAssumption DEF Request, RegisterHuman, RegisterAgent, Revocation, Rotation

\* A token that somebody has, and one that nobody has.
LEMMA TokenShape ==
  ASSUME NEW t \in Token
  PROVE  /\ t = [actor |-> t.actor, revoked |-> t.revoked]
         /\ t.actor \in Ids \cup {None} /\ t.revoked \in Calls \cup {None}
         /\ t = NoToken <=> t.actor = None /\ t.revoked = None
         /\ \A c \in Calls : [t EXCEPT !.revoked = c] = [actor |-> t.actor, revoked |-> c]
  BY DEF Token, NoToken

LEMMA ActorShape ==
  /\ \A a \in Actor : a.kind \in {"human", "agent"} /\ a.kind # None /\ a # NoActor
  /\ NoActor.kind = None /\ NoActor.source = None /\ None \notin {"human", "agent", "db"}
  BY CredentialsAssumption DEF Actor, NoActor

LEMMA AnswerShape ==
  /\ NoAnswer \in Told
  /\ \A e \in Refusals \cup {"none", "ok", "lost"} : [NoAnswer EXCEPT !.outcome = e] \in Told
  /\ \A e : [NoAnswer EXCEPT !.outcome = e].token = None /\ [NoAnswer EXCEPT !.outcome = e].outcome = e
  /\ \A r \in Told : \A e \in Refusals \cup {"none", "ok", "lost"} :
        [r EXCEPT !.outcome = e] \in Told /\ [r EXCEPT !.outcome = e].token = r.token
        /\ [r EXCEPT !.outcome = e].actor = r.actor
  BY DEF NoAnswer, Told

\* The row of a token that is a call's own is not there before the call has ended.
LEMMA NotYetMade ==
  ASSUME IInv, NEW c \in Calls, pc[c] # "answered"
  PROVE  /\ tokens[c] = NoToken /\ actors[c] = NoActor /\ c \in Ids
         /\ \A x \in Ids : tokens[x].actor # c
         /\ \A d \in Calls : c \notin pick[d]
  <1>1. c \in Ids
    BY CredentialsAssumption
  <1>2. tokens[c] = NoToken /\ actors[c] = NoActor
    BY <1>1 DEF IInv, RowIsKept
  <1>3. ASSUME NEW x \in Ids, tokens[x].actor = c
        PROVE  FALSE
    <2>1. tokens[x] # NoToken
      BY <1>1, <1>3, CredentialsAssumption DEF NoToken
    <2> QED BY <1>2, <1>3, <2>1 DEF IInv, RowIsKept
  <1>4. ASSUME NEW d \in Calls, c \in pick[d]
        PROVE  FALSE
    <2>1. tokens[c].actor = About(d) /\ pc[d] \in PickSteps /\ req[d].verb \in {"revoke", "rotate"}
      BY <1>4 DEF IInv, CallIsSound, HoldsItsPick, OfItsVerb
    <2>2. About(d) \in Ids
      BY <2>1, RequestShape DEF IInv, CallIsSound, OfItsVerb, PickSteps, About
    <2> QED BY <1>2, <2>1, <2>2, CredentialsAssumption DEF NoToken
  <1> QED BY <1>1, <1>2, <1>3, <1>4

(***************************************************************************)
(* The tokens in the order of their actors                                 *)
(***************************************************************************)
HumanTokens == UNION {Active(a) : a \in ActiveHumans}

\* Ranks that differ, below the number of ranked elements, are all taken.
LEMMA EveryRankIsTaken ==
  ASSUME NEW S, IsFiniteSet(S), NEW n \in Nat, n = Cardinality(S),
         NEW r \in [S -> 0 .. n - 1], \A e, f \in S : r[e] = r[f] => e = f
  PROVE  \A i \in 1 .. n : \E e \in S : r[e] = i - 1
  <1>1. IsFiniteSet(0 .. n - 1) /\ Cardinality(0 .. n - 1) = n
    <2>1. 0 \in Int /\ n - 1 \in Int
      OBVIOUS
    <2>2. IsFiniteSet(0 .. n - 1) /\ Cardinality(0 .. n - 1) = IF 0 > n - 1 THEN 0 ELSE (n - 1) - 0 + 1
      BY <2>1, FS_Interval
    <2> QED BY <2>2
  <1>2. r \in Injection(S, 0 .. n - 1)
    BY DEF Injection, IsInjective
  <1>3. r \in Surjection(S, 0 .. n - 1)
    BY <1>1, <1>2, FS_Injection
  <1>4. ASSUME NEW i \in 1 .. n
        PROVE  i - 1 \in 0 .. n - 1
    OBVIOUS
  <1> QED BY <1>3, <1>4 DEF Surjection

\* The ranks of the elements of a finite set by a key that tells them apart.
RankBy(S, k, e) == Cardinality({f \in S : k[f] < k[e]})

LEMMA RanksDiffer ==
  ASSUME NEW S, IsFiniteSet(S), NEW k \in [S -> Nat], \A e, f \in S : k[e] = k[f] => e = f
  PROVE  /\ \A e \in S : RankBy(S, k, e) \in 0 .. Cardinality(S) - 1
         /\ \A e, f \in S : RankBy(S, k, e) = RankBy(S, k, f) => e = f
  <1>1. Cardinality(S) \in Nat
    BY FS_CardinalityType
  <1>2. ASSUME NEW e \in S
        PROVE  /\ IsFiniteSet({f \in S : k[f] < k[e]}) /\ RankBy(S, k, e) \in Nat
               /\ RankBy(S, k, e) < Cardinality(S)
    <2> DEFINE T == {f \in S : k[f] < k[e]}
    <2>1. T \in SUBSET S /\ e \notin T
      OBVIOUS
    <2>2. IsFiniteSet(T) /\ Cardinality(T) <= Cardinality(S) /\ (Cardinality(S) = Cardinality(T) => S = T)
      BY <2>1, FS_Subset
    <2>3. Cardinality(T) \in Nat
      BY <2>2, FS_CardinalityType
    <2> HIDE DEF T
    <2>4. Cardinality(T) < Cardinality(S)
      BY <1>1, <2>1, <2>2, <2>3
    <2> QED BY <2>2, <2>3, <2>4 DEF T, RankBy
  <1>3. ASSUME NEW e \in S, NEW f \in S, k[e] < k[f]
        PROVE  RankBy(S, k, e) < RankBy(S, k, f)
    <2> DEFINE T == {g \in S : k[g] < k[e]}
               U == {g \in S : k[g] < k[f]}
    <2>1. T \in SUBSET U /\ e \in U /\ e \notin T
      BY <1>3
    <2>2. IsFiniteSet(U) /\ Cardinality(U) \in Nat /\ Cardinality(T) \in Nat
      BY <1>2 DEF RankBy
    <2>3. Cardinality(T) <= Cardinality(U) /\ (Cardinality(U) = Cardinality(T) => U = T)
      BY <2>1, <2>2, FS_Subset
    <2> HIDE DEF T, U
    <2>4. Cardinality(T) < Cardinality(U)
      BY <2>1, <2>2, <2>3
    <2> QED BY <2>4 DEF T, U, RankBy
  <1>4. ASSUME NEW e \in S, NEW f \in S, RankBy(S, k, e) = RankBy(S, k, f), e # f
        PROVE  FALSE
    <2>1. k[e] < k[f] \/ k[f] < k[e]
      BY <1>4
    <2>2. PICK m, n : m = RankBy(S, k, e) /\ n = RankBy(S, k, f)
      OBVIOUS
    <2>3. m \in Nat /\ n \in Nat /\ m = n
      BY <1>2, <1>4, <2>2
    <2>4. m < n \/ n < m
      BY <1>3, <2>1, <2>2
    <2> QED BY <2>3, <2>4
  <1>5. \A e \in S : RankBy(S, k, e) \in Nat /\ RankBy(S, k, e) < Cardinality(S)
    BY <1>2
  <1>6. \A e \in S : RankBy(S, k, e) \in 0 .. Cardinality(S) - 1
    BY <1>1, <1>5
  <1> QED BY <1>4, <1>6

\* ByActor lists the active tokens of humans, each of them and no other.
LEMMA ByActorLists ==
  ASSUME IInv
  PROVE  /\ ByActor \in Seq(Ids)
         /\ \A i \in DOMAIN ByActor : ByActor[i] \in HumanTokens
         /\ \A x \in HumanTokens : \E i \in DOMAIN ByActor : ByActor[i] = x
  <1> DEFINE S == HumanTokens
             n == Cardinality(S)
             k == [x \in S |-> tokens[x].actor]
             r == [x \in S |-> RankBy(S, k, x)]
  <1>1. S \subseteq Ids /\ \A x \in S : tokens[x].actor \in Ids /\ tokens[x].revoked = None
    BY DEF HumanTokens, ActiveHumans, Active
  <1>2. IsFiniteSet(S) /\ n \in Nat
    BY <1>1, CredentialsAssumption, FS_Subset, FS_CardinalityType
  <1>3. k \in [S -> Nat] /\ \A e, f \in S : k[e] = k[f] => e = f
    <2>1. \A e \in S : tokens[e].actor \in Nat /\ tokens[e].actor # None
      BY <1>1, CredentialsAssumption
    <2> QED BY <1>1, <2>1 DEF IInv, OneActive
  <1>4. ByActor = [i \in 1 .. n |-> CHOOSE x \in S : RankBy(S, k, x) = i - 1]
    <2> DEFINE f(i) == CHOOSE x \in S : Cardinality({y \in S : tokens[y].actor < tokens[x].actor}) = i - 1
               g(i) == CHOOSE x \in S : RankBy(S, k, x) = i - 1
    <2>1. ASSUME NEW x \in S
          PROVE  {y \in S : tokens[y].actor < tokens[x].actor} = {y \in S : k[y] < k[x]}
      OBVIOUS
    <2>2. \A x \in S : Cardinality({y \in S : tokens[y].actor < tokens[x].actor}) = RankBy(S, k, x)
      BY <2>1 DEF RankBy
    <2>3. ByActor = [i \in 1 .. n |-> f(i)]
      BY DEF ByActor, HumanTokens
    <2>4. ASSUME NEW i \in 1 .. n
          PROVE  f(i) = g(i)
      BY <2>2
    <2>5. [i \in 1 .. n |-> f(i)] = [i \in 1 .. n |-> g(i)]
      <3> HIDE DEF f, g, n
      <3> QED BY <2>4
    <2> QED BY <2>3, <2>5
  <1> HIDE DEF S, n, k
  <1>5. r \in [S -> 0 .. n - 1] /\ \A e, f \in S : r[e] = r[f] => e = f
    BY <1>2, <1>3, RanksDiffer DEF n
  <1>6. \A i \in 1 .. n : \E x \in S : RankBy(S, k, x) = i - 1
    <2>1. \A i \in 1 .. n : \E x \in S : r[x] = i - 1
      <3> HIDE DEF r
      <3> QED BY <1>2, <1>5, EveryRankIsTaken DEF n
    <2> QED BY <2>1
  <1>7. ASSUME NEW i \in 1 .. n
        PROVE  ByActor[i] \in S /\ RankBy(S, k, ByActor[i]) = i - 1
    BY <1>4, <1>6
  <1>8. ByActor \in Seq(Ids) /\ DOMAIN ByActor = 1 .. n
    BY <1>1, <1>2, <1>4, <1>7
  <1>9. ASSUME NEW x \in S
        PROVE  \E i \in DOMAIN ByActor : ByActor[i] = x
    <2>1. RankBy(S, k, x) \in 0 .. n - 1
      BY <1>5
    <2>2. PICK i \in 1 .. n : i = RankBy(S, k, x) + 1
      BY <1>2, <2>1
    <2>3. ByActor[i] \in S /\ RankBy(S, k, ByActor[i]) = RankBy(S, k, x)
      BY <1>7, <2>1, <2>2
    <2>4. r[ByActor[i]] = r[x]
      BY <2>3
    <2> QED BY <1>5, <1>8, <2>2, <2>3, <2>4
  <1> QED BY <1>7, <1>8, <1>9 DEF S

LEMMA InitEstablishesIInv == Init => IInv
  <1> SUFFICES ASSUME Init PROVE IInv
    OBVIOUS
  <1> USE DEF Init
  <1>1. Types
    <2>1. actors \in [Ids -> Actor \cup {NoActor}]
      BY CredentialsAssumption
    <2>2. tokens \in [Ids -> Token]
      BY CredentialsAssumption DEF Token, NoToken
    <2>3. req \in [Calls -> Request \cup {NoRequest}] /\ receipts \in [Ops -> Recorded \cup {NoReceipt}]
      OBVIOUS
    <2>4. answer \in [Calls -> Told] /\ todo \in [Calls -> Seq(Ids)] /\ pc \in [Calls -> Steps]
      BY AnswerShape DEF Steps
    <2> QED BY <2>1, <2>2, <2>3, <2>4 DEF Types
  <1>2. ASSUME NEW c \in Calls
        PROVE  CallIsSound(c)
    <2>1. pc[c] = "idle" /\ todo[c] = <<>> /\ pick[c] = {} /\ active[c] = {} /\ answer[c].token = None
      BY DEF NoAnswer
    <2> QED BY <2>1 DEF CallIsSound, OfItsVerb, HoldsItsPick, HoldsItsTarget, InsertsAlone, CountsHumans,
                        IsToldItsOwn, OperationSteps, RevokeSteps, CountSteps, RotateSteps
  <1>3. ASSUME NEW x \in Ids
        PROVE  RowIsKept(x) /\ tokens[x].actor \in {x, None}
    <2>1. x \in DOMAIN Start => actors[x] \in Actor /\ actors[x] # NoActor /\ x \notin Calls
      BY CredentialsAssumption, ActorShape
    <2> QED BY <2>1 DEF RowIsKept, NoToken
  <1>4. OneActive
    BY <1>3 DEF OneActive
  <1>5. SomeHumanIsActive
    <2>1. PICK a \in DOMAIN Start : Start[a].kind = "human"
      BY CredentialsAssumption
    <2>2. a \in Ids /\ a # None /\ actors[a].kind = "human"
      BY <2>1, CredentialsAssumption
    <2>3. a \in Active(a)
      BY <2>2 DEF Active
    <2> QED BY <2>2, <2>3 DEF SomeHumanIsActive, ActiveHumans, HasAccess
  <1> QED BY <1>1, <1>2, <1>3, <1>4, <1>5 DEF IInv, SomeHumanUnlessOvertaken

(***************************************************************************)
(* Steps that write no table                                               *)
(***************************************************************************)

\* Whoever else holds a lock keeps it, and who has ended holds none.
LocksStay(c) ==
    /\ \A i \in Ids : actorLock[i] # None /\ actorLock[i] # c => actorLock'[i] = actorLock[i]
    /\ \A i \in Ids : tokenLock[i] # None /\ tokenLock[i] # c => tokenLock'[i] = tokenLock[i]
    /\ \A i \in Ids : actorLock'[i] = actorLock[i] \/ actorLock'[i] \in {c, None}
    /\ \A i \in Ids : tokenLock'[i] = tokenLock[i] \/ tokenLock'[i] \in {c, None}
    /\ pc'[c] \notin LockSteps => \A i \in Ids : actorLock'[i] # c /\ tokenLock'[i] # c

OthersStand(c) ==
    \A d \in Calls \ {c} : /\ pc'[d] = pc[d] /\ req'[d] = req[d] /\ todo'[d] = todo[d]
                           /\ active'[d] = active[d] /\ pick'[d] = pick[d] /\ answer'[d] = answer[d]

\* A step of c that writes no table keeps the invariant if it does for c.
LEMMA QuietStep ==
  ASSUME IInv, NEW c \in Calls, pc[c] # "answered", UNCHANGED tables, Types', CallIsSound(c)',
         OthersStand(c), LocksStay(c), pc[c] = "idle" => UNCHANGED locks, pc'[c] # "idle"
  PROVE  IInv'
  <1> USE DEF IInv
  <1>1. \A a : Active(a)' = Active(a)
    BY DEF tables, Active
  <1>2. tokens[c] = NoToken /\ actors[c] = NoActor /\ \A x \in Ids : tokens[x].revoked # c
    BY NotYetMade, CredentialsAssumption DEF RowIsKept
  <1>3. ASSUME NEW d \in Calls \ {c}
        PROVE  CallIsSound(d)'
    <2> USE DEF CallIsSound
    <2>1. pc'[d] = pc[d] /\ req'[d] = req[d] /\ todo'[d] = todo[d] /\ active'[d] = active[d]
          /\ pick'[d] = pick[d] /\ answer'[d] = answer[d]
      BY DEF OthersStand
    <2>2. OfItsVerb(d)' /\ IsToldItsOwn(d)'
      BY <2>1 DEF OfItsVerb, IsToldItsOwn, About, tables
    <2>3. d # None /\ \A i \in Ids : /\ (actorLock[i] = d => actorLock'[i] = d)
                                     /\ (tokenLock[i] = d => tokenLock'[i] = d)
      BY CredentialsAssumption DEF LocksStay
    <2>4. HoldsItsPick(d)'
      BY <2>1, <2>3 DEF HoldsItsPick, About, tables, Types
    <2>5. HoldsItsTarget(d)'
      <3>1. pc[d] \in {"guard", "update", "record", "commit"} /\ req[d].verb = "revoke" => About(d) \in Ids
        BY RequestShape DEF OfItsVerb, About
      <3> QED BY <1>1, <2>1, <2>3, <3>1 DEF HoldsItsTarget, About
    <2>6. InsertsAlone(d)'
      <3>1. ASSUME NEW e \in Calls \ {d}, pc'[d] = "reference", pc'[e] = "reference"
            PROVE  About(d)' # About(e)'
        <4>1. CASE e = c
          BY <2>1, <3>1, <4>1 DEF InsertsAlone
        <4>2. CASE e # c
          BY <2>1, <3>1, <4>2 DEF InsertsAlone, OthersStand, About
        <4> QED BY <4>1, <4>2
      <3> QED BY <1>1, <2>1, <3>1 DEF InsertsAlone, About
    <2>7. CountsHumans(d)'
      <3>1. ASSUME NEW x \in Ids, IsRotated(x), x \in Active(About(d)), About(d) # None
            PROVE  IsRotated(x)'
        <4>1. x # c
          BY <1>2, <3>1 DEF Active, NoToken
        <4> QED BY <3>1, <4>1 DEF IsRotated, OthersStand
      <3>2. \A h : IsHeldBy(d, h) => IsHeldBy(d, h)'
        BY <2>3 DEF IsHeldBy, tables
      <3>3. \A x : IsInTodo(d, x) => IsInTodo(d, x)'
        BY <2>1 DEF IsInTodo
      <3>4. Active(About(d)) \subseteq Ids
        BY DEF Active
      <3>5. pc[d] # "idle" /\ req[d].verb = "revoke" => About(d) # None
        BY RequestShape, CredentialsAssumption DEF OfItsVerb, About
      <3> QED BY <1>1, <2>1, <3>1, <3>2, <3>3, <3>4, <3>5 DEF CountsHumans, About, tables, CountSteps
    <2> QED BY <2>2, <2>4, <2>5, <2>6, <2>7
  <1>4. ASSUME NEW x \in Ids
        PROVE  RowIsKept(x)'
    <2>1. tokens[x].revoked # None => tokens[x].revoked \in Calls \ {c}
      BY <1>2 DEF Types, Token
    <2>2. (tokens[x] # NoToken => tokens[x].actor \in Ids /\ actors[tokens[x].actor] # NoActor)'
      BY DEF RowIsKept, tables
    <2>3. (tokens[x].revoked # None => pc[tokens[x].revoked] = "answered")'
      BY <2>1 DEF RowIsKept, tables, OthersStand
    <2>4. (x \in Calls /\ (tokens[x] # NoToken \/ actors[x] # NoActor) => pc[x] = "answered")'
      BY <1>2 DEF RowIsKept, tables, OthersStand
    <2>5. \A d \in Calls \ {c} : pc[d] \in LockSteps => pc'[d] \in LockSteps
      BY DEF OthersStand
    <2>6. (actorLock[x] # None => pc[actorLock[x]] \in LockSteps)'
      <3>1. CASE actorLock'[x] = c
        BY <3>1 DEF LocksStay
      <3>2. CASE actorLock'[x] # c
        BY <2>5, <3>2 DEF LocksStay, RowIsKept, Types
      <3> QED BY <3>1, <3>2
    <2>7. (tokenLock[x] # None => pc[tokenLock[x]] \in LockSteps)'
      <3>1. CASE tokenLock'[x] = c
        BY <3>1 DEF LocksStay
      <3>2. CASE tokenLock'[x] # c
        BY <2>5, <3>2 DEF LocksStay, RowIsKept, Types
      <3> QED BY <3>1, <3>2
    <2> QED BY <2>2, <2>3, <2>4, <2>6, <2>7 DEF RowIsKept
  <1>5. OneActive'
    BY DEF OneActive, tables
  <1>6. SomeHumanUnlessOvertaken'
    <2>1. CASE SomeHumanIsActive
      BY <1>1, <2>1 DEF SomeHumanUnlessOvertaken, SomeHumanIsActive, ActiveHumans, HasAccess, tables
    <2>2. CASE ~SomeHumanIsActive
      <3>1. PICK x \in Ids : /\ tokens[x].revoked # None
                             /\ req[tokens[x].revoked].verb = "revoke"
                             /\ tokens[x].actor \notin active[tokens[x].revoked]
                             /\ x \in Calls /\ req[x].verb = "rotate"
        BY <2>2 DEF SomeHumanUnlessOvertaken
      <3>2. tokens[x].revoked \in Calls \ {c} /\ x \in Calls \ {c}
        BY <1>2, <3>1 DEF Types, Token, NoToken
      <3> QED BY <3>1, <3>2 DEF SomeHumanUnlessOvertaken, OthersStand, tables
    <2> QED BY <2>1, <2>2
  <1> QED BY <1>3, <1>4, <1>5, <1>6

\* The same for a step that moves on with what c has, for one that ends it outside of
\* a transaction, and for one that throws inside.
LEMMA GoKeepsIInv ==
  ASSUME IInv, NEW c \in Calls, pc[c] \notin {"idle", "answered"}, NEW to \in Steps \ {"idle", "answered"},
         Go(c, to), CallIsSound(c)', to \in LockSteps \/ pc[c] \notin LockSteps
  PROVE  IInv'
  <1>1. Types' /\ pc'[c] = to
    BY DEF IInv, Types, Go, tables, locks
  <1>2. OthersStand(c)
    BY DEF OthersStand, Go, IInv, Types
  <1>3. LocksStay(c)
    BY <1>1, CredentialsAssumption DEF LocksStay, Go, locks, IInv, RowIsKept
  <1> QED BY <1>1, <1>2, <1>3, QuietStep DEF Go

\* A call that has ended, or that looks its operation up again, knows nothing.
LEMMA EndIsSound ==
  ASSUME IInv, NEW c \in Calls, pc[c] # "idle", NEW to \in {"answered", "recheck"},
         pc'[c] = to, req'[c] = req[c], todo'[c] = <<>>, pick'[c] = {},
         answer'[c].token = None, to = "recheck" => req[c].verb # "rotate"
  PROVE  CallIsSound(c)'
  <1>1. OfItsVerb(c)'
    BY DEF IInv, CallIsSound, OfItsVerb, OperationSteps, RevokeSteps, CountSteps, RotateSteps, PickSteps
  <1> QED BY <1>1 DEF CallIsSound, HoldsItsPick, HoldsItsTarget, InsertsAlone, CountsHumans, IsToldItsOwn, CountSteps

LEMMA EndKeepsIInv ==
  ASSUME IInv, NEW c \in Calls, pc[c] \notin {"idle", "answered"} \cup LockSteps,
         NEW ans \in Told, ans.token = None, Answer(c, ans), UNCHANGED <<tables, locks>>
  PROVE  IInv'
  <1>1. Types' /\ pc'[c] = "answered" /\ todo'[c] = <<>> /\ pick'[c] = {} /\ answer'[c] = ans
    BY DEF IInv, Types, Answer, tables, locks, Steps
  <1>2. OthersStand(c)
    BY DEF OthersStand, Answer, IInv, Types
  <1>3. LocksStay(c)
    BY <1>1, CredentialsAssumption DEF LocksStay, locks, IInv, RowIsKept
  <1>4. CallIsSound(c)'
    BY <1>1, EndIsSound DEF Answer
  <1> QED BY <1>1, <1>2, <1>3, <1>4, QuietStep

LEMMA RefuseKeepsIInv ==
  ASSUME IInv, NEW c \in Calls, pc[c] \notin {"idle", "answered"} \cup LockSteps,
         NEW e \in Refusals \cup {"none", "ok", "lost"}, Refuse(c, e)
  PROVE  IInv'
  <1>1. [NoAnswer EXCEPT !.outcome = e] \in Told /\ [NoAnswer EXCEPT !.outcome = e].token = None
    BY AnswerShape
  <1> QED BY <1>1, EndKeepsIInv DEF Refuse

LEMMA ReceiptStepKeepsIInv ==
  ASSUME IInv, NEW c \in Calls, pc[c] \in {"check", "recheck"}, AnswerFromReceipt(c)
  PROVE  IInv'
  <1>1. req[c].op \in Ops
    BY RequestShape DEF IInv, CallIsSound, OfItsVerb, OperationSteps
  <1>2. PICK r \in Recorded : r = receipts[req[c].op]
    BY <1>1 DEF AnswerFromReceipt, Seen, IInv, Types
  <1>3. PICK ans : /\ ans = [outcome |-> IF r.req = Asked(c) THEN "ok" ELSE "idempotencyConflict",
                             actor |-> r.actor, token |-> r.token]
                   /\ Answer(c, ans) /\ UNCHANGED <<tables, locks>>
    BY <1>2 DEF AnswerFromReceipt
  <1>4. ans \in Told /\ ans.token = None
    BY <1>2, <1>3 DEF Told, Recorded, Refusals
  <1> QED BY <1>3, <1>4, EndKeepsIInv DEF LockSteps, CountSteps, PickSteps

LEMMA AbortKeepsIInv ==
  ASSUME IInv, NEW c \in Calls, pc[c] \in LockSteps, NEW e \in Refusals, Abort(c, e)
  PROVE  IInv'
  <1>1. PICK to \in {"answered", "recheck"} : to = IF req[c].op = None THEN "answered" ELSE "recheck"
    OBVIOUS
  <1>2. pc[c] \notin {"idle", "answered"}
    BY DEF LockSteps, CountSteps, PickSteps
  <1>3. [NoAnswer EXCEPT !.outcome = e] \in Told /\ [NoAnswer EXCEPT !.outcome = e].token = None
    BY AnswerShape
  <1>4. /\ Types' /\ pc'[c] = to /\ todo'[c] = <<>> /\ pick'[c] = {} /\ req'[c] = req[c]
        /\ answer'[c].token = None
    <2>1. actorLock' \in [Ids -> Calls \cup {None}] /\ tokenLock' \in [Ids -> Calls \cup {None}]
      BY DEF Abort, Release, Released, IInv, Types
    <2>2. pc' \in [Calls -> Steps] /\ pc'[c] = to
      BY <1>1 DEF Abort, IInv, Types, Steps
    <2>3. answer' \in [Calls -> Told] /\ answer'[c].token = None
      BY <1>3 DEF Abort, IInv, Types
    <2> QED BY <2>1, <2>2, <2>3 DEF Abort, IInv, Types, tables
  <1>5. OthersStand(c)
    BY DEF OthersStand, Abort, IInv, Types
  <1>6. LocksStay(c)
    BY CredentialsAssumption DEF LocksStay, Abort, Release, Released
  <1>7. to = "recheck" => req[c].verb # "rotate"
    BY <1>1, <1>2, RequestShape DEF IInv, CallIsSound, OfItsVerb
  <1>8. CallIsSound(c)'
    BY <1>2, <1>4, <1>7, EndIsSound
  <1>9. UNCHANGED tables
    BY DEF Abort
  <1> QED BY <1>1, <1>2, <1>4, <1>5, <1>6, <1>8, <1>9, QuietStep

(***************************************************************************)
(* Arrival and the reads before the transaction                            *)
(***************************************************************************)
LEMMA SubmitKeepsIInv ==
  ASSUME IInv, NEW c \in Calls, NEW q \in Requests[c], Submit(c, q)
  PROVE  IInv'
  <1>1. q \in Request /\ pc[c] = "idle"
    BY CredentialsAssumption DEF Submit
  <1>2. PICK to \in {"answered", "target", "check"} :
           /\ to = IF ~MayManage(q.caller) THEN "answered" ELSE IF q.verb = "rotate" THEN "target" ELSE "check"
           /\ pc' = [pc EXCEPT ![c] = to]
    BY DEF Submit
  <1>3. PICK e \in Refusals \cup {"none", "ok", "lost"} : answer' = [answer EXCEPT ![c].outcome = e]
    <2>1. answer[c].outcome \in Refusals \cup {"none", "ok", "lost"} /\ "forbidden" \in Refusals
      BY DEF IInv, Types, Told, Refusals
    <2>2. answer' = [answer EXCEPT ![c].outcome = IF MayManage(q.caller) THEN answer[c].outcome ELSE "forbidden"]
      BY DEF Submit, IInv, Types
    <2> QED BY <2>1, <2>2
  <1>4. answer' = [answer EXCEPT ![c] = [answer[c] EXCEPT !.outcome = e]]
    BY <1>3 DEF IInv, Types
  <1>5. [answer[c] EXCEPT !.outcome = e] \in Told /\ [answer[c] EXCEPT !.outcome = e].token = answer[c].token
        /\ [answer[c] EXCEPT !.outcome = e].actor = answer[c].actor
    BY AnswerShape DEF IInv, Types
  <1>6. Types'
    <2>1. req' \in [Calls -> Request \cup {NoRequest}] /\ pc' \in [Calls -> Steps]
      BY <1>1, <1>2 DEF IInv, Types, Submit, Steps
    <2>2. answer' \in [Calls -> Told]
      BY <1>4, <1>5 DEF IInv, Types
    <2> QED BY <2>1, <2>2 DEF IInv, Types, Submit, tables, locks
  <1>7. pc'[c] = to /\ req'[c] = q /\ todo'[c] = todo[c] /\ active'[c] = active[c] /\ pick'[c] = pick[c]
        /\ answer'[c].token = answer[c].token /\ answer'[c].actor = answer[c].actor
    BY <1>2, <1>4, <1>5 DEF IInv, Types, Submit
  <1>8. OthersStand(c)
    BY <1>2, <1>4 DEF OthersStand, Submit, IInv, Types
  <1>9. LocksStay(c)
    BY <1>1, CredentialsAssumption DEF LocksStay, Submit, locks, IInv, RowIsKept, LockSteps, CountSteps, PickSteps
  <1>10. CallIsSound(c)'
    <2>1. OfItsVerb(c)
      BY DEF IInv, CallIsSound
    <2>2. todo[c] = <<>> /\ active[c] = {} /\ pick[c] = {}
      BY <1>1, <2>1 DEF OfItsVerb, CountSteps, PickSteps
    <2>3. OfItsVerb(c)'
      BY <1>1, <1>2, <1>7, <2>2 DEF OfItsVerb, OperationSteps, RevokeSteps, CountSteps, RotateSteps
    <2>4. IsToldItsOwn(c)'
      BY <1>7 DEF IInv, CallIsSound, IsToldItsOwn, Submit, tables
    <2> QED BY <1>7, <2>2, <2>3, <2>4 DEF CallIsSound, HoldsItsPick, HoldsItsTarget, InsertsAlone, CountsHumans, CountSteps
  <1> QED BY <1>1, <1>2, <1>6, <1>7, <1>8, <1>9, <1>10, QuietStep DEF Submit

LEMMA CheckKeepsIInv ==
  ASSUME IInv, NEW c \in Calls, Check(c)
  PROVE  IInv'
  <1>1. CASE AnswerFromReceipt(c)
    BY <1>1, ReceiptStepKeepsIInv DEF Check
  <1>2. CASE ~Seen(c) /\ Go(c, "target")
    <2>1. pc'[c] = "target" /\ req'[c] = req[c] /\ todo'[c] = todo[c] /\ active'[c] = active[c]
          /\ pick'[c] = pick[c] /\ answer'[c] = answer[c] /\ UNCHANGED tables
      BY <1>2 DEF Go, IInv, Types
    <2>2. CallIsSound(c)
      BY DEF IInv
    <2>3. OfItsVerb(c)' /\ pick'[c] = {}
      BY <2>1, <2>2 DEF CallIsSound, OfItsVerb, Check, OperationSteps, RevokeSteps, CountSteps, RotateSteps, PickSteps
    <2>4. CallIsSound(c)'
      BY <2>1, <2>2, <2>3 DEF CallIsSound, HoldsItsPick, HoldsItsTarget, InsertsAlone, CountsHumans, CountSteps, IsToldItsOwn, tables
    <2> QED BY <1>2, <2>4, GoKeepsIInv DEF Check, Steps, LockSteps, CountSteps, PickSteps
  <1> QED BY <1>1, <1>2 DEF Check

LEMMA RecheckKeepsIInv ==
  ASSUME IInv, NEW c \in Calls, Recheck(c)
  PROVE  IInv'
  <1>1. CASE AnswerFromReceipt(c)
    BY <1>1, ReceiptStepKeepsIInv DEF Recheck
  <1>2. CASE Refuse(c, answer[c].outcome)
    <2>1. answer[c].outcome \in Refusals \cup {"none", "ok", "lost"}
      BY DEF IInv, Types, Told
    <2> QED BY <1>2, <2>1, RefuseKeepsIInv DEF Recheck, LockSteps, CountSteps, PickSteps
  <1> QED BY <1>1, <1>2 DEF Recheck

\* What stands after a step that moves on with what c has.
LEMMA GoFacts ==
  ASSUME IInv, NEW c \in Calls, NEW to \in Steps, Go(c, to)
  PROVE  /\ pc'[c] = to /\ req'[c] = req[c] /\ todo'[c] = todo[c] /\ active'[c] = active[c]
         /\ pick'[c] = pick[c] /\ answer'[c] = answer[c] /\ CallIsSound(c)
         /\ \A a : Active(a)' = Active(a)
         /\ \A h : IsHeldBy(c, h) => IsHeldBy(c, h)'
         /\ UNCHANGED <<actors, tokens, receipts, actorLock, tokenLock, req, todo, pick>>
  BY DEF Go, IInv, Types, tables, locks, Active, IsHeldBy

LEMMA ReadParentKeepsIInv ==
  ASSUME IInv, NEW c \in Calls, ReadParent(c)
  PROVE  IInv'
  <1>1. pc[c] \notin {"idle", "answered"} \cup LockSteps
    BY DEF ReadParent, LockSteps, CountSteps, PickSteps
  <1>2. CASE Refuse(c, "invalidParent")
    BY <1>1, <1>2, RefuseKeepsIInv DEF Refusals
  <1>3. CASE Go(c, "record")
    <2>1. "record" \in Steps
      BY DEF Steps
    <2>2. pc[c] = "target" /\ Registers(c) /\ req[c].verb \notin {"revoke", "rotate"}
      BY DEF ReadParent, Registers
    <2>3. OfItsVerb(c)' /\ pick[c] = {}
      BY <1>3, <2>1, <2>2, GoFacts
         DEF CallIsSound, OfItsVerb, OperationSteps, RevokeSteps, CountSteps, RotateSteps, PickSteps
    <2>4. CallIsSound(c)'
      BY <1>3, <2>1, <2>2, <2>3, GoFacts
         DEF CallIsSound, HoldsItsPick, HoldsItsTarget, InsertsAlone, CountsHumans, CountSteps, IsToldItsOwn
    <2> QED BY <1>1, <1>3, <2>1, <2>4, GoKeepsIInv DEF LockSteps, CountSteps, PickSteps
  <1> QED BY <1>2, <1>3 DEF ReadParent

LEMMA ReadTargetKeepsIInv ==
  ASSUME IInv, NEW c \in Calls, ReadTarget(c)
  PROVE  IInv'
  <1>1. pc[c] \notin {"idle", "answered"} \cup LockSteps /\ pc[c] = "target"
    BY DEF ReadTarget, LockSteps, CountSteps, PickSteps
  <1>2. CASE Refuse(c, "notFound")
    BY <1>1, <1>2, RefuseKeepsIInv DEF Refusals
  <1>3. CASE Refuse(c, "envActorImmutable")
    BY <1>1, <1>3, RefuseKeepsIInv DEF Refusals
  <1>4. ASSUME NEW to \in {"snapshot", "humans", "lockTarget"}, Go(c, to),
               actors[About(c)].source = "db",
               to = IF req[c].verb = "rotate" THEN "snapshot"
                    ELSE IF actors[About(c)].kind = "human" THEN "humans" ELSE "lockTarget"
        PROVE  IInv'
    <2>1. to \in Steps \ {"idle", "answered"}
      BY DEF Steps
    <2>2. OfItsVerb(c) /\ active[c] = {} /\ pick[c] = {} /\ todo[c] = <<>> /\ req[c].verb \in {"revoke", "rotate"}
      BY <1>1, RequestShape
         DEF IInv, CallIsSound, OfItsVerb, CountSteps, PickSteps, ReadTarget, Registers
    <2>3. actors[About(c)] # NoActor
      <3>1. NoActor.source # "db"
        <4>1. actors[About(c)] \in Actor \cup {NoActor}
          BY <1>1, <2>2, RequestShape DEF OfItsVerb, About, IInv, Types
        <4> QED BY <1>4, <4>1, CredentialsAssumption DEF NoActor
      <3> QED BY <1>4, <3>1
    <2>4. OfItsVerb(c)'
      BY <1>1, <1>4, <2>1, <2>2, <2>3, GoFacts
         DEF OfItsVerb, OperationSteps, RevokeSteps, CountSteps, RotateSteps, About
    <2>5. CountsHumans(c)'
      BY <1>4, <2>1, <2>2, GoFacts DEF CountsHumans, CountSteps, About
    <2>6. CallIsSound(c)'
      BY <1>4, <2>1, <2>2, <2>4, <2>5, GoFacts
         DEF CallIsSound, HoldsItsPick, HoldsItsTarget, InsertsAlone, IsToldItsOwn
    <2> QED BY <1>1, <1>4, <2>1, <2>6, GoKeepsIInv
  <1> QED BY <1>2, <1>3, <1>4 DEF ReadTarget

(***************************************************************************)
(* revokeToken                                                             *)
(***************************************************************************)

\* A step of c that changes only its own place, list, picks and humans, and takes locks
\* that are free.
LEMMA OwnStep ==
  ASSUME IInv, NEW c \in Calls, pc[c] \notin {"idle", "answered"}, NEW to \in LockSteps,
         pc' = [pc EXCEPT ![c] = to],
         todo' \in [Calls -> Seq(Ids)], active' \in [Calls -> SUBSET Ids], pick' \in [Calls -> SUBSET Ids],
         \A d \in Calls \ {c} : todo'[d] = todo[d] /\ active'[d] = active[d] /\ pick'[d] = pick[d],
         actorLock' \in [Ids -> Calls \cup {None}], tokenLock' \in [Ids -> Calls \cup {None}],
         \A i \in Ids : actorLock'[i] = actorLock[i] \/ (actorLock'[i] = c /\ actorLock[i] = None),
         \A i \in Ids : tokenLock'[i] = tokenLock[i] \/ (tokenLock'[i] = c /\ tokenLock[i] = None),
         UNCHANGED <<tables, req, answer>>, CallIsSound(c)'
  PROVE  IInv'
  <1>1. to \in Steps /\ to \notin {"idle", "answered"}
    BY DEF LockSteps, CountSteps, PickSteps, Steps
  <1>2. Types' /\ pc'[c] = to
    BY <1>1 DEF IInv, Types, tables
  <1>3. OthersStand(c) /\ LocksStay(c)
    BY <1>2 DEF OthersStand, LocksStay, IInv, Types
  <1> QED BY <1>1, <1>2, <1>3, QuietStep

\* Who is free takes locks that nobody else has.
LEMMA FreeLocks ==
  ASSUME IInv, NEW c \in Calls, Free(c)
  PROVE  /\ pc[c] = "lockActor" => actorLock[tokens[Head(todo[c])].actor] \in {None, c}
         /\ pc[c] = "lockToken" => tokenLock[Head(todo[c])] \in {None, c}
         /\ pc[c] \in {"lockTarget", "reference"} => actorLock[About(c)] \in {None, c}
         /\ pc[c] = "update" => \A x \in pick[c] : tokenLock[x] \in {None, c}
         /\ pc[c] = "insert" => \A d \in Calls \ {c} : ~HasInserted(d, About(c))
  <1>1. None \notin Calls
    BY CredentialsAssumption
  <1> QED BY <1>1 DEF Free, Blockers

LEMMA SelectHumansKeepsIInv ==
  ASSUME IInv, NEW c \in Calls, SelectHumans(c)
  PROVE  IInv'
  <1>1. PICK to \in {"lockTarget", "lockActor"} : /\ to = IF ByActor = <<>> THEN "lockTarget" ELSE "lockActor"
                                                 /\ pc' = [pc EXCEPT ![c] = to]
    BY DEF SelectHumans
  <1>2. PICK s \in Seq(Ids) : s = ByActor
    BY ByActorLists
  <1>3. /\ pc'[c] = to /\ todo'[c] = s /\ req'[c] = req[c] /\ active'[c] = active[c] /\ pick'[c] = pick[c]
        /\ answer'[c] = answer[c] /\ to \in LockSteps /\ UNCHANGED <<actors, tokens>>
        /\ CallIsSound(c) /\ pc[c] = "humans"
    BY <1>1, <1>2 DEF SelectHumans, IInv, Types, LockSteps, CountSteps, tables
  <1>4. OfItsVerb(c)' /\ active[c] = {} /\ pick[c] = {}
    BY <1>1, <1>2, <1>3
       DEF CallIsSound, OfItsVerb, OperationSteps, RevokeSteps, CountSteps, RotateSteps, PickSteps, About
  <1>5. \A i \in DOMAIN s : s[i] \in Ids /\ tokens[s[i]] # NoToken /\ actors[tokens[s[i]].actor].kind = "human"
    <2>1. ASSUME NEW x \in HumanTokens
          PROVE  x \in Ids /\ tokens[x] # NoToken /\ actors[tokens[x].actor].kind = "human"
      BY CredentialsAssumption DEF HumanTokens, Active, ActiveHumans, NoToken
    <2> QED BY <1>2, <2>1, ByActorLists
  <1>6. ASSUME NEW x \in Active(About(c))
        PROVE  \E i \in DOMAIN s : s[i] = x
    <2>1. req[c] \in Request /\ req[c].verb = "revoke" /\ actors[About(c)].kind = "human"
      BY <1>3 DEF CallIsSound, OfItsVerb, RevokeSteps
    <2>2. About(c) \in Ids /\ About(c) # None
      BY <2>1, RequestShape, CredentialsAssumption DEF About
    <2>3. x \in HumanTokens
      BY <2>1, <2>2 DEF HumanTokens, ActiveHumans, HasAccess
    <2> QED BY <1>2, <2>3, ByActorLists
  <1>7. CountsHumans(c)'
    <2>1. Active(About(c))' = Active(About(c)) /\ Active(About(c)) \subseteq Ids
      BY <1>3 DEF Active, About, SelectHumans
    <2> QED BY <1>1, <1>3, <1>4, <1>5, <1>6, <2>1 DEF CountsHumans, CountSteps, IsInTodo, About
  <1>8. CallIsSound(c)'
    BY <1>1, <1>3, <1>4, <1>7 DEF CallIsSound, HoldsItsPick, HoldsItsTarget, InsertsAlone, IsToldItsOwn
  <1> QED BY <1>1, <1>2, <1>3, <1>8, OwnStep DEF SelectHumans, IInv, Types, locks

\* What stands after a step that only takes a lock.
LEMMA LockActorKeepsIInv ==
  ASSUME IInv, NEW c \in Calls, LockActor(c)
  PROVE  IInv'
  <1>1. CallIsSound(c) /\ todo[c] # <<>> /\ todo[c] \in Seq(Ids)
    BY DEF IInv, Types, CallIsSound, OfItsVerb, LockActor, CountSteps
  <1>2. PICK a : a = tokens[Head(todo[c])].actor
    OBVIOUS
  <1>3. Head(todo[c]) \in Ids /\ 1 \in DOMAIN todo[c] /\ todo[c][1] = Head(todo[c])
    BY <1>1
  <1>4. a \in Ids
    BY <1>1, <1>2, <1>3 DEF CallIsSound, CountsHumans, CountSteps, LockActor, IInv, RowIsKept
  <1>5. actorLock[a] \in {None, c} /\ actorLock' = [actorLock EXCEPT ![a] = c]
    BY <1>2, FreeLocks DEF LockActor
  <1>6. /\ pc'[c] = "lockToken" /\ UNCHANGED <<actors, tokens, tokenLock, req, todo, active, pick, answer>>
        /\ "lockToken" \in LockSteps /\ pc[c] = "lockActor"
    BY DEF LockActor, IInv, Types, LockSteps, CountSteps, tables
  <1>7. OfItsVerb(c)' /\ pick[c] = {}
    BY <1>1, <1>6
       DEF CallIsSound, OfItsVerb, OperationSteps, RevokeSteps, CountSteps, RotateSteps, PickSteps, About
  <1>8. CountsHumans(c)'
    <2>1. /\ Active(About(c))' = Active(About(c)) /\ About(c)' = About(c)
          /\ \A h : IsHeldBy(c, h)' <=> IsHeldBy(c, h)
      BY <1>6 DEF Active, IsHeldBy, About
    <2>2. \A x : (IsInTodo(c, x)' <=> IsInTodo(c, x)) /\ (IsRotated(x)' <=> IsRotated(x))
      BY <1>6 DEF IsInTodo, IsRotated
    <2> QED BY <1>1, <1>6, <2>1, <2>2 DEF CallIsSound, CountsHumans, CountSteps
  <1>9. CallIsSound(c)'
    BY <1>1, <1>6, <1>7, <1>8 DEF CallIsSound, HoldsItsPick, HoldsItsTarget, InsertsAlone, IsToldItsOwn
  <1>10. /\ actorLock' \in [Ids -> Calls \cup {None}] /\ tokenLock' \in [Ids -> Calls \cup {None}]
         /\ \A i \in Ids : actorLock'[i] = actorLock[i] \/ (actorLock'[i] = c /\ actorLock[i] = None)
         /\ \A i \in Ids : tokenLock'[i] = tokenLock[i]
    BY <1>4, <1>5, <1>6 DEF IInv, Types
  <1>11. /\ todo' \in [Calls -> Seq(Ids)] /\ active' \in [Calls -> SUBSET Ids] /\ pick' \in [Calls -> SUBSET Ids]
         /\ pc' = [pc EXCEPT ![c] = "lockToken"] /\ UNCHANGED <<tables, req, answer>>
    BY <1>6 DEF LockActor, IInv, Types
  <1> QED BY <1>6, <1>9, <1>10, <1>11, OwnStep

LEMMA LockTokenKeepsIInv ==
  ASSUME IInv, NEW c \in Calls, LockToken(c)
  PROVE  IInv'
  <1>1. CallIsSound(c) /\ todo[c] # <<>> /\ todo[c] \in Seq(Ids) /\ pc[c] = "lockToken"
        /\ req[c].verb = "revoke" /\ actors[About(c)].kind = "human" /\ pick[c] = {}
    BY DEF IInv, Types, CallIsSound, OfItsVerb, LockToken, CountSteps, RevokeSteps, PickSteps
  <1>2. PICK x, s : x = Head(todo[c]) /\ s = Tail(todo[c])
    OBVIOUS
  <1>3. /\ x \in Ids /\ s \in Seq(Ids) /\ x = todo[c][1] /\ 1 \in DOMAIN todo[c]
        /\ \A i \in DOMAIN s : i + 1 \in DOMAIN todo[c] /\ s[i] = todo[c][i + 1]
        /\ \A i \in DOMAIN todo[c] : i = 1 \/ (i - 1 \in DOMAIN s /\ s[i - 1] = todo[c][i])
    BY <1>1, <1>2
  <1>4. tokens[x] # NoToken /\ actors[tokens[x].actor].kind = "human" /\ tokens[x].actor \in Ids
    BY <1>1, <1>3 DEF CallIsSound, CountsHumans, CountSteps, IInv, RowIsKept
  <1>5. PICK h : h = tokens[x].actor
    OBVIOUS
  <1>6. PICK A \in SUBSET Ids : /\ A = IF tokens[x].revoked = None THEN active[c] \cup {h} ELSE active[c]
                                /\ active' = [active EXCEPT ![c] = A]
    <2>1. active[c] \in SUBSET Ids /\ active[c] \cup {h} \in SUBSET Ids
      BY <1>4, <1>5 DEF IInv, Types
    <2>2. active' = [active EXCEPT ![c] = IF tokens[x].revoked = None THEN active[c] \cup {h} ELSE active[c]]
      BY <1>2, <1>5 DEF LockToken, IInv, Types
    <2> QED BY <2>1, <2>2
  <1>7. PICK to \in {"lockTarget", "lockActor"} : /\ to = IF s = <<>> THEN "lockTarget" ELSE "lockActor"
                                                 /\ pc' = [pc EXCEPT ![c] = to]
    BY <1>2 DEF LockToken
  <1>8. tokenLock' = [tokenLock EXCEPT ![x] = c] /\ tokenLock[x] \in {None, c}
    BY <1>1, <1>2, FreeLocks DEF LockToken
  <1>9. /\ pc'[c] = to /\ to \in LockSteps /\ todo'[c] = s /\ active'[c] = A
        /\ todo' = [todo EXCEPT ![c] = s]
        /\ UNCHANGED <<tables, actors, tokens, actorLock, req, pick, answer>>
    BY <1>2, <1>6, <1>7 DEF LockToken, IInv, Types, LockSteps, CountSteps, tables
  <1>10. tokenLock'[x] = c /\ \A i \in Ids : tokenLock[i] = c => tokenLock'[i] = c
    BY <1>3, <1>8 DEF IInv, Types
  <1>11. OfItsVerb(c)'
    BY <1>1, <1>7, <1>9
       DEF CallIsSound, OfItsVerb, OperationSteps, RevokeSteps, CountSteps, RotateSteps, PickSteps, About
  <1>12. CountsHumans(c)'
    <2>1. Active(About(c))' = Active(About(c)) /\ About(c)' = About(c)
      BY <1>9 DEF Active, About
    <2>2. ASSUME NEW i \in DOMAIN s
          PROVE  tokens[s[i]] # NoToken /\ actors[tokens[s[i]].actor].kind = "human"
      BY <1>1, <1>3 DEF CallIsSound, CountsHumans, CountSteps
    <2>3. ASSUME NEW g \in A
          PROVE  actors[g].kind = "human" /\ IsHeldBy(c, g)'
      <3>1. CASE g \in active[c]
        BY <1>1, <1>9, <1>10, <3>1 DEF CallIsSound, CountsHumans, CountSteps, IsHeldBy
      <3>2. CASE g \notin active[c]
        <4>1. g = h /\ tokens[x].revoked = None
          BY <1>6, <3>2
        <4>2. tokens[x] = [actor |-> g, revoked |-> None]
          BY <1>3, <1>5, <4>1, TokenShape DEF IInv, Types
        <4> QED BY <1>3, <1>4, <1>5, <1>9, <1>10, <4>1, <4>2 DEF IsHeldBy
      <3> QED BY <3>1, <3>2
    <2>4. ASSUME NEW y \in Active(About(c))
          PROVE  About(c) \in A \/ IsInTodo(c, y)' \/ IsRotated(y)'
      <3>1. About(c) \in active[c] \/ IsInTodo(c, y) \/ IsRotated(y)
        BY <1>1 DEF CallIsSound, CountsHumans, CountSteps
      <3>2. CASE About(c) \in active[c]
        BY <1>6, <3>2
      <3>3. CASE IsRotated(y)
        BY <1>9, <3>3 DEF IsRotated
      <3>4. CASE IsInTodo(c, y)
        <4>1. PICK i \in DOMAIN todo[c] : todo[c][i] = y
          BY <3>4 DEF IsInTodo
        <4>2. CASE i = 1
          <5>1. y = x /\ tokens[x].actor = About(c) /\ tokens[x].revoked = None
            BY <1>3, <4>1, <4>2 DEF Active
          <5> QED BY <1>5, <1>6, <5>1
        <4>3. CASE i # 1
          BY <1>3, <1>9, <4>1, <4>3 DEF IsInTodo
        <4> QED BY <4>2, <4>3
      <3> QED BY <3>1, <3>2, <3>3, <3>4
    <2> QED BY <1>7, <1>9, <2>1, <2>2, <2>3, <2>4 DEF CountsHumans, CountSteps
  <1>13. CallIsSound(c)'
    BY <1>1, <1>7, <1>9, <1>11, <1>12 DEF CallIsSound, HoldsItsPick, HoldsItsTarget, InsertsAlone, IsToldItsOwn
  <1>14. /\ actorLock' \in [Ids -> Calls \cup {None}] /\ tokenLock' \in [Ids -> Calls \cup {None}]
         /\ \A i \in Ids : tokenLock'[i] = tokenLock[i] \/ (tokenLock'[i] = c /\ tokenLock[i] = None)
    BY <1>3, <1>8, <1>9 DEF IInv, Types
  <1>15. /\ todo' \in [Calls -> Seq(Ids)] /\ active' \in [Calls -> SUBSET Ids] /\ pick' \in [Calls -> SUBSET Ids]
         /\ \A d \in Calls \ {c} : todo'[d] = todo[d] /\ active'[d] = active[d] /\ pick'[d] = pick[d]
    BY <1>3, <1>6, <1>9 DEF IInv, Types
  <1> QED BY <1>1, <1>7, <1>9, <1>13, <1>14, <1>15, OwnStep

\* What the humans' tokens tell stays so while c moves on with them.
LEMMA CountsStay ==
  ASSUME IInv, NEW c \in Calls, CountsHumans(c), OfItsVerb(c),
         pc[c] \in {"lockTarget", "guard", "update", "record"}, pc'[c] \in {"guard", "update", "record", "commit"},
         UNCHANGED <<actors, tokens, req>>, active'[c] = active[c], todo'[c] = todo[c],
         \A i \in Ids : tokenLock[i] = c => tokenLock'[i] = c,
         pc'[c] # "guard" => active[c] # {About(c)} \/ pc[c] \in {"update", "record"}
  PROVE  CountsHumans(c)'
  <1>1. Active(About(c))' = Active(About(c)) /\ About(c)' = About(c)
    BY DEF Active, About
  <1>2. \A h : IsHeldBy(c, h) => IsHeldBy(c, h)'
    BY DEF IsHeldBy
  <1>3. \A x : (IsInTodo(c, x) => IsInTodo(c, x)') /\ (IsRotated(x) => IsRotated(x)')
    BY DEF IsInTodo, IsRotated
  <1> QED BY <1>1, <1>2, <1>3 DEF CountsHumans, CountSteps

LEMMA LockTargetKeepsIInv ==
  ASSUME IInv, NEW c \in Calls, LockTarget(c)
  PROVE  IInv'
  <1>1. CallIsSound(c) /\ pc[c] = "lockTarget" /\ req[c].verb = "revoke" /\ pick[c] = {}
    BY DEF IInv, CallIsSound, OfItsVerb, LockTarget, RevokeSteps, PickSteps
  <1>2. About(c) \in Ids
    BY <1>1, RequestShape DEF CallIsSound, OfItsVerb, About
  <1>3. actorLock' = [actorLock EXCEPT ![About(c)] = c] /\ actorLock[About(c)] \in {None, c}
    BY <1>1, FreeLocks DEF LockTarget
  <1>4. /\ pc' = [pc EXCEPT ![c] = "guard"] /\ pc'[c] = "guard" /\ "guard" \in LockSteps
        /\ UNCHANGED <<tables, actors, tokens, tokenLock, req, todo, active, pick, answer>>
    BY DEF LockTarget, IInv, Types, LockSteps, CountSteps, tables
  <1>5. OfItsVerb(c)'
    BY <1>1, <1>4
       DEF CallIsSound, OfItsVerb, OperationSteps, RevokeSteps, CountSteps, RotateSteps, PickSteps, About
  <1>6. CountsHumans(c)'
    BY <1>1, <1>4, CountsStay DEF CallIsSound
  <1>7. HoldsItsTarget(c)'
    BY <1>2, <1>3, <1>4 DEF HoldsItsTarget, About, IInv, Types
  <1>8. CallIsSound(c)'
    BY <1>1, <1>4, <1>5, <1>6, <1>7 DEF CallIsSound, HoldsItsPick, InsertsAlone, IsToldItsOwn
  <1>9. /\ actorLock' \in [Ids -> Calls \cup {None}] /\ tokenLock' \in [Ids -> Calls \cup {None}]
        /\ \A i \in Ids : actorLock'[i] = actorLock[i] \/ (actorLock'[i] = c /\ actorLock[i] = None)
        /\ \A i \in Ids : tokenLock'[i] = tokenLock[i]
        /\ todo' \in [Calls -> Seq(Ids)] /\ active' \in [Calls -> SUBSET Ids] /\ pick' \in [Calls -> SUBSET Ids]
    BY <1>2, <1>3, <1>4 DEF IInv, Types
  <1> QED BY <1>1, <1>4, <1>8, <1>9, OwnStep

LEMMA GuardRevokeKeepsIInv ==
  ASSUME IInv, NEW c \in Calls, GuardRevoke(c)
  PROVE  IInv'
  <1>1. CallIsSound(c) /\ pc[c] = "guard" /\ req[c].verb = "revoke" /\ pick[c] = {}
    BY DEF IInv, CallIsSound, OfItsVerb, GuardRevoke, RevokeSteps, PickSteps
  <1>2. CASE Abort(c, "lastAdminProtected")
    BY <1>1, <1>2, AbortKeepsIInv DEF Refusals, LockSteps, CountSteps
  <1>3. CASE ~LastAdmin(c) /\ pick' = [pick EXCEPT ![c] = Active(About(c))]
             /\ pc' = [pc EXCEPT ![c] = "update"]
             /\ UNCHANGED <<tables, locks, req, todo, active, answer>>
    <2>1. Active(About(c)) \in SUBSET Ids
      BY DEF Active
    <2>2. /\ pc'[c] = "update" /\ "update" \in LockSteps /\ pick'[c] = Active(About(c))
          /\ UNCHANGED <<actors, tokens, actorLock, tokenLock>>
      BY <1>3 DEF IInv, Types, LockSteps, PickSteps, tables, locks
    <2>3. OfItsVerb(c)'
      BY <1>1, <1>3, <2>2
         DEF CallIsSound, OfItsVerb, OperationSteps, RevokeSteps, CountSteps, RotateSteps, PickSteps, About
    <2>4. CountsHumans(c)'
      BY <1>1, <1>3, <2>2, CountsStay DEF CallIsSound, LastAdmin
    <2>5. Active(About(c))' = Active(About(c)) /\ About(c)' = About(c)
      BY <1>3, <2>2 DEF Active, About
    <2>6. HoldsItsTarget(c)'
      BY <1>1, <1>3, <2>2, <2>5 DEF CallIsSound, HoldsItsTarget
    <2>7. HoldsItsPick(c)'
      <3>1. \A x \in Active(About(c)) : tokens[x].actor = About(c)
        BY DEF Active
      <3> QED BY <2>2, <2>5, <3>1 DEF HoldsItsPick
    <2>8. CallIsSound(c)'
      BY <1>1, <1>3, <2>2, <2>3, <2>4, <2>6, <2>7 DEF CallIsSound, InsertsAlone, IsToldItsOwn
    <2>9. /\ actorLock' \in [Ids -> Calls \cup {None}] /\ tokenLock' \in [Ids -> Calls \cup {None}]
          /\ todo' \in [Calls -> Seq(Ids)] /\ active' \in [Calls -> SUBSET Ids] /\ pick' \in [Calls -> SUBSET Ids]
          /\ \A d \in Calls \ {c} : pick'[d] = pick[d]
      BY <1>3, <2>1, <2>2 DEF IInv, Types
    <2> QED BY <1>1, <1>3, <2>2, <2>8, <2>9, OwnStep
  <1> QED BY <1>2, <1>3 DEF GuardRevoke

(***************************************************************************)
(* The UPDATE of revoked_at, and rotateToken                               *)
(***************************************************************************)
LEMMA UpdateKeepsIInv ==
  ASSUME IInv, NEW c \in Calls, Update(c)
  PROVE  IInv'
  <1>1. CallIsSound(c) /\ pc[c] = "update" /\ req[c] \in Request /\ req[c].verb \in {"revoke", "rotate"}
    BY DEF IInv, CallIsSound, OfItsVerb, Update
  <1>2. CASE Abort(c, "concurrentRotation")
    BY <1>1, <1>2, AbortKeepsIInv DEF Refusals, LockSteps, PickSteps
  <1>3. CASE ~Abort(c, "concurrentRotation")
    <2>1. PICK to \in {"insert", "record"} :
             /\ to = IF req[c].verb = "rotate" THEN "insert" ELSE "record"
             /\ pc' = [pc EXCEPT ![c] = to]
      BY <1>3 DEF Update
    <2>2. PICK S \in SUBSET Ids : S = StillActive(c) /\ S \subseteq pick[c]
      BY DEF StillActive, IInv, Types
    <2>3. /\ tokenLock' = [x \in Ids |-> IF x \in S THEN c ELSE tokenLock[x]]
          /\ pick' = [pick EXCEPT ![c] = S]
          /\ UNCHANGED <<tables, actors, tokens, actorLock, req, todo, active, answer>>
      BY <1>3, <2>2 DEF Update, tables
    <2>4. pc'[c] = to /\ pick'[c] = S /\ to \in LockSteps /\ \A x \in S : tokenLock'[x] = c
      BY <2>1, <2>3 DEF IInv, Types, LockSteps, PickSteps
    <2>5. \A x \in S : tokens[x].revoked = None /\ tokens[x].actor = About(c)
      BY <1>1, <2>2 DEF StillActive, CallIsSound, HoldsItsPick
    <2>6. Active(About(c))' = Active(About(c)) /\ About(c)' = About(c)
      BY <2>3 DEF Active, About
    <2>7. HoldsItsPick(c)'
      BY <2>3, <2>4, <2>5, <2>6 DEF HoldsItsPick
    <2>8. OfItsVerb(c)'
      BY <1>1, <2>1, <2>3, <2>4
         DEF CallIsSound, OfItsVerb, OperationSteps, RevokeSteps, CountSteps, RotateSteps, PickSteps, About
    <2>9. HoldsItsTarget(c)'
      <3>1. ASSUME req[c].verb = "revoke"
            PROVE  Active(About(c)) \subseteq S /\ actorLock[About(c)] = c
        BY <1>1, <2>2, <3>1 DEF CallIsSound, HoldsItsTarget, StillActive, Active
      <3> QED BY <2>1, <2>3, <2>4, <2>6, <3>1 DEF HoldsItsTarget
    <2>10. CountsHumans(c)'
      <3>1. CASE req[c].verb = "rotate"
        BY <2>1, <2>3, <2>4, <3>1 DEF CountsHumans, CountSteps
      <3>2. CASE req[c].verb # "rotate"
        BY <1>1, <2>1, <2>3, <2>4, <3>2, CountsStay DEF CallIsSound
      <3> QED BY <3>1, <3>2
    <2>11. CallIsSound(c)'
      BY <1>1, <2>1, <2>3, <2>4, <2>7, <2>8, <2>9, <2>10 DEF CallIsSound, InsertsAlone, IsToldItsOwn
    <2>12. \A x \in S : tokenLock[x] \in {None, c}
      BY <1>1, <2>2, FreeLocks DEF Update
    <2>13. /\ actorLock' \in [Ids -> Calls \cup {None}] /\ tokenLock' \in [Ids -> Calls \cup {None}]
           /\ \A i \in Ids : tokenLock'[i] = tokenLock[i] \/ (tokenLock'[i] = c /\ tokenLock[i] = None)
           /\ todo' \in [Calls -> Seq(Ids)] /\ active' \in [Calls -> SUBSET Ids] /\ pick' \in [Calls -> SUBSET Ids]
           /\ \A d \in Calls \ {c} : pick'[d] = pick[d]
      BY <2>3, <2>12 DEF IInv, Types
    <2> QED BY <1>1, <2>1, <2>3, <2>4, <2>11, <2>13, OwnStep
  <1> QED BY <1>2, <1>3

\* What a rotation has to know as long as it has inserted nothing.
LEMMA RotationIsSound ==
  ASSUME IInv, NEW c \in Calls, pc[c] \in {"snapshot", "insert"}, pc'[c] \in {"update", "insert", "reference"},
         UNCHANGED <<tables, locks, req>>, todo'[c] = todo[c], active'[c] = active[c], answer'[c] = answer[c],
         pc'[c] = "insert" => pick'[c] = {}, \A x \in pick'[c] : tokens[x].actor = About(c),
         pc'[c] = "reference" => pick'[c] = pick[c] /\ InsertsAlone(c)'
  PROVE  CallIsSound(c)'
  <1>1. CallIsSound(c) /\ req[c].verb = "rotate" /\ UNCHANGED <<actors, tokens, tokenLock>>
    BY DEF IInv, CallIsSound, OfItsVerb, RotateSteps, tables, locks
  <1>2. OfItsVerb(c)'
    BY <1>1 DEF CallIsSound, OfItsVerb, OperationSteps, RevokeSteps, CountSteps, RotateSteps, PickSteps, About
  <1>3. HoldsItsPick(c)'
    <2>1. CASE pc'[c] = "reference"
      <3>1. pc[c] = "insert" \/ pick[c] = {}
        BY <1>1, <2>1 DEF CallIsSound, OfItsVerb, PickSteps
      <3> QED BY <1>1, <2>1, <3>1 DEF CallIsSound, HoldsItsPick, About
    <2>2. CASE pc'[c] # "reference"
      BY <1>1, <2>2 DEF HoldsItsPick, About
    <2> QED BY <2>1, <2>2
  <1> QED BY <1>1, <1>2, <1>3 DEF CallIsSound, HoldsItsTarget, InsertsAlone, CountsHumans, CountSteps, IsToldItsOwn, tables

LEMMA SnapshotTokensKeepsIInv ==
  ASSUME IInv, NEW c \in Calls, SnapshotTokens(c)
  PROVE  IInv'
  <1>1. PICK to \in {"insert", "update"} : /\ to = IF Active(About(c)) = {} THEN "insert" ELSE "update"
                                          /\ pc' = [pc EXCEPT ![c] = to]
    BY DEF SnapshotTokens
  <1>2. PICK S \in SUBSET Ids : S = Active(About(c)) /\ \A x \in S : tokens[x].actor = About(c)
    <2>1. Active(About(c)) \in SUBSET Ids /\ \A x \in Active(About(c)) : tokens[x].actor = About(c)
      BY DEF Active
    <2> QED BY <2>1
  <1>3. /\ pc'[c] = to /\ to \in LockSteps /\ pick' = [pick EXCEPT ![c] = S] /\ pick'[c] = S
        /\ UNCHANGED <<tables, locks, actorLock, tokenLock, req, todo, active, answer>> /\ pc[c] = "snapshot"
    BY <1>1, <1>2 DEF SnapshotTokens, IInv, Types, LockSteps, PickSteps, locks
  <1>4. CallIsSound(c)'
    BY <1>1, <1>2, <1>3, RotationIsSound
  <1>5. /\ actorLock' \in [Ids -> Calls \cup {None}] /\ tokenLock' \in [Ids -> Calls \cup {None}]
        /\ todo' \in [Calls -> Seq(Ids)] /\ active' \in [Calls -> SUBSET Ids] /\ pick' \in [Calls -> SUBSET Ids]
        /\ \A d \in Calls \ {c} : pick'[d] = pick[d]
    BY <1>3 DEF IInv, Types
  <1> QED BY <1>1, <1>3, <1>4, <1>5, OwnStep

LEMMA InsertTokenKeepsIInv ==
  ASSUME IInv, NEW c \in Calls, InsertToken(c)
  PROVE  IInv'
  <1>1. CallIsSound(c) /\ pc[c] = "insert" /\ Free(c)
    BY DEF IInv, InsertToken
  <1>2. CASE Abort(c, "concurrentRotation")
    BY <1>1, <1>2, AbortKeepsIInv DEF Refusals, LockSteps, PickSteps
  <1>3. CASE ~Clashes(c) /\ Go(c, "reference")
    <2>1. "reference" \in Steps \ {"idle", "answered"} /\ "reference" \in LockSteps
      BY DEF Steps, LockSteps, PickSteps
    <2>2. /\ pc'[c] = "reference" /\ pick'[c] = pick[c] /\ todo'[c] = todo[c] /\ active'[c] = active[c]
          /\ answer'[c] = answer[c] /\ About(c)' = About(c) /\ Active(About(c))' = Active(About(c))
      BY <1>3, <2>1, GoFacts DEF Active, About
    <2>3. InsertsAlone(c)'
      <3>1. ASSUME NEW d \in Calls \ {c}, pc'[d] = "reference"
            PROVE  About(d)' # About(c)
        <4>1. pc[d] = "reference" /\ About(d)' = About(d)
          BY <1>3, <3>1 DEF Go, IInv, Types, About
        <4>2. req[d].op = None
          BY <4>1, RequestShape DEF IInv, CallIsSound, OfItsVerb, RotateSteps
        <4> QED BY <1>1, <4>1, <4>2, FreeLocks DEF HasInserted
      <3> QED BY <1>3, <2>2, <3>1 DEF InsertsAlone, Clashes
    <2>4. \A x \in pick[c] : tokens[x].actor = About(c)
      BY <1>1 DEF CallIsSound, HoldsItsPick
    <2>5. CallIsSound(c)'
      BY <1>1, <1>3, <2>2, <2>3, <2>4, RotationIsSound DEF Go
    <2> QED BY <1>1, <1>3, <2>1, <2>5, GoKeepsIInv
  <1> QED BY <1>2, <1>3 DEF InsertToken

LEMMA RecordKeepsIInv ==
  ASSUME IInv, NEW c \in Calls, Record(c)
  PROVE  IInv'
  <1>1. CallIsSound(c) /\ pc[c] = "record"
    BY DEF IInv, Record
  <1>2. CASE Abort(c, "operationExists")
    BY <1>1, <1>2, AbortKeepsIInv DEF Refusals, LockSteps, PickSteps
  <1>3. CASE Go(c, "commit")
    <2>1. "commit" \in Steps \ {"idle", "answered"} /\ "commit" \in LockSteps
      BY DEF Steps, LockSteps, PickSteps
    <2>2. /\ pc'[c] = "commit" /\ pick'[c] = pick[c] /\ todo'[c] = todo[c] /\ active'[c] = active[c]
          /\ answer'[c] = answer[c] /\ About(c)' = About(c) /\ Active(About(c))' = Active(About(c))
          /\ UNCHANGED <<actors, tokens, receipts, actorLock, tokenLock, req>>
      BY <1>3, <2>1, GoFacts DEF Active, About
    <2>3. OfItsVerb(c)'
      BY <1>1, <2>2 DEF CallIsSound, OfItsVerb, OperationSteps, RevokeSteps, CountSteps, RotateSteps, PickSteps
    <2>4. CountsHumans(c)'
      BY <1>1, <2>2, CountsStay DEF CallIsSound
    <2>5. HoldsItsPick(c)' /\ HoldsItsTarget(c)'
      BY <1>1, <2>2 DEF CallIsSound, HoldsItsPick, HoldsItsTarget
    <2>6. CallIsSound(c)'
      BY <1>1, <2>2, <2>3, <2>4, <2>5 DEF CallIsSound, InsertsAlone, IsToldItsOwn
    <2> QED BY <1>1, <1>3, <2>1, <2>6, GoKeepsIInv
  <1> QED BY <1>2, <1>3 DEF Record

LEMMA BreakDeadlockKeepsIInv ==
  ASSUME IInv, NEW c \in Calls, BreakDeadlock(c)
  PROVE  IInv'
  <1>1. Blockers(c) # {}
    BY DEF BreakDeadlock, Deadlocked
  <1>2. pc[c] \in LockSteps
    BY <1>1 DEF Blockers, LockSteps, CountSteps, PickSteps
  <1> QED BY <1>2, AbortKeepsIInv DEF BreakDeadlock, Refusals

(***************************************************************************)
(* The server dies                                                         *)
(***************************************************************************)
LEMMA CrashKeepsIInv ==
  ASSUME IInv, Crash
  PROVE  IInv'
  <1>1. [NoAnswer EXCEPT !.outcome = "lost"] \in Told /\ [NoAnswer EXCEPT !.outcome = "lost"].token = None
    BY AnswerShape
  <1>2. ASSUME NEW c \in Calls
        PROVE  /\ pc'[c] \in {"idle", "answered"}
               /\ pc'[c] = "idle" <=> pc[c] = "idle"
               /\ pc[c] = "answered" => pc'[c] = "answered"
               /\ answer'[c].token # None => answer'[c] = answer[c]
               /\ todo'[c] = <<>> /\ pick'[c] = {} /\ answer'[c] \in Told
    BY <1>1 DEF Crash, InFlight, IInv, Types
  <1>3. Types'
    <2>1. pc' \in [Calls -> Steps] /\ answer' \in [Calls -> Told]
      BY <1>1 DEF Crash, IInv, Types, Steps
    <2>2. todo' \in [Calls -> Seq(Ids)] /\ pick' \in [Calls -> SUBSET Ids]
      BY DEF Crash
    <2> QED BY <2>1, <2>2 DEF Crash, IInv, Types, tables
  <1>4. \A a : Active(a)' = Active(a)
    BY DEF Active, Crash, tables
  <1>5. ASSUME NEW c \in Calls
        PROVE  CallIsSound(c)'
    <2>1. OfItsVerb(c) /\ IsToldItsOwn(c)
      BY DEF IInv, CallIsSound
    <2>2. OfItsVerb(c)'
      BY <1>2, <2>1 DEF OfItsVerb, Crash, OperationSteps, RevokeSteps, CountSteps, RotateSteps
    <2>3. IsToldItsOwn(c)'
      BY <1>2, <2>1 DEF IsToldItsOwn, Crash, tables
    <2> QED BY <1>2, <2>2, <2>3 DEF CallIsSound, HoldsItsPick, HoldsItsTarget, InsertsAlone, CountsHumans, CountSteps
  <1>6. ASSUME NEW x \in Ids
        PROVE  RowIsKept(x)'
    <2>1. tokens[x].revoked # None => tokens[x].revoked \in Calls
      BY DEF IInv, Types, Token
    <2>2. actorLock'[x] = None /\ tokenLock'[x] = None /\ UNCHANGED <<actors, tokens>> /\ RowIsKept(x)
      BY DEF Crash, tables, IInv
    <2> QED BY <1>2, <2>1, <2>2 DEF RowIsKept
  <1>7. OneActive' /\ SomeHumanUnlessOvertaken'
    BY <1>4 DEF IInv, OneActive, SomeHumanUnlessOvertaken, SomeHumanIsActive, ActiveHumans, HasAccess, Crash, tables
  <1> QED BY <1>3, <1>5, <1>6, <1>7 DEF IInv

(***************************************************************************)
(* COMMIT                                                                  *)
(***************************************************************************)

\* What a COMMIT of c does: it revokes what c has picked, and may add a token and an
\* actor of the call's own.
Commits(c) ==
    /\ pc[c] \in {"reference", "commit"} /\ Free(c)
    /\ pc' = [pc EXCEPT ![c] = "answered"]
    /\ \A x \in Ids \ {c} : tokens'[x] = IF x \in pick[c] THEN [tokens[x] EXCEPT !.revoked = c] ELSE tokens[x]
    /\ \/ tokens'[c] = NoToken
       \/ tokens'[c] = [actor |-> c, revoked |-> None] /\ actors'[c] # NoActor
       \/ /\ pc[c] = "reference"
          /\ tokens'[c] = [actor |-> About(c), revoked |-> None] /\ actors'[c] = NoActor
    /\ pc[c] = "reference" => tokens'[c].actor = About(c)
    /\ \A a \in Ids \ {c} : actors'[a] = actors[a]
    /\ Release(c)
    /\ todo' = [todo EXCEPT ![c] = <<>>] /\ pick' = [pick EXCEPT ![c] = {}]
    /\ answer'[c].token # None => answer'[c].token = c /\ tokens'[c].actor = answer'[c].actor
    /\ \A d \in Calls \ {c} : answer'[d] = answer[d]
    /\ UNCHANGED <<req, active>>

\* The new token is the call's own, all others keep their actor, and the revoked ones were
\* active and held.
LEMMA TokensAfter ==
  ASSUME IInv, NEW c \in Calls, Commits(c)
  PROVE  /\ \A x \in Ids \ {c} : tokens'[x].actor = tokens[x].actor
         /\ \A x \in Ids \ {c} : x \notin pick[c] => tokens'[x] = tokens[x]
         /\ \A x \in pick[c] : /\ x \in Ids \ {c} /\ tokens'[x].revoked = c /\ tokens[x].actor = About(c)
                               /\ tokens[x].revoked = None /\ tokenLock[x] = c /\ About(c) \in Ids
         /\ tokens'[c].revoked = None /\ tokens'[c].actor \in {None, c, About(c)}
         /\ tokens[c] = NoToken /\ actors[c] = NoActor /\ c \in Ids /\ c # None
         /\ \A x \in Ids : tokens[x].actor # c /\ tokens[x].revoked # c
  <1>1. /\ tokens[c] = NoToken /\ actors[c] = NoActor /\ c \in Ids /\ c # None
        /\ \A x \in Ids : tokens[x].actor # c
        /\ \A d \in Calls : c \notin pick[d]
    BY NotYetMade, CredentialsAssumption DEF Commits
  <1>2. \A x \in Ids : tokens[x].revoked # c
    BY <1>1 DEF IInv, RowIsKept, Commits
  <1>3. ASSUME NEW x \in Ids \ {c}
        PROVE  tokens'[x].actor = tokens[x].actor /\ (x \notin pick[c] => tokens'[x] = tokens[x])
    <2>1. tokens[x] \in Token
      BY DEF IInv, Types
    <2>2. [tokens[x] EXCEPT !.revoked = c] = [actor |-> tokens[x].actor, revoked |-> c]
      BY <2>1, TokenShape
    <2> QED BY <2>2 DEF Commits
  <1>4. ASSUME NEW x \in pick[c]
        PROVE  /\ x \in Ids \ {c} /\ tokens'[x].revoked = c /\ tokens[x].actor = About(c)
               /\ tokens[x].revoked = None /\ tokenLock[x] = c /\ About(c) \in Ids
    <2>1. x \in Ids \ {c}
      BY <1>1 DEF IInv, Types
    <2>2. tokens[x].actor = About(c) /\ tokens[x].revoked = None /\ tokenLock[x] = c
      BY DEF IInv, CallIsSound, HoldsItsPick, Commits
    <2>3. [tokens[x] EXCEPT !.revoked = c] = [actor |-> tokens[x].actor, revoked |-> c]
      BY <2>1, TokenShape DEF IInv, Types
    <2>4. About(c) \in Ids
      BY RequestShape DEF IInv, CallIsSound, OfItsVerb, Commits, About
    <2> QED BY <2>1, <2>2, <2>3, <2>4 DEF Commits
  <1>5. tokens'[c].revoked = None /\ tokens'[c].actor \in {None, c, About(c)}
    BY DEF Commits, NoToken
  <1> QED BY <1>1, <1>2, <1>3, <1>4, <1>5

\* Who waits or works keeps what it holds and knows when another commits.
LEMMA OthersAfterCommit ==
  ASSUME IInv, NEW c \in Calls, Commits(c), NEW d \in Calls \ {c}
  PROVE  CallIsSound(d)'
  <1> USE DEF CallIsSound
  <1>1. CallIsSound(d)
    BY DEF IInv
  <1>2. /\ pc'[d] = pc[d] /\ req'[d] = req[d] /\ todo'[d] = todo[d] /\ active'[d] = active[d]
        /\ pick'[d] = pick[d] /\ answer'[d] = answer[d] /\ About(d)' = About(d) /\ d \in Ids /\ d # None
    BY CredentialsAssumption DEF Commits, IInv, Types, About
  <1>3. \A i \in Ids : (actorLock[i] = d => actorLock'[i] = d) /\ (tokenLock[i] = d => tokenLock'[i] = d)
    BY DEF Commits, Release, Released
  <1>4. \A a \in Ids : actors[a] # NoActor => a # c /\ actors'[a] = actors[a]
    BY TokensAfter DEF Commits
  <1>5. pc[d] # "idle" => About(d) \in Ids \/ About(d) = None
    BY <1>1, RequestShape DEF OfItsVerb, About
  <1>6. pc[d] # "idle" /\ req[d].verb \in {"revoke", "rotate"} => About(d) \in Ids
    BY <1>1, RequestShape DEF OfItsVerb, About
  <1>7. OfItsVerb(d)'
    <2>1. (/\ pc[d] \in RevokeSteps \cup RotateSteps \cup {"update"}
              \/ (pc[d] \in {"record", "commit"} /\ req[d].verb = "revoke"))
           => About(d) \in Ids /\ actors[About(d)] # NoActor
      BY <1>1, <1>6 DEF OfItsVerb, RevokeSteps, RotateSteps, CountSteps
    <2>2. pc[d] \in CountSteps \cup {"humans"} => pc[d] \in RevokeSteps
      BY DEF RevokeSteps
    <2> QED BY <1>1, <1>2, <1>4, <2>1, <2>2 DEF OfItsVerb
  <1>8. HoldsItsPick(d)'
    <2>1. ASSUME NEW x \in pick[d]
          PROVE  tokens'[x].actor = About(d) /\ (pc[d] # "update" => tokenLock'[x] = d /\ tokens'[x].revoked = None)
      <3>1. x \in Ids \ {c}
        <4>1. pc[c] # "answered" /\ pick[d] \subseteq Ids
          BY DEF Commits, IInv, Types
        <4> QED BY <4>1, NotYetMade
      <3>2. tokens[x].actor = About(d) /\ (pc[d] # "update" => tokenLock[x] = d /\ tokens[x].revoked = None)
        BY <1>1 DEF HoldsItsPick
      <3>3. pc[d] # "update" => x \notin pick[c]
        BY <3>2, TokensAfter
      <3> QED BY <1>3, <3>1, <3>2, <3>3, TokensAfter
    <2> QED BY <1>2, <2>1 DEF HoldsItsPick
  <1>9. ASSUME NEW a \in Ids, actors[a] # NoActor, ~(pc[c] = "reference" /\ a = About(c))
        PROVE  \A x \in Ids : tokens'[x].actor = a /\ tokens'[x].revoked = None => x \in Active(a) /\ x # c
    <2>1. tokens'[c].actor # a
      <3>1. a # None /\ a # c
        BY <1>4, <1>9, CredentialsAssumption
      <3> QED BY <1>9, <3>1 DEF Commits, NoToken
    <2>2. ASSUME NEW x \in Ids \ {c}, tokens'[x].actor = a, tokens'[x].revoked = None
          PROVE  x \in Active(a)
      <3>1. x \notin pick[c] /\ tokens'[x] = tokens[x]
        BY <2>2, TokensAfter
      <3> QED BY <2>2, <3>1 DEF Active
    <2> QED BY <2>1, <2>2
  <1>10. HoldsItsTarget(d)'
    <2> SUFFICES ASSUME pc[d] \in {"guard", "update", "record", "commit"}, req[d].verb = "revoke"
                 PROVE  actorLock'[About(d)] = d /\ (pc[d] # "guard" => Active(About(d))' \subseteq pick[d])
      BY <1>2 DEF HoldsItsTarget
    <2>1. About(d) \in Ids /\ actors[About(d)] # NoActor /\ actorLock[About(d)] = d
      BY <1>1, <1>6 DEF OfItsVerb, RevokeSteps, HoldsItsTarget
    <2>2. ~(pc[c] = "reference" /\ About(d) = About(c))
      BY <1>2, <2>1, FreeLocks DEF Commits
    <2>3. pc[d] # "guard" => Active(About(d)) \subseteq pick[d]
      BY <1>1 DEF HoldsItsTarget
    <2>4. Active(About(d))' \subseteq Active(About(d))
      BY <1>2, <1>9, <2>1, <2>2 DEF Active
    <2> QED BY <1>3, <2>1, <2>3, <2>4
  <1>11. InsertsAlone(d)'
    <2> SUFFICES ASSUME pc[d] = "reference"
                 PROVE  /\ Active(About(d))' \subseteq pick[d]
                        /\ \A e \in Calls \ {d} : pc'[e] = "reference" => About(d) # About(e)'
      BY <1>2 DEF InsertsAlone
    <2>1. About(d) \in Ids /\ actors[About(d)] # NoActor
      BY <1>1, <1>6 DEF OfItsVerb, RotateSteps
    <2>2. ~(pc[c] = "reference" /\ About(d) = About(c))
      BY <1>1 DEF InsertsAlone
    <2>3. Active(About(d))' \subseteq Active(About(d))
      BY <1>2, <1>9, <2>1, <2>2 DEF Active
    <2>4. \A e \in Calls : pc'[e] = "reference" => pc[e] = "reference" /\ About(e)' = About(e)
      BY DEF Commits, IInv, Types, About
    <2> QED BY <1>1, <2>3, <2>4 DEF InsertsAlone
  <1>12. IsToldItsOwn(d)'
    <2>1. CASE answer[d].token = None
      BY <1>2, <2>1 DEF IsToldItsOwn
    <2>2. CASE answer[d].token # None
      BY <1>1, <1>2, <2>2, TokensAfter DEF IsToldItsOwn
    <2> QED BY <2>1, <2>2
  <1>13. CountsHumans(d)'
    <2>1. ASSUME pc[d] \in CountSteps, NEW i \in DOMAIN todo[d]
          PROVE  tokens'[todo[d][i]] # NoToken /\ actors'[tokens'[todo[d][i]].actor].kind = "human"
      <3>1. PICK x \in Ids : x = todo[d][i]
        <4>1. todo[d] \in Seq(Ids)
          BY DEF IInv, Types
        <4> QED BY <4>1
      <3>2. tokens[x] # NoToken /\ actors[tokens[x].actor].kind = "human"
        BY <1>1, <2>1, <3>1 DEF CountsHumans
      <3>3. x # c /\ tokens'[x].actor = tokens[x].actor /\ tokens[x].actor \in Ids
            /\ actors[tokens[x].actor] # NoActor
        BY <3>2, TokensAfter DEF IInv, RowIsKept
      <3>4. tokens'[x] # NoToken
        BY <3>3, CredentialsAssumption DEF NoToken
      <3> QED BY <1>4, <3>1, <3>2, <3>3, <3>4
    <2>2. ASSUME pc[d] \in CountSteps \cup {"lockTarget", "guard", "update", "record", "commit"},
                 req[d].verb = "revoke", actors'[About(d)].kind = "human"
          PROVE  /\ \A h \in active[d] : actors'[h].kind = "human" /\ IsHeldBy(d, h)'
                 /\ \A x \in Active(About(d))' : About(d) \in active[d] \/ IsInTodo(d, x)' \/ IsRotated(x)'
                 /\ pc[d] \in {"update", "record", "commit"} => active[d] # {About(d)}
      <3>1. About(d) \in Ids /\ actors[About(d)] # NoActor /\ About(d) # c /\ About(d) # None
        <4>1. pc[d] # "idle"
          BY <2>2 DEF CountSteps
        <4>2. actors[About(d)] # NoActor
          BY <1>1, <2>2 DEF OfItsVerb, RevokeSteps
        <4> QED BY <1>4, <1>6, <2>2, <4>1, <4>2, CredentialsAssumption
      <3>2. actors[About(d)].kind = "human"
        BY <1>4, <2>2, <3>1
      <3>3. /\ \A h \in active[d] : actors[h].kind = "human" /\ IsHeldBy(d, h)
            /\ \A x \in Active(About(d)) : About(d) \in active[d] \/ IsInTodo(d, x) \/ IsRotated(x)
            /\ pc[d] \in {"update", "record", "commit"} => active[d] # {About(d)}
        BY <1>1, <2>2, <3>2 DEF CountsHumans
      <3>4. ASSUME NEW h \in active[d]
            PROVE  actors'[h].kind = "human" /\ IsHeldBy(d, h)'
        <4>1. h \in Ids /\ actors[h].kind = "human" /\ actors[h] # NoActor /\ h # None
          BY <3>3, ActorShape, CredentialsAssumption DEF IInv, Types
        <4>2. PICK x \in Ids : tokens[x] = [actor |-> h, revoked |-> None] /\ tokenLock[x] = d
          BY <3>3 DEF IsHeldBy
        <4>3. x # c /\ x \notin pick[c]
          BY <4>1, <4>2, TokensAfter DEF NoToken
        <4>4. tokens'[x] = tokens[x] /\ tokenLock'[x] = d
          BY <1>3, <4>2, <4>3, TokensAfter
        <4> QED BY <1>4, <4>1, <4>2, <4>4 DEF IsHeldBy
      <3>5. ASSUME NEW x \in Ids, tokens'[x].actor = About(d), tokens'[x].revoked = None
            PROVE  About(d) \in active[d] \/ IsInTodo(d, x)' \/ IsRotated(x)'
        <4>1. CASE x = c
          <5>1. pc[c] = "reference"
            BY <3>1, <3>5, <4>1 DEF Commits, NoToken
          <5>2. req[c].verb = "rotate" /\ req[c] \in Request
            BY <5>1 DEF IInv, OfItsVerb, RotateSteps
          <5>3. req[c] # NoRequest
            BY <5>2, RequestShape DEF Request, NoRequest, RegisterHuman, RegisterAgent, Revocation, Rotation
          <5> QED BY <4>1, <5>2, <5>3 DEF IsRotated, Commits
        <4>2. CASE x # c
          <5>1. x \notin pick[c] /\ tokens'[x] = tokens[x]
            BY <3>5, <4>2, TokensAfter
          <5>2. x \in Active(About(d))
            BY <3>5, <5>1 DEF Active
          <5>3. IsInTodo(d, x) => IsInTodo(d, x)'
            BY <1>2 DEF IsInTodo
          <5>4. IsRotated(x) => IsRotated(x)'
            BY DEF IsRotated, Commits
          <5> QED BY <3>3, <5>2, <5>3, <5>4
        <4> QED BY <4>1, <4>2
      <3>6. Active(About(d))' = {x \in Ids : tokens'[x].actor = About(d) /\ tokens'[x].revoked = None}
        BY <1>2 DEF Active
      <3> QED BY <3>3, <3>4, <3>5, <3>6
    <2> QED BY <1>2, <2>1, <2>2 DEF CountsHumans
  <1> QED BY <1>1, <1>7, <1>8, <1>10, <1>11, <1>12, <1>13

LEMMA RowsAfterCommit ==
  ASSUME IInv, NEW c \in Calls, Commits(c), NEW x \in Ids
  PROVE  RowIsKept(x)'
  <1>1. \A d \in Calls : d # c => pc'[d] = pc[d]
    BY DEF Commits, IInv, Types
  <1>2. pc'[c] = "answered"
    BY DEF Commits, IInv, Types
  <1>3. \A a \in Ids : actors[a] # NoActor => a # c /\ actors'[a] = actors[a]
    <2>1. actors[c] = NoActor
      BY TokensAfter
    <2> QED BY <2>1 DEF Commits
  <1>4. (tokens[x] # NoToken => tokens[x].actor \in Ids /\ actors[tokens[x].actor] # NoActor)'
    <2> SUFFICES ASSUME tokens'[x] # NoToken
                 PROVE  tokens'[x].actor \in Ids /\ actors'[tokens'[x].actor] # NoActor
      OBVIOUS
    <2>1. CASE x # c
      <3>1. tokens'[x].actor = tokens[x].actor /\ tokens[x] # NoToken
        BY <2>1, TokensAfter, CredentialsAssumption DEF NoToken
      <3> QED BY <1>3, <3>1 DEF IInv, RowIsKept
    <2>2. CASE x = c /\ tokens'[c].actor = c
      <3>1. actors'[c] # NoActor
        <4>1. About(c) # c \/ actors[About(c)] = NoActor
          BY TokensAfter
        <4>2. pc[c] = "reference" => actors[About(c)] # NoActor
          BY DEF IInv, CallIsSound, OfItsVerb, RotateSteps
        <4>3. c # None
          BY TokensAfter
        <4> QED BY <2>2, <4>1, <4>2, <4>3 DEF Commits, NoToken
      <3> QED BY <2>2, <3>1, CredentialsAssumption
    <2>3. CASE x = c /\ tokens'[c].actor # c
      <3>1. pc[c] = "reference" /\ tokens'[c].actor = About(c)
        BY <2>3 DEF Commits
      <3>2. req[c] \in Request /\ req[c].verb = "rotate" /\ actors[About(c)] # NoActor
        BY <3>1 DEF IInv, CallIsSound, OfItsVerb, RotateSteps
      <3>3. About(c) \in Ids
        BY <3>2, RequestShape DEF About
      <3> QED BY <1>3, <2>3, <3>1, <3>2, <3>3
    <2> QED BY <2>1, <2>2, <2>3
  <1>5. (tokens[x].revoked # None => pc[tokens[x].revoked] = "answered")'
    <2>1. CASE x = c
      BY <2>1, TokensAfter
    <2>2. CASE x \in pick[c]
      BY <1>2, <2>2, TokensAfter
    <2>3. CASE x # c /\ x \notin pick[c]
      <3>1. tokens'[x] = tokens[x] /\ tokens[x].revoked \in Calls \cup {None}
        BY <2>3, TokensAfter DEF IInv, Types, Token
      <3> QED BY <1>1, <1>2, <3>1 DEF IInv, RowIsKept
    <2> QED BY <2>1, <2>2, <2>3
  <1>6. (x \in Calls /\ (tokens[x] # NoToken \/ actors[x] # NoActor) => pc[x] = "answered")'
    <2>1. CASE x = c
      BY <1>2, <2>1
    <2>2. CASE x # c
      <3>1. tokens[x] = NoToken => tokens'[x] = NoToken
        BY <2>2, TokensAfter, CredentialsAssumption DEF NoToken
      <3> QED BY <1>1, <2>2, <3>1 DEF IInv, RowIsKept, Commits
    <2> QED BY <2>1, <2>2
  <1>7. /\ (actorLock[x] # None => pc[actorLock[x]] \in LockSteps)'
        /\ (tokenLock[x] # None => pc[tokenLock[x]] \in LockSteps)'
    BY <1>1 DEF Commits, Release, Released, IInv, Types, RowIsKept
  <1> QED BY <1>4, <1>5, <1>6, <1>7 DEF RowIsKept

LEMMA OneActiveAfterCommit ==
  ASSUME IInv, NEW c \in Calls, Commits(c)
  PROVE  OneActive'
  <1>1. ASSUME NEW x \in Ids \ {c}, tokens'[x].actor # None, tokens'[x].revoked = None
        PROVE  tokens'[x] = tokens[x] /\ tokens'[x].actor # tokens'[c].actor
    <2>1. x \notin pick[c] /\ tokens'[x] = tokens[x]
      <3>1. x \in pick[c] => tokens'[x].revoked = c /\ c # None
        BY TokensAfter
      <3> QED BY <1>1, <3>1, TokensAfter
    <2>2. CASE pc[c] = "reference"
      <3>1. Active(About(c)) \subseteq pick[c] /\ tokens'[c].actor = About(c)
        BY <2>2 DEF IInv, CallIsSound, InsertsAlone, Commits
      <3> QED BY <1>1, <2>1, <3>1 DEF Active
    <2>3. CASE pc[c] # "reference"
      <3>1. tokens'[c].actor \in {None, c}
        BY <2>3 DEF Commits, NoToken
      <3> QED BY <1>1, <2>1, <3>1, TokensAfter
    <2> QED BY <2>1, <2>2, <2>3
  <1>2. ASSUME NEW x \in Ids, NEW y \in Ids, tokens'[x].actor = tokens'[y].actor, tokens'[x].actor # None,
               tokens'[x].revoked = None, tokens'[y].revoked = None
        PROVE  x = y
    <2>1. CASE x # c /\ y # c
      BY <1>1, <1>2, <2>1 DEF IInv, OneActive
    <2>2. CASE x = c \/ y = c
      BY <1>1, <1>2, <2>2
    <2> QED BY <2>1, <2>2
  <1> QED BY <1>2 DEF OneActive

\* The excuse, of a token that a rotation has made and a revoke has revoked unseen.
Overtaken(x) ==
    /\ tokens[x].revoked # None
    /\ req[tokens[x].revoked].verb = "revoke"
    /\ tokens[x].actor \notin active[tokens[x].revoked]
    /\ x \in Calls /\ req[x].verb = "rotate"

LEMMA HumansAfterCommit ==
  ASSUME IInv, NEW c \in Calls, Commits(c)
  PROVE  SomeHumanUnlessOvertaken'
  <1> SUFFICES SomeHumanIsActive' \/ \E x \in Ids : Overtaken(x)'
    BY DEF SomeHumanUnlessOvertaken, Overtaken
  <1>1. ASSUME NEW x \in Ids, Overtaken(x)
        PROVE  Overtaken(x)'
    <2>1. x # c /\ x \notin pick[c]
      BY <1>1, TokensAfter DEF Overtaken, NoToken
    <2>2. tokens'[x] = tokens[x]
      BY <2>1, TokensAfter
    <2> QED BY <1>1, <2>2 DEF Overtaken, Commits
  <1>2. ASSUME NEW a \in Ids, NEW x \in Ids, actors[a].kind = "human",
               tokens'[x].actor = a, tokens'[x].revoked = None
        PROVE  SomeHumanIsActive'
    <2>1. a # c /\ a # None /\ actors'[a] = actors[a]
      <3>1. actors[c] = NoActor
        BY TokensAfter
      <3> QED BY <1>2, <3>1, ActorShape, CredentialsAssumption DEF Commits
    <2>2. x \in Active(a)'
      BY <1>2 DEF Active
    <2> QED BY <1>2, <2>1, <2>2 DEF SomeHumanIsActive, ActiveHumans, HasAccess
  <1>3. CASE SomeHumanIsActive
    <2>1. PICK a \in Ids, y \in Ids : actors[a].kind = "human" /\ tokens[y].actor = a /\ tokens[y].revoked = None
      BY <1>3 DEF SomeHumanIsActive, ActiveHumans, HasAccess, Active
    <2>2. y # c
      BY <2>1, TokensAfter, CredentialsAssumption DEF NoToken
    <2>3. CASE y \notin pick[c]
      BY <1>2, <2>1, <2>2, <2>3, TokensAfter
    <2>4. CASE y \in pick[c] /\ pc[c] = "reference"
      <3>1. a = About(c) /\ tokens'[c].revoked = None /\ c \in Ids
        BY <2>1, <2>4, TokensAfter
      <3>2. tokens'[c].actor = About(c)
        BY <2>4 DEF Commits
      <3> QED BY <1>2, <2>1, <3>1, <3>2
    <2>5. CASE y \in pick[c] /\ pc[c] = "commit"
      <3>1. a = About(c) /\ req[c].verb = "revoke" /\ todo[c] = <<>>
        BY <2>1, <2>5, TokensAfter DEF IInv, CallIsSound, OfItsVerb, OperationSteps, CountSteps
      <3>2. /\ \A h \in active[c] : actors[h].kind = "human" /\ IsHeldBy(c, h)
            /\ \A x \in Active(a) : a \in active[c] \/ IsInTodo(c, x) \/ IsRotated(x)
            /\ active[c] # {a}
        BY <2>1, <2>5, <3>1 DEF IInv, CallIsSound, CountsHumans
      <3>3. CASE \E h \in active[c] : h # a
        <4>1. PICK h \in active[c] : h # a
          BY <3>3
        <4>2. PICK x \in Ids : tokens[x] = [actor |-> h, revoked |-> None]
          BY <3>2 DEF IsHeldBy
        <4>3. h \in Ids /\ h # None
          BY CredentialsAssumption DEF IInv, Types
        <4>4. x # c /\ x \notin pick[c]
          BY <3>1, <4>1, <4>2, <4>3, TokensAfter DEF NoToken
        <4>5. tokens'[x] = tokens[x]
          BY <4>4, TokensAfter
        <4> QED BY <1>2, <3>2, <4>2, <4>3, <4>5
      <3>4. CASE ~(\E h \in active[c] : h # a)
        <4>1. a \notin active[c]
          BY <3>2, <3>4
        <4>2. y \in Active(a) /\ ~IsInTodo(c, y)
          BY <2>1, <3>1 DEF Active, IsInTodo
        <4>3. IsRotated(y)
          BY <3>2, <4>1, <4>2
        <4>4. tokens'[y].revoked = c /\ tokens'[y].actor = a /\ c # None
          BY <2>1, <2>2, <2>5, TokensAfter
        <4> QED BY <3>1, <4>1, <4>3, <4>4 DEF Overtaken, IsRotated, Commits
      <3> QED BY <3>3, <3>4
    <2> QED BY <2>3, <2>4, <2>5 DEF Commits
  <1>4. CASE ~SomeHumanIsActive
    BY <1>1, <1>4 DEF IInv, SomeHumanUnlessOvertaken, Overtaken
  <1> QED BY <1>3, <1>4

LEMMA CommitKeepsIInv ==
  ASSUME IInv, NEW c \in Calls, Commits(c), Types'
  PROVE  IInv'
  <1>1. /\ pc'[c] = "answered" /\ req'[c] = req[c] /\ todo'[c] = <<>> /\ pick'[c] = {} /\ pc[c] # "idle"
        /\ IsToldItsOwn(c)'
    BY DEF Commits, IInv, Types, IsToldItsOwn
  <1>2. OfItsVerb(c)'
    BY <1>1 DEF IInv, CallIsSound, OfItsVerb, OperationSteps, RevokeSteps, CountSteps, RotateSteps, PickSteps
  <1>3. CallIsSound(c)'
    BY <1>1, <1>2 DEF CallIsSound, HoldsItsPick, HoldsItsTarget, InsertsAlone, CountsHumans, CountSteps
  <1> QED BY <1>3, OthersAfterCommit, RowsAfterCommit, OneActiveAfterCommit, HumansAfterCommit DEF IInv

\* What Revoked writes.
LEMMA RevokedRows ==
  ASSUME IInv, NEW c \in Calls
  PROVE  /\ Revoked(c) \in [Ids -> Token]
         /\ \A x \in Ids : Revoked(c)[x] = IF x \in pick[c] THEN [tokens[x] EXCEPT !.revoked = c] ELSE tokens[x]
  <1>1. ASSUME NEW x \in Ids
        PROVE  tokens[x] \in Token /\ [tokens[x] EXCEPT !.revoked = c] \in Token
    BY TokenShape DEF IInv, Types, Token
  <1> QED BY <1>1 DEF Revoked

LEMMA CommitRotationKeepsIInv ==
  ASSUME IInv, NEW c \in Calls, CommitRotation(c)
  PROVE  IInv' /\ Commits(c)
  <1>1. About(c) \in Ids /\ c \in Ids /\ pc[c] = "reference"
    BY RequestShape, CredentialsAssumption DEF IInv, CallIsSound, OfItsVerb, RotateSteps, CommitRotation, About
  <1>2. PICK t \in Token : t = [actor |-> About(c), revoked |-> None]
    BY <1>1 DEF Token
  <1>3. PICK ans \in Told : /\ ans = [outcome |-> "ok", actor |-> About(c), token |-> c]
                            /\ ans.token = c /\ ans.actor = About(c)
    <2>1. [outcome |-> "ok", actor |-> About(c), token |-> c] \in Told
      BY <1>1 DEF Told
    <2> QED BY <2>1
  <1>4. tokens' = [Revoked(c) EXCEPT ![c] = t] /\ Answer(c, ans) /\ Release(c) /\ UNCHANGED <<actors, receipts>>
    BY <1>2, <1>3 DEF CommitRotation
  <1>5. tokens' \in [Ids -> Token] /\ tokens'[c] = t /\ \A x \in Ids \ {c} : tokens'[x] = Revoked(c)[x]
    BY <1>1, <1>4, RevokedRows
  <1>6. answer'[c] = ans /\ \A d \in Calls \ {c} : answer'[d] = answer[d]
    BY <1>4 DEF Answer, IInv, Types
  <1>7. actors'[c] = NoActor
    BY <1>1, <1>4, NotYetMade
  <1>8. Commits(c)
    <2>1. \A x \in Ids \ {c} :
             tokens'[x] = IF x \in pick[c] THEN [tokens[x] EXCEPT !.revoked = c] ELSE tokens[x]
      BY <1>5, RevokedRows
    <2>2. t.actor = About(c)
      BY <1>2
    <2> QED BY <1>1, <1>2, <1>3, <1>4, <1>5, <1>6, <1>7, <2>1, <2>2 DEF Commits, Answer, CommitRotation
  <1>9. Types'
    <2>1. actorLock' \in [Ids -> Calls \cup {None}] /\ tokenLock' \in [Ids -> Calls \cup {None}]
      BY <1>4 DEF Release, Released, IInv, Types
    <2>2. /\ pc' \in [Calls -> Steps] /\ todo' \in [Calls -> Seq(Ids)] /\ pick' \in [Calls -> SUBSET Ids]
          /\ answer' \in [Calls -> Told]
      BY <1>4 DEF Answer, IInv, Types, Steps
    <2> QED BY <1>4, <1>5, <2>1, <2>2 DEF Answer, IInv, Types
  <1> QED BY <1>8, <1>9, CommitKeepsIInv

LEMMA ReceiptShape ==
  ASSUME IInv, NEW c \in Calls, pc[c] = "commit"
  PROVE  Receipt(c) \in Recorded /\ req[c].op \in Ops /\ (req[c].verb = "revoke" => About(c) \in Ids)
  <1>1. req[c] \in Request /\ req[c].verb # "rotate" /\ c \in Ids
    BY CredentialsAssumption DEF IInv, CallIsSound, OfItsVerb, OperationSteps
  <1>2. Asked(c) \in [verb : {"registerHuman", "registerAgent", "revoke"}, about : Ids \cup {None}]
    BY <1>1, RequestShape DEF Asked
  <1>3. (IF Registers(c) THEN c ELSE About(c)) \in Ids
    BY <1>1, RequestShape DEF Registers, About
  <1> QED BY <1>1, <1>2, <1>3, RequestShape DEF Receipt, Recorded, About

LEMMA CommitRegisterKeepsIInv ==
  ASSUME IInv, NEW c \in Calls, CommitRegister(c)
  PROVE  IInv' /\ Commits(c)
  <1>1. c \in Ids /\ pc[c] = "commit" /\ pick[c] = {}
    BY CredentialsAssumption DEF IInv, CallIsSound, OfItsVerb, CommitRegister, Registers
  <1>2. PICK t \in Token : t = [actor |-> c, revoked |-> None]
    BY <1>1 DEF Token
  <1>3. PICK ans \in Told : /\ ans = [outcome |-> "ok", actor |-> c, token |-> c]
                            /\ ans.token = c /\ ans.actor = c
    <2>1. [outcome |-> "ok", actor |-> c, token |-> c] \in Told
      BY <1>1 DEF Told
    <2> QED BY <2>1
  <1>4. PICK a \in Actor : a = [kind |-> IF req[c].verb = "registerHuman" THEN "human" ELSE "agent",
                                role |-> "admin", source |-> "db"]
    <2>1. [kind |-> IF req[c].verb = "registerHuman" THEN "human" ELSE "agent",
           role |-> "admin", source |-> "db"] \in Actor
      BY DEF Actor
    <2> QED BY <2>1
  <1>5. PICK r \in Recorded, o \in Ops : r = Receipt(c) /\ o = req[c].op
    BY <1>1, ReceiptShape
  <1>6. /\ actors' = [actors EXCEPT ![c] = a] /\ tokens' = [tokens EXCEPT ![c] = t]
        /\ receipts' = [receipts EXCEPT ![o] = r] /\ Release(c) /\ Answer(c, ans)
    BY <1>2, <1>3, <1>4, <1>5 DEF CommitRegister
  <1>7. /\ tokens'[c] = t /\ \A x \in Ids \ {c} : tokens'[x] = tokens[x]
        /\ actors'[c] = a /\ \A x \in Ids \ {c} : actors'[x] = actors[x]
        /\ answer'[c] = ans /\ \A d \in Calls \ {c} : answer'[d] = answer[d]
    BY <1>1, <1>6 DEF Answer, IInv, Types
  <1>8. a # NoActor
    BY ActorShape
  <1>9. Commits(c)
    BY <1>1, <1>2, <1>3, <1>6, <1>7, <1>8 DEF Commits, Answer, CommitRegister
  <1>10. Types'
    <2>1. actorLock' \in [Ids -> Calls \cup {None}] /\ tokenLock' \in [Ids -> Calls \cup {None}]
      BY <1>6 DEF Release, Released, IInv, Types
    <2>2. /\ pc' \in [Calls -> Steps] /\ todo' \in [Calls -> Seq(Ids)] /\ pick' \in [Calls -> SUBSET Ids]
          /\ answer' \in [Calls -> Told]
      BY <1>6 DEF Answer, IInv, Types, Steps
    <2>3. actors' \in [Ids -> Actor \cup {NoActor}] /\ tokens' \in [Ids -> Token]
          /\ receipts' \in [Ops -> Recorded \cup {NoReceipt}]
      BY <1>6 DEF IInv, Types
    <2> QED BY <1>6, <2>1, <2>2, <2>3 DEF Answer, IInv, Types
  <1> QED BY <1>9, <1>10, CommitKeepsIInv

LEMMA CommitRevokeKeepsIInv ==
  ASSUME IInv, NEW c \in Calls, CommitRevoke(c)
  PROVE  IInv' /\ Commits(c)
  <1>1. c \in Ids /\ pc[c] = "commit" /\ About(c) \in Ids
    BY CredentialsAssumption, ReceiptShape DEF CommitRevoke
  <1>2. PICK ans \in Told : ans = [outcome |-> "ok", actor |-> About(c), token |-> None] /\ ans.token = None
    <2>1. [outcome |-> "ok", actor |-> About(c), token |-> None] \in Told
      BY <1>1 DEF Told
    <2> QED BY <2>1
  <1>3. PICK r \in Recorded, o \in Ops : r = Receipt(c) /\ o = req[c].op
    BY <1>1, ReceiptShape
  <1>4. /\ tokens' = Revoked(c) /\ receipts' = [receipts EXCEPT ![o] = r]
        /\ Release(c) /\ Answer(c, ans) /\ actors' = actors
    BY <1>2, <1>3 DEF CommitRevoke
  <1>5. answer'[c] = ans /\ \A d \in Calls \ {c} : answer'[d] = answer[d]
    BY <1>4 DEF Answer, IInv, Types
  <1>6. tokens'[c] = NoToken
    BY <1>1, <1>4, NotYetMade, RevokedRows
  <1>7. Commits(c)
    <2>1. \A x \in Ids \ {c} :
             tokens'[x] = IF x \in pick[c] THEN [tokens[x] EXCEPT !.revoked = c] ELSE tokens[x]
      BY <1>4, RevokedRows
    <2> QED BY <1>1, <1>2, <1>4, <1>5, <1>6, <2>1 DEF Commits, Answer, CommitRevoke
  <1>8. Types'
    <2>1. actorLock' \in [Ids -> Calls \cup {None}] /\ tokenLock' \in [Ids -> Calls \cup {None}]
      BY <1>4 DEF Release, Released, IInv, Types
    <2>2. /\ pc' \in [Calls -> Steps] /\ todo' \in [Calls -> Seq(Ids)] /\ pick' \in [Calls -> SUBSET Ids]
          /\ answer' \in [Calls -> Told]
      BY <1>4 DEF Answer, IInv, Types, Steps
    <2>3. tokens' \in [Ids -> Token] /\ receipts' \in [Ops -> Recorded \cup {NoReceipt}]
      BY <1>4, RevokedRows DEF IInv, Types
    <2> QED BY <1>4, <2>1, <2>2, <2>3 DEF Answer, IInv, Types
  <1> QED BY <1>7, <1>8, CommitKeepsIInv

LEMMA NextKeepsIInv == IInv /\ [Next]_vars => IInv'
  <1> SUFFICES ASSUME IInv, [Next]_vars PROVE IInv'
    OBVIOUS
  <1>1. ASSUME NEW c \in Calls, Handle(c)
        PROVE  IInv'
    BY <1>1, CheckKeepsIInv, RecheckKeepsIInv, ReadParentKeepsIInv, ReadTargetKeepsIInv,
       SelectHumansKeepsIInv, LockActorKeepsIInv, LockTokenKeepsIInv, LockTargetKeepsIInv,
       GuardRevokeKeepsIInv, UpdateKeepsIInv, SnapshotTokensKeepsIInv, InsertTokenKeepsIInv,
       CommitRotationKeepsIInv, RecordKeepsIInv, CommitRegisterKeepsIInv, CommitRevokeKeepsIInv,
       BreakDeadlockKeepsIInv
       DEF Handle
  <1>2. CASE UNCHANGED vars
    BY <1>2 DEF vars, tables, locks, IInv, Types, CallIsSound, OfItsVerb, HoldsItsPick, HoldsItsTarget,
           InsertsAlone, CountsHumans, IsInTodo, IsRotated, IsHeldBy, IsToldItsOwn, RowIsKept, OneActive,
           SomeHumanUnlessOvertaken, SomeHumanIsActive, ActiveHumans, HasAccess, Active, About
  <1> QED BY <1>1, <1>2, SubmitKeepsIInv, CrashKeepsIInv DEF Next

(***************************************************************************)
(* Theorems                                                                *)
(***************************************************************************)

\* Whatever is registered, revoked and rotated beside each other, what a call has locked
\* stays as the call found it, and what a revoke has counted keeps its tokens.
THEOREM AlwaysIInv == Spec => []IInv
  BY InitEstablishesIInv, NextKeepsIInv, PTL DEF Spec

LEMMA AtMostOneActive == ASSUME IInv, NEW a \in Ids PROVE Cardinality(Active(a)) <= 1
  <1>1. CASE Active(a) = {}
    BY <1>1, FS_EmptySet
  <1>2. CASE Active(a) # {}
    <2>1. PICK x : x \in Active(a)
      BY <1>2
    <2>2. Active(a) = {x}
      BY <2>1, CredentialsAssumption DEF IInv, OneActive, Active
    <2>3. Cardinality({x}) = 1
      BY FS_Singleton
    <2> QED BY <2>2, <2>3
  <1> QED BY <1>1, <1>2

\* registerActor, revokeToken and rotateToken keep their tables and locks in shape: a
\* token is an actor's that exists, and rotations that race leave an actor one at most.
THEOREM TypeCorrect == Spec => []CredTypeOK
  <1>1. IInv => CredTypeOK
    <2> SUFFICES ASSUME IInv PROVE CredTypeOK
      OBVIOUS
    <2>1. tokens \in [Ids -> [actor : Ids \cup {None}, revoked : Calls \cup {None}]]
      BY DEF IInv, Types, Token
    <2>2. \A x \in Ids : tokens[x] # NoToken => actors[tokens[x].actor] # NoActor
      BY DEF IInv, RowIsKept
    <2>3. \A a \in Ids : Cardinality(Active(a)) <= 1
      BY AtMostOneActive
    <2>4. ASSUME NEW i \in Ids
          PROVE  {actorLock[i], tokenLock[i]} \ {None} \subseteq {c \in Calls : InFlight(c)}
      <3>1. \A c \in Calls : pc[c] \in LockSteps => InFlight(c)
        BY DEF LockSteps, CountSteps, PickSteps, InFlight
      <3>2. actorLock[i] \in Calls \cup {None} /\ tokenLock[i] \in Calls \cup {None}
        BY DEF IInv, Types
      <3> QED BY <3>1, <3>2 DEF IInv, RowIsKept
    <2>5. \A c \in Calls : \A i \in DOMAIN todo[c] : todo[c][i] \in Ids
      <3>1. \A c \in Calls : todo[c] \in Seq(Ids)
        BY DEF IInv, Types
      <3> QED BY <3>1
    <2>6. \A c \in Calls : answer[c].outcome \in Refusals \cup {"none", "ok", "lost"}
      BY DEF IInv, Types, Told
    <2> QED BY <2>1, <2>2, <2>3, <2>4, <2>5, <2>6 DEF IInv, Types, CredTypeOK
  <1> QED BY <1>1, AlwaysIInv, PTL

\* The last-admin guard of revokeToken leaves a human who can sign in, unless the token it
\* takes is one that a rotation has made behind its count.
THEOREM SomeHumanRemains == Spec => []SomeHumanUnlessOvertaken
  <1>1. IInv => SomeHumanUnlessOvertaken
    BY DEF IInv
  <1> QED BY <1>1, AlwaysIInv, PTL

\* A token is told to the one call that has made it; a replay is never told one.
THEOREM ToldOnce == Spec => []TokensAreToldOnce
  <1>1. IInv => TokensAreToldOnce
    BY DEF IInv, CallIsSound, IsToldItsOwn, TokensAreToldOnce
  <1> QED BY <1>1, AlwaysIInv, PTL

\* What is revoked keeps who has revoked it, in every step.
LEMMA RevokedRowsStay ==
  ASSUME IInv, Next, NEW x \in Ids, tokens[x].revoked # None
  PROVE  tokens'[x] = tokens[x]
  <1>1. ASSUME NEW c \in Calls, Commits(c)
        PROVE  tokens'[x] = tokens[x]
    <2>1. x # c
      BY <1>1, TokensAfter DEF NoToken
    <2>2. x \notin pick[c]
      BY <1>1, TokensAfter
    <2> QED BY <1>1, <2>1, <2>2, TokensAfter
  <1>2. ASSUME NEW c \in Calls, Handle(c)
        PROVE  tokens' = tokens \/ Commits(c)
    BY <1>2, CommitRotationKeepsIInv, CommitRegisterKeepsIInv, CommitRevokeKeepsIInv
       DEF Handle, Check, Recheck, ReadParent, ReadTarget, SelectHumans, LockActor, LockToken, LockTarget,
           GuardRevoke, Update, SnapshotTokens, InsertToken, Record, BreakDeadlock, AnswerFromReceipt,
           Refuse, Go, Abort, tables
  <1>3. CASE \E c \in Calls : Handle(c)
    BY <1>1, <1>2, <1>3
  <1>4. CASE ~(\E c \in Calls : Handle(c))
    BY <1>4 DEF Next, Submit, Crash, tables
  <1> QED BY <1>3, <1>4

\* Only COMMIT answers ok to a revoke that stands before it.
LEMMA CommittedRevoke ==
  ASSUME IInv, Next, NEW c \in Calls, pc[c] = "commit", pc'[c] = "answered",
         answer'[c].outcome = "ok", req[c].verb = "revoke"
  PROVE  CommitRevoke(c)
  <1>1. ASSUME NEW d \in Calls \ {c}, Handle(d)
        PROVE  pc'[c] = pc[c]
    BY <1>1 DEF Handle, Check, Recheck, ReadParent, ReadTarget, SelectHumans, LockActor, LockToken, LockTarget,
           GuardRevoke, Update, SnapshotTokens, InsertToken, CommitRotation, Record, CommitRegister,
           CommitRevoke, BreakDeadlock, AnswerFromReceipt, Refuse, Answer, Go, Abort, IInv, Types
  <1>2. CASE Handle(c)
    <2>1. ~Abort(c, "deadlock")
      <3>1. req[c].op # None
        BY RequestShape DEF IInv, CallIsSound, OfItsVerb, OperationSteps
      <3> QED BY <3>1 DEF Abort, IInv, Types
    <2> QED BY <1>2, <2>1
         DEF Handle, Check, Recheck, ReadParent, ReadTarget, SelectHumans, LockActor, LockToken, LockTarget,
             GuardRevoke, Update, SnapshotTokens, InsertToken, CommitRotation, Record, CommitRegister,
             Registers, BreakDeadlock
  <1>3. ASSUME NEW d \in Calls, NEW q \in Requests[d], Submit(d, q)
        PROVE  FALSE
    BY <1>3 DEF Submit, IInv, Types
  <1>4. ~Crash
    <2>1. [NoAnswer EXCEPT !.outcome = "lost"].outcome = "lost"
      BY AnswerShape
    <2>2. Crash => answer'[c] = [NoAnswer EXCEPT !.outcome = "lost"]
      BY DEF Crash, InFlight
    <2> QED BY <2>1, <2>2
  <1> QED BY <1>1, <1>2, <1>3, <1>4 DEF Next

\* When a revoke succeeds its actor has no access left, not even by a rotation beside it,
\* and no two calls revoke one token.
THEOREM RevokesRevoke == Spec => RevokedMeansRevoked
  <1>1. ASSUME IInv, Next, NEW c \in Calls, pc[c] = "commit", pc'[c] = "answered",
               answer'[c].outcome = "ok", req[c].verb = "revoke"
        PROVE  ~HasAccess(About(c))'
    <2>1. CommitRevoke(c)
      BY <1>1, CommittedRevoke
    <2>2. Commits(c) /\ tokens' = Revoked(c) /\ req' = req
      BY <1>1, <2>1, CommitRevokeKeepsIInv DEF CommitRevoke, Answer
    <2>3. Active(About(c)) \subseteq pick[c]
      BY <1>1 DEF IInv, CallIsSound, HoldsItsTarget
    <2>4. ASSUME NEW x \in Ids, tokens'[x].actor = About(c), tokens'[x].revoked = None
          PROVE  FALSE
      <3>1. x \notin pick[c]
        BY <1>1, <2>2, <2>4, TokensAfter
      <3>2. tokens'[x] = tokens[x]
        BY <1>1, <2>2, <3>1, RevokedRows
      <3> QED BY <2>3, <2>4, <3>1, <3>2 DEF Active
    <2>5. Active(About(c))' = {}
      BY <2>2, <2>4 DEF Active, About
    <2> QED BY <2>5 DEF HasAccess
  <1>2. IInv /\ [Next]_vars => [RevokedForGood]_vars
    BY <1>1, RevokedRowsStay DEF RevokedForGood
  <1> QED BY <1>2, AlwaysIInv, PTL DEF Spec, RevokedMeansRevoked
=============================================================================
