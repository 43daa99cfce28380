------------------------- MODULE EventStreamProofs -------------------------
(***************************************************************************)
(* Theorems about EventStream, for any log, any number of connections and  *)
(* any limit: its types, and that a stream passes over an event only in    *)
(* the two ways the code knows of.  And about ActivityFeed, for any number *)
(* of loads and of projects picked: what it shows, and that it goes on.    *)
(***************************************************************************)
EXTENDS ActivityFeed, FiniteSetTheorems, SequenceTheorems, TLAPS

(***************************************************************************)
(* The inductive invariant.  The cursor stands at what polling began with  *)
(* or at an event that was sent; everything between the two that was there *)
(* to be read is on its way, was sent, or was overtaken.                   *)
(***************************************************************************)
Types ==
    /\ clock \in 0 .. MaxClock /\ hiccups \in 0 .. MaxHiccups /\ credential \in BOOLEAN
    /\ at \in [Events -> 0 .. MaxClock \cup {None}]
    /\ id \in [Events -> Ids \cup {None}] /\ done \in [Events -> Ids \cup {None}]
    /\ pc \in [Conns -> Steps]
    /\ DOMAIN ticket = Conns
    /\ cursor \in [Conns -> Ids \cup {None}] /\ from \in [Conns -> Ids \cup {None}]
    /\ batch \in [Conns -> Seq(Events)]
    /\ sent \in [Conns -> SUBSET Events]

\* Events are numbered from 1 as they come.
Numbered(f) ==
    /\ \A e \in Set(f) : f[e] \in 1 .. Cardinality(Set(f))
    /\ \A d, e \in Set(f) : f[d] = f[e] => d = e

LogIsSound ==
    /\ Numbered(id) /\ Numbered(done)
    /\ Set(done) \subseteq Set(id) /\ Set(id) \subseteq Set(at)

InBatch(k, e) == \E i \in DOMAIN batch[k] : batch[k][i] = e
\* f is younger by its id, and came first by its commit or its time.
Overtakes(f, e) == id[e] < id[f] /\ (done[f] < done[e] \/ at[f] < at[e])
Accounted(k, e) == e \in sent[k] \/ InBatch(k, e) \/ \E f \in sent[k] : Overtakes(f, e)

Beginning(k) ==
    /\ pc[k] \in {"idle", "ticket"} => cursor[k] = None
    /\ pc[k] \in {"idle", "ticket", "admit", "start"} =>
          from[k] = None /\ batch[k] = <<>> /\ sent[k] = {}
    /\ pc[k] \in {"poll", "fetch"} => batch[k] = <<>>

CursorIsKnown(k) ==
    Open(k) => /\ cursor[k] = from[k] \/ \E f \in sent[k] : cursor[k] = id[f]
               /\ from[k] = None => batch[k] = <<>> /\ sent[k] = {}

IsOfTheProject(k) ==
    \A e \in Events : e \in sent[k] \/ InBatch(k, e) => e \in Committed(ticket[k].project)

NothingIsPassed(k) ==
    \A e \in Committed(ticket[k].project) :
        (from[k] # None /\ from[k] < id[e]) =>
            /\ id[e] < cursor[k] => Accounted(k, e)
            /\ \A f \in Events : (InBatch(k, f) /\ id[e] < id[f] /\ ~Overtakes(f, e)) =>
                                     Accounted(k, e)

Stream(k) == Beginning(k) /\ CursorIsKnown(k) /\ IsOfTheProject(k) /\ NothingIsPassed(k)

IInv == Types /\ LogIsSound /\ \A k \in Conns : Stream(k)

(***************************************************************************)
(* The order of the rows                                                   *)
(***************************************************************************)

\* Ranks that differ, below the number of ranked elements, are all taken.
LEMMA EveryRankIsTaken ==
  ASSUME NEW S, IsFiniteSet(S), NEW n \in Nat, n = Cardinality(S),
         NEW r \in [S -> 0 .. n - 1], \A e, f \in S : r[e] = r[f] => e = f
  PROVE  \A i \in 1 .. n : \E e \in S : r[e] = i - 1
  <1>1. IsFiniteSet(0 .. n - 1) /\ Cardinality(0 .. n - 1) = n
    <2>1. 0 \in Int /\ n - 1 \in Int
      OBVIOUS
    <2>2. IsFiniteSet(0 .. n - 1) /\ Cardinality(0 .. n - 1) = IF 0 > n - 1 THEN 0 ELSE (n - 1) - 0 + 1
      BY <2>1, FS_Interval
    <2> QED BY <2>2
  <1>2. r \in Injection(S, 0 .. n - 1)
    BY DEF Injection, IsInjective
  <1>3. r \in Surjection(S, 0 .. n - 1)
    BY <1>1, <1>2, FS_Injection
  <1>4. ASSUME NEW i \in 1 .. n
        PROVE  i - 1 \in 0 .. n - 1
    OBVIOUS
  <1> QED BY <1>3, <1>4 DEF Surjection

\* created_at and id order what is committed.
LEMMA BeforeOrders ==
  ASSUME Types, LogIsSound
  PROVE  /\ \A e \in Set(done) : ~Before(e, e)
         /\ \A e, f \in Set(done) : e = f \/ Before(e, f) \/ Before(f, e)
         /\ \A e, f, g \in Set(done) : Before(e, f) /\ Before(f, g) => Before(e, g)
  <1>1. \A e \in Set(done) : at[e] \in Nat /\ id[e] \in Nat
    BY DEF Types, LogIsSound, Set, Ids
  <1>2. \A e, f \in Set(done) : id[e] = id[f] => e = f
    BY DEF LogIsSound, Numbered
  <1> QED BY <1>1, <1>2 DEF Before

Rank(S, e) == Cardinality({f \in S : Before(f, e)})

LEMMA RanksDiffer ==
  ASSUME Types, LogIsSound, NEW S \in SUBSET Set(done), IsFiniteSet(S)
  PROVE  /\ \A e \in S : Rank(S, e) \in 0 .. Cardinality(S) - 1
         /\ \A e, f \in S : Before(e, f) => Rank(S, e) < Rank(S, f)
         /\ \A e, f \in S : Rank(S, e) = Rank(S, f) => e = f
  <1>1. Cardinality(S) \in Nat
    BY FS_CardinalityType
  <1>2. ASSUME NEW e \in S
        PROVE  /\ IsFiniteSet({f \in S : Before(f, e)}) /\ Rank(S, e) \in Nat
               /\ Rank(S, e) < Cardinality(S)
    <2> DEFINE T == {f \in S : Before(f, e)}
    <2>1. T \in SUBSET S /\ e \notin T
      BY BeforeOrders
    <2>2. IsFiniteSet(T) /\ Cardinality(T) <= Cardinality(S) /\ (Cardinality(S) = Cardinality(T) => S = T)
      BY <2>1, FS_Subset
    <2>3. Cardinality(T) \in Nat
      BY <2>2, FS_CardinalityType
    <2> HIDE DEF T
    <2>4. Cardinality(T) < Cardinality(S)
      BY <1>1, <2>1, <2>2, <2>3
    <2> QED BY <2>2, <2>3, <2>4 DEF T, Rank
  <1>3. ASSUME NEW e \in S, NEW f \in S, Before(e, f)
        PROVE  Rank(S, e) < Rank(S, f)
    <2> DEFINE T == {g \in S : Before(g, e)}
               U == {g \in S : Before(g, f)}
    <2>1. T \in SUBSET U /\ e \in U /\ e \notin T
      BY <1>3, BeforeOrders
    <2>2. IsFiniteSet(U) /\ Cardinality(U) \in Nat /\ Cardinality(T) \in Nat
      BY <1>2 DEF Rank
    <2>3. Cardinality(T) <= Cardinality(U) /\ (Cardinality(U) = Cardinality(T) => U = T)
      BY <2>1, <2>2, FS_Subset
    <2> HIDE DEF T, U
    <2>4. Cardinality(T) < Cardinality(U)
      BY <2>1, <2>2, <2>3
    <2> QED BY <2>4 DEF T, U, Rank
  <1>4. ASSUME NEW e \in S, NEW f \in S, Rank(S, e) = Rank(S, f), e # f
        PROVE  FALSE
    <2>1. Before(e, f) \/ Before(f, e)
      BY <1>4, BeforeOrders
    <2>2. PICK m, n : m = Rank(S, e) /\ n = Rank(S, f)
      OBVIOUS
    <2>3. m \in Nat /\ n \in Nat /\ m = n
      BY <1>2, <1>4, <2>2
    <2>4. m < n \/ n < m
      BY <1>3, <2>1, <2>2
    <2> QED BY <2>3, <2>4
  <1>5. \A e \in S : Rank(S, e) \in Nat /\ Rank(S, e) < Cardinality(S)
    BY <1>2
  <1>6. \A e \in S : Rank(S, e) \in 0 .. Cardinality(S) - 1
    BY <1>1, <1>5
  <1> QED BY <1>3, <1>4, <1>6

\* The rows of a query come each once, one behind all that are before it.
LEMMA OrderedRows ==
  ASSUME Types, LogIsSound, NEW S \in SUBSET Set(done), IsFiniteSet(S)
  PROVE  /\ Ordered(S) \in Seq(S) /\ Len(Ordered(S)) = Cardinality(S)
         /\ \A i \in 1 .. Cardinality(S), e \in S :
               Before(e, Ordered(S)[i]) => \E j \in 1 .. i : Ordered(S)[j] = e
         /\ \A i, j \in 1 .. Cardinality(S) : Ordered(S)[i] = Ordered(S)[j] => i = j
  <1> DEFINE n == Cardinality(S)
             r == [e \in S |-> Rank(S, e)]
  <1>1. n \in Nat
    BY FS_CardinalityType
  <1>2. r \in [S -> 0 .. n - 1] /\ \A e, f \in S : r[e] = r[f] => e = f
    BY RanksDiffer
  <1> HIDE DEF n
  <1>3. \A i \in 1 .. n : \E e \in S : Rank(S, e) = i - 1
    <2>1. \A i \in 1 .. n : \E e \in S : r[e] = i - 1
      <3> HIDE DEF r
      <3> QED BY <1>1, <1>2, EveryRankIsTaken DEF n
    <2> QED BY <2>1
  <1>4. Ordered(S) = [i \in 1 .. n |-> CHOOSE e \in S : Rank(S, e) = i - 1]
    BY DEF Ordered, Rank, n
  <1>5. ASSUME NEW i \in 1 .. n
        PROVE  Ordered(S)[i] \in S /\ Rank(S, Ordered(S)[i]) = i - 1
    BY <1>3, <1>4
  <1>6. Ordered(S) \in Seq(S) /\ Len(Ordered(S)) = n
    BY <1>1, <1>4, <1>5
  <1>7. ASSUME NEW i \in 1 .. n, NEW e \in S, Before(e, Ordered(S)[i])
        PROVE  \E j \in 1 .. i : Ordered(S)[j] = e
    <2>1. Rank(S, e) < i - 1 /\ Rank(S, e) \in 0 .. n - 1
      BY <1>5, <1>7, RanksDiffer DEF n
    <2>2. PICK j \in 1 .. n : j = Rank(S, e) + 1 /\ j \in 1 .. i
      BY <1>1, <2>1
    <2>3. Rank(S, Ordered(S)[j]) = Rank(S, e) /\ Ordered(S)[j] \in S
      BY <1>5, <2>1, <2>2
    <2> QED BY <2>2, <2>3, RanksDiffer
  <1>8. ASSUME NEW i \in 1 .. n, NEW j \in 1 .. n, Ordered(S)[i] = Ordered(S)[j]
        PROVE  i = j
    <2>1. i - 1 = j - 1
      BY <1>5, <1>8
    <2> QED BY <1>1, <2>1
  <1> QED BY <1>6, <1>7, <1>8 DEF n

\* What is cut off a list is its end.
LEMMA FirstRows ==
  ASSUME NEW S, NEW s \in Seq(S), NEW n \in Nat
  PROVE  /\ FirstOf(s, n) \in Seq(S) /\ Len(FirstOf(s, n)) <= Len(s) /\ Len(FirstOf(s, n)) <= n
         /\ \A i \in 1 .. Len(FirstOf(s, n)) : FirstOf(s, n)[i] = s[i]
  <1>1. PICK m \in 0 .. Len(s) : FirstOf(s, n) = SubSeq(s, 1, m) /\ m <= n
    BY DEF FirstOf
  <1> QED BY <1>1

\* A query after a cursor returns committed events of the project, and with each of
\* them all others after the cursor that are before it.
LEMMA RowsAfterACursor ==
  ASSUME Types, LogIsSound, NEW p, NEW c \in Ids \cup {None}
  PROVE  /\ ListEventsAfter(p, c) \in Seq(Events)
         /\ c = None => ListEventsAfter(p, c) = <<>>
         /\ \A i \in DOMAIN ListEventsAfter(p, c) :
               /\ ListEventsAfter(p, c)[i] \in Committed(p)
               /\ \A e \in Committed(p) :
                     (id[e] > c /\ Before(e, ListEventsAfter(p, c)[i])) =>
                         \E j \in DOMAIN ListEventsAfter(p, c) : ListEventsAfter(p, c)[j] = e
  <1>1. CASE c = None
    <2>1. ListEventsAfter(p, c) = <<>>
      BY <1>1 DEF ListEventsAfter
    <2> QED BY <2>1
  <1>2. CASE c # None
    <2> DEFINE S == {e \in Committed(p) : id[e] > c}
               s == Ordered(S)
               l == FirstOf(s, ReplayLimit)
    <2>1. S \in SUBSET Set(done) /\ S \subseteq Events /\ ReplayLimit \in Nat
      BY StreamAssumption DEF Committed, Set
    <2>2. IsFiniteSet(S)
      BY <2>1, FS_Subset, StreamAssumption
    <2>3. ListEventsAfter(p, c) = l
      BY <1>2 DEF ListEventsAfter
    <2> HIDE DEF S
    <2>4. /\ s \in Seq(S) /\ Len(s) = Cardinality(S)
          /\ \A i \in 1 .. Cardinality(S), e \in S : Before(e, s[i]) => \E j \in 1 .. i : s[j] = e
      BY <2>1, <2>2, OrderedRows
    <2> HIDE DEF s
    <2>5. l \in Seq(S) /\ Len(l) <= Len(s) /\ \A i \in 1 .. Len(l) : l[i] = s[i]
      BY <2>1, <2>4, FirstRows
    <2> HIDE DEF l
    <2>6. DOMAIN l = 1 .. Len(l) /\ Len(l) \in Nat /\ Len(s) \in Nat /\ l \in Seq(Events)
      BY <2>1, <2>4, <2>5
    <2>7. ASSUME NEW i \in DOMAIN l
          PROVE  /\ l[i] \in Committed(p)
                 /\ \A e \in Committed(p) : (id[e] > c /\ Before(e, l[i])) =>
                       \E j \in DOMAIN l : l[j] = e
      <3>1. l[i] \in S /\ l[i] = s[i] /\ i \in 1 .. Cardinality(S)
        BY <2>4, <2>5, <2>6
      <3>2. l[i] \in Committed(p)
        BY <3>1 DEF S
      <3>3. ASSUME NEW e \in Committed(p), id[e] > c, Before(e, l[i])
            PROVE  \E j \in DOMAIN l : l[j] = e
        <4>1. e \in S
          BY <3>3 DEF S
        <4>2. PICK j \in 1 .. i : s[j] = e
          BY <2>4, <3>1, <3>3, <4>1
        <4>3. j \in DOMAIN l
          BY <2>6
        <4> QED BY <2>5, <2>6, <4>2, <4>3
      <3> QED BY <3>2, <3>3
    <2> QED BY <1>2, <2>3, <2>6, <2>7
  <1> QED BY <1>1, <1>2

\* The latest event of a project has an id, if there is one.
LEMMA LatestIsKnown ==
  ASSUME Types, LogIsSound, NEW p
  PROVE  LatestEventId(p) \in Ids \cup {None}
  <1>1. CASE Committed(p) = {}
    BY <1>1 DEF LatestEventId
  <1>2. CASE Committed(p) # {}
    <2> DEFINE S == Committed(p)
               s == Ordered(S)
    <2>1. S \in SUBSET Set(done) /\ S \subseteq Events
      BY DEF Committed, Set
    <2>2. IsFiniteSet(S)
      BY <2>1, FS_Subset, StreamAssumption
    <2>3. s \in Seq(S) /\ Len(s) = Cardinality(S)
      BY <2>1, <2>2, OrderedRows
    <2>4. Len(s) # 0
      BY <1>2, <2>2, <2>3, FS_EmptySet
    <2>5. LatestEventId(p) = id[s[Len(s)]]
      BY <1>2 DEF LatestEventId
    <2> HIDE DEF S, s
    <2>6. s[Len(s)] \in S
      BY <2>3, <2>4
    <2> QED BY <2>1, <2>5, <2>6 DEF Types
  <1> QED BY <1>1, <1>2

(***************************************************************************)
(* The start, and the log                                                  *)
(***************************************************************************)

LEMMA InitEstablishesIInv == StreamInit => IInv
  <1> SUFFICES ASSUME StreamInit PROVE IInv
    OBVIOUS
  <1> USE DEF StreamInit
  <1>1. Types
    <2>1. batch \in [Conns -> Seq(Events)]
      OBVIOUS
    <2>2. DOMAIN ticket = Conns /\ pc \in [Conns -> Steps] /\ sent \in [Conns -> SUBSET Events]
      BY DEF Steps
    <2> QED BY <2>1, <2>2, StreamAssumption DEF Types
  <1>2. Set(at) = {} /\ Set(id) = {} /\ Set(done) = {}
    BY DEF Set
  <1>3. LogIsSound
    BY <1>2 DEF LogIsSound, Numbered
  <1>4. \A k \in Conns : Stream(k)
    BY <1>2 DEF Stream, Beginning, CursorIsKnown, Open, IsOfTheProject, InBatch, NothingIsPassed,
             Committed
  <1> QED BY <1>1, <1>3, <1>4 DEF IInv

\* What is numbered next gets the next number.
LEMMA NextNumber ==
  ASSUME NEW f \in [Events -> Ids \cup {None}], Numbered(f), NEW e \in Events, f[e] = None,
         NEW g, g = [f EXCEPT ![e] = Cardinality(Set(f)) + 1]
  PROVE  /\ g \in [Events -> Ids \cup {None}] /\ Numbered(g) /\ Set(g) = Set(f) \cup {e}
         /\ \A d \in Events \ {e} : g[d] = f[d]
         /\ g[e] \in Nat /\ \A d \in Set(f) : f[d] \in Nat /\ f[d] < g[e]
  <1>1. Set(f) \in SUBSET Events /\ e \notin Set(f)
    BY DEF Set
  <1>2. IsFiniteSet(Set(f)) /\ IsFiniteSet(Events)
    BY <1>1, FS_Subset, StreamAssumption
  <1>3. PICK n \in Nat : n = Cardinality(Set(f))
    BY <1>2, FS_CardinalityType
  <1>4. Cardinality(Set(f) \cup {e}) = n + 1
    BY <1>1, <1>2, <1>3, FS_AddElement
  <1>5. n + 1 \in Ids
    <2>1. Set(f) \cup {e} \in SUBSET Events
      BY <1>1
    <2>2. Cardinality(Set(f) \cup {e}) <= Cardinality(Events)
      BY <1>2, <2>1, FS_Subset
    <2>3. Cardinality(Events) \in Nat
      BY <1>2, FS_CardinalityType
    <2> QED BY <1>3, <1>4, <2>2, <2>3 DEF Ids
  <1>6. g \in [Events -> Ids \cup {None}] /\ g[e] = n + 1 /\ \A d \in Events \ {e} : g[d] = f[d]
    BY <1>3, <1>5
  <1>7. Set(g) = Set(f) \cup {e}
    <2>1. g[e] # None
      BY <1>3, <1>6, StreamAssumption
    <2> QED BY <1>6, <2>1 DEF Set
  <1>8. \A d \in Set(f) : f[d] \in 1 .. n /\ d # e /\ g[d] = f[d]
    BY <1>1, <1>3, <1>6 DEF Numbered
  <1>9. Cardinality(Set(g)) = n + 1
    BY <1>4, <1>7
  <1>10. \A d \in Set(g) : g[d] \in 1 .. n + 1
    BY <1>3, <1>6, <1>7, <1>8
  <1>11. \A c, d \in Set(g) : g[c] = g[d] => c = d
    BY <1>3, <1>6, <1>7, <1>8 DEF Numbered
  <1>12. Numbered(g)
    BY <1>9, <1>10, <1>11 DEF Numbered
  <1>13. g[e] \in Nat /\ \A d \in Set(f) : f[d] \in Nat /\ f[d] < g[e]
    BY <1>3, <1>6, <1>8
  <1> QED BY <1>6, <1>7, <1>12, <1>13

\* A step of the log that leaves what is committed as it is.
LEMMA LogStep ==
  ASSUME IInv, UNCHANGED conns, Types', LogIsSound', done' = done,
         \A e \in Set(done) : at'[e] = at[e] /\ id'[e] = id[e]
  PROVE  IInv'
  <1>1. Set(done)' = Set(done) /\ \A p : Committed(p)' = Committed(p)
    BY DEF Set, Committed
  <1>2. ASSUME NEW k \in Conns
        PROVE  Stream(k)'
    <2> USE DEF IInv, Stream, conns
    <2>1. Beginning(k)' /\ IsOfTheProject(k)'
      BY <1>1 DEF Beginning, IsOfTheProject, InBatch
    <2>2. \A f \in Events : f \in sent[k] \/ InBatch(k, f) => f \in Set(done)
      BY DEF IsOfTheProject, Committed
    <2>3. CursorIsKnown(k)'
      BY <2>2 DEF CursorIsKnown, Open, Types
    <2>4. NothingIsPassed(k)'
      <3> SUFFICES ASSUME NEW e \in Committed(ticket[k].project), from[k] # None, from[k] < id'[e]
                   PROVE  /\ id'[e] < cursor[k] => Accounted(k, e)'
                          /\ \A f \in Events :
                                (InBatch(k, f) /\ id'[e] < id'[f] /\ ~Overtakes(f, e)') =>
                                    Accounted(k, e)'
        BY <1>1 DEF NothingIsPassed, InBatch
      <3>1. e \in Set(done) /\ id'[e] = id[e] /\ at'[e] = at[e]
        BY DEF Committed
      <3>2. \A f \in Set(done) : Overtakes(f, e)' <=> Overtakes(f, e)
        BY <3>1 DEF Overtakes
      <3>3. Accounted(k, e) => Accounted(k, e)'
        BY <2>2, <3>2 DEF Accounted, InBatch, Types
      <3>4. \A f \in Events : InBatch(k, f) => id'[f] = id[f] /\ (Overtakes(f, e)' <=> Overtakes(f, e))
        BY <2>2, <3>2
      <3> QED BY <3>1, <3>3, <3>4 DEF NothingIsPassed
    <2> QED BY <2>1, <2>3, <2>4
  <1> QED BY <1>2 DEF IInv

LEMMA TakeTimeKeepsIInv ==
  ASSUME IInv, NEW e \in Events, TakeTime(e)
  PROVE  IInv'
  <1>1. /\ at' = [at EXCEPT ![e] = clock] /\ clock \in 0 .. MaxClock
        /\ UNCHANGED <<clock, id, done, credential, hiccups, conns>>
    BY DEF TakeTime, IInv, Types
  <1>2. Types'
    BY <1>1 DEF IInv, Types, conns
  <1>3. Set(at) \subseteq Set(at)' /\ e \notin Set(done)
    BY <1>1, StreamAssumption DEF TakeTime, IInv, Types, LogIsSound, Set
  <1>4. LogIsSound'
    BY <1>1, <1>3 DEF IInv, LogIsSound, Numbered, Set
  <1>5. \A d \in Set(done) : at'[d] = at[d]
    BY <1>1, <1>3 DEF IInv, Types, Set
  <1> QED BY <1>1, <1>2, <1>4, <1>5, LogStep

LEMMA MakeIdKeepsIInv ==
  ASSUME IInv, NEW e \in Events, MakeId(e)
  PROVE  IInv'
  <1>1. PICK g : g = id' /\ g = [id EXCEPT ![e] = Cardinality(Set(id)) + 1]
    BY DEF MakeId
  <1>2. /\ UNCHANGED <<clock, at, done, credential, hiccups, conns>>
        /\ id \in [Events -> Ids \cup {None}] /\ Numbered(id) /\ id[e] = None /\ at[e] # None
    BY DEF MakeId, IInv, Types, LogIsSound
  <1>3. /\ g \in [Events -> Ids \cup {None}] /\ Numbered(g) /\ Set(g) = Set(id) \cup {e}
        /\ \A d \in Events \ {e} : g[d] = id[d]
    BY <1>1, <1>2, NextNumber
  <1>4. Types'
    BY <1>1, <1>2, <1>3 DEF IInv, Types, conns
  <1>5. Numbered(id)' /\ Set(id)' = Set(g) /\ Set(done)' = Set(done) /\ Set(at)' = Set(at)
    BY <1>1, <1>2, <1>3 DEF Numbered, Set
  <1>6. e \in Set(at)
    BY <1>2 DEF Set
  <1>7. LogIsSound'
    BY <1>2, <1>3, <1>5, <1>6 DEF IInv, LogIsSound, Numbered, Set
  <1>8. \A d \in Set(done) : id'[d] = id[d]
    BY <1>1, <1>2, <1>3 DEF IInv, LogIsSound, Set
  <1> QED BY <1>2, <1>4, <1>7, <1>8, LogStep

\* What is committed now comes behind all that was committed before.
LEMMA CommitEventKeepsIInv ==
  ASSUME IInv, NEW e \in Events, CommitEvent(e)
  PROVE  IInv'
  <1>1. PICK g : g = done' /\ g = [done EXCEPT ![e] = Cardinality(Set(done)) + 1]
    BY DEF CommitEvent
  <1>2. /\ UNCHANGED <<clock, at, id, credential, hiccups, conns>>
        /\ done \in [Events -> Ids \cup {None}] /\ Numbered(done) /\ done[e] = None /\ id[e] # None
    BY DEF CommitEvent, IInv, Types, LogIsSound
  <1>3. /\ g \in [Events -> Ids \cup {None}] /\ Numbered(g) /\ Set(g) = Set(done) \cup {e}
        /\ \A d \in Events \ {e} : g[d] = done[d]
        /\ g[e] \in Nat /\ \A d \in Set(done) : done[d] \in Nat /\ done[d] < g[e]
    BY <1>1, <1>2, NextNumber
  <1>4. Types'
    BY <1>1, <1>2, <1>3 DEF IInv, Types, conns
  <1>5. Numbered(done)' /\ Set(done)' = Set(g) /\ Set(id)' = Set(id) /\ Set(at)' = Set(at)
    BY <1>1, <1>2, <1>3 DEF Numbered, Set
  <1>6. LogIsSound'
    BY <1>2, <1>3, <1>5 DEF IInv, LogIsSound, Numbered, Set
  <1>7. ASSUME NEW k \in Conns
        PROVE  Stream(k)'
    <2> USE DEF IInv, Stream, conns
    <2>1. \A p : Committed(p) \subseteq Committed(p)' /\ Committed(p)' \subseteq Committed(p) \cup {e}
      BY <1>3, <1>5 DEF Committed
    <2>2. Beginning(k)' /\ IsOfTheProject(k)' /\ CursorIsKnown(k)'
      BY <1>2, <2>1 DEF Beginning, IsOfTheProject, InBatch, CursorIsKnown, Open
    <2>3. \A f \in Events : f \in sent[k] \/ InBatch(k, f) =>
              f \in Set(done) /\ f # e /\ done'[f] = done[f] /\ done'[f] < done'[e]
      BY <1>1, <1>2, <1>3 DEF IsOfTheProject, Committed, Set
    <2>4. ASSUME NEW d \in Committed(ticket[k].project)', from[k] # None, from[k] < id[d]
          PROVE  /\ id[d] < cursor[k] => Accounted(k, d)'
                 /\ \A f \in Events : (InBatch(k, f) /\ id[d] < id[f] /\ ~Overtakes(f, d)') =>
                                          Accounted(k, d)'
      <3>1. CASE d = e
        <4>1. ASSUME NEW f \in Events, f \in sent[k] \/ InBatch(k, f), id[d] < id[f]
              PROVE  Overtakes(f, d)'
          BY <1>2, <2>3, <3>1, <4>1 DEF Overtakes
        <4>2. ASSUME id[d] < cursor[k]
              PROVE  Accounted(k, d)'
          <5>1. Open(k)
            BY <2>4 DEF Beginning, Open, Types, Steps
          <5>2. cursor[k] # from[k]
            <6>1. from[k] \in Nat /\ id[d] \in Nat
              BY <1>2, <2>4, <3>1 DEF Types, Ids
            <6> QED BY <2>4, <4>2, <6>1
          <5>3. PICK f \in sent[k] : cursor[k] = id[f]
            BY <5>1, <5>2 DEF CursorIsKnown
          <5>4. f \in Events
            BY DEF Types
          <5>5. Overtakes(f, d)'
            BY <4>1, <4>2, <5>3, <5>4
          <5> QED BY <1>2, <5>5 DEF Accounted
        <4> QED BY <4>1, <4>2
      <3>2. CASE d # e
        <4>1. d \in Committed(ticket[k].project) /\ d \in Set(done) /\ done'[d] = done[d]
          <5>1. d \in Set(done)' /\ Project[d] = ticket[k].project
            BY <1>2 DEF Committed
          <5>2. d \in Events /\ d \in Set(done)
            BY <1>3, <1>5, <3>2, <5>1 DEF Set
          <5> QED BY <1>1, <1>3, <3>2, <5>1, <5>2 DEF Committed
        <4>2. \A f \in Events : f \in sent[k] \/ InBatch(k, f) => (Overtakes(f, d)' <=> Overtakes(f, d))
          BY <1>2, <2>3, <4>1 DEF Overtakes
        <4>3. Accounted(k, d) => Accounted(k, d)'
          BY <1>2, <4>2 DEF Accounted, InBatch, Types
        <4> QED BY <2>4, <4>1, <4>2, <4>3 DEF NothingIsPassed
      <3> QED BY <3>1, <3>2
    <2>5. NothingIsPassed(k)'
      BY <1>2, <2>4 DEF NothingIsPassed, InBatch
    <2> QED BY <2>2, <2>5
  <1> QED BY <1>4, <1>6, <1>7 DEF IInv

(***************************************************************************)
(* The connections                                                         *)
(***************************************************************************)

\* A step of one connection only has to be right for it.
LEMMA StepOfOneStream ==
  ASSUME IInv, NEW k \in Conns, UNCHANGED <<clock, writes, credential>>,
         hiccups' \in 0 .. MaxHiccups,
         pc' \in [Conns -> Steps], DOMAIN ticket' = Conns, cursor' \in [Conns -> Ids \cup {None}],
         from' \in [Conns -> Ids \cup {None}], batch' \in [Conns -> Seq(Events)],
         sent' \in [Conns -> SUBSET Events],
         \A j \in Conns \ {k} :
             /\ pc'[j] = pc[j] /\ ticket'[j] = ticket[j] /\ cursor'[j] = cursor[j]
             /\ from'[j] = from[j] /\ batch'[j] = batch[j] /\ sent'[j] = sent[j],
         Stream(k)'
  PROVE  IInv'
  <1>1. Types'
    BY DEF IInv, Types, writes
  <1>2. LogIsSound'
    BY DEF IInv, LogIsSound, Numbered, Set, writes
  <1>3. ASSUME NEW j \in Conns \ {k}
        PROVE  Stream(j)'
    <2> USE DEF writes
    <2>1. Stream(j)
      BY DEF IInv
    <2>2. /\ pc'[j] = pc[j] /\ ticket'[j] = ticket[j] /\ cursor'[j] = cursor[j]
          /\ from'[j] = from[j] /\ batch'[j] = batch[j] /\ sent'[j] = sent[j]
          /\ Set(done)' = Set(done) /\ at' = at /\ id' = id /\ done' = done
      BY DEF Set
    <2>3. Beginning(j)' /\ CursorIsKnown(j)' /\ IsOfTheProject(j)'
      BY <2>1, <2>2 DEF Stream, Beginning, CursorIsKnown, Open, IsOfTheProject, InBatch, Committed
    <2>4. /\ Committed(ticket[j].project)' = Committed(ticket[j].project)
          /\ \A e : InBatch(j, e)' <=> InBatch(j, e)
          /\ \A e, f : Overtakes(f, e)' <=> Overtakes(f, e)
      BY <2>2 DEF Committed, InBatch, Overtakes
    <2>5. \A e : Accounted(j, e)' <=> Accounted(j, e)
      BY <2>2, <2>4 DEF Accounted
    <2>6. NothingIsPassed(j)'
      BY <2>1, <2>2, <2>4, <2>5 DEF Stream, NothingIsPassed
    <2> QED BY <2>3, <2>6 DEF Stream
  <1> QED BY <1>1, <1>2, <1>3 DEF IInv

\* The connection is where it has neither begun nor sent anything.
LEMMA EmptyStream ==
  ASSUME NEW k \in Conns, pc[k] \in {"idle", "ticket", "admit", "start"},
         pc[k] \in {"idle", "ticket"} => cursor[k] = None,
         from[k] = None, batch[k] = <<>>, sent[k] = {}
  PROVE  Stream(k)
  BY DEF Stream, Beginning, CursorIsKnown, Open, IsOfTheProject, NothingIsPassed, InBatch

LEMMA CloseKeepsIInv ==
  ASSUME IInv, NEW k \in Conns, Close(k), hiccups' \in 0 .. MaxHiccups
  PROVE  IInv'
  <1>1. /\ pc'[k] = "idle" /\ cursor'[k] = None /\ from'[k] = None /\ batch'[k] = <<>>
        /\ sent'[k] = {}
    BY DEF Close, IInv, Types
  <1>2. Stream(k)'
    BY <1>1 DEF Stream, Beginning, CursorIsKnown, Open, IsOfTheProject, NothingIsPassed, InBatch
  <1>3. /\ pc' \in [Conns -> Steps] /\ DOMAIN ticket' = Conns /\ cursor' \in [Conns -> Ids \cup {None}]
        /\ from' \in [Conns -> Ids \cup {None}] /\ batch' \in [Conns -> Seq(Events)]
        /\ sent' \in [Conns -> SUBSET Events]
    BY DEF Close, IInv, Types, Steps
  <1>4. \A j \in Conns \ {k} :
            /\ pc'[j] = pc[j] /\ ticket'[j] = ticket[j] /\ cursor'[j] = cursor[j]
            /\ from'[j] = from[j] /\ batch'[j] = batch[j] /\ sent'[j] = sent[j]
    BY DEF Close, IInv, Types
  <1>5. UNCHANGED <<clock, writes, credential>>
    BY DEF Close
  <1> QED BY <1>2, <1>3, <1>4, <1>5, StepOfOneStream

\* The connection goes on with what it has.
LEMMA GoKeepsIInv ==
  ASSUME IInv, NEW k \in Conns, NEW to \in {"start", "poll", "fetch"}, Go(k, to),
         hiccups' \in 0 .. MaxHiccups,
         IF to = "start" THEN pc[k] = "admit" ELSE Open(k) /\ batch[k] = <<>>
  PROVE  IInv'
  <1>1. /\ pc'[k] = to /\ pc' \in [Conns -> Steps] /\ (\A j \in Conns \ {k} : pc'[j] = pc[j])
        /\ UNCHANGED <<clock, writes, credential, ticket, cursor, batch, sent, from>>
    BY DEF Go, IInv, Types, Steps
  <1>2. Stream(k) /\ Set(done)' = Set(done)
    BY <1>1 DEF IInv, Set, writes
  <1>3. Beginning(k)' /\ CursorIsKnown(k)' /\ IsOfTheProject(k)'
    BY <1>1, <1>2 DEF Stream, Beginning, CursorIsKnown, Open, IsOfTheProject, InBatch, Committed, writes
  <1>4. NothingIsPassed(k)'
    BY <1>1, <1>2 DEF Stream, NothingIsPassed, Accounted, InBatch, Overtakes, Committed, writes
  <1> QED BY <1>1, <1>3, <1>4, StepOfOneStream DEF Stream, IInv, Types

LEMMA HandshakeKeepsIInv ==
  ASSUME IInv, NEW k \in Conns,
         \/ \E p \in Projects : IssueStreamTicket(k, p)
         \/ \E last \in Ids \cup {None} : Connect(k, last)
  PROVE  IInv'
  <1>1. CASE \E p \in Projects : IssueStreamTicket(k, p)
    <2>1. /\ pc[k] = "idle" /\ pc'[k] = "ticket" /\ pc' \in [Conns -> Steps]
          /\ DOMAIN ticket' = Conns
          /\ \A j \in Conns \ {k} : pc'[j] = pc[j] /\ ticket'[j] = ticket[j]
          /\ UNCHANGED <<clock, writes, credential, hiccups, cursor, batch, sent, from>>
      BY <1>1 DEF IssueStreamTicket, IInv, Types, Steps
    <2>2. cursor[k] = None /\ from[k] = None /\ batch[k] = <<>> /\ sent[k] = {}
      BY <2>1 DEF IInv, Stream, Beginning
    <2>3. Stream(k)'
      BY <2>1, <2>2 DEF Stream, Beginning, CursorIsKnown, Open, IsOfTheProject, NothingIsPassed, InBatch
    <2> QED BY <2>1, <2>3, StepOfOneStream DEF IInv, Types
  <1>2. ASSUME NEW last \in Ids \cup {None}, Connect(k, last)
        PROVE  IInv'
    <2>2. /\ pc[k] = "ticket" /\ pc'[k] = "admit" /\ pc' \in [Conns -> Steps]
          /\ cursor' \in [Conns -> Ids \cup {None}]
          /\ \A j \in Conns \ {k} : pc'[j] = pc[j] /\ cursor'[j] = cursor[j]
          /\ UNCHANGED <<clock, writes, credential, hiccups, ticket, batch, sent, from>>
      BY <1>2 DEF Connect, IInv, Types, Steps
    <2>3. from[k] = None /\ batch[k] = <<>> /\ sent[k] = {}
      BY <2>2 DEF IInv, Stream, Beginning
    <2>4. Stream(k)'
      BY <2>2, <2>3 DEF Stream, Beginning, CursorIsKnown, Open, IsOfTheProject, NothingIsPassed, InBatch
    <2> QED BY <2>2, <2>4, StepOfOneStream DEF IInv, Types
  <1> QED BY <1>1, <1>2

\* What a query after the cursor returns leaves nothing out that came before one of
\* its rows, unless it was accounted for before.
LEMMA ReadKeepsIInv ==
  ASSUME IInv, NEW k \in Conns, NEW c \in Ids \cup {None}, NEW b,
         pc[k] = "start" \/ (pc[k] = "fetch" /\ c = cursor[k]),
         b = ListEventsAfter(ticket[k].project, c) \/ (pc[k] = "start" /\ b = <<>>),
         batch' = [batch EXCEPT ![k] = b],
         cursor' = [cursor EXCEPT ![k] = c],
         from' = IF pc[k] = "start" THEN [from EXCEPT ![k] = c] ELSE from,
         pc' = [pc EXCEPT ![k] = "send"],
         UNCHANGED <<clock, writes, credential, hiccups, ticket, sent>>
  PROVE  IInv'
  <1> USE DEF writes
  <1>1. Types /\ LogIsSound /\ Stream(k)
    BY DEF IInv
  <1>2. PICK p : p = ticket[k].project
    OBVIOUS
  <1>3. /\ b \in Seq(Events) /\ (c = None => b = <<>>)
        /\ \A i \in DOMAIN b : /\ b[i] \in Committed(p)
                               /\ \A e \in Committed(p) : (id[e] > c /\ Before(e, b[i])) =>
                                      \E j \in DOMAIN b : b[j] = e
    <2>1. CASE b = <<>>
      BY <2>1
    <2>2. CASE b = ListEventsAfter(p, c)
      BY <1>1, <2>2, RowsAfterACursor
    <2> QED BY <1>2, <2>1, <2>2
  <1>4. /\ batch'[k] = b /\ cursor'[k] = c /\ pc'[k] = "send" /\ sent' = sent
        /\ ticket' = ticket /\ Set(done)' = Set(done) /\ at' = at /\ id' = id /\ done' = done
        /\ pc[k] = "start" => from'[k] = c /\ sent[k] = {}
        /\ pc[k] = "fetch" => /\ from'[k] = from[k] /\ c = cursor[k] /\ batch[k] = <<>> /\ Open(k)
    BY <1>1 DEF Types, Set, Stream, Beginning, Open
  <1>5. Beginning(k)' /\ IsOfTheProject(k)'
    BY <1>1, <1>2, <1>3, <1>4 DEF Stream, Beginning, IsOfTheProject, InBatch, Committed
  <1>6. CursorIsKnown(k)'
    <2>1. c = from'[k] \/ \E f \in sent[k] : c = id[f]
      BY <1>1, <1>4 DEF Stream, CursorIsKnown
    <2>2. from'[k] = None => b = <<>> /\ sent[k] = {}
      <3>1. CASE pc[k] = "start"
        BY <1>3, <1>4, <3>1
      <3>2. CASE pc[k] = "fetch"
        <4> SUFFICES ASSUME from[k] = None PROVE b = <<>> /\ sent[k] = {}
          BY <1>4, <3>2
        <4>1. sent[k] = {} /\ c = None
          BY <1>1, <1>4, <3>2 DEF Stream, CursorIsKnown
        <4> QED BY <1>3, <4>1
      <3> QED BY <3>1, <3>2
    <2> QED BY <1>4, <2>1, <2>2 DEF CursorIsKnown
  <1>7. NothingIsPassed(k)'
    <2> SUFFICES ASSUME NEW e \in Committed(p), from'[k] # None, from'[k] < id[e]
                 PROVE  /\ id[e] < c => Accounted(k, e)'
                        /\ \A f \in Events : ((\E i \in DOMAIN b : b[i] = f) /\ id[e] < id[f]
                                                 /\ ~Overtakes(f, e)) => Accounted(k, e)'
      BY <1>2, <1>4 DEF NothingIsPassed, InBatch, Committed, Overtakes
    <2>1. e \in Set(done) /\ e \in Events /\ id[e] \in Ids /\ id[e] \in Nat
      BY <1>1, StreamAssumption DEF Committed, Set, LogIsSound, Types, Ids
    <2>2. c \in Nat
      <3>1. c # None
        <4>1. CASE pc[k] = "start"
          BY <1>4, <4>1
        <4>2. CASE pc[k] = "fetch"
          <5>1. from[k] \in Ids /\ (c = from[k] \/ \E f \in sent[k] : f \in Set(done) /\ c = id[f])
            BY <1>1, <1>4, <4>2 DEF Types, Stream, CursorIsKnown, IsOfTheProject, Committed
          <5> QED BY <1>1, <5>1, StreamAssumption DEF LogIsSound, Set, Ids
        <4> QED BY <4>1, <4>2
      <3> QED BY <3>1 DEF Ids
    <2>3. ASSUME id[e] < c \/ id[e] = c
          PROVE  Accounted(k, e)'
      <3>1. pc[k] = "fetch"
        BY <1>4, <2>1, <2>2, <2>3
      <3>2. from[k] # None /\ from[k] < id[e] /\ cursor[k] = c /\ ~InBatch(k, e)
        BY <1>4, <3>1 DEF InBatch
      <3>3. CASE id[e] < c
        <4>1. Accounted(k, e)
          BY <1>1, <1>2, <3>2, <3>3 DEF Stream, NothingIsPassed
        <4> QED BY <1>4, <3>2, <4>1 DEF Accounted, Overtakes
      <3>4. CASE id[e] = c
        <4>1. PICK f \in sent[k] : f \in Events /\ f \in Set(done) /\ id[e] = id[f]
          BY <1>1, <1>4, <2>1, <2>2, <3>1, <3>2, <3>4
             DEF Types, Stream, CursorIsKnown, IsOfTheProject, Committed
        <4>2. e = f
          BY <1>1, <2>1, <4>1 DEF LogIsSound, Numbered
        <4> QED BY <1>4, <4>1, <4>2 DEF Accounted
      <3> QED BY <2>3, <3>3, <3>4
    <2>4. ASSUME NEW i \in DOMAIN b, id[e] < id[b[i]], ~Overtakes(b[i], e), ~(id[e] < c), id[e] # c
          PROVE  Accounted(k, e)'
      <3>1. id[e] > c
        BY <2>1, <2>2, <2>4
      <3>2. b[i] \in Set(done) /\ at[b[i]] \in Nat /\ at[e] \in Nat
        BY <1>1, <1>3, <2>1, StreamAssumption DEF Committed, LogIsSound, Types, Set
      <3>3. Before(e, b[i])
        BY <2>4, <3>2 DEF Overtakes, Before
      <3>4. \E j \in DOMAIN b : b[j] = e
        BY <1>3, <3>1, <3>3
      <3> QED BY <1>4, <3>4 DEF Accounted, InBatch
    <2> QED BY <2>3, <2>4
  <1>8. /\ batch' \in [Conns -> Seq(Events)] /\ cursor' \in [Conns -> Ids \cup {None}]
        /\ from' \in [Conns -> Ids \cup {None}] /\ pc' \in [Conns -> Steps]
        /\ \A j \in Conns \ {k} : /\ batch'[j] = batch[j] /\ cursor'[j] = cursor[j]
                                  /\ from'[j] = from[j] /\ pc'[j] = pc[j]
    BY <1>1, <1>3 DEF Types, Steps
  <1> QED BY <1>1, <1>5, <1>6, <1>7, <1>8, StepOfOneStream DEF Stream, Types

LEMMA StartKeepsIInv ==
  ASSUME IInv, NEW k \in Conns, Start(k)
  PROVE  IInv'
  <1>1. PICK c : c = IF cursor[k] = None THEN LatestEventId(ticket[k].project) ELSE cursor[k]
    OBVIOUS
  <1>2. PICK b : b = IF cursor[k] = None THEN <<>> ELSE ListEventsAfter(ticket[k].project, c)
    OBVIOUS
  <1>3. c \in Ids \cup {None}
    BY <1>1, LatestIsKnown DEF IInv, Types
  <1>4. /\ pc[k] = "start" /\ batch' = [batch EXCEPT ![k] = b] /\ cursor' = [cursor EXCEPT ![k] = c]
        /\ from' = [from EXCEPT ![k] = c] /\ pc' = [pc EXCEPT ![k] = "send"]
        /\ UNCHANGED <<clock, writes, credential, hiccups, ticket, sent>>
    BY <1>1, <1>2 DEF Start
  <1>5. b = ListEventsAfter(ticket[k].project, c) \/ b = <<>>
    BY <1>2
  <1> QED BY <1>3, <1>4, <1>5, ReadKeepsIInv

LEMMA FetchKeepsIInv ==
  ASSUME IInv, NEW k \in Conns, Fetch(k)
  PROVE  IInv'
  <1>1. PICK c \in Ids \cup {None} : c = cursor[k]
    BY DEF IInv, Types
  <1>2. PICK b : b = ListEventsAfter(ticket[k].project, c)
    OBVIOUS
  <1>3. cursor' = [cursor EXCEPT ![k] = c]
    BY <1>1 DEF Fetch, IInv, Types
  <1> QED BY <1>1, <1>2, <1>3, ReadKeepsIInv DEF Fetch

\* The row that is sent takes the cursor past nothing that is not accounted for.
LEMMA SendKeepsIInv ==
  ASSUME IInv, NEW k \in Conns, Send(k)
  PROVE  IInv'
  <1> USE DEF writes
  <1>1. Types /\ LogIsSound /\ Stream(k)
    BY DEF IInv
  <1>2. PICK h : h = Head(batch[k])
    OBVIOUS
  <1>3. /\ pc[k] = "send" /\ batch[k] # <<>> /\ batch[k] \in Seq(Events)
        /\ UNCHANGED <<clock, writes, credential, hiccups, pc, ticket, from>>
        /\ batch'[k] = Tail(batch[k]) /\ cursor'[k] = id[h] /\ sent'[k] = sent[k] \cup {h}
    BY <1>1, <1>2 DEF Send, Types
  <1>4. /\ h \in Events /\ batch'[k] \in Seq(Events)
        /\ \A e : InBatch(k, e) <=> e = h \/ InBatch(k, e)'
    <2>1. /\ h = batch[k][1] /\ h \in Events /\ Len(batch[k]) \in Nat \ {0}
          /\ DOMAIN batch[k] = 1 .. Len(batch[k])
      BY <1>2, <1>3
    <2>2. /\ batch'[k] \in Seq(Events) /\ Len(batch'[k]) = Len(batch[k]) - 1
          /\ DOMAIN batch'[k] = 1 .. Len(batch'[k])
          /\ \A i \in 1 .. Len(batch'[k]) : batch'[k][i] = batch[k][i + 1]
      BY <1>3, HeadTailProperties
    <2>3. ASSUME NEW i \in DOMAIN batch[k], i # 1
          PROVE  i - 1 \in DOMAIN batch'[k] /\ batch'[k][i - 1] = batch[k][i]
      BY <2>1, <2>2, <2>3
    <2>4. ASSUME NEW i \in DOMAIN batch'[k]
          PROVE  i + 1 \in DOMAIN batch[k] /\ batch'[k][i] = batch[k][i + 1]
      BY <2>1, <2>2, <2>4
    <2>5. 1 \in DOMAIN batch[k]
      BY <2>1
    <2> QED BY <2>1, <2>2, <2>3, <2>4, <2>5 DEF InBatch
  <1>5. h \in Committed(ticket[k].project) /\ h \in Set(done) /\ id[h] \in Ids /\ h \in Set(id)
    BY <1>1, <1>4, StreamAssumption DEF Stream, IsOfTheProject, Committed, LogIsSound, Types, Set, Ids
  <1>6. Set(done)' = Set(done) /\ at' = at /\ id' = id /\ done' = done
    BY <1>3 DEF Set
  <1>7. Beginning(k)' /\ IsOfTheProject(k)'
    BY <1>1, <1>3, <1>4, <1>5, <1>6 DEF Stream, Beginning, IsOfTheProject, Committed
  <1>8. CursorIsKnown(k)'
    <2>1. from[k] # None
      BY <1>1, <1>3 DEF Stream, CursorIsKnown, Open
    <2> QED BY <1>3, <1>6, <2>1 DEF CursorIsKnown
  <1>9. \A e \in Events : Accounted(k, e) => Accounted(k, e)'
    BY <1>3, <1>4, <1>6 DEF Accounted, Overtakes
  <1>10. NothingIsPassed(k)'
    <2> SUFFICES ASSUME NEW e \in Committed(ticket[k].project), from[k] # None, from[k] < id[e]
                 PROVE  /\ id[e] < id[h] => Accounted(k, e)'
                        /\ \A f \in Events : (InBatch(k, f)' /\ id[e] < id[f] /\ ~Overtakes(f, e)) =>
                                                 Accounted(k, e)'
      BY <1>3, <1>6 DEF NothingIsPassed, Committed, Overtakes
    <2>1. e \in Events
      BY DEF Committed, Set
    <2>2. ASSUME NEW f \in Events, InBatch(k, f), id[e] < id[f], ~Overtakes(f, e)
          PROVE  Accounted(k, e)'
      BY <1>1, <1>9, <2>1, <2>2 DEF Stream, NothingIsPassed
    <2>3. ASSUME id[e] < id[h], Overtakes(h, e)
          PROVE  Accounted(k, e)'
      BY <1>3, <1>6, <2>3 DEF Accounted, Overtakes
    <2> QED BY <1>4, <2>2, <2>3
  <1>11. /\ batch' \in [Conns -> Seq(Events)] /\ cursor' \in [Conns -> Ids \cup {None}]
         /\ sent' \in [Conns -> SUBSET Events]
         /\ \A j \in Conns \ {k} : /\ batch'[j] = batch[j] /\ cursor'[j] = cursor[j]
                                   /\ sent'[j] = sent[j]
    <2>1. /\ batch' = [batch EXCEPT ![k] = batch'[k]] /\ cursor' = [cursor EXCEPT ![k] = id[h]]
          /\ sent' = [sent EXCEPT ![k] = sent[k] \cup {h}]
      BY <1>1, <1>2, <1>3 DEF Send, Types
    <2> QED BY <1>1, <1>4, <1>5, <2>1 DEF Types
  <1> QED BY <1>1, <1>3, <1>7, <1>8, <1>10, <1>11, StepOfOneStream DEF Stream, Types

(***************************************************************************)
(* Every step                                                              *)
(***************************************************************************)

LEMMA ServeKeepsIInv ==
  ASSUME IInv, NEW k \in Conns, Serve(k)
  PROVE  IInv'
  <1>0. hiccups \in 0 .. MaxHiccups
    BY DEF IInv, Types
  <1>1. CASE Admit(k)
    BY <1>0, <1>1, GoKeepsIInv DEF Admit
  <1>2. CASE Sleep(k)
    BY <1>0, <1>2, GoKeepsIInv DEF Sleep, Open
  <1>3. CASE CheckCredential(k)
    <2>1. Open(k) /\ batch[k] = <<>>
      BY <1>3 DEF CheckCredential, Open, IInv, Stream, Beginning
    <2> QED BY <1>0, <1>3, <2>1, GoKeepsIInv DEF CheckCredential
  <1>4. CASE TurnAway(k) \/ EndRevoked(k)
    BY <1>0, <1>4, CloseKeepsIInv DEF TurnAway, EndRevoked
  <1> QED BY <1>1, <1>2, <1>3, <1>4, StartKeepsIInv, SendKeepsIInv, FetchKeepsIInv DEF Serve

LEMMA FailureKeepsIInv ==
  ASSUME IInv, NEW k \in Conns, RefuseTicket(k) \/ Swallow(k) \/ FailToStart(k) \/ Disconnect(k)
  PROVE  IInv'
  <1>0. hiccups \in 0 .. MaxHiccups /\ (hiccups < MaxHiccups => hiccups + 1 \in 0 .. MaxHiccups)
    BY StreamAssumption DEF IInv, Types
  <1>1. CASE Swallow(k)
    <2>1. Open(k) /\ batch[k] = <<>>
      BY <1>1 DEF Swallow, Open, IInv, Stream, Beginning
    <2> QED BY <1>0, <1>1, <2>1, GoKeepsIInv DEF Swallow
  <1>2. CASE RefuseTicket(k) \/ FailToStart(k) \/ Disconnect(k)
    BY <1>0, <1>2, CloseKeepsIInv DEF RefuseTicket, FailToStart, Disconnect
  <1> QED BY <1>1, <1>2

\* The log and the connections are as they were.
LEMMA SideStepKeepsIInv ==
  ASSUME IInv, UNCHANGED <<writes, hiccups, conns>>, clock' \in 0 .. MaxClock,
         credential' \in BOOLEAN
  PROVE  IInv'
  <1>1. Types' /\ LogIsSound'
    BY DEF IInv, Types, LogIsSound, Numbered, Set, writes, conns
  <1>2. done' = done /\ at' = at /\ id' = id
    BY DEF writes
  <1> QED BY <1>1, <1>2, LogStep

LEMMA NextKeepsIInv == IInv /\ [StreamNext]_streamVars => IInv'
  <1> SUFFICES ASSUME IInv, [StreamNext]_streamVars PROVE IInv'
    OBVIOUS
  <1>1. CASE Log
    BY <1>1, TakeTimeKeepsIInv, MakeIdKeepsIInv, CommitEventKeepsIInv DEF Log
  <1>2. CASE Tick \/ Revoke \/ UNCHANGED streamVars
    <2>0. clock \in 0 .. MaxClock /\ credential \in BOOLEAN /\ MaxClock \in Nat
      BY StreamAssumption DEF IInv, Types
    <2>1. clock' \in 0 .. MaxClock
      BY <1>2, <2>0 DEF Tick, Revoke, streamVars
    <2>3. credential' = credential \/ credential' = FALSE
      BY <1>2 DEF Tick, Revoke, streamVars
    <2>4. credential' \in BOOLEAN
      BY <2>0, <2>3
    <2>2. UNCHANGED <<writes, hiccups, conns>>
      BY <1>2 DEF Tick, Revoke, streamVars
    <2> QED BY <2>1, <2>2, <2>4, SideStepKeepsIInv
  <1>3. ASSUME NEW k \in Conns,
               \/ Serve(k) \/ RefuseTicket(k) \/ Swallow(k) \/ FailToStart(k) \/ Disconnect(k)
               \/ \E p \in Projects : IssueStreamTicket(k, p)
               \/ \E last \in Known(ticket[k].project) : Connect(k, last)
        PROVE  IInv'
    <2>1. Known(ticket[k].project) \subseteq Ids \cup {None}
      BY DEF Known, Committed, Set, IInv, Types
    <2> QED BY <1>3, <2>1, ServeKeepsIInv, FailureKeepsIInv, HandshakeKeepsIInv
  <1> QED BY <1>1, <1>2, <1>3 DEF StreamNext

\* The inductive invariant holds of every reachable state.
THEOREM AlwaysIInv == StreamSpec => []IInv
  BY InitEstablishesIInv, NextKeepsIInv, PTL DEF StreamSpec

\* However transactions and streams interleave, the log numbers its events by age and
\* by commit once each, and a stream sends only what is committed in its project.
THEOREM TypeCorrect == StreamSpec => []StreamTypeOK
  <1>1. IInv => StreamTypeOK
    <2> SUFFICES ASSUME IInv PROVE StreamTypeOK
      OBVIOUS
    <2>1. ASSUME NEW k \in Conns, NEW e \in sent[k] \cup {batch[k][i] : i \in DOMAIN batch[k]}
          PROVE  done[e] # None /\ Project[e] = ticket[k].project
      <3>1. e \in sent[k] \/ InBatch(k, e)
        BY DEF InBatch
      <3>2. e \in Events
        <4>1. batch[k] \in Seq(Events) /\ sent[k] \subseteq Events
          BY DEF IInv, Types
        <4> QED BY <3>1, <4>1 DEF InBatch
      <3> QED BY <3>1, <3>2 DEF IInv, Stream, IsOfTheProject, Committed, Set
    <2> QED BY <2>1 DEF StreamTypeOK, IInv, Types, LogIsSound, Numbered
  <1> QED BY <1>1, AlwaysIInv, PTL

\* A stream passes over an event only when one that is younger by its id came first,
\* by its commit or in the order of created_at.
THEOREM PassedOverOnlyIfOvertaken == StreamSpec => []MissedOnlyIfOvertaken
  <1>1. IInv => MissedOnlyIfOvertaken
    BY DEF IInv, Stream, NothingIsPassed, Accounted, InBatch, Overtakes, MissedOnlyIfOvertaken
  <1> QED BY <1>1, AlwaysIInv, PTL

(***************************************************************************)
(* The client of the stream                                                *)
(***************************************************************************)
Load == [pc : {"idle", "sent", "answered"}, project : Projects \cup {None}, opens : BOOLEAN,
         rows : Seq(Events)]

FeedTypes ==
    /\ selected \in Projects \cup {None} /\ (mounted => selected \in Projects)
    /\ mounted \in BOOLEAN /\ loaded \in BOOLEAN /\ mixed \in BOOLEAN
    /\ events \in Seq(Events)
    /\ lastEvent \in Ids \cup {None}
    /\ current \in Conns \cup {None}
    /\ polling \in Projects \cup {None}
    /\ load \in [Loads -> Load]
    /\ selects \in 0 .. MaxSelects

\* What a feed may show: events that are committed, no more than fit, each once.
Showable(s) ==
    /\ Len(s) <= MaxEvents
    /\ \A i \in DOMAIN s : s[i] \in Set(done)
    /\ \A i, j \in DOMAIN s : s[i] = s[j] => i = j

Loading(l) ==
    /\ load[l].pc = "idle" => ~load[l].opens
    /\ load[l].pc # "idle" => load[l].project \in Projects
    /\ Showable(load[l].rows)
    /\ \A i \in DOMAIN load[l].rows : Project[load[l].rows[i]] = load[l].project

\* The feed knows of an EventSource only while it is there to be closed.
Connected ==
    /\ current # None => Live(current)
    /\ ~mounted => current = None
    /\ \A k \in Conns : pc[k] # "idle" => ticket[k].project \in Projects

\* Without a project picked amid other work, all work is for the one shown, and there
\* is none where none is shown.
AllForSelected ==
    /\ loaded => \A i \in DOMAIN events : Project[events[i]] = selected
    /\ OfSelected(polling)
    /\ \A k \in Conns : pc[k] # "idle" => ticket[k].project = selected
    /\ \A l \in Loads : load[l].pc # "idle" => load[l].project = selected

FeedInv ==
    /\ FeedTypes
    /\ Showable(events)
    /\ \A l \in Loads : Loading(l)
    /\ Connected
    /\ SomeChannel
    /\ Present /\ ~mixed => AllForSelected

LEMMA LoadShapes ==
  /\ NoLoad \in Load /\ NoLoad.pc = "idle" /\ NoLoad.opens = FALSE /\ NoLoad.rows = <<>>
  /\ \A p \in Projects, b \in BOOLEAN :
        /\ StartLoad(p, b) \in Load /\ StartLoad(p, b).pc = "sent"
        /\ StartLoad(p, b).project = p /\ StartLoad(p, b).opens = b
        /\ StartLoad(p, b).rows = <<>>
  <1>1. <<>> \in Seq(Events)
    OBVIOUS
  <1>2. NoLoad = [pc |-> "idle", project |-> None, opens |-> FALSE, rows |-> <<>>]
    BY DEF NoLoad
  <1>3. NoLoad \in Load
    BY <1>1, <1>2 DEF Load
  <1>4. ASSUME NEW p \in Projects, NEW b \in BOOLEAN
        PROVE  /\ StartLoad(p, b) \in Load /\ StartLoad(p, b).pc = "sent"
               /\ StartLoad(p, b).project = p /\ StartLoad(p, b).opens = b
               /\ StartLoad(p, b).rows = <<>>
    <2> DEFINE x == [NoLoad EXCEPT !.pc = "sent"]
               y == [x EXCEPT !.project = p]
               z == [y EXCEPT !.opens = b]
    <2>1. x \in Load /\ x.pc = "sent" /\ x.rows = <<>>
      BY <1>2, <1>3 DEF Load
    <2>2. StartLoad(p, b) = z
      BY DEF StartLoad
    <2> HIDE DEF x
    <2>3. y \in Load /\ y.pc = "sent" /\ y.rows = <<>> /\ y.project = p
      BY <2>1 DEF Load
    <2> HIDE DEF y
    <2>4. z \in Load /\ z.pc = "sent" /\ z.rows = <<>> /\ z.project = p /\ z.opens = b
      BY <2>3 DEF Load
    <2> QED BY <2>2, <2>4
  <1> QED BY <1>2, <1>3, <1>4

LEMMA FeedInitEstablishesInv == FeedInit => IInv /\ FeedInv
  <1> SUFFICES ASSUME FeedInit PROVE IInv /\ FeedInv
    OBVIOUS
  <1>1. IInv /\ pc = [k \in Conns |-> "idle"]
    BY InitEstablishesIInv DEF FeedInit, StreamInit
  <1>2. /\ selected \in Projects /\ mounted = TRUE /\ events = <<>> /\ loaded = FALSE
        /\ lastEvent = None /\ current = None /\ polling = None /\ selects = 0 /\ mixed = FALSE
    BY DEF FeedInit
  <1>3. PICK l \in Loads : load = [x \in Loads |-> IF x = l THEN StartLoad(selected, TRUE) ELSE NoLoad]
    BY DEF FeedInit
  <1>4. PICK x : x = StartLoad(selected, TRUE)
    OBVIOUS
  <1>5. /\ x \in Load /\ x.pc = "sent" /\ x.project = selected /\ x.opens = TRUE /\ x.rows = <<>>
        /\ NoLoad \in Load /\ NoLoad.pc = "idle" /\ NoLoad.opens = FALSE /\ NoLoad.rows = <<>>
        /\ load \in [Loads -> Load] /\ \A j \in Loads : load[j] = IF j = l THEN x ELSE NoLoad
    BY <1>2, <1>3, <1>4, LoadShapes
  <1>6. FeedTypes
    <2>1. events \in Seq(Events) /\ selects \in 0 .. MaxSelects /\ load \in [Loads -> Load]
      BY <1>2, <1>5, FeedAssumption
    <2>2. mounted \in BOOLEAN /\ loaded \in BOOLEAN /\ mixed \in BOOLEAN
      BY <1>2
    <2> QED BY <1>2, <2>1, <2>2 DEF FeedTypes
  <1>7. Showable(<<>>)
    BY FeedAssumption DEF Showable
  <1>8. \A j \in Loads : Loading(j)
    BY <1>2, <1>5, <1>7 DEF Loading
  <1>9. Connected
    BY <1>1, <1>2 DEF Connected
  <1>10. SomeChannel
    BY <1>3, <1>5 DEF SomeChannel
  <1>11. AllForSelected
    BY <1>1, <1>2, <1>5 DEF AllForSelected, OfSelected
  <1> QED BY <1>1, <1>2, <1>6, <1>7, <1>8, <1>9, <1>10, <1>11 DEF FeedInv, Present

(***************************************************************************)
(* The lists                                                               *)
(***************************************************************************)

\* A load returns no more than the feed shows, each event once.
LEMMA LoadsAreShowable ==
  ASSUME Types, LogIsSound, NEW p
  PROVE  /\ ListEvents(p) \in Seq(Events) /\ Showable(ListEvents(p))
         /\ \A i \in DOMAIN ListEvents(p) : Project[ListEvents(p)[i]] = p
  <1> DEFINE S == Committed(p)
             o == Ordered(S)
             r == Reversed(o)
             l == FirstOf(r, LoadLimit)
             n == Cardinality(S)
  <1>1. S \in SUBSET Set(done) /\ S \subseteq Events /\ \A e \in S : Project[e] = p
    BY DEF Committed, Set
  <1>2. IsFiniteSet(S) /\ n \in Nat
    BY <1>1, FS_Subset, FS_CardinalityType, StreamAssumption
  <1>3. l = ListEvents(p)
    BY DEF ListEvents
  <1> HIDE DEF S
  <1>4. o \in Seq(S) /\ Len(o) = n /\ \A i, j \in 1 .. n : o[i] = o[j] => i = j
    BY <1>1, <1>2, OrderedRows
  <1>5. r = [i \in 1 .. Len(o) |-> o[Len(o) + 1 - i]]
    BY DEF Reversed
  <1> HIDE DEF o, n, r
  <1>6. /\ r \in Seq(S) /\ Len(r) = n /\ DOMAIN r = 1 .. n
        /\ \A i, j \in 1 .. n : r[i] = r[j] => i = j
    <2>1. \A i \in 1 .. n : n + 1 - i \in 1 .. n /\ r[i] = o[n + 1 - i] /\ o[n + 1 - i] \in S
      BY <1>2, <1>4, <1>5
    <2>2. r \in Seq(S) /\ Len(r) = n /\ DOMAIN r = 1 .. n
      BY <1>2, <1>4, <1>5, <2>1
    <2>3. ASSUME NEW i \in 1 .. n, NEW j \in 1 .. n, r[i] = r[j]
          PROVE  i = j
      <3>1. n + 1 - i = n + 1 - j
        BY <1>4, <2>1, <2>3
      <3> QED BY <1>2, <3>1
    <2> QED BY <2>2, <2>3
  <1>7. LoadLimit \in Nat /\ LoadLimit <= MaxEvents /\ MaxEvents \in Nat
    BY FeedAssumption
  <1>8. /\ l \in Seq(S) /\ Len(l) <= n /\ Len(l) <= LoadLimit
        /\ \A i \in 1 .. Len(l) : l[i] = r[i]
    BY <1>6, <1>7, FirstRows
  <1> HIDE DEF l
  <1>9. DOMAIN l = 1 .. Len(l) /\ Len(l) \in Nat /\ \A i \in 1 .. Len(l) : l[i] \in S
    BY <1>8
  <1>10. Len(l) <= MaxEvents
    BY <1>7, <1>8, <1>9
  <1>11. \A i, j \in 1 .. Len(l) : l[i] = l[j] => i = j
    BY <1>2, <1>6, <1>8, <1>9
  <1>12. l \in Seq(Events)
    BY <1>1, <1>8
  <1>13. Showable(l)
    BY <1>1, <1>9, <1>10, <1>11 DEF Showable
  <1>14. \A i \in DOMAIN l : Project[l[i]] = p
    BY <1>1, <1>9
  <1> QED BY <1>3, <1>12, <1>13, <1>14

\* An event that arrives is put in front, unless it is there.
LEMMA AppendedIsShowable ==
  ASSUME events \in Seq(Events), Showable(events), NEW e \in Set(done)
  PROVE  /\ Appended(e) \in Seq(Events) /\ Showable(Appended(e))
         /\ \A i \in DOMAIN Appended(e) :
               Appended(e)[i] = e \/ \E j \in DOMAIN events : events[j] = Appended(e)[i]
  <1>1. CASE \E i \in DOMAIN events : events[i] = e
    BY <1>1 DEF Appended
  <1>2. CASE ~\E i \in DOMAIN events : events[i] = e
    <2> DEFINE w == <<e>> \o events
               l == FirstOf(w, MaxEvents)
    <2>1. l = Appended(e) /\ e \in Events
      BY <1>2 DEF Appended, Set
    <2>2. PICK n \in Nat : n = Len(events) /\ DOMAIN events = 1 .. n
      OBVIOUS
    <2>3. /\ w \in Seq(Events) /\ Len(w) = n + 1 /\ w[1] = e
          /\ \A i \in 2 .. n + 1 : i - 1 \in 1 .. n /\ w[i] = events[i - 1]
      BY <2>1, <2>2
    <2>4. MaxEvents \in Nat
      BY FeedAssumption
    <2> HIDE DEF w
    <2>5. /\ l \in Seq(Events) /\ Len(l) <= n + 1 /\ Len(l) <= MaxEvents
          /\ \A i \in 1 .. Len(l) : l[i] = w[i]
      BY <2>3, <2>4, FirstRows
    <2> HIDE DEF l
    <2>6. DOMAIN l = 1 .. Len(l) /\ Len(l) \in Nat
      BY <2>5
    <2>7. \A i \in 1 .. n : events[i] \in Set(done) /\ events[i] # e
      BY <1>2, <2>2 DEF Showable
    <2>8. \A i \in 1 .. Len(l) : IF i = 1 THEN l[i] = e
                                 ELSE i - 1 \in 1 .. n /\ l[i] = events[i - 1]
      BY <2>3, <2>5, <2>6
    <2>9. \A i \in DOMAIN l : l[i] \in Set(done)
      BY <2>6, <2>7, <2>8
    <2>10. ASSUME NEW i \in 1 .. Len(l), NEW j \in 1 .. Len(l), l[i] = l[j]
           PROVE  i = j
      <3>1. CASE i = 1 \/ j = 1
        BY <2>7, <2>8, <2>10, <3>1
      <3>2. CASE i # 1 /\ j # 1
        <4>1. i - 1 = j - 1
          BY <2>2, <2>8, <2>10, <3>2 DEF Showable
        <4> QED BY <2>6, <4>1
      <3> QED BY <3>1, <3>2
    <2>11. Showable(l)
      BY <2>5, <2>6, <2>9, <2>10 DEF Showable
    <2>12. \A i \in DOMAIN l : l[i] = e \/ \E j \in DOMAIN events : events[j] = l[i]
      BY <2>2, <2>6, <2>8
    <2> QED BY <2>1, <2>5, <2>11, <2>12
  <1> QED BY <1>1, <1>2

LEMMA StillShowable ==
  ASSUME Set(done) \subseteq Set(done)'
  PROVE  \A s : Showable(s) => Showable(s)'
  BY DEF Showable

\* One load changes, or none, and the log has no less.
LEMMA LoadStep ==
  ASSUME FeedInv, NEW l \in Loads, NEW x \in Load, load' = [load EXCEPT ![l] = x],
         Set(done) \subseteq Set(done)',
         x.pc = "idle" => ~x.opens, x.pc # "idle" => x.project \in Projects,
         Showable(x.rows), \A i \in DOMAIN x.rows : Project[x.rows[i]] = x.project
  PROVE  load' \in [Loads -> Load] /\ \A j \in Loads : Loading(j)'
  <1>1. load \in [Loads -> Load] /\ \A s : Showable(s) => Showable(s)'
    BY StillShowable DEF FeedInv, FeedTypes
  <1>2. ASSUME NEW j \in Loads PROVE Loading(j)'
    <2>1. CASE j = l
      <3>1. load'[j] = x /\ Showable(x.rows)'
        BY <1>1, <2>1
      <3> QED BY <3>1 DEF Loading
    <2>2. CASE j # l
      <3>1. load'[j] = load[j] /\ Loading(j)
        BY <1>1, <2>2 DEF FeedInv
      <3>2. Showable(load[j].rows)'
        <4>1. PICK s : s = load[j].rows
          OBVIOUS
        <4>2. Showable(s)'
          BY <1>1, <3>1, <4>1 DEF Loading
        <4> QED BY <3>1, <4>1, <4>2
      <3> QED BY <3>1, <3>2 DEF Loading
    <2> QED BY <2>1, <2>2
  <1> QED BY <1>1, <1>2

LEMMA ListsStay ==
  ASSUME FeedInv, UNCHANGED <<events, load>>, Set(done) \subseteq Set(done)'
  PROVE  Showable(events)' /\ \A l \in Loads : Loading(l)'
  <1>1. \A s : Showable(s) => Showable(s)'
    BY StillShowable
  <1>2. Showable(events)'
    <2>1. PICK s : s = events
      OBVIOUS
    <2>2. Showable(s)'
      BY <1>1, <2>1 DEF FeedInv
    <2> QED BY <2>1, <2>2
  <1>3. ASSUME NEW l \in Loads PROVE Loading(l)'
    <2>1. Loading(l) /\ load'[l] = load[l]
      BY DEF FeedInv
    <2>2. Showable(load[l].rows)'
      <3>1. PICK s : s = load[l].rows
        OBVIOUS
      <3>2. Showable(s)'
        BY <1>1, <2>1, <3>1 DEF Loading
      <3> QED BY <2>1, <3>1, <3>2
    <2> QED BY <2>1, <2>2 DEF Loading
  <1> QED BY <1>2, <1>3

(***************************************************************************)
(* The connections, under the feed                                         *)
(***************************************************************************)

\* The verb that appends an event takes its time, its id and its place at once.
LEMMA AppendEventKeepsIInv ==
  ASSUME IInv, NEW e \in Events, AppendEvent(e)
  PROVE  IInv' /\ Set(done) \subseteq Set(done)'
  <1>0. Types /\ LogIsSound
    BY DEF IInv
  <1>1. PICK f, g : /\ f = id' /\ f = [id EXCEPT ![e] = Cardinality(Set(id)) + 1]
                    /\ g = done' /\ g = [done EXCEPT ![e] = Cardinality(Set(done)) + 1]
    BY DEF AppendEvent
  <1>2. /\ at[e] = None /\ at' = [at EXCEPT ![e] = clock] /\ clock \in 0 .. MaxClock
        /\ UNCHANGED <<clock, credential, hiccups, conns>>
    BY <1>0 DEF AppendEvent, Types
  <1>3. e \notin Set(at) /\ e \notin Set(id) /\ e \notin Set(done) /\ id[e] = None /\ done[e] = None
    BY <1>0, <1>2 DEF LogIsSound, Set
  <1>4. /\ f \in [Events -> Ids \cup {None}] /\ Numbered(f) /\ Set(f) = Set(id) \cup {e}
        /\ \A d \in Events \ {e} : f[d] = id[d]
        /\ f[e] \in Nat /\ \A d \in Set(id) : id[d] \in Nat /\ id[d] < f[e]
    BY <1>0, <1>1, <1>3, NextNumber DEF Types, LogIsSound
  <1>5. /\ g \in [Events -> Ids \cup {None}] /\ Numbered(g) /\ Set(g) = Set(done) \cup {e}
        /\ \A d \in Events \ {e} : g[d] = done[d]
    BY <1>0, <1>1, <1>3, NextNumber DEF Types, LogIsSound
  <1>6. Types'
    BY <1>0, <1>1, <1>2, <1>4, <1>5 DEF Types, conns
  <1>7. Set(at)' = Set(at) \cup {e} /\ Set(id)' = Set(id) \cup {e} /\ Set(done)' = Set(done) \cup {e}
    <2>1. clock # None
      BY <1>2, StreamAssumption
    <2>2. Set(at)' = Set(at) \cup {e}
      BY <1>0, <1>2, <2>1 DEF Set, Types
    <2> QED BY <1>1, <1>4, <1>5, <2>2 DEF Set
  <1>8. LogIsSound'
    <2>1. Numbered(id)'
      BY <1>1, <1>4 DEF Numbered, Set
    <2>2. Numbered(done)'
      BY <1>1, <1>5 DEF Numbered, Set
    <2> QED BY <1>0, <1>7, <2>1, <2>2 DEF LogIsSound
  <1>9. /\ \A d \in Set(id) : d # e /\ id'[d] = id[d] /\ id[d] \in Nat /\ id[d] < id'[e]
        /\ \A d \in Set(done) : d # e /\ d \in Events /\ d \in Set(id) /\ done'[d] = done[d] /\ at'[d] = at[d]
    BY <1>0, <1>1, <1>2, <1>3, <1>4, <1>5 DEF Set, LogIsSound, Types
  <1>10. ASSUME NEW k \in Conns
         PROVE  Stream(k)'
    <2>1. /\ Stream(k) /\ sent[k] \subseteq Events /\ batch[k] \in Seq(Events)
          /\ from[k] \in Ids \cup {None} /\ cursor[k] \in Ids \cup {None}
      BY <1>0 DEF IInv, Types
    <2>2. /\ pc'[k] = pc[k] /\ ticket'[k] = ticket[k] /\ cursor'[k] = cursor[k]
          /\ from'[k] = from[k] /\ batch'[k] = batch[k] /\ sent'[k] = sent[k]
      BY <1>2 DEF conns
    <2>3. \A p : Committed(p) \subseteq Committed(p)' /\ Committed(p)' \subseteq Committed(p) \cup {e}
      BY <1>7 DEF Committed
    <2>4. \A d : InBatch(k, d)' <=> InBatch(k, d)
      BY <2>2 DEF InBatch
    <2>5. \A d \in Events : d \in sent[k] \/ InBatch(k, d) => d \in Set(done)
      BY <2>1 DEF Stream, IsOfTheProject, Committed
    <2>6. Beginning(k)' /\ IsOfTheProject(k)'
      BY <2>1, <2>2, <2>3, <2>4 DEF Stream, Beginning, IsOfTheProject
    <2>7. CursorIsKnown(k)'
      <3>1. \A d \in sent[k] : id'[d] = id[d]
        BY <1>9, <2>1, <2>5
      <3> QED BY <2>1, <2>2, <3>1 DEF Stream, CursorIsKnown, Open
    <2>8. ASSUME NEW d \in Committed(ticket[k].project)', from[k] # None, from[k] < id'[d]
          PROVE  /\ id'[d] < cursor[k] => Accounted(k, d)'
                 /\ \A h \in Events : (InBatch(k, h) /\ id'[d] < id'[h] /\ ~Overtakes(h, d)') =>
                                          Accounted(k, d)'
      <3>1. CASE d = e
        <4>1. \A h \in Events : InBatch(k, h) => ~(id'[d] < id'[h])
          <5>1. ASSUME NEW h \in Events, InBatch(k, h), id'[d] < id'[h] PROVE FALSE
            <6>1. id'[h] = id[h] /\ id[h] \in Nat /\ id[h] < id'[e]
              BY <1>9, <2>5, <5>1
            <6>2. id'[e] \in Nat
              BY <1>1, <1>4
            <6> QED BY <3>1, <5>1, <6>1, <6>2
          <5> QED BY <5>1
        <4>2. ~(id'[d] < cursor[k])
          <5> SUFFICES ASSUME id'[d] < cursor[k] PROVE FALSE
            OBVIOUS
          <5>1. Open(k)
            BY <2>1, <2>8 DEF Stream, Beginning, Open, IInv, Types, Steps
          <5>2. id'[e] \in Nat /\ from[k] \in Nat
            BY <1>1, <1>4, <2>1, <2>8 DEF Ids
          <5>3. cursor[k] # from[k]
            BY <2>8, <3>1, <5>2
          <5>4. PICK h \in sent[k] : cursor[k] = id[h]
            BY <2>1, <5>1, <5>3 DEF Stream, CursorIsKnown
          <5>5. id[h] \in Nat /\ id[h] < id'[e]
            BY <1>9, <2>1, <2>5, <5>4
          <5> QED BY <3>1, <5>2, <5>4, <5>5
        <4> QED BY <4>1, <4>2
      <3>2. CASE d # e
        <4>1. d \in Committed(ticket[k].project) /\ d \in Set(done)
          BY <2>2, <2>3, <2>8, <3>2 DEF Committed
        <4>2. id'[d] = id[d] /\ done'[d] = done[d] /\ at'[d] = at[d]
          BY <1>9, <4>1
        <4>3. \A h \in Events : h \in sent[k] \/ InBatch(k, h) =>
                 id'[h] = id[h] /\ (Overtakes(h, d)' <=> Overtakes(h, d))
          BY <1>9, <2>5, <4>2 DEF Overtakes
        <4>4. Accounted(k, d) => Accounted(k, d)'
          BY <2>1, <2>2, <2>4, <4>3 DEF Accounted
        <4> QED BY <2>1, <2>8, <4>1, <4>2, <4>3, <4>4 DEF Stream, NothingIsPassed
      <3> QED BY <3>1, <3>2
    <2>9. NothingIsPassed(k)'
      BY <2>2, <2>4, <2>8 DEF NothingIsPassed
    <2> QED BY <2>6, <2>7, <2>9 DEF Stream
  <1> QED BY <1>6, <1>7, <1>8, <1>10 DEF IInv

Others(k) == \A j \in Conns \ {k} : pc'[j] = pc[j] /\ ticket'[j] = ticket[j]
GoesOn(k) == Others(k) /\ pc[k] # "idle" /\ Live(k)' /\ ticket'[k] = ticket[k] /\ UNCHANGED writes
Ends(k) == Others(k) /\ pc[k] # "idle" /\ pc'[k] = "idle" /\ UNCHANGED writes
NoneComes ==
    /\ \A j \in Conns : pc'[j] # "idle" => pc[j] # "idle" /\ ticket'[j] = ticket[j]
    /\ UNCHANGED writes

LEMMA AtWork ==
  ASSUME IInv, NEW k \in Conns, Admit(k) \/ Start(k) \/ Send(k) \/ Sleep(k) \/ CheckCredential(k) \/ Fetch(k)
  PROVE  IInv' /\ GoesOn(k) /\ NoneComes /\ Live(k)
  <1>1. IInv'
    BY ServeKeepsIInv DEF Serve
  <1>2. pc \in [Conns -> Steps]
    BY DEF IInv, Types
  <1>3. GoesOn(k) /\ Live(k)
    BY <1>2 DEF Admit, Start, Send, Sleep, CheckCredential, Fetch, Go, GoesOn, Others, Live, Open
  <1> QED BY <1>1, <1>3 DEF GoesOn, Others, NoneComes

LEMMA AtTheEnd ==
  ASSUME IInv, NEW k \in Conns, TurnAway(k) \/ EndRevoked(k) \/ Disconnect(k)
  PROVE  IInv' /\ Ends(k) /\ NoneComes
  <1>1. IInv'
    BY ServeKeepsIInv, FailureKeepsIInv DEF Serve
  <1>2. pc \in [Conns -> Steps] /\ DOMAIN ticket = Conns
    BY DEF IInv, Types
  <1>3. Close(k) /\ pc[k] # "idle"
    BY DEF TurnAway, EndRevoked, Disconnect
  <1>4. Ends(k)
    BY <1>2, <1>3 DEF Close, Ends, Others
  <1> QED BY <1>1, <1>4 DEF Ends, Others, NoneComes

LEMMA AtTheDoor ==
  ASSUME IInv, NEW k \in Conns, NEW last \in Ids \cup {None}, Connect(k, last)
  PROVE  IInv' /\ GoesOn(k) /\ NoneComes
  <1>1. IInv'
    BY HandshakeKeepsIInv
  <1>2. pc \in [Conns -> Steps]
    BY DEF IInv, Types
  <1>3. GoesOn(k)
    BY <1>2 DEF Connect, GoesOn, Others, Live
  <1> QED BY <1>1, <1>3 DEF GoesOn, Others, NoneComes

\* openSse asks for a ticket, or polls, or knows of an EventSource.
LEMMA OpenSseFacts ==
  ASSUME IInv, FeedInv, NEW p, mounted => p \in Projects, OpenSse(p)
  PROVE  /\ IInv' /\ UNCHANGED writes
         /\ polling' = polling \/ (mounted /\ polling = None /\ polling' = p)
         /\ \A j \in Conns : \/ pc'[j] = pc[j] /\ ticket'[j] = ticket[j]
                             \/ /\ pc[j] = "idle" /\ pc'[j] = "ticket" /\ ticket'[j].project = p
                                /\ mounted
         /\ mounted => \/ polling' # None
                       \/ \E j \in Conns : Live(j)' \/ pc'[j] = "ticket"
  <1>1. pc \in [Conns -> Steps] /\ DOMAIN ticket = Conns
    BY DEF IInv, Types
  <1>2. CASE (current # None \/ ~mounted) /\ UNCHANGED <<polling, streamVars>>
    <2>1. UNCHANGED <<clock, at, id, done, credential, hiccups, pc, ticket, cursor, batch, sent, from>>
      BY <1>2 DEF streamVars, writes, conns
    <2>2. IInv'
      BY <1>2, NextKeepsIInv
    <2>3. mounted => \E j \in Conns : Live(j)'
      <3>1. mounted => current \in Conns /\ Live(current)
        BY <1>2 DEF FeedInv, FeedTypes, Connected
      <3>2. \A j \in Conns : Live(j) => Live(j)'
        BY <2>1 DEF Live, Open
      <3> QED BY <3>1, <3>2
    <2> QED BY <1>2, <2>1, <2>2, <2>3 DEF writes
  <1>3. ASSUME NEW k \in Conns, p \in Projects, IssueStreamTicket(k, p), UNCHANGED polling
        PROVE  /\ IInv' /\ UNCHANGED writes
               /\ \A j \in Conns : \/ pc'[j] = pc[j] /\ ticket'[j] = ticket[j]
                                   \/ pc[j] = "idle" /\ pc'[j] = "ticket" /\ ticket'[j].project = p
               /\ pc'[k] = "ticket"
    <2>1. IInv'
      BY <1>3, HandshakeKeepsIInv
    <2> QED BY <1>1, <1>3, <2>1 DEF IssueStreamTicket
  <1>4. CASE current = None /\ mounted /\ ~credential /\ StartPolling(p) /\ UNCHANGED streamVars
    <2>1. IInv'
      BY <1>4, NextKeepsIInv
    <2>2. UNCHANGED <<writes, pc, ticket>>
      BY <1>4 DEF streamVars, conns
    <2>3. polling' # None
      BY <1>4, StreamAssumption DEF StartPolling
    <2> QED BY <1>4, <2>1, <2>2, <2>3 DEF StartPolling
  <1> QED BY <1>2, <1>3, <1>4 DEF OpenSse

(***************************************************************************)
(* The steps of the feed                                                   *)
(***************************************************************************)

\* A step of the connections that leaves the lists and the loads as they are.
LEMMA StreamStep ==
  ASSUME FeedInv, UNCHANGED <<view, load>>, NoneComes,
         current' \in Conns \cup {None}, current' # None => mounted /\ Live(current)',
         \/ polling' = polling \/ polling' = None
         \/ \E k \in Conns : pc[k] # "idle" /\ polling' = ticket[k].project,
         SomeChannel'
  PROVE  FeedInv'
  <1>1. /\ UNCHANGED <<selected, mounted, events, loaded, lastEvent, selects, mixed, load, done>>
        /\ Set(done)' = Set(done)
    BY DEF view, NoneComes, writes, Set
  <1>2. polling' \in Projects \cup {None}
    BY DEF FeedInv, FeedTypes, Connected
  <1>3. FeedTypes'
    BY <1>1, <1>2 DEF FeedInv, FeedTypes
  <1>4. Showable(events)' /\ \A l \in Loads : Loading(l)'
    BY <1>1, ListsStay
  <1>5. Connected'
    BY <1>1 DEF FeedInv, Connected, NoneComes
  <1>6. (Present /\ ~mixed => AllForSelected)'
    BY <1>1 DEF FeedInv, Present, AllForSelected, OfSelected, NoneComes
  <1> QED BY <1>1, <1>3, <1>4, <1>5, <1>6 DEF FeedInv

\* What ends leaves a channel: its own end starts the timer, or the feed is gone.
LEMMA ChannelGoesOn ==
  ASSUME FeedInv, NEW k \in Conns, UNCHANGED <<mounted, load>>, GoesOn(k),
         polling' = polling \/ Live(k)'
  PROVE  SomeChannel'
  BY DEF FeedInv, SomeChannel, GoesOn, Others, Live, Open

LEMMA TimerStarts ==
  ASSUME NEW p, p # None, StartPolling(p) \/ FallBack(p), mounted' = mounted
  PROVE  SomeChannel'
  BY DEF FallBack, StartPolling, SomeChannel

LEMMA OpenSourceKeepsInv ==
  ASSUME IInv, FeedInv, NEW k \in Conns, OpenSource(k)
  PROVE  IInv' /\ FeedInv'
  <1>0. UNCHANGED <<view, load, mounted>>
    BY DEF OpenSource, view
  <1>1. CASE mounted /\ Connect(k, lastEvent) /\ current' = k /\ UNCHANGED polling
    <2>1. lastEvent \in Ids \cup {None}
      BY DEF FeedInv, FeedTypes
    <2>2. IInv' /\ GoesOn(k) /\ NoneComes
      BY <1>1, <2>1, AtTheDoor
    <2>3. Live(current)'
      BY <1>1, <2>2 DEF GoesOn, Live, Open
    <2>4. SomeChannel'
      BY <1>0, <1>1, <2>2, ChannelGoesOn
    <2> QED BY <1>0, <1>1, <2>2, <2>3, <2>4, StreamStep
  <1>2. CASE ~mounted /\ Disconnect(k) /\ UNCHANGED refs
    <2>1. IInv' /\ NoneComes
      BY <1>2, AtTheEnd
    <2>2. current' = None /\ polling' = polling
      BY <1>2 DEF refs, FeedInv, Connected
    <2>3. SomeChannel'
      BY <1>0, <1>2 DEF SomeChannel
    <2> QED BY <1>0, <2>1, <2>2, <2>3, StreamStep
  <1> QED BY <1>1, <1>2 DEF OpenSource

LEMMA TicketFailsKeepsInv ==
  ASSUME IInv, FeedInv, NEW k \in Conns, TicketFails(k)
  PROVE  IInv' /\ FeedInv'
  <1>1. /\ UNCHANGED <<view, load, current, mounted>> /\ pc[k] = "ticket"
        /\ Disconnect(k) /\ FallBack(ticket[k].project)
    BY DEF TicketFails, view
  <1>2. IInv' /\ NoneComes /\ Ends(k)
    BY <1>1, AtTheEnd
  <1>3. ticket[k].project \in Projects /\ ticket[k].project # None
    BY <1>1, StreamAssumption DEF FeedInv, Connected
  <1>4. SomeChannel'
    BY <1>1, <1>3, TimerStarts
  <1>5. current' # None => mounted /\ Live(current)'
    <2>1. current # None => current \in Conns /\ Live(current) /\ mounted
      BY DEF FeedInv, FeedTypes, Connected
    <2>2. ~Live(k)
      BY <1>1 DEF Live, Open
    <2> QED BY <1>1, <1>2, <2>1, <2>2 DEF Ends, Others, Live, Open
  <1>6. current' \in Conns \cup {None}
    BY <1>1 DEF FeedInv, FeedTypes
  <1>7. polling' = polling \/ polling' = ticket[k].project
    BY <1>1 DEF FallBack, StartPolling
  <1> QED BY <1>1, <1>2, <1>4, <1>5, <1>6, <1>7, StreamStep

LEMMA OnOpenKeepsInv ==
  ASSUME IInv, FeedInv, NEW k \in Conns, OnOpen(k)
  PROVE  IInv' /\ FeedInv'
  <1>0. UNCHANGED <<view, load, current, mounted>> /\ current' \in Conns \cup {None}
    BY DEF OnOpen, view, FeedInv, FeedTypes
  <1>1. current # None => current \in Conns /\ Live(current) /\ mounted
    BY DEF FeedInv, FeedTypes, Connected
  <1>2. CASE mounted /\ Admit(k) /\ polling' = None
    <2>1. IInv' /\ GoesOn(k) /\ NoneComes /\ Live(k)'
      BY <1>2, AtWork DEF GoesOn
    <2>2. current' # None => mounted /\ Live(current)'
      BY <1>0, <1>1, <2>1 DEF GoesOn, Others, Live, Open
    <2>3. SomeChannel'
      BY <1>0, <2>1, ChannelGoesOn
    <2> QED BY <1>0, <1>2, <2>1, <2>2, <2>3, StreamStep
  <1>3. CASE ~mounted /\ Disconnect(k) /\ UNCHANGED polling
    <2>1. IInv' /\ NoneComes
      BY <1>3, AtTheEnd
    <2>2. SomeChannel' /\ current' = None
      BY <1>0, <1>1, <1>3 DEF SomeChannel
    <2> QED BY <1>0, <1>3, <2>1, <2>2, StreamStep
  <1> QED BY <1>2, <1>3 DEF OnOpen

LEMMA OnEndKeepsInv ==
  ASSUME IInv, FeedInv, NEW k \in Conns, OnEnd(k)
  PROVE  IInv' /\ FeedInv'
  <1>1. /\ UNCHANGED <<view, load, mounted>> /\ Live(k) /\ current' = None
        /\ FallBack(ticket[k].project)
    BY DEF OnEnd, OnError, view
  <1>2. IInv' /\ NoneComes /\ Ends(k)
    BY AtTheEnd DEF OnEnd
  <1>3. pc[k] # "idle" /\ ticket[k].project # None
    BY <1>2, StreamAssumption DEF Ends, FeedInv, Connected
  <1>4. SomeChannel'
    BY <1>1, <1>3, TimerStarts
  <1>5. polling' = polling \/ polling' = ticket[k].project
    BY <1>1 DEF FallBack, StartPolling
  <1> QED BY <1>1, <1>2, <1>3, <1>4, <1>5, StreamStep

LEMMA WorkKeepsInv ==
  ASSUME IInv, FeedInv, NEW k \in Conns, Work(k)
  PROVE  IInv' /\ FeedInv'
  <1>1. UNCHANGED <<view, load, mounted, current, polling>> /\ current' \in Conns \cup {None}
    BY DEF Work, view, refs, FeedInv, FeedTypes
  <1>2. IInv' /\ GoesOn(k) /\ NoneComes
    BY AtWork DEF Work
  <1>3. SomeChannel'
    BY <1>1, <1>2, ChannelGoesOn
  <1>4. current # None => current \in Conns /\ Live(current) /\ mounted
    BY DEF FeedInv, FeedTypes, Connected
  <1>5. current' # None => mounted /\ Live(current)'
    BY <1>1, <1>2, <1>4 DEF GoesOn, Others, Live, Open
  <1> QED BY <1>1, <1>2, <1>3, <1>5, StreamStep

\* What a load, or what follows it, does to the connections.
LEMMA ConnectionsAfterOpenSse ==
  ASSUME IInv, FeedInv, NEW p, mounted => p \in Projects, OpenSse(p), UNCHANGED <<mounted, current>>
  PROVE  Connected' /\ Set(done)' = Set(done) /\ polling' \in Projects \cup {None}
  <1>1. /\ UNCHANGED writes /\ (polling' = polling \/ (mounted /\ polling' = p))
        /\ \A j \in Conns : \/ pc'[j] = pc[j] /\ ticket'[j] = ticket[j]
                            \/ /\ pc[j] = "idle" /\ pc'[j] = "ticket" /\ ticket'[j].project = p
                               /\ mounted
    BY OpenSseFacts
  <1>2. current # None => current \in Conns /\ Live(current)
    BY DEF FeedInv, FeedTypes, Connected
  <1>3. \A j \in Conns : Live(j) => Live(j)'
    BY <1>1 DEF Live, Open
  <1>4. Connected'
    BY <1>1, <1>2, <1>3 DEF FeedInv, Connected
  <1> QED BY <1>1, <1>4 DEF writes, Set, FeedInv, FeedTypes

LEMMA AnswerLoadKeepsInv ==
  ASSUME IInv, FeedInv, NEW l \in Loads, AnswerLoad(l)
  PROVE  IInv' /\ FeedInv'
  <1>1. PICK r : r = ListEvents(load[l].project)
    OBVIOUS
  <1>2. /\ load[l].pc = "sent"
        /\ load' = [load EXCEPT ![l].pc = "answered", ![l].rows = r]
        /\ UNCHANGED <<view, refs, streamVars>>
    BY <1>1 DEF AnswerLoad
  <1>3. /\ UNCHANGED <<selected, mounted, events, loaded, lastEvent, selects, mixed, current, polling>>
        /\ UNCHANGED <<done, pc, ticket>> /\ Set(done)' = Set(done)
    BY <1>2 DEF view, refs, streamVars, writes, conns, Set
  <1>4. IInv'
    BY <1>2, NextKeepsIInv
  <1>5. /\ r \in Seq(Events) /\ Showable(r)
        /\ \A i \in DOMAIN r : Project[r[i]] = load[l].project
    BY <1>1, LoadsAreShowable DEF IInv
  <1>6. load \in [Loads -> Load] /\ load[l] \in Load
    BY DEF FeedInv, FeedTypes
  <1>7. PICK y : y = [load[l] EXCEPT !.pc = "answered"]
    OBVIOUS
  <1>8. y \in Load /\ y.pc = "answered" /\ y.project = load[l].project /\ y.opens = load[l].opens
    BY <1>6, <1>7 DEF Load
  <1>9. PICK x : x = [y EXCEPT !.rows = r]
    OBVIOUS
  <1>10. /\ x \in Load /\ x.pc = "answered" /\ x.project = load[l].project
         /\ x.opens = load[l].opens /\ x.rows = r
    BY <1>5, <1>8, <1>9 DEF Load
  <1>11. load' = [load EXCEPT ![l] = x]
    BY <1>2, <1>6, <1>7, <1>9
  <1>12. load[l].project \in Projects
    BY <1>2 DEF FeedInv, Loading
  <1>13. load' \in [Loads -> Load] /\ \A j \in Loads : Loading(j)'
    BY <1>3, <1>5, <1>10, <1>11, <1>12, LoadStep
  <1>14. \A j \in Loads : /\ load'[j].project = load[j].project /\ load'[j].opens = load[j].opens
                          /\ load'[j].pc # "idle" => load[j].pc # "idle"
    BY <1>2, <1>6, <1>10, <1>11
  <1>15. Showable(events)'
    BY <1>3 DEF FeedInv, Showable
  <1>16. SomeChannel' /\ Connected'
    BY <1>3, <1>14 DEF FeedInv, SomeChannel, Connected, Live, Open
  <1>17. (Present /\ ~mixed => AllForSelected)'
    BY <1>3, <1>14 DEF FeedInv, Present, AllForSelected, OfSelected
  <1>18. FeedTypes'
    BY <1>3, <1>13 DEF FeedInv, FeedTypes
  <1> QED BY <1>3, <1>4, <1>13, <1>15, <1>16, <1>17, <1>18 DEF FeedInv

\* A load that ends leaves its place.
LEMMA LoadEnds ==
  ASSUME FeedInv, NEW l \in Loads, load' = [load EXCEPT ![l] = NoLoad],
         Set(done)' = Set(done)
  PROVE  /\ load' \in [Loads -> Load] /\ \A j \in Loads : Loading(j)'
         /\ \A j \in Loads : load'[j].pc # "idle" => load[j].pc # "idle" /\ load'[j] = load[j]
         /\ \A j \in Loads \ {l} : load'[j] = load[j]
  <1>1. PICK x : x = NoLoad
    OBVIOUS
  <1>2. x \in Load /\ x.pc = "idle" /\ x.opens = FALSE /\ x.rows = <<>>
    BY <1>1, LoadShapes
  <1>3. Showable(x.rows) /\ \A i \in DOMAIN x.rows : Project[x.rows[i]] = x.project
    BY <1>2, FeedAssumption DEF Showable
  <1>4. load' = [load EXCEPT ![l] = x] /\ load \in [Loads -> Load] /\ Set(done) \subseteq Set(done)'
    BY <1>1 DEF FeedInv, FeedTypes
  <1>5. load' \in [Loads -> Load] /\ \A j \in Loads : Loading(j)'
    BY <1>2, <1>3, <1>4, LoadStep
  <1> QED BY <1>2, <1>4, <1>5

LEMMA FinishLoadKeepsInv ==
  ASSUME IInv, FeedInv, NEW l \in Loads, FinishLoad(l)
  PROVE  IInv' /\ FeedInv'
  <1>1. /\ load[l].pc = "answered" /\ load' = [load EXCEPT ![l] = NoLoad]
        /\ UNCHANGED <<selected, mounted, selects, mixed, current>>
        /\ Present => /\ events' = load[l].rows /\ loaded' = TRUE
                      /\ lastEvent' = IF load[l].rows = <<>> THEN None ELSE id[Head(load[l].rows)]
        /\ ~Present => UNCHANGED <<events, lastEvent, loaded>>
    BY DEF FinishLoad
  <1>2. PICK r, p : r = load[l].rows /\ p = load[l].project
    OBVIOUS
  <1>3. /\ r \in Seq(Events) /\ p \in Projects /\ Showable(r)
        /\ \A i \in DOMAIN r : Project[r[i]] = p
    <2>1. load[l] \in Load
      BY DEF FeedInv, FeedTypes
    <2> QED BY <1>1, <1>2, <2>1 DEF FeedInv, Loading, Load
  <1>4. /\ IInv' /\ Connected' /\ SomeChannel' /\ Set(done)' = Set(done)
        /\ polling' \in Projects \cup {None} /\ (polling' = polling \/ polling' = p)
        /\ \A j \in Conns : \/ pc'[j] = pc[j] /\ ticket'[j] = ticket[j]
                            \/ pc'[j] = "ticket" /\ ticket'[j].project = p
    <2>1. CASE load[l].opens
      <3>1. OpenSse(p)
        BY <1>2, <2>1 DEF FinishLoad
      <3>2. SomeChannel'
        BY <1>1, <1>3, <3>1, OpenSseFacts DEF SomeChannel
      <3> QED BY <1>1, <1>3, <3>1, <3>2, OpenSseFacts, ConnectionsAfterOpenSse
    <2>2. CASE ~load[l].opens
      <3>1. UNCHANGED <<polling, streamVars>> /\ UNCHANGED <<done, pc, ticket>> /\ Set(done)' = Set(done)
        BY <2>2 DEF FinishLoad, streamVars, writes, conns, Set
      <3>2. IInv'
        BY <3>1, NextKeepsIInv
      <3>3. Connected' /\ polling' \in Projects \cup {None}
        BY <1>1, <3>1 DEF FeedInv, FeedTypes, Connected, Live, Open
      <3>4. \A j \in Loads : load[j].opens => load'[j].opens
        BY <1>1, <2>2 DEF FeedInv, FeedTypes
      <3>5. SomeChannel'
        BY <1>1, <3>1, <3>4 DEF FeedInv, SomeChannel, Live, Open
      <3> QED BY <3>1, <3>2, <3>3, <3>5
    <2> QED BY <2>1, <2>2
  <1>5. /\ load' \in [Loads -> Load] /\ \A j \in Loads : Loading(j)'
        /\ \A j \in Loads : load'[j].pc # "idle" => load[j].pc # "idle" /\ load'[j] = load[j]
    BY <1>1, <1>4, LoadEnds
  <1>6. events' = r \/ events' = events
    BY <1>1, <1>2 DEF FeedInv, FeedTypes
  <1>7. events' \in Seq(Events) /\ Showable(events)'
    <2>1. Showable(events) /\ events \in Seq(Events)
      BY DEF FeedInv, FeedTypes
    <2>2. \A s : Showable(s) => Showable(s)'
      BY <1>4, StillShowable
    <2>3. PICK s \in Seq(Events) : s = events' /\ Showable(s)
      BY <1>3, <1>6, <2>1
    <2>4. Showable(s)'
      BY <2>2, <2>3
    <2> QED BY <2>3, <2>4 DEF Showable
  <1>8. lastEvent' \in Ids \cup {None}
    <2>1. r # <<>> => id[Head(r)] \in Ids \cup {None}
      <3>1. r # <<>> => Head(r) \in Events
        BY <1>3
      <3> QED BY <3>1 DEF IInv, Types
    <2> QED BY <1>1, <1>2, <2>1 DEF FeedInv, FeedTypes
  <1>9. FeedTypes'
    <2>1. loaded' \in BOOLEAN /\ mounted \in BOOLEAN /\ mixed \in BOOLEAN
      BY <1>1 DEF FeedInv, FeedTypes
    <2> QED BY <1>1, <1>4, <1>5, <1>7, <1>8, <2>1 DEF FeedInv, FeedTypes
  <1>10. ASSUME Present, ~mixed PROVE AllForSelected'
    <2>1. AllForSelected /\ p = selected
      BY <1>1, <1>2, <1>10 DEF FeedInv, AllForSelected
    <2>2. events' = r
      BY <1>1, <1>2, <1>10
    <2>3. \A i \in DOMAIN events' : Project[events'[i]] = selected
      BY <1>3, <2>1, <2>2
    <2>4. \A j \in Loads : load'[j].pc # "idle" => load'[j].project = selected
      BY <1>5, <2>1 DEF AllForSelected
    <2>5. OfSelected(polling)' /\ \A k \in Conns : pc'[k] # "idle" => ticket'[k].project = selected
      BY <1>1, <1>4, <2>1 DEF AllForSelected, OfSelected
    <2> QED BY <1>1, <2>3, <2>4, <2>5 DEF AllForSelected
  <1> QED BY <1>1, <1>4, <1>5, <1>7, <1>9, <1>10 DEF FeedInv, Present

\* A load that begins takes a place that is free.
LEMMA LoadStarts ==
  ASSUME FeedInv, NEW l \in Loads, load[l].pc = "idle", NEW p \in Projects, NEW b \in BOOLEAN,
         load' = [load EXCEPT ![l] = StartLoad(p, b)], Set(done)' = Set(done)
  PROVE  /\ load' \in [Loads -> Load] /\ \A j \in Loads : Loading(j)'
         /\ load'[l].project = p /\ load'[l].opens = b
         /\ \A j \in Loads \ {l} : load'[j] = load[j]
         /\ \A j \in Loads : load[j].opens => load'[j].opens
  <1>1. PICK x : x = StartLoad(p, b)
    OBVIOUS
  <1>2. x \in Load /\ x.pc = "sent" /\ x.project = p /\ x.opens = b /\ x.rows = <<>>
    BY <1>1, LoadShapes
  <1>3. Showable(x.rows) /\ \A i \in DOMAIN x.rows : Project[x.rows[i]] = x.project
    BY <1>2, FeedAssumption DEF Showable
  <1>4. load' = [load EXCEPT ![l] = x] /\ load \in [Loads -> Load] /\ Set(done) \subseteq Set(done)'
    BY <1>1 DEF FeedInv, FeedTypes
  <1>5. load' \in [Loads -> Load] /\ \A j \in Loads : Loading(j)'
    BY <1>2, <1>3, <1>4, LoadStep
  <1>6. ~load[l].opens
    BY DEF FeedInv, Loading
  <1> QED BY <1>2, <1>4, <1>5, <1>6

LEMMA FailLoadKeepsInv ==
  ASSUME IInv, FeedInv, NEW l \in Loads, FailLoad(l)
  PROVE  IInv' /\ FeedInv'
  <1>1. /\ load[l].pc # "idle" /\ load' = [load EXCEPT ![l] = NoLoad]
        /\ UNCHANGED <<view, current, streamVars>>
        /\ IF load[l].opens THEN StartPolling(load[l].project) ELSE UNCHANGED polling
    BY DEF FailLoad
  <1>2. /\ UNCHANGED <<selected, mounted, events, loaded, lastEvent, selects, mixed, current>>
        /\ UNCHANGED <<done, pc, ticket>> /\ Set(done)' = Set(done)
    BY <1>1 DEF view, streamVars, writes, conns, Set
  <1>3. IInv'
    BY <1>1, NextKeepsIInv
  <1>4. load[l].project \in Projects /\ load[l].project # None
    BY <1>1, StreamAssumption DEF FeedInv, Loading
  <1>5. /\ load' \in [Loads -> Load] /\ \A j \in Loads : Loading(j)'
        /\ \A j \in Loads : load'[j].pc # "idle" => load[j].pc # "idle" /\ load'[j] = load[j]
        /\ \A j \in Loads \ {l} : load'[j] = load[j]
    BY <1>1, <1>2, LoadEnds
  <1>6. polling' = polling \/ polling' = load[l].project
    BY <1>1 DEF StartPolling
  <1>7. SomeChannel'
    <2>1. CASE load[l].opens
      BY <1>1, <1>2, <1>4, <2>1, TimerStarts
    <2>2. CASE ~load[l].opens
      BY <1>1, <1>2, <1>5, <2>2 DEF FeedInv, SomeChannel, Live, Open
    <2> QED BY <2>1, <2>2
  <1>8. Connected' /\ Showable(events)'
    BY <1>2 DEF FeedInv, Connected, Live, Open, Showable
  <1>9. FeedTypes'
    BY <1>2, <1>4, <1>5, <1>6 DEF FeedInv, FeedTypes
  <1>10. (Present /\ ~mixed => AllForSelected)'
    BY <1>1, <1>2, <1>5, <1>6 DEF FeedInv, Present, AllForSelected, OfSelected
  <1> QED BY <1>2, <1>3, <1>5, <1>7, <1>8, <1>9, <1>10 DEF FeedInv

LEMMA PollKeepsInv ==
  ASSUME IInv, FeedInv, Poll
  PROVE  IInv' /\ FeedInv'
  <1>1. PICK l \in Loads : load[l].pc = "idle" /\ load' = [load EXCEPT ![l] = StartLoad(polling, FALSE)]
    BY DEF Poll
  <1>2. /\ polling \in Projects /\ polling # None /\ OpenSse(selected)
        /\ mounted => selected \in Projects
        /\ UNCHANGED <<selected, mounted, events, loaded, lastEvent, selects, mixed, current>>
    BY DEF Poll, view, FeedInv, FeedTypes
  <1>3. /\ IInv' /\ polling' = polling
        /\ \A j \in Conns : \/ pc'[j] = pc[j] /\ ticket'[j] = ticket[j]
                            \/ pc'[j] = "ticket" /\ ticket'[j].project = selected
    BY <1>2, OpenSseFacts
  <1>4. Connected' /\ Set(done)' = Set(done)
    BY <1>2, ConnectionsAfterOpenSse
  <1>5. /\ load' \in [Loads -> Load] /\ \A j \in Loads : Loading(j)' /\ load'[l].project = polling
        /\ \A j \in Loads \ {l} : load'[j] = load[j]
    BY <1>1, <1>2, <1>4, LoadStarts
  <1>6. SomeChannel' /\ Showable(events)'
    BY <1>2, <1>3, <1>4 DEF SomeChannel, FeedInv, Showable
  <1>7. FeedTypes'
    BY <1>2, <1>3, <1>5 DEF FeedInv, FeedTypes
  <1>8. (Present /\ ~mixed => AllForSelected)'
    BY <1>2, <1>3, <1>5 DEF FeedInv, Present, AllForSelected, OfSelected
  <1> QED BY <1>2, <1>3, <1>4, <1>5, <1>6, <1>7, <1>8 DEF FeedInv

LEMMA OnMessageKeepsInv ==
  ASSUME IInv, FeedInv, NEW k \in Conns, OnMessage(k)
  PROVE  IInv' /\ FeedInv'
  <1>1. PICK e : e = Head(batch[k])
    OBVIOUS
  <1>2. /\ Send(k) /\ batch[k] # <<>>
        /\ UNCHANGED <<selected, mounted, loaded, selects, mixed, current, polling, load>>
        /\ Present => events' = Appended(e) /\ lastEvent' = id[e]
        /\ ~Present => UNCHANGED <<events, lastEvent>>
    BY <1>1 DEF OnMessage, Send, refs
  <1>3. IInv' /\ GoesOn(k) /\ NoneComes /\ Live(k)
    BY <1>2, AtWork
  <1>4. e \in Events /\ e \in Set(done) /\ Project[e] = ticket[k].project
    <2>1. batch[k] \in Seq(Events)
      BY DEF IInv, Types
    <2>2. e = batch[k][1] /\ 1 \in DOMAIN batch[k] /\ e \in Events
      BY <1>1, <1>2, <2>1
    <2>3. e \in Committed(ticket[k].project)
      BY <2>2 DEF IInv, Stream, IsOfTheProject, InBatch
    <2> QED BY <2>2, <2>3 DEF Committed
  <1>5. /\ Appended(e) \in Seq(Events) /\ Showable(Appended(e))
        /\ \A i \in DOMAIN Appended(e) :
              Appended(e)[i] = e \/ \E j \in DOMAIN events : events[j] = Appended(e)[i]
    BY <1>4, AppendedIsShowable DEF FeedInv, FeedTypes
  <1>6. Set(done)' = Set(done)
    BY <1>3 DEF NoneComes, writes, Set
  <1>7. events' \in Seq(Events) /\ Showable(events)'
    <2>1. PICK s \in Seq(Events) : s = events' /\ Showable(s)
      BY <1>2, <1>5 DEF FeedInv, FeedTypes
    <2> QED BY <1>6, <2>1 DEF Showable
  <1>8. \A l \in Loads : Loading(l)'
    BY <1>2, <1>6 DEF FeedInv, Loading, Showable
  <1>9. FeedTypes'
    <2>1. lastEvent' \in Ids \cup {None}
      BY <1>2, <1>4 DEF FeedInv, FeedTypes, IInv, Types
    <2> QED BY <1>2, <1>7, <2>1 DEF FeedInv, FeedTypes
  <1>10. Connected'
    <2>1. current # None => current \in Conns /\ Live(current)
      BY DEF FeedInv, FeedTypes, Connected
    <2>2. \A j \in Conns : Live(j) => Live(j)'
      BY <1>3 DEF GoesOn, Others, Live, Open
    <2>3. \A j \in Conns : pc'[j] # "idle" => ticket'[j].project \in Projects
      BY <1>3 DEF NoneComes, FeedInv, Connected
    <2> QED BY <1>2, <2>1, <2>2, <2>3 DEF FeedInv, Connected
  <1>11. SomeChannel'
    BY <1>2, <1>3, ChannelGoesOn
  <1>12. ASSUME Present, ~mixed PROVE AllForSelected'
    <2>1. AllForSelected /\ ticket[k].project = selected
      BY <1>3, <1>12 DEF GoesOn, FeedInv, AllForSelected
    <2>2. loaded => \A i \in DOMAIN events' : Project[events'[i]] = selected
      BY <1>2, <1>4, <1>5, <1>12, <2>1 DEF AllForSelected
    <2>3. \A j \in Conns : pc'[j] # "idle" => ticket'[j].project = selected
      BY <1>3, <2>1 DEF NoneComes, AllForSelected
    <2> QED BY <1>2, <2>1, <2>2, <2>3 DEF AllForSelected, OfSelected
  <1> QED BY <1>2, <1>3, <1>7, <1>8, <1>9, <1>10, <1>11, <1>12 DEF FeedInv, Present

LEMMA CloseSseFacts ==
  ASSUME IInv, FeedInv, CloseSse
  PROVE  /\ IInv' /\ NoneComes /\ Set(done)' = Set(done)
         /\ current # None => pc'[current] = "idle"
  <1>1. CASE current = None
    <2>1. UNCHANGED streamVars
      BY <1>1 DEF CloseSse
    <2>2. IInv'
      BY <2>1, NextKeepsIInv
    <2> QED BY <1>1, <2>1, <2>2 DEF NoneComes, streamVars, writes, conns, Set
  <1>2. CASE current # None
    <2>1. PICK k \in Conns : k = current /\ Disconnect(k)
      BY <1>2 DEF CloseSse, FeedInv, FeedTypes
    <2>2. IInv' /\ Ends(k) /\ NoneComes
      BY <2>1, AtTheEnd
    <2> QED BY <2>1, <2>2 DEF Ends, NoneComes, writes, Set
  <1> QED BY <1>1, <1>2

\* Another project is picked: only what was not under way is sure to be for it.
LEMMA SelectKeepsInv ==
  ASSUME IInv, FeedInv, NEW p \in Projects, Select(p)
  PROVE  IInv' /\ FeedInv'
  <1>1. /\ Present /\ selects < MaxSelects /\ selected' = p /\ mounted' = TRUE
        /\ selects' = selects + 1 /\ mixed' = (mixed \/ UnderWay) /\ CloseSse
        /\ current' = None /\ polling' = (IF mounted THEN None ELSE polling) /\ loaded' = FALSE
        /\ UNCHANGED <<events, lastEvent>>
    BY DEF Select
  <1>2. PICK l \in Loads : load[l].pc = "idle" /\ load' = [load EXCEPT ![l] = StartLoad(p, TRUE)]
    BY DEF Select
  <1>3. /\ IInv' /\ NoneComes /\ Set(done)' = Set(done)
        /\ current # None => pc'[current] = "idle"
    BY <1>1, CloseSseFacts
  <1>4. /\ load' \in [Loads -> Load] /\ \A j \in Loads : Loading(j)'
        /\ load'[l].project = p /\ load'[l].opens = TRUE
        /\ \A j \in Loads \ {l} : load'[j] = load[j]
    BY <1>2, <1>3, LoadStarts
  <1>5. FeedTypes'
    <2>1. mounted' \in BOOLEAN /\ loaded' \in BOOLEAN
      BY <1>1 DEF FeedInv, FeedTypes
    <2>2. mixed' \in BOOLEAN
      BY <1>1
    <2>3. selects' \in 0 .. MaxSelects
      BY <1>1, FeedAssumption DEF FeedInv, FeedTypes
    <2> QED BY <1>1, <1>4, <2>1, <2>2, <2>3 DEF FeedInv, FeedTypes
  <1>6. SomeChannel' /\ Showable(events)'
    BY <1>1, <1>3, <1>4 DEF SomeChannel, FeedInv, Showable
  <1>7. Connected'
    BY <1>1, <1>3 DEF FeedInv, Connected, NoneComes
  <1>8. ASSUME ~mixed' PROVE AllForSelected'
    <2>1. ~UnderWay /\ polling' = None
      <3>1. ~UnderWay /\ ~mixed
        BY <1>1, <1>8
      <3> QED BY <1>1, <3>1 DEF Present, FeedInv, AllForSelected, OfSelected
    <2>2. \A j \in Loads : load'[j].pc # "idle" => load'[j].project = p
      BY <1>4, <2>1 DEF UnderWay
    <2>3. \A j \in Conns : pc'[j] = "idle"
      BY <1>3, <2>1, FeedAssumption DEF UnderWay, NoneComes
    <2> QED BY <1>1, <2>1, <2>2, <2>3 DEF AllForSelected, OfSelected
  <1> QED BY <1>3, <1>4, <1>5, <1>6, <1>7, <1>8 DEF FeedInv

\* No project is shown: the list is cleared, and what was under way goes on.
LEMMA DeselectKeepsInv ==
  ASSUME IInv, FeedInv, Deselect
  PROVE  IInv' /\ FeedInv'
  <1>1. /\ selected' = None /\ mounted' = FALSE /\ mixed' = (mixed \/ UnderWay)
        /\ CloseSse /\ current' = None /\ polling' = None
        /\ events' = <<>> /\ loaded' = FALSE
        /\ UNCHANGED <<lastEvent, selects, load>>
    BY DEF Deselect
  <1>2. /\ IInv' /\ NoneComes /\ Set(done)' = Set(done)
        /\ current # None => pc'[current] = "idle"
    BY <1>1, CloseSseFacts
  <1>3. Showable(events)' /\ \A l \in Loads : Loading(l)'
    BY <1>1, <1>2, FeedAssumption DEF FeedInv, Loading, Showable
  <1>4. SomeChannel' /\ Connected'
    BY <1>1, <1>2 DEF SomeChannel, FeedInv, Connected, NoneComes
  <1>5. FeedTypes'
    <2>1. events' \in Seq(Events)
      BY <1>1
    <2>2. mounted' \in BOOLEAN /\ loaded' \in BOOLEAN
      BY <1>1
    <2>3. mixed' \in BOOLEAN
      BY <1>1
    <2> QED BY <1>1, <2>1, <2>2, <2>3 DEF FeedInv, FeedTypes
  <1>6. ASSUME ~mixed' PROVE AllForSelected'
    <2>1. ~UnderWay
      BY <1>1, <1>6
    <2>2. \A j \in Loads : load'[j].pc = "idle"
      BY <1>1, <2>1 DEF UnderWay
    <2>3. \A j \in Conns : pc'[j] = "idle"
      BY <1>2, <2>1, FeedAssumption DEF UnderWay, NoneComes
    <2> QED BY <1>1, <2>2, <2>3 DEF AllForSelected, OfSelected
  <1> QED BY <1>2, <1>3, <1>4, <1>5, <1>6 DEF FeedInv

LEMMA UnmountKeepsInv ==
  ASSUME IInv, FeedInv, Unmount
  PROVE  IInv' /\ FeedInv'
  <1>1. /\ mounted' = FALSE /\ CloseSse /\ current' = None /\ polling' = None
        /\ UNCHANGED <<selected, events, loaded, lastEvent, selects, mixed, load>>
    BY DEF Unmount
  <1>2. IInv' /\ NoneComes /\ Set(done)' = Set(done)
    BY <1>1, CloseSseFacts
  <1>3. Showable(events)' /\ \A l \in Loads : Loading(l)'
    BY <1>1, <1>2, ListsStay
  <1>4. SomeChannel' /\ Connected'
    BY <1>1, <1>2 DEF SomeChannel, FeedInv, Connected, NoneComes
  <1>5. FeedTypes'
    BY <1>1 DEF FeedInv, FeedTypes
  <1>6. ~Present'
    BY <1>1, StreamAssumption DEF Unmount, Present, FeedInv, FeedTypes
  <1> QED BY <1>2, <1>3, <1>4, <1>5, <1>6 DEF FeedInv

\* The world outside: the log grows, and the credential ends.
LEMMA OutsideKeepsInv ==
  ASSUME IInv, FeedInv, (\E e \in Events : AppendEvent(e)) \/ Revoke, UNCHANGED <<view, refs, load>>
  PROVE  IInv' /\ FeedInv'
  <1>1. IInv' /\ Set(done) \subseteq Set(done)' /\ UNCHANGED <<pc, ticket>>
    <2>1. CASE \E e \in Events : AppendEvent(e)
      BY <2>1, AppendEventKeepsIInv DEF AppendEvent, conns
    <2>2. CASE Revoke
      BY <2>2, NextKeepsIInv DEF StreamNext, Revoke, writes, conns, Set
    <2> QED BY <2>1, <2>2
  <1>2. UNCHANGED <<selected, mounted, events, loaded, lastEvent, selects, mixed, current, polling, load>>
    BY DEF view, refs
  <1>3. Showable(events)' /\ \A l \in Loads : Loading(l)'
    BY <1>1, <1>2, ListsStay
  <1>4. SomeChannel' /\ Connected'
    BY <1>1, <1>2 DEF FeedInv, SomeChannel, Connected, Live, Open
  <1>5. FeedTypes' /\ (Present /\ ~mixed => AllForSelected)'
    BY <1>1, <1>2 DEF FeedInv, FeedTypes, Present, AllForSelected, OfSelected
  <1> QED BY <1>1, <1>2, <1>3, <1>4, <1>5 DEF FeedInv

LEMMA FeedNextKeepsInv == IInv /\ FeedInv /\ [FeedNext]_feedVars => IInv' /\ FeedInv'
  <1> SUFFICES ASSUME IInv, FeedInv, [FeedNext]_feedVars PROVE IInv' /\ FeedInv'
    OBVIOUS
  <1>1. CASE Browser
    BY <1>1, PollKeepsInv, FinishLoadKeepsInv, OpenSourceKeepsInv DEF Browser
  <1>2. CASE Server
    BY <1>2, AnswerLoadKeepsInv, OnOpenKeepsInv, OnMessageKeepsInv, OnEndKeepsInv, WorkKeepsInv DEF Server
  <1>3. CASE Deselect \/ Unmount \/ \E p \in Projects : Select(p)
    BY <1>3, DeselectKeepsInv, UnmountKeepsInv, SelectKeepsInv
  <1>4. CASE (\E l \in Loads : FailLoad(l)) \/ \E k \in Conns : TicketFails(k)
    BY <1>4, FailLoadKeepsInv, TicketFailsKeepsInv
  <1>5. CASE ((\E e \in Events : AppendEvent(e)) \/ Revoke) /\ UNCHANGED <<view, refs, load>>
    BY <1>5, OutsideKeepsInv
  <1>6. CASE UNCHANGED feedVars
    <2>1. UNCHANGED streamVars /\ UNCHANGED <<view, refs, load>>
      BY <1>6 DEF feedVars
    <2>2. IInv'
      BY <2>1, NextKeepsIInv
    <2>3. /\ UNCHANGED <<selected, mounted, events, loaded, lastEvent, selects, mixed, current>>
          /\ UNCHANGED <<polling, load, done, pc, ticket>>
          /\ Set(done) \subseteq Set(done)'
      BY <2>1 DEF view, refs, streamVars, writes, conns, Set
    <2>4. Showable(events)' /\ \A l \in Loads : Loading(l)'
      BY <2>3, ListsStay
    <2>5. SomeChannel' /\ Connected'
      BY <2>3 DEF FeedInv, SomeChannel, Connected, Live, Open
    <2>6. FeedTypes' /\ (Present /\ ~mixed => AllForSelected)'
      BY <2>3 DEF FeedInv, FeedTypes, Present, AllForSelected, OfSelected
    <2> QED BY <2>2, <2>3, <2>4, <2>5, <2>6 DEF FeedInv
  <1> QED BY <1>1, <1>2, <1>3, <1>4, <1>5, <1>6 DEF FeedNext

\* The two invariants, of the streams and of their client, hold together.
THEOREM AlwaysFeedInv == FeedSpec => [](IInv /\ FeedInv)
  BY FeedInitEstablishesInv, FeedNextKeepsInv, PTL DEF FeedSpec

\* However loads, streams and the user interleave, the feed shows committed events
\* only, each once and no more than fit, and the EventSource it knows of is not closed.
THEOREM FeedTypeCorrect == FeedSpec => []FeedTypeOK
  <1>1. IInv /\ FeedInv => FeedTypeOK
    <2> SUFFICES ASSUME FeedInv PROVE FeedTypeOK
      OBVIOUS
    <2>1. {mounted, loaded, mixed} \subseteq BOOLEAN
      BY DEF FeedInv, FeedTypes
    <2>2. \A l \in Loads : load[l].pc \in {"idle", "sent", "answered"}
      BY DEF FeedInv, FeedTypes, Load
    <2>3. mounted => selected # None
      BY StreamAssumption DEF FeedInv, FeedTypes
    <2> QED BY <2>1, <2>2, <2>3 DEF FeedInv, FeedTypes, FeedTypeOK, Showable, Connected
  <1> QED BY <1>1, AlwaysFeedInv, PTL

\* What the feed shows, and where it gets more from, is of the project selected,
\* until another is picked while a request or a lost EventSource is under way.
THEOREM ShowsSelected == FeedSpec => []ShowsSelectedUnlessMixed
  <1>1. IInv /\ FeedInv => ShowsSelectedUnlessMixed
    <2> SUFFICES ASSUME FeedInv, mounted, ~mixed, AllForSelected PROVE ShowsSelectedUnlessMixed
      BY DEF FeedInv, Present, ShowsSelectedUnlessMixed
    <2>1. \A k \in Conns : Live(k) => pc[k] # "idle"
      BY DEF Live, Open
    <2> QED BY <2>1 DEF AllForSelected, OfSelected, ShowsSelectedUnlessMixed
  <1> QED BY <1>1, AlwaysFeedInv, PTL

\* A feed that is shown has a stream, a ticket on its way, a timer or a load that
\* opens one, whatever fails.
THEOREM AlwaysAChannel == FeedSpec => []SomeChannel
  <1>1. IInv /\ FeedInv => SomeChannel
    BY DEF FeedInv
  <1> QED BY <1>1, AlwaysFeedInv, PTL
=============================================================================
