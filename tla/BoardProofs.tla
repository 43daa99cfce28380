---------------------------- MODULE BoardProofs ----------------------------
(***************************************************************************)
(* Theorems about Board, for any tasks, columns, requests, calls and       *)
(* movers: its types, that the ranks of a column differ, that a reorder    *)
(* does what it was asked to, once, and that nothing else moves a task.    *)
(***************************************************************************)
EXTENDS Board, FiniteSetTheorems, SequenceTheorems, TLAPS

(***************************************************************************)
(* The inductive invariant                                                 *)
(***************************************************************************)
Holding == {"select", "column"}
Row == [column : Columns \cup {None}, rank : Nat]
Request == [op : Ops, task : Tasks, column : Columns, after : Tasks \cup {None}]
Move == [task : Tasks, to : Columns \cup {None}]
Receipt == [req : Reorder, order : Seq(Tasks)]

Types ==
    /\ rows \in [Tasks -> Row]
    /\ \A t \in Tasks : rows[t].rank = 0 => rows[t] = NoRow
    /\ rowLock \in [Tasks -> Calls \cup Movers \cup {None}]
    /\ pc \in [Calls -> {"idle", "check", "target", "select", "column", "recheck", "answered"}]
    /\ req \in [Calls -> Request \cup {NoRequest}]
    /\ todo \in [Calls -> Seq(Tasks)] /\ got \in [Calls -> Seq(Tasks)]
    /\ mpc \in [Movers -> {"idle", "rank", "enter"}]
    /\ move \in [Movers -> Move \cup {NoMove}]
    /\ bottom \in [Movers -> Nat]
    /\ moves \in 0 .. MaxMoves /\ raced \subseteq Columns \cup {None}

\* What a reorder has seen of its column and may yet number.
Seeing(c) == Elements(todo[c]) \cup Elements(got[c])
Distinct(s) == \A i, j \in DOMAIN s : s[i] = s[j] => i = j

\* A reorder holds the row of its task, and every row it has got, in its column.
Holds(c, t) == rowLock[t] = c /\ rows[t].column = req[c].column /\ Exists(t)
Reordering(c) ==
    /\ IF pc[c] = "idle" THEN req[c] = NoRequest
                        ELSE req[c] \in Request /\ Asked(c) \in Reorders
    /\ pc[c] \in {"idle", "check", "target", "select"} => todo[c] = <<>> /\ got[c] = <<>>
    /\ pc[c] \in Holding => Holds(c, req[c].task)
    /\ pc[c] = "column" =>
          /\ \A t \in Elements(got[c]) : Holds(c, t)
          /\ \A t \in Elements(todo[c]) : Exists(t)
          /\ Distinct(todo[c]) /\ Distinct(got[c])
          /\ Elements(todo[c]) \cap Elements(got[c]) = {}
          /\ req[c].task \in Seeing(c)

\* A mover holds the row it moves, or is alone in creating it.
Moving(k) ==
    mpc[k] # "idle" => /\ move[k] \in Move
                       /\ ~Exists(move[k].task) \/ rowLock[move[k].task] = k
                       /\ \A j \in Movers : (mpc[j] # "idle" /\ move[j].task = move[k].task) => j = k
                       /\ mpc[k] = "enter" => bottom[k] # 0

LocksStand == \A t \in Tasks : rowLock[t] # None => Exists(t)

(***************************************************************************)
(* What keeps the ranks of a column apart.  A task that enters goes below  *)
(* all that are there, so a reorder that commits afterwards, and numbers   *)
(* no more tasks than it saw there, stays above it; and of two reorders    *)
(* the one that commits first has numbered none that the other has not     *)
(* seen.                                                                   *)
(***************************************************************************)
Enters(k, col) == mpc[k] = "enter" /\ move[k].to = col
IsOf(c, col) == pc[c] = "column" /\ req[c].column = col
SeenThere(c, col) == Seeing(c) \cap InColumn(col)

Apart(col) == \A t, u \in InColumn(col) : rows[t].rank = rows[u].rank => t = u
Below(k, col) == \A t \in InColumn(col) : rows[t].rank < bottom[k]
Newcomers(c, col) ==
    \A t \in InColumn(col) \ Seeing(c) : rows[t].rank > Cardinality(SeenThere(c, col))
Overlap(b, c, col) == req[b].task \in Seeing(c) \/ SeenThere(c, col) \subseteq Seeing(b)

Ordered(col) ==
    /\ Apart(col)
    /\ \A k \in Movers : Enters(k, col) =>
          /\ Below(k, col)
          /\ \A j \in Movers : Enters(j, col) => j = k
    /\ \A c \in Calls : IsOf(c, col) => Newcomers(c, col)
    /\ \A b, c \in Calls : IsOf(b, col) /\ IsOf(c, col) => Overlap(b, c, col)

IInv ==
    /\ Types
    /\ \A c \in Calls : Reordering(c)
    /\ \A k \in Movers : Moving(k)
    /\ LocksStand
    /\ \A col \in Columns \ raced : Ordered(col)

(***************************************************************************)
(* What is recorded                                                        *)
(***************************************************************************)
Done == DOMAIN history
Recorded(o, q, order) ==
    \E i \in Done : history[i].op = o /\ history[i].req = q /\ history[i].now = order

Outcomes == {"none", "ok", "idempotencyConflict", "notFound", "notInColumn",
             "operationExists", "deadlock", "lost"}
Known == [op : Ops, req : Reorder, was : Seq(Tasks), now : Seq(Tasks)]
RecordTypes ==
    /\ receipts \in [Ops -> Receipt \cup {NoReceipt}]
    /\ answer \in [Calls -> [outcome : Outcomes, order : Seq(Tasks)]]
    /\ history \in Seq(Known)

\* The operations that are recorded are those that were done, each once, with
\* what was asked and the order it left; and success is told of those alone.
RInv ==
    /\ RecordTypes
    /\ AnchorIsRespected
    /\ \A i, j \in Done : history[i].op = history[j].op => i = j
    /\ \A i \in Done : receipts[history[i].op] # NoReceipt
    /\ \A o \in Ops : receipts[o] # NoReceipt => Recorded(o, receipts[o].req, receipts[o].order)
    /\ \A c \in Calls : answer[c].outcome = "ok" => /\ pc[c] = "answered"
                                                    /\ Recorded(req[c].op, Asked(c), answer[c].order)

(***************************************************************************)
(* The order of the rows, of any table r                                   *)
(***************************************************************************)
Above(r, t, u) == r[t].rank < r[u].rank \/ (r[t].rank = r[u].rank /\ t < u)
RankIn(r, S, t) == Cardinality({u \in S : Above(r, u, t)})
Sorted(r, S) == [i \in 1 .. Cardinality(S) |-> CHOOSE t \in S : RankIn(r, S, t) = i - 1]
RowsIn(r, col) == {t \in Tasks : r[t].rank # 0 /\ r[t].column = col}

\* Rows that have ranks are in one order, and an earlier one has fewer before it.
LEMMA RanksDiffer ==
  ASSUME NEW r, NEW S \in SUBSET Nat, IsFiniteSet(S), \A t \in S : r[t].rank \in Nat
  PROVE  /\ \A t \in S : RankIn(r, S, t) \in 0 .. Cardinality(S) - 1
         /\ \A t, u \in S : Above(r, t, u) => RankIn(r, S, t) < RankIn(r, S, u)
         /\ \A t, u \in S : RankIn(r, S, t) = RankIn(r, S, u) => t = u
         /\ \A t, u \in S : t = u \/ Above(r, t, u) \/ Above(r, u, t)
  <1>1. Cardinality(S) \in Nat
    BY FS_CardinalityType
  <1>2. /\ \A t \in S : ~Above(r, t, t)
        /\ \A t, u \in S : t = u \/ Above(r, t, u) \/ Above(r, u, t)
        /\ \A t, u, v \in S : Above(r, t, u) /\ Above(r, u, v) => Above(r, t, v)
    <2>1. \A t \in S : t \in Nat /\ r[t].rank \in Nat
      OBVIOUS
    <2>2. \A t \in S : ~Above(r, t, t)
      BY <2>1 DEF Above
    <2>3. \A t, u \in S : t = u \/ Above(r, t, u) \/ Above(r, u, t)
      BY <2>1 DEF Above
    <2>4. ASSUME NEW t \in S, NEW u \in S, NEW v \in S, Above(r, t, u), Above(r, u, v)
          PROVE  Above(r, t, v)
      <3>1. PICK x, y, z : x = r[t].rank /\ y = r[u].rank /\ z = r[v].rank
        OBVIOUS
      <3>2. /\ x \in Nat /\ y \in Nat /\ z \in Nat /\ t \in Nat /\ u \in Nat /\ v \in Nat
            /\ x < y \/ (x = y /\ t < u)
            /\ y < z \/ (y = z /\ u < v)
        BY <2>1, <2>4, <3>1 DEF Above
      <3>3. x < z \/ (x = z /\ t < v)
        BY <3>2
      <3> QED BY <3>1, <3>3 DEF Above
    <2> QED BY <2>2, <2>3, <2>4
  <1>3. ASSUME NEW t \in S
        PROVE  /\ IsFiniteSet({u \in S : Above(r, u, t)}) /\ RankIn(r, S, t) \in Nat
               /\ RankIn(r, S, t) < Cardinality(S)
    <2> DEFINE T == {u \in S : Above(r, u, t)}
    <2>1. T \in SUBSET S /\ t \notin T
      BY <1>2
    <2>2. IsFiniteSet(T) /\ Cardinality(T) <= Cardinality(S) /\ (Cardinality(S) = Cardinality(T) => S = T)
      BY <2>1, FS_Subset
    <2>3. Cardinality(T) \in Nat
      BY <2>2, FS_CardinalityType
    <2> HIDE DEF T
    <2>4. Cardinality(T) < Cardinality(S)
      BY <1>1, <2>1, <2>2, <2>3
    <2> QED BY <2>2, <2>3, <2>4 DEF T, RankIn
  <1>4. ASSUME NEW t \in S, NEW u \in S, Above(r, t, u)
        PROVE  RankIn(r, S, t) < RankIn(r, S, u)
    <2> DEFINE T == {v \in S : Above(r, v, t)}
               U == {v \in S : Above(r, v, u)}
    <2>1. T \in SUBSET U /\ t \in U /\ t \notin T
      BY <1>2, <1>4
    <2>2. IsFiniteSet(U) /\ Cardinality(U) \in Nat /\ Cardinality(T) \in Nat
      BY <1>3 DEF RankIn
    <2>3. Cardinality(T) <= Cardinality(U) /\ (Cardinality(U) = Cardinality(T) => U = T)
      BY <2>1, <2>2, FS_Subset
    <2> HIDE DEF T, U
    <2>4. Cardinality(T) < Cardinality(U)
      BY <2>1, <2>2, <2>3
    <2> QED BY <2>4 DEF T, U, RankIn
  <1>5. ASSUME NEW t \in S, NEW u \in S, RankIn(r, S, t) = RankIn(r, S, u), t # u
        PROVE  FALSE
    <2>1. Above(r, t, u) \/ Above(r, u, t)
      BY <1>2, <1>5
    <2>2. PICK m, n : m = RankIn(r, S, t) /\ n = RankIn(r, S, u)
      OBVIOUS
    <2>3. m \in Nat /\ n \in Nat /\ (m < n \/ n < m)
      BY <1>3, <1>4, <2>1, <2>2
    <2> QED BY <1>5, <2>2, <2>3
  <1>6. \A t \in S : RankIn(r, S, t) \in 0 .. Cardinality(S) - 1
    <2> DEFINE n == Cardinality(S)
    <2>1. n \in Nat
      BY <1>1
    <2>2. ASSUME NEW t \in S
          PROVE  RankIn(r, S, t) \in 0 .. n - 1
      <3>1. PICK m : m = RankIn(r, S, t)
        OBVIOUS
      <3>2. m \in Nat /\ m < n
        BY <1>3, <3>1
      <3> HIDE DEF n
      <3>3. m \in 0 .. n - 1
        BY <2>1, <3>2
      <3> QED BY <3>1, <3>3
    <2> QED BY <2>2
  <1> QED BY <1>2, <1>4, <1>5, <1>6

\* Numbers that differ, below the number of those numbered, are all taken.
LEMMA EveryNumberIsTaken ==
  ASSUME NEW S, IsFiniteSet(S), NEW n \in Nat, n = Cardinality(S),
         NEW f \in [S -> 0 .. n - 1], \A e, d \in S : f[e] = f[d] => e = d
  PROVE  \A i \in 1 .. n : \E e \in S : f[e] = i - 1
  <1>1. IsFiniteSet(0 .. n - 1) /\ Cardinality(0 .. n - 1) = n
    <2>1. 0 \in Int /\ n - 1 \in Int
      OBVIOUS
    <2>2. IsFiniteSet(0 .. n - 1) /\ Cardinality(0 .. n - 1) = IF 0 > n - 1 THEN 0 ELSE (n - 1) - 0 + 1
      BY <2>1, FS_Interval
    <2> QED BY <2>2
  <1>2. f \in Injection(S, 0 .. n - 1)
    BY DEF Injection, IsInjective
  <1>3. f \in Surjection(S, 0 .. n - 1)
    BY <1>1, <1>2, FS_Injection
  <1>4. \A i \in 1 .. n : i - 1 \in 0 .. n - 1
    OBVIOUS
  <1> QED BY <1>3, <1>4 DEF Surjection

\* ORDER BY returns every row once.
LEMMA SortedRows ==
  ASSUME NEW r, NEW S \in SUBSET Nat, IsFiniteSet(S), \A t \in S : r[t].rank \in Nat
  PROVE  /\ Sorted(r, S) \in Seq(S) /\ Len(Sorted(r, S)) = Cardinality(S)
         /\ \A i \in 1 .. Cardinality(S) : RankIn(r, S, Sorted(r, S)[i]) = i - 1
         /\ \A t \in S : \E i \in 1 .. Cardinality(S) : Sorted(r, S)[i] = t
         /\ Elements(Sorted(r, S)) = S /\ Distinct(Sorted(r, S))
  <1> DEFINE n == Cardinality(S)
             f == [t \in S |-> RankIn(r, S, t)]
             s == Sorted(r, S)
  <1>1. n \in Nat
    BY FS_CardinalityType
  <1>2. f \in [S -> 0 .. n - 1] /\ \A t, u \in S : f[t] = f[u] => t = u
    BY RanksDiffer
  <1> HIDE DEF n
  <1>3. \A i \in 1 .. n : \E t \in S : RankIn(r, S, t) = i - 1
    <2>1. \A i \in 1 .. n : \E t \in S : f[t] = i - 1
      <3> HIDE DEF f
      <3> QED BY <1>1, <1>2, EveryNumberIsTaken DEF n
    <2> QED BY <2>1
  <1>4. s = [i \in 1 .. n |-> CHOOSE t \in S : RankIn(r, S, t) = i - 1]
    BY DEF Sorted, n
  <1> HIDE DEF s
  <1>5. \A i \in 1 .. n : s[i] \in S /\ RankIn(r, S, s[i]) = i - 1
    BY <1>3, <1>4
  <1>6. s \in Seq(S) /\ Len(s) = n /\ DOMAIN s = 1 .. n
    BY <1>1, <1>4, <1>5
  <1>7. ASSUME NEW t \in S
        PROVE  \E i \in 1 .. n : s[i] = t
    <2>1. RankIn(r, S, t) \in 0 .. n - 1
      BY RanksDiffer DEF n
    <2>2. PICK i \in 1 .. n : i = RankIn(r, S, t) + 1
      BY <1>1, <2>1
    <2>3. RankIn(r, S, s[i]) = RankIn(r, S, t) /\ s[i] \in S
      BY <1>5, <2>1, <2>2
    <2> QED BY <2>3, RanksDiffer
  <1>8. Elements(s) = S
    BY <1>5, <1>6, <1>7 DEF Elements
  <1>9. Distinct(s)
    <2>1. ASSUME NEW i \in 1 .. n, NEW j \in 1 .. n, s[i] = s[j]
          PROVE  i = j
      <3>1. i - 1 = j - 1
        BY <1>5, <2>1
      <3> QED BY <1>1, <3>1
    <2> QED BY <1>6, <2>1 DEF Distinct
  <1> QED BY <1>5, <1>6, <1>7, <1>8, <1>9 DEF n, s

\* Tasks with different ranks, from 1 to m, are at most m.
LEMMA FewRanks ==
  ASSUME NEW r, NEW S, NEW m \in Nat, \A t \in S : r[t].rank \in 1 .. m,
         \A t, u \in S : r[t].rank = r[u].rank => t = u
  PROVE  IsFiniteSet(S) /\ Cardinality(S) <= m
  <1> DEFINE f == [t \in S |-> r[t].rank]
  <1>1. f \in Injection(S, 1 .. m)
    BY DEF Injection, IsInjective
  <1>2. IsFiniteSet(1 .. m) /\ Cardinality(1 .. m) = m
    <2>1. IsFiniteSet(1 .. m) /\ Cardinality(1 .. m) = IF 1 > m THEN 0 ELSE m - 1 + 1
      BY FS_Interval
    <2> QED BY <2>1
  <1> QED BY <1>1, <1>2, FS_Injection

\* Some task of a column that is not empty has the highest rank.
LEMMA SomeHighest ==
  ASSUME NEW r, NEW S \in SUBSET Nat, IsFiniteSet(S), \A t \in S : r[t].rank \in Nat, S # {}
  PROVE  \E t \in S : \A u \in S : r[u].rank <= r[t].rank
  <1> DEFINE n == Cardinality(S)
             s == Sorted(r, S)
  <1>1. n \in Nat /\ n # 0
    BY FS_CardinalityType, FS_EmptySet
  <1>2. /\ Elements(s) = S /\ DOMAIN s = 1 .. n
        /\ \A i \in 1 .. n : s[i] \in S /\ RankIn(r, S, s[i]) = i - 1
        /\ \A t \in S : \E i \in 1 .. n : s[i] = t
    <2>1. s \in Seq(S) /\ Len(s) = n
      BY SortedRows
    <2> HIDE DEF s, n
    <2>2. DOMAIN s = 1 .. n /\ \A i \in 1 .. n : s[i] \in S
      BY <2>1
    <2> QED BY <2>2, SortedRows DEF s, n
  <1> HIDE DEF s, n
  <1>3. ASSUME NEW u \in S
        PROVE  r[u].rank <= r[s[n]].rank
    <2>1. PICK i \in 1 .. n : s[i] = u
      BY <1>2
    <2>2. s[n] \in S /\ RankIn(r, S, s[n]) = n - 1 /\ RankIn(r, S, u) = i - 1
      BY <1>1, <1>2, <2>1
    <2>3. ~Above(r, s[n], u)
      <3>1. SUFFICES ASSUME Above(r, s[n], u) PROVE FALSE
        OBVIOUS
      <3>2. RankIn(r, S, s[n]) < RankIn(r, S, u)
        BY <2>2, <3>1, RanksDiffer
      <3> QED BY <1>1, <2>2, <3>2
    <2>4. PICK x, y : x = r[u].rank /\ y = r[s[n]].rank
      OBVIOUS
    <2>5. x \in Nat /\ y \in Nat /\ ~(y < x)
      BY <2>2, <2>3, <2>4 DEF Above
    <2> QED BY <2>4, <2>5
  <1>4. s[n] \in S
    BY <1>1, <1>2
  <1> QED BY <1>3, <1>4

(***************************************************************************)
(* The tasks of a column, and the rank at its bottom                       *)
(***************************************************************************)

LEMMA ColumnRows ==
  ASSUME Types, NEW col
  PROVE  /\ InColumn(col) \in SUBSET Nat /\ InColumn(col) \subseteq Tasks
         /\ IsFiniteSet(InColumn(col))
         /\ \A t \in InColumn(col) : rows[t].rank \in Nat \ {0}
         /\ Order(col) = Sorted(rows, InColumn(col))
  <1>1. InColumn(col) \in SUBSET Nat /\ InColumn(col) \subseteq Tasks
    BY BoardAssumption DEF InColumn
  <1>2. IsFiniteSet(InColumn(col))
    BY <1>1, FS_Subset, BoardAssumption
  <1>3. \A t \in InColumn(col) : rows[t].rank \in Nat \ {0}
    BY DEF Types, Row, InColumn, Exists
  <1>4. Order(col) = Sorted(rows, InColumn(col))
    BY DEF Order, Sorted, RankIn, Precedes, Above
  <1> QED BY <1>1, <1>2, <1>3, <1>4

LEMMA BottomIsBelow ==
  ASSUME Types, NEW col
  PROVE  /\ NextRank(col) \in Nat \ {0}
         /\ col # None => \A t \in InColumn(col) : rows[t].rank < NextRank(col)
  <1> DEFINE S == InColumn(col)
             R == {0} \cup {rows[t].rank : t \in S}
             max == CHOOSE x \in R : \A t \in S : rows[t].rank <= x
  <1>1. S \in SUBSET Nat /\ IsFiniteSet(S) /\ \A t \in S : rows[t].rank \in Nat
    BY ColumnRows
  <1>2. \E x \in R : \A t \in S : rows[t].rank <= x
    <2>1. CASE S = {}
      BY <2>1
    <2>2. CASE S # {}
      <3> HIDE DEF S
      <3>1. PICK t \in S : \A u \in S : rows[u].rank <= rows[t].rank
        BY <1>1, <2>2, SomeHighest
      <3> QED BY <3>1
    <2> QED BY <2>1, <2>2
  <1>3. max \in R /\ \A t \in S : rows[t].rank <= max
    BY <1>2
  <1>4. NextRank(col) = IF col = None THEN 1 ELSE max + 1
    BY DEF NextRank
  <1> HIDE DEF max, S
  <1>5. max \in Nat
    BY <1>1, <1>3
  <1> QED BY <1>1, <1>3, <1>4, <1>5 DEF S

(***************************************************************************)
(* Lists of tasks                                                          *)
(***************************************************************************)

LEMMA WhereItStands ==
  ASSUME NEW s, NEW t \in Elements(s)
  PROVE  Position(s, t) \in DOMAIN s /\ s[Position(s, t)] = t
  BY DEF Position, Elements

LEMMA OnlyThere ==
  ASSUME NEW s, Distinct(s), NEW i \in DOMAIN s
  PROVE  Position(s, s[i]) = i /\ s[i] \in Elements(s)
  BY DEF Position, Elements, Distinct

\* A part of a list, and two lists in a row.
LEMMA Slice ==
  ASSUME NEW s \in Seq(Tasks), NEW lo \in Nat, NEW hi \in Nat, NEW n \in Nat,
         1 <= lo, lo <= hi + 1, hi <= Len(s), n = hi + 1 - lo
  PROVE  /\ SubSeq(s, lo, hi) \in Seq(Tasks) /\ Len(SubSeq(s, lo, hi)) = n
         /\ \A i \in 1 .. n : SubSeq(s, lo, hi)[i] = s[lo + i - 1]
  <1> DEFINE a == SubSeq(s, lo, hi)
  <1>1. lo \in Int /\ hi \in Int /\ \A i \in lo .. hi : s[i] \in Tasks
    OBVIOUS
  <1>2. /\ a \in Seq(Tasks) /\ Len(a) = IF lo <= hi THEN hi - lo + 1 ELSE 0
        /\ \A i \in 1 .. hi - lo + 1 : a[i] = s[lo + i - 1]
    BY <1>1, SubSeqProperties
  <1> HIDE DEF a
  <1>3. n = hi - lo + 1 /\ Len(a) = n
    BY <1>2
  <1>4. a \in Seq(Tasks) /\ \A i \in 1 .. n : a[i] = s[lo + i - 1]
    BY <1>2, <1>3
  <1> QED BY <1>3, <1>4 DEF a

LEMMA Joined ==
  ASSUME NEW a \in Seq(Tasks), NEW b \in Seq(Tasks)
  PROVE  /\ a \o b \in Seq(Tasks) /\ Len(a \o b) = Len(a) + Len(b)
         /\ \A i \in 1 .. Len(a) : (a \o b)[i] = a[i]
         /\ \A i \in 1 .. Len(b) : (a \o b)[Len(a) + i] = b[i]
  <1>1. /\ a \o b \in Seq(Tasks) /\ Len(a \o b) = Len(a) + Len(b)
        /\ \A i \in 1 .. Len(a) + Len(b) : (a \o b)[i] = IF i <= Len(a) THEN a[i] ELSE b[i - Len(a)]
    BY ConcatProperties
  <1>2. PICK k \in Nat, l \in Nat, w \in Seq(Tasks) : k = Len(a) /\ l = Len(b) /\ w = a \o b
    <2>1. Len(a) \in Nat /\ Len(b) \in Nat /\ a \o b \in Seq(Tasks)
      BY <1>1, LenProperties
    <2> QED BY <2>1
  <1>3. \A i \in 1 .. k + l : w[i] = IF i <= k THEN a[i] ELSE b[i - k]
    BY <1>1, <1>2
  <1>4. ASSUME NEW i \in 1 .. l PROVE w[k + i] = b[i]
    <2>1. k + i \in 1 .. k + l /\ ~(k + i <= k) /\ (k + i) - k = i
      OBVIOUS
    <2> QED BY <1>3, <2>1
  <1>5. ASSUME NEW i \in 1 .. k PROVE w[i] = a[i]
    <2>1. i \in 1 .. k + l /\ i <= k
      OBVIOUS
    <2> QED BY <1>3, <2>1
  <1> QED BY <1>1, <1>2, <1>4, <1>5

\* A list without one of its elements.
LEMMA WithoutIt ==
  ASSUME NEW s \in Seq(Tasks), NEW t \in Elements(s), NEW n \in Nat, n = Len(s),
         NEW p \in 1 .. n, p = Position(s, t)
  PROVE  /\ Without(s, t) \in Seq(Tasks) /\ Len(Without(s, t)) = n - 1
         /\ \A i \in 1 .. n - 1 : Without(s, t)[i] = IF i < p THEN s[i] ELSE s[i + 1]
  <1> DEFINE a == SubSeq(s, 1, p - 1)
             b == SubSeq(s, p + 1, n)
             w == a \o b
  <1>1. PICK k \in Nat, l \in Nat : k = p - 1 /\ l = n - p
    OBVIOUS
  <1>2. /\ a \in Seq(Tasks) /\ Len(a) = k
        /\ \A i \in 1 .. k : a[i] = s[1 + i - 1]
    <2>1. p - 1 \in Nat /\ 1 <= p - 1 + 1 /\ p - 1 <= Len(s) /\ k = p - 1 + 1 - 1
      BY <1>1
    <2> QED BY <2>1, Slice
  <1>3. /\ b \in Seq(Tasks) /\ Len(b) = l
        /\ \A i \in 1 .. l : b[i] = s[p + 1 + i - 1]
    <2>1. p + 1 \in Nat /\ 1 <= p + 1 /\ p + 1 <= n + 1 /\ n <= Len(s) /\ l = n + 1 - (p + 1)
      BY <1>1
    <2> QED BY <2>1, Slice
  <1>4. Without(s, t) = w
    BY DEF Without
  <1> HIDE DEF a, b
  <1>5. /\ w \in Seq(Tasks) /\ Len(w) = k + l
        /\ \A i \in 1 .. k : w[i] = a[i]
        /\ \A i \in 1 .. l : w[k + i] = b[i]
    <2>1. /\ w \in Seq(Tasks) /\ Len(w) = Len(a) + Len(b)
          /\ \A i \in 1 .. Len(a) : w[i] = a[i]
          /\ \A i \in 1 .. Len(b) : w[Len(a) + i] = b[i]
      BY <1>2, <1>3, Joined
    <2> HIDE DEF w
    <2> QED BY <1>2, <1>3, <2>1
  <1> HIDE DEF w
  <1>6. ASSUME NEW i \in 1 .. n - 1
        PROVE  w[i] = IF i < p THEN s[i] ELSE s[i + 1]
    <2>1. CASE i < p
      <3>1. i \in 1 .. k /\ 1 + i - 1 = i
        BY <1>1, <2>1
      <3> QED BY <2>1, <3>1, <1>2, <1>5
    <2>2. CASE ~(i < p)
      <3>1. PICK j \in 1 .. l : k + j = i /\ p + 1 + j - 1 = i + 1
        <4>1. i - k \in 1 .. l /\ k + (i - k) = i /\ p + 1 + (i - k) - 1 = i + 1
          BY <1>1, <2>2
        <4> QED BY <4>1
      <3>2. w[i] = b[j] /\ b[j] = s[i + 1]
        BY <3>1, <1>3, <1>5
      <3> QED BY <2>2, <3>2
    <2> QED BY <2>1, <2>2
  <1>7. k + l = n - 1
    BY <1>1
  <1> QED BY <1>4, <1>5, <1>6, <1>7

\* A list with t put in behind its first m.
WithPut(s, t, m) == SubSeq(s, 1, m) \o <<t>> \o SubSeq(s, m + 1, Len(s))

LEMMA PutIn ==
  ASSUME NEW s \in Seq(Tasks), NEW t \in Tasks, NEW m \in 0 .. Len(s)
  PROVE  /\ WithPut(s, t, m) \in Seq(Tasks) /\ Len(WithPut(s, t, m)) = Len(s) + 1
         /\ \A i \in 1 .. m : WithPut(s, t, m)[i] = s[i]
         /\ WithPut(s, t, m)[m + 1] = t
         /\ \A i \in m + 1 .. Len(s) : WithPut(s, t, m)[i + 1] = s[i]
  <1> DEFINE n == Len(s)
             s2 == WithPut(s, t, m)
             a == SubSeq(s, 1, m)
             b == SubSeq(s, m + 1, n)
             one == <<t>>
             at == a \o one
  <1>0. n \in Nat /\ m \in 0 .. n
    OBVIOUS
  <1>1. PICK l \in Nat : l = n - m
    <2>1. n - m \in Nat
      <3> HIDE DEF n
      <3> QED BY <1>0
    <2> QED BY <2>1
  <1>2. /\ a \in Seq(Tasks) /\ Len(a) = m
        /\ \A i \in 1 .. m : a[i] = s[1 + i - 1]
    <2>1. m \in Nat /\ m <= n
      <3> HIDE DEF n
      <3> QED BY <1>0
    <2>2. 1 <= m + 1 /\ m = m + 1 - 1 /\ 1 \in Nat /\ 1 <= 1
      BY <2>1
    <2> QED BY <2>1, <2>2, Slice
  <1>3. /\ b \in Seq(Tasks) /\ Len(b) = l
        /\ \A i \in 1 .. l : b[i] = s[m + 1 + i - 1]
    <2>1. m + 1 \in Nat /\ 1 <= m + 1 /\ m + 1 <= n + 1 /\ n <= Len(s) /\ l = n + 1 - (m + 1)
      <3>1. m + 1 \in Nat /\ 1 <= m + 1 /\ m + 1 <= n + 1 /\ n <= n /\ l = n + 1 - (m + 1)
        <4> HIDE DEF n
        <4> QED BY <1>0, <1>1
      <3> QED BY <3>1
    <2> QED BY <2>1, Slice
  <1>4. one \in Seq(Tasks) /\ Len(one) = 1 /\ one[1] = t
    OBVIOUS
  <1>5. s2 = at \o b
    BY DEF WithPut
  <1> HIDE DEF a, b, one, s2, n
  <1>6. /\ at \in Seq(Tasks) /\ Len(at) = m + 1
        /\ \A i \in 1 .. m : at[i] = a[i]
        /\ \A i \in 1 .. 1 : at[m + i] = one[i]
    <2>1. /\ at \in Seq(Tasks) /\ Len(at) = Len(a) + Len(one)
          /\ \A i \in 1 .. Len(a) : at[i] = a[i]
          /\ \A i \in 1 .. Len(one) : at[Len(a) + i] = one[i]
      BY <1>2, <1>4, Joined
    <2> HIDE DEF at
    <2> QED BY <1>2, <1>4, <2>1
  <1> HIDE DEF at
  <1>7. /\ s2 \in Seq(Tasks) /\ Len(s2) = m + 1 + l
        /\ \A i \in 1 .. m + 1 : s2[i] = at[i]
        /\ \A i \in 1 .. l : s2[m + 1 + i] = b[i]
    <2> DEFINE w == at \o b
    <2>1. /\ w \in Seq(Tasks) /\ Len(w) = Len(at) + Len(b)
          /\ \A i \in 1 .. Len(at) : w[i] = at[i]
          /\ \A i \in 1 .. Len(b) : w[Len(at) + i] = b[i]
      BY <1>3, <1>6, Joined
    <2>2. s2 = w
      BY <1>5
    <2> HIDE DEF w
    <2> QED BY <1>3, <1>6, <2>1, <2>2
  <1>8. ASSUME NEW i \in 1 .. m PROVE s2[i] = s[i]
    <2>1. i \in 1 .. m + 1 /\ 1 + i - 1 = i
      BY <1>0
    <2> QED BY <1>2, <1>6, <1>7, <2>1
  <1>9. s2[m + 1] = t
    <2>1. m + 1 \in 1 .. m + 1 /\ 1 \in 1 .. 1
      BY <1>0
    <2> QED BY <1>4, <1>6, <1>7, <2>1
  <1>10. ASSUME NEW i \in m + 1 .. n PROVE s2[i + 1] = s[i]
    <2>1. PICK j \in 1 .. l : m + 1 + j = i + 1 /\ m + 1 + j - 1 = i
      <3>1. i - m \in 1 .. l /\ m + 1 + (i - m) = i + 1 /\ m + 1 + (i - m) - 1 = i
        BY <1>0, <1>1
      <3> QED BY <3>1
    <2> QED BY <1>3, <1>7, <2>1
  <1>11. m + 1 + l = n + 1
    BY <1>0, <1>1
  <1> QED BY <1>7, <1>8, <1>9, <1>10, <1>11 DEF s2, n

\* A task that was put after its anchor stands there, and no other is gained or lost.
LEMMA PlacedWell ==
  ASSUME NEW s \in Seq(Tasks), Distinct(s), NEW t \in Elements(s), NEW after,
         after = None \/ after \in Elements(s) \ {t}, NEW s2, s2 = Placed(s, t, after)
  PROVE  /\ s2 \in Seq(Tasks) /\ Len(s2) = Len(s)
         /\ Distinct(s2) /\ Elements(s2) = Elements(s)
         /\ IF after = None THEN Position(s2, t) = 1
            ELSE /\ Position(s2, t) > 1
                 /\ s2[Position(s2, t) - 1] = after
  <1> DEFINE n == Len(s)
             p == Position(s, t)
             o == Without(s, t)
             m == IF after = None THEN 0 ELSE Position(o, after)
  <1>1. n \in Nat /\ DOMAIN s = 1 .. n /\ \A i \in 1 .. n : s[i] \in Tasks
    OBVIOUS
  <1>2. p \in 1 .. n /\ s[p] = t /\ t \in Tasks /\ n \in Nat \ {0}
    BY <1>1, WhereItStands
  <1>3. /\ o \in Seq(Tasks) /\ Len(o) = n - 1
        /\ \A i \in 1 .. n - 1 : o[i] = IF i < p THEN s[i] ELSE s[i + 1]
    BY <1>1, <1>2, WithoutIt
  <1>4. DOMAIN o = 1 .. n - 1
    <2> HIDE DEF o, n
    <2> QED BY <1>3
  <1>5. \A i, j \in 1 .. n : s[i] = s[j] => i = j
    BY <1>1 DEF Distinct
  <1> HIDE DEF n, p, o
  <1>6. after # None => m \in 1 .. n - 1 /\ o[m] = after
    <2> SUFFICES ASSUME after # None PROVE m \in 1 .. n - 1 /\ o[m] = after
      OBVIOUS
    <2>1. PICK i \in 1 .. n : s[i] = after
      BY <1>1 DEF Elements
    <2>2. i # p
      BY <1>2, <2>1
    <2>3. \E j \in 1 .. n - 1 : o[j] = after
      <3>1. CASE i < p
        BY <1>2, <1>3, <2>1, <3>1
      <3>2. CASE i > p
        <4>1. i - 1 \in 1 .. n - 1 /\ ~(i - 1 < p) /\ (i - 1) + 1 = i
          BY <1>2, <3>2
        <4> QED BY <1>3, <2>1, <4>1
      <3> QED BY <1>2, <2>2, <3>1, <3>2
    <2>4. after \in Elements(o)
      BY <1>4, <2>3 DEF Elements
    <2> QED BY <1>4, <2>4, WhereItStands
  <1>7. m \in 0 .. n - 1
    BY <1>2, <1>6
  <1>8. s2 = WithPut(o, t, m)
    BY DEF Placed, WithPut, o
  <1> HIDE DEF m
  <1>9. /\ s2 \in Seq(Tasks) /\ Len(s2) = n
        /\ \A i \in 1 .. n : s2[i] = IF i <= m THEN o[i] ELSE IF i = m + 1 THEN t ELSE o[i - 1]
    <2>1. n - 1 \in Nat /\ n - 1 + 1 = n
      BY <1>2
    <2>2. /\ s2 \in Seq(Tasks) /\ Len(s2) = n - 1 + 1
          /\ \A i \in 1 .. m : s2[i] = o[i]
          /\ s2[m + 1] = t
          /\ \A i \in m + 1 .. n - 1 : s2[i + 1] = o[i]
      <3>1. Len(o) = n - 1 /\ m \in 0 .. Len(o) /\ o \in Seq(Tasks) /\ t \in Tasks
        BY <1>2, <1>3, <1>7, <2>1
      <3> DEFINE w == WithPut(o, t, m)
      <3>2. /\ w \in Seq(Tasks) /\ Len(w) = Len(o) + 1
            /\ \A i \in 1 .. m : w[i] = o[i]
            /\ w[m + 1] = t
            /\ \A i \in m + 1 .. Len(o) : w[i + 1] = o[i]
        BY <3>1, PutIn
      <3>3. s2 = w
        BY <1>8
      <3> HIDE DEF w
      <3> QED BY <3>1, <3>2, <3>3
    <2>3. ASSUME NEW i \in 1 .. n, i > m + 1
          PROVE  s2[i] = o[i - 1]
      <3>1. i - 1 \in m + 1 .. n - 1 /\ (i - 1) + 1 = i
        BY <1>2, <1>7, <2>3
      <3> QED BY <2>2, <3>1
    <2>4. ASSUME NEW i \in 1 .. n
          PROVE  s2[i] = IF i <= m THEN o[i] ELSE IF i = m + 1 THEN t ELSE o[i - 1]
      <3>1. CASE i <= m
        BY <2>2, <3>1
      <3>2. CASE i = m + 1
        BY <1>7, <2>2, <3>2
      <3>3. CASE i > m + 1
        BY <1>7, <2>3, <3>3
      <3> QED BY <1>7, <3>1, <3>2, <3>3
    <2> QED BY <2>1, <2>2, <2>4
  <1>10. DOMAIN s2 = 1 .. n
    BY <1>9
  \* Where the i-th of the new list stood in the old one.
  <1> DEFINE old(i) == IF i = m + 1 THEN p
                       ELSE IF i <= m THEN (IF i < p THEN i ELSE i + 1)
                       ELSE (IF i - 1 < p THEN i - 1 ELSE i)
  <1>11. \A i \in 1 .. n : old(i) \in 1 .. n /\ s2[i] = s[old(i)]
    <2> SUFFICES ASSUME NEW i \in 1 .. n PROVE old(i) \in 1 .. n /\ s2[i] = s[old(i)]
      OBVIOUS
    <2>1. CASE i = m + 1
      BY <1>2, <1>7, <1>9, <2>1
    <2>2. CASE i <= m
      <3>1. i \in 1 .. n - 1 /\ i # m + 1
        BY <1>2, <1>7, <2>2
      <3> QED BY <1>2, <1>3, <1>9, <2>2, <3>1
    <2>3. CASE i > m + 1
      <3>1. i - 1 \in 1 .. n - 1 /\ i # m + 1 /\ ~(i <= m) /\ (i - 1) + 1 = i
        BY <1>2, <1>7, <2>3
      <3>2. s2[i] = o[i - 1]
        BY <1>9, <3>1
      <3>3. o[i - 1] = IF i - 1 < p THEN s[i - 1] ELSE s[i]
        BY <1>3, <3>1
      <3> QED BY <1>2, <3>1, <3>2, <3>3
    <2> QED BY <1>7, <2>1, <2>2, <2>3
  <1>12. \A i, j \in 1 .. n : old(i) = old(j) => i = j
    BY <1>2, <1>7
  <1>13. \A k \in 1 .. n : \E i \in 1 .. n : old(i) = k
    <2> SUFFICES ASSUME NEW k \in 1 .. n PROVE \E i \in 1 .. n : old(i) = k
      OBVIOUS
    <2>1. CASE k = p
      <3>1. m + 1 \in 1 .. n /\ old(m + 1) = p
        BY <1>2, <1>7
      <3> QED BY <2>1, <3>1
    <2>2. CASE k < p
      <3>1. CASE k <= m
        <4>1. old(k) = k
          BY <1>2, <1>7, <2>2, <3>1
        <4> QED BY <4>1
      <3>2. CASE k > m
        <4>1. k + 1 \in 1 .. n /\ old(k + 1) = k
          BY <1>2, <1>7, <2>2, <3>2
        <4> QED BY <4>1
      <3> QED BY <1>7, <3>1, <3>2
    <2>3. CASE k > p
      <3>1. CASE k - 1 <= m
        <4>1. k - 1 \in 1 .. n /\ old(k - 1) = k
          BY <1>2, <1>7, <2>3, <3>1
        <4> QED BY <4>1
      <3>2. CASE k - 1 > m
        <4>1. old(k) = k
          BY <1>2, <1>7, <2>3, <3>2
        <4> QED BY <4>1
      <3> QED BY <1>7, <3>1, <3>2
    <2> QED BY <1>2, <2>1, <2>2, <2>3
  <1> HIDE DEF old
  <1>14. Distinct(s2)
    BY <1>5, <1>10, <1>11, <1>12 DEF Distinct
  <1>15. Elements(s2) = Elements(s)
    <2>1. Elements(s) = {s[i] : i \in 1 .. n} /\ Elements(s2) = {s2[i] : i \in 1 .. n}
      BY <1>1, <1>10 DEF Elements
    <2>2. \A i \in 1 .. n : \E k \in 1 .. n : s2[i] = s[k]
      BY <1>11
    <2>3. \A k \in 1 .. n : \E i \in 1 .. n : s2[i] = s[k]
      BY <1>11, <1>13
    <2>4. Elements(s2) \subseteq Elements(s)
      BY <2>1, <2>2
    <2>5. Elements(s) \subseteq Elements(s2)
      BY <2>1, <2>3
    <2> QED BY <2>4, <2>5
  <1>16. Position(s2, t) = m + 1
    <2>1. m + 1 \in 1 .. n /\ s2[m + 1] = t
      BY <1>2, <1>7, <1>9
    <2> QED BY <1>10, <1>14, <2>1, OnlyThere
  <1>17. after # None => s2[m] = after
    <2> SUFFICES ASSUME after # None PROVE s2[m] = after
      OBVIOUS
    <2>1. m \in 1 .. n /\ m <= m /\ o[m] = after
      BY <1>2, <1>6
    <2> QED BY <1>9, <2>1
  <1>18. /\ after = None => m = 0
         /\ after # None => m \in 1 .. n - 1
    BY <1>6 DEF m
  <1>19. m \in Nat /\ m + 1 - 1 = m
    BY <1>7
  <1>20. CASE after = None
    BY <1>9, <1>14, <1>15, <1>16, <1>18, <1>20 DEF n
  <1>21. CASE after # None
    <2>1. Position(s2, t) > 1
      BY <1>2, <1>16, <1>18, <1>21
    <2>2. s2[Position(s2, t) - 1] = after
      BY <1>16, <1>17, <1>19, <1>21
    <2> QED BY <1>9, <1>14, <1>15, <1>21, <2>1, <2>2 DEF n
  <1> QED BY <1>20, <1>21

(***************************************************************************)
(* The start                                                               *)
(***************************************************************************)

LEMMA StartRanks ==
  ASSUME Init
  PROVE  /\ \A t \in DOMAIN Start : rows[t].rank \in Nat \ {0} /\ rows[t].column = Start[t]
         /\ \A t, u \in DOMAIN Start : rows[t].rank = rows[u].rank /\ Start[t] = Start[u] => t = u
         /\ \A t \in Tasks \ DOMAIN Start : rows[t] = NoRow
  <1> DEFINE S(t) == {u \in DOMAIN Start : Start[u] = Start[t] /\ u <= t}
  <1>1. \A t \in DOMAIN Start : t \in Tasks /\ t \in Nat
    BY BoardAssumption
  <1>2. \A t \in DOMAIN Start : rows[t] = [column |-> Start[t], rank |-> Cardinality(S(t))]
    BY <1>1 DEF Init
  <1>3. ASSUME NEW t \in DOMAIN Start
        PROVE  IsFiniteSet(S(t)) /\ Cardinality(S(t)) \in Nat \ {0} /\ t \in S(t)
    <2>1. S(t) \in SUBSET Tasks /\ t \in S(t)
      BY <1>1
    <2>2. IsFiniteSet(S(t))
      BY <2>1, FS_Subset, BoardAssumption
    <2> QED BY <2>1, <2>2, FS_CardinalityType, FS_EmptySet
  <1>4. ASSUME NEW t \in DOMAIN Start, NEW u \in DOMAIN Start, Start[t] = Start[u], t < u
        PROVE  Cardinality(S(t)) # Cardinality(S(u))
    <2>1. u \in S(u) /\ u \notin S(t) /\ S(t) \in SUBSET S(u)
      BY <1>1, <1>4
    <2> HIDE DEF S
    <2> QED BY <1>3, <2>1, FS_Subset
  <1>5. ASSUME NEW t \in DOMAIN Start, NEW u \in DOMAIN Start, Start[t] = Start[u],
               Cardinality(S(t)) = Cardinality(S(u))
        PROVE  t = u
    <2>1. t < u \/ u < t \/ t = u
      BY <1>1
    <2> HIDE DEF S
    <2> QED BY <1>4, <1>5, <2>1
  <1> HIDE DEF S
  <1>6. \A t \in Tasks \ DOMAIN Start : rows[t] = NoRow
    BY DEF Init
  <1>7. \A t \in DOMAIN Start : rows[t].rank = Cardinality(S(t)) /\ rows[t].column = Start[t]
    <2>1. ASSUME NEW t \in DOMAIN Start
          PROVE  rows[t].rank = Cardinality(S(t)) /\ rows[t].column = Start[t]
      <3>1. PICK x : x = Cardinality(S(t))
        OBVIOUS
      <3>2. rows[t] = [column |-> Start[t], rank |-> x]
        BY <1>2, <3>1
      <3> QED BY <3>1, <3>2
    <2> QED BY <2>1
  <1>8. \A t, u \in DOMAIN Start : rows[t].rank = rows[u].rank /\ Start[t] = Start[u] => t = u
    BY <1>5, <1>7
  <1> QED BY <1>3, <1>6, <1>7, <1>8

LEMMA InitEstablishesIInv == Init => IInv
  <1> SUFFICES ASSUME Init PROVE IInv
    OBVIOUS
  <1>1. Types
    <2>1. rows \in [Tasks -> Row]
      <3>1. ASSUME NEW t \in Tasks PROVE rows[t] \in Row
        <4>1. CASE t \in DOMAIN Start
          <5>1. rows[t] = [column |-> Start[t], rank |-> Cardinality({u \in DOMAIN Start : Start[u] = Start[t] /\ u <= t})]
            BY <4>1 DEF Init
          <5>2. rows[t].rank \in Nat /\ Start[t] \in Columns
            BY <4>1, StartRanks, BoardAssumption
          <5> QED BY <5>1, <5>2 DEF Row
        <4>2. CASE t \notin DOMAIN Start
          BY <4>2, StartRanks DEF Row, NoRow
        <4> QED BY <4>1, <4>2
      <3>2. rows = [t \in Tasks |-> rows[t]]
        BY DEF Init
      <3> QED BY <3>1, <3>2
    <2>2. \A t \in Tasks : rows[t].rank = 0 => rows[t] = NoRow
      BY StartRanks
    <2> QED BY <2>1, <2>2, BoardAssumption DEF Init, Types
  <1>2. \A c \in Calls : Reordering(c)
    BY DEF Init, Reordering, Holding
  <1>3. (\A k \in Movers : Moving(k)) /\ LocksStand
    BY DEF Init, Moving, LocksStand
  <1>4. ASSUME NEW col \in Columns \ raced PROVE Ordered(col)
    <2>1. ASSUME NEW t \in InColumn(col) PROVE t \in DOMAIN Start /\ Start[t] = col
      <3>1. t \in Tasks /\ rows[t].column = col /\ rows[t].rank # 0
        BY DEF InColumn, Exists
      <3>2. t \in DOMAIN Start
        BY <3>1, StartRanks DEF NoRow
      <3> QED BY <3>1, <3>2, StartRanks
    <2>2. Apart(col)
      BY <2>1, StartRanks DEF Apart
    <2> QED BY <2>2 DEF Ordered, Enters, IsOf, Init
  <1> QED BY <1>1, <1>2, <1>3, <1>4 DEF IInv

(***************************************************************************)
(* The steps of a reorder before its commit                                *)
(***************************************************************************)

\* A step of one reorder that writes no row: what has to be shown of it.
LEMMA CallStep ==
  ASSUME IInv, NEW c \in Calls, UNCHANGED <<rows, moverState>>,
         \A b \in Calls \ {c} : /\ pc'[b] = pc[b] /\ req'[b] = req[b]
                                /\ todo'[b] = todo[b] /\ got'[b] = got[b],
         Types', Reordering(c)', LocksStand',
         \A t \in Tasks : \/ rowLock'[t] = rowLock[t]
                          \/ rowLock[t] \in {None, c} /\ rowLock'[t] \in {None, c},
         \A col \in Columns \ raced : IsOf(c, col)' =>
            /\ Newcomers(c, col)'
            /\ \A b \in Calls : IsOf(b, col)' => Overlap(b, c, col)' /\ Overlap(c, b, col)'
  PROVE  IInv'
  <1>1. ASSUME NEW b \in Calls PROVE Reordering(b)'
    <2>1. CASE b = c
      BY <2>1
    <2>2. CASE b # c
      <3>1. pc'[b] = pc[b] /\ req'[b] = req[b] /\ todo'[b] = todo[b] /\ got'[b] = got[b]
        BY <2>2
      <3>2. \A t \in Tasks : Holds(b, t) => Holds(b, t)'
        BY <2>2, <3>1, BoardAssumption DEF Holds, Exists
      <3>3. Reordering(b) /\ Elements(got[b]) \subseteq Tasks /\ (req[b] \in Request => req[b].task \in Tasks)
        BY DEF IInv, Types, Elements, Request
      <3> QED BY <3>1, <3>2, <3>3 DEF Reordering, Holding, Seeing, Exists, Asked
    <2> QED BY <2>1, <2>2
  <1>2. ASSUME NEW k \in Movers PROVE Moving(k)'
    <2>1. Moving(k) /\ mpc' = mpc /\ move' = move /\ bottom' = bottom /\ rows' = rows
      BY DEF IInv, moverState
    <2>2. \A t \in Tasks : rowLock[t] = k => rowLock'[t] = k
      BY BoardAssumption
    <2> QED BY <2>1, <2>2 DEF Moving, Exists, Move
  <1>3. ASSUME NEW col \in Columns \ raced' PROVE Ordered(col)'
    <2>1. /\ rows' = rows /\ mpc' = mpc /\ move' = move /\ bottom' = bottom /\ raced' = raced
          /\ InColumn(col)' = InColumn(col) /\ Ordered(col)
      BY <1>3 DEF IInv, moverState, InColumn, Exists
    <2>2. Apart(col)'
      BY <2>1 DEF Ordered, Apart
    <2>3. \A k \in Movers : Enters(k, col)' =>
             /\ Below(k, col)'
             /\ \A j \in Movers : Enters(j, col)' => j = k
      BY <2>1 DEF Ordered, Enters, Below
    <2>4. \A b \in Calls \ {c} : /\ IsOf(b, col)' <=> IsOf(b, col)
                                 /\ Seeing(b)' = Seeing(b) /\ SeenThere(b, col)' = SeenThere(b, col)
      BY <2>1 DEF IsOf, Seeing, SeenThere
    <2>5. ASSUME NEW b \in Calls, IsOf(b, col)' PROVE Newcomers(b, col)'
      <3>1. CASE b = c
        BY <2>1, <2>5, <3>1
      <3>2. CASE b # c
        BY <2>1, <2>4, <2>5, <3>2 DEF Ordered, Newcomers
      <3> QED BY <3>1, <3>2
    <2>6. ASSUME NEW a \in Calls, NEW b \in Calls, IsOf(a, col)', IsOf(b, col)' PROVE Overlap(a, b, col)'
      <3>1. CASE a = c \/ b = c
        BY <2>1, <2>6, <3>1
      <3>2. CASE a # c /\ b # c
        BY <2>1, <2>4, <2>6, <3>2 DEF Ordered, Overlap
      <3> QED BY <3>1, <3>2
    <2> QED BY <2>2, <2>3, <2>5, <2>6 DEF Ordered
  <1> QED BY <1>1, <1>2, <1>3 DEF IInv

\* The case of a step after which the reorder has no rows before it.
LEMMA PlainCallStep ==
  ASSUME IInv, NEW c \in Calls, UNCHANGED <<rows, moverState>>,
         \A b \in Calls \ {c} : /\ pc'[b] = pc[b] /\ req'[b] = req[b]
                                /\ todo'[b] = todo[b] /\ got'[b] = got[b],
         Types', Reordering(c)', LocksStand', pc'[c] # "column",
         \A t \in Tasks : \/ rowLock'[t] = rowLock[t]
                          \/ rowLock[t] \in {None, c} /\ rowLock'[t] \in {None, c}
  PROVE  IInv'
  <1>1. \A col : ~IsOf(c, col)'
    BY DEF IsOf
  <1> QED BY <1>1, CallStep

LEMMA SubmitKeepsIInv ==
  ASSUME IInv, NEW c \in Calls, NEW o \in Ops, NEW q \in Reorders, Submit(c, o, q)
  PROVE  IInv'
  <1>1. q \in Reorder /\ pc[c] = "idle"
    BY BoardAssumption DEF Submit
  <1> DEFINE r == [op |-> o, task |-> q.task, column |-> q.column, after |-> q.after]
  <1>2. r \in Request /\ [task |-> r.task, column |-> r.column, after |-> r.after] = q
    BY <1>1 DEF Request, Reorder
  <1>3. req' = [req EXCEPT ![c] = r] /\ pc' = [pc EXCEPT ![c] = "check"]
    BY DEF Submit
  <1> HIDE DEF r
  <1>4. Types'
    BY <1>2, <1>3 DEF IInv, Types, Submit, moverState
  <1>5. Reordering(c)'
    <2>1. Asked(c)' = q /\ req'[c] = r /\ pc'[c] = "check" /\ todo'[c] = todo[c] /\ got'[c] = got[c]
      BY <1>2, <1>3 DEF Asked, IInv, Types, Submit
    <2>2. todo[c] = <<>> /\ got[c] = <<>>
      BY <1>1 DEF IInv, Reordering
    <2> QED BY <1>2, <2>1, <2>2 DEF Reordering, Holding
  <1>6. LocksStand' /\ rowLock' = rowLock /\ UNCHANGED <<rows, moverState>>
    BY DEF Submit, IInv, LocksStand, Exists
  <1>7. \A b \in Calls \ {c} : pc'[b] = pc[b] /\ req'[b] = req[b] /\ todo'[b] = todo[b] /\ got'[b] = got[b]
    BY <1>3 DEF Submit, IInv, Types
  <1>8. pc'[c] = "check"
    BY <1>3 DEF IInv, Types
  <1> QED BY <1>4, <1>5, <1>6, <1>7, <1>8, PlainCallStep

\* Answering, with the locks as they are.
LEMMA AnswerKeepsIInv ==
  ASSUME IInv, NEW c \in Calls, pc[c] # "idle", NEW x, NEW y, Answer(c, x, y),
         UNCHANGED <<rows, rowLock, req, moverState>>
  PROVE  IInv'
  <1>1. Types'
    BY DEF IInv, Types, Answer, moverState
  <1>2. Reordering(c)'
    BY DEF IInv, Types, Reordering, Holding, Answer, Asked
  <1>3. LocksStand'
    BY DEF IInv, LocksStand, Exists
  <1>4. /\ \A b \in Calls \ {c} : pc'[b] = pc[b] /\ req'[b] = req[b] /\ todo'[b] = todo[b] /\ got'[b] = got[b]
        /\ pc'[c] # "column"
    BY DEF Answer, IInv, Types
  <1> QED BY <1>1, <1>2, <1>3, <1>4, PlainCallStep

LEMMA FromReceiptKeepsIInv ==
  ASSUME IInv, NEW c \in Calls, pc[c] # "idle", AnswerFromReceipt(c)
  PROVE  IInv'
  <1>1. PICK x, y : Answer(c, x, y)
    BY DEF AnswerFromReceipt
  <1>2. UNCHANGED <<rows, rowLock, req, moverState>>
    BY DEF AnswerFromReceipt
  <1> QED BY <1>1, <1>2, AnswerKeepsIInv

LEMMA AbortKeepsIInv ==
  ASSUME IInv, NEW c \in Calls, pc[c] # "idle", NEW x, Abort(c, x)
  PROVE  IInv'
  <1>1. rowLock' = Released(c) /\ pc' = [pc EXCEPT ![c] = "recheck"] /\ UNCHANGED <<rows, req, todo, got, moverState>>
    BY DEF Abort
  <1>2. Types'
    BY <1>1 DEF IInv, Types, Released, moverState
  <1>3. Reordering(c)'
    BY <1>1 DEF IInv, Types, Reordering, Holding, Asked
  <1>4. LocksStand'
    BY <1>1 DEF IInv, LocksStand, Exists, Released
  <1>5. \A t \in Tasks : rowLock'[t] = rowLock[t] \/ (rowLock[t] \in {None, c} /\ rowLock'[t] \in {None, c})
    BY <1>1 DEF Released
  <1>6. /\ \A b \in Calls \ {c} : pc'[b] = pc[b] /\ req'[b] = req[b] /\ todo'[b] = todo[b] /\ got'[b] = got[b]
        /\ pc'[c] # "column"
    BY <1>1 DEF IInv, Types
  <1> QED BY <1>1, <1>2, <1>3, <1>4, <1>5, <1>6, PlainCallStep

LEMMA CheckKeepsIInv ==
  ASSUME IInv, NEW c \in Calls, CheckHit(c) \/ CheckMiss(c) \/ Recheck(c)
  PROVE  IInv'
  <1>1. CASE CheckHit(c)
    BY <1>1, FromReceiptKeepsIInv DEF CheckHit
  <1>2. CASE CheckMiss(c)
    <2>1. Types'
      BY <1>2 DEF IInv, Types, CheckMiss, moverState
    <2>2. Reordering(c)'
      BY <1>2 DEF IInv, Types, CheckMiss, Reordering, Holding, Asked
    <2>3. LocksStand' /\ rowLock' = rowLock /\ UNCHANGED <<rows, moverState>>
      BY <1>2 DEF CheckMiss, IInv, LocksStand, Exists
    <2>4. /\ \A b \in Calls \ {c} : pc'[b] = pc[b] /\ req'[b] = req[b] /\ todo'[b] = todo[b] /\ got'[b] = got[b]
          /\ pc'[c] # "column"
      BY <1>2 DEF CheckMiss, IInv, Types
    <2> QED BY <2>1, <2>2, <2>3, <2>4, PlainCallStep
  <1>3. CASE Recheck(c)
    <2>1. CASE AnswerFromReceipt(c)
      BY <1>3, <2>1, FromReceiptKeepsIInv DEF Recheck
    <2>2. CASE ~AnswerFromReceipt(c)
      <3>1. pc[c] # "idle" /\ Answer(c, answer[c].outcome, <<>>) /\ UNCHANGED <<rows, rowLock, req, moverState>>
        BY <1>3, <2>2 DEF Recheck
      <3> QED BY <3>1, AnswerKeepsIInv
    <2> QED BY <2>1, <2>2
  <1> QED BY <1>1, <1>2, <1>3

LEMMA LockTargetKeepsIInv ==
  ASSUME IInv, NEW c \in Calls, LockTarget(c)
  PROVE  IInv'
  <1>1. pc[c] = "target" /\ req[c] \in Request
    BY DEF LockTarget, IInv, Reordering
  <1>2. CASE \E x : Abort(c, x)
    BY <1>1, <1>2, AbortKeepsIInv
  <1>3. CASE ~\E x : Abort(c, x)
    <2>0. PICK t : t = req[c].task
      OBVIOUS
    <2>1. /\ Exists(t) /\ rowLock[t] = None /\ rows[t].column = req[c].column
          /\ rowLock' = [rowLock EXCEPT ![t] = c] /\ pc' = [pc EXCEPT ![c] = "select"]
          /\ UNCHANGED <<rows, req, todo, got, moverState>>
      BY <1>3, <2>0 DEF LockTarget
    <2>2. t \in Tasks
      BY <1>1, <2>0 DEF Request
    <2>3. Types'
      BY <2>1, <2>2 DEF IInv, Types, moverState
    <2>4. Reordering(c)'
      <3>1. todo[c] = <<>> /\ got[c] = <<>> /\ Asked(c) \in Reorders
        BY <1>1 DEF IInv, Reordering
      <3>2. rowLock'[t] = c /\ pc'[c] = "select" /\ req'[c] = req[c] /\ todo'[c] = todo[c] /\ got'[c] = got[c]
        BY <2>1, <2>2 DEF IInv, Types
      <3>3. Holds(c, t)'
        BY <2>1, <3>2 DEF Holds, Exists
      <3> QED BY <1>1, <2>0, <3>1, <3>2, <3>3 DEF Reordering, Holding, Asked
    <2>5. LocksStand'
      BY <2>1, <2>2 DEF IInv, Types, LocksStand, Exists
    <2>6. \A u \in Tasks : rowLock'[u] = rowLock[u] \/ (rowLock[u] \in {None, c} /\ rowLock'[u] \in {None, c})
      BY <2>1, <2>2 DEF IInv, Types
    <2>7. /\ \A b \in Calls \ {c} : pc'[b] = pc[b] /\ req'[b] = req[b] /\ todo'[b] = todo[b] /\ got'[b] = got[b]
          /\ pc'[c] # "column"
      BY <2>1 DEF IInv, Types
    <2> QED BY <2>1, <2>3, <2>4, <2>5, <2>6, <2>7, PlainCallStep
  <1> QED BY <1>2, <1>3

LEMMA SelectColumnKeepsIInv ==
  ASSUME IInv, NEW c \in Calls, SelectColumn(c)
  PROVE  IInv'
  <1>1. PICK col : col = req[c].column
    OBVIOUS
  <1>2. /\ pc[c] = "select" /\ req[c] \in Request /\ Asked(c) \in Reorders
        /\ Holds(c, req[c].task) /\ got[c] = <<>> /\ Types
    BY DEF SelectColumn, IInv, Reordering, Holding
  <1>3. /\ todo' = [todo EXCEPT ![c] = Order(col)] /\ pc' = [pc EXCEPT ![c] = "column"]
        /\ UNCHANGED <<rows, rowLock, req, got, moverState>>
    BY <1>1 DEF SelectColumn
  <1>4. Order(col) \in Seq(Tasks) /\ Elements(Order(col)) = InColumn(col) /\ Distinct(Order(col))
    <2>1. Order(col) \in Seq(InColumn(col)) /\ Elements(Order(col)) = InColumn(col) /\ Distinct(Order(col))
      BY <1>2, ColumnRows, SortedRows
    <2>2. InColumn(col) \subseteq Tasks
      BY DEF InColumn
    <2> QED BY <2>1, <2>2
  <1>5. Types'
    BY <1>2, <1>3, <1>4 DEF Types, moverState
  <1>6. pc'[c] = "column" /\ todo'[c] = Order(col) /\ got'[c] = <<>> /\ req'[c] = req[c]
    BY <1>2, <1>3 DEF Types
  <1>7. Elements(got[c]) = {}
    BY <1>2 DEF Elements
  <1>8. Seeing(c)' = InColumn(col)
    BY <1>2, <1>4, <1>6, <1>7 DEF Seeing, Elements
  <1>9. \A b \in Calls, t \in Tasks : Holds(b, t) => Holds(b, t)'
    BY <1>3 DEF Holds, Exists
  <1>10. \A b \in Calls : (Holds(b, req[b].task) /\ req[b].task \in Tasks /\ req[b].column = col) => req[b].task \in InColumn(col)
    BY DEF Holds, InColumn
  <1>11. req[c].task \in Tasks
    BY <1>2 DEF Request
  <1>12. Reordering(c)'
    <2>1. req[c].task \in Seeing(c)'
      BY <1>1, <1>2, <1>8, <1>10, <1>11
    <2>2. Holds(c, req[c].task)'
      BY <1>2, <1>3 DEF Holds, Exists
    <2>3. \A t \in InColumn(col) : Exists(t)'
      BY <1>3 DEF InColumn, Exists
    <2>4. Elements(got'[c]) = {} /\ Distinct(got'[c])
      BY <1>2, <1>6, <1>7 DEF Distinct
    <2> QED BY <1>2, <1>4, <1>6, <2>1, <2>2, <2>3, <2>4 DEF Reordering, Holding, Asked
  <1>13. LocksStand'
    BY <1>3 DEF IInv, LocksStand, Exists
  <1>14. \A b \in Calls \ {c} : pc'[b] = pc[b] /\ req'[b] = req[b] /\ todo'[b] = todo[b] /\ got'[b] = got[b]
    BY <1>3 DEF IInv, Types
  <1>15. ASSUME NEW l \in Columns \ raced, IsOf(c, l)'
         PROVE  /\ Newcomers(c, l)'
                /\ \A b \in Calls : IsOf(b, l)' => Overlap(b, c, l)' /\ Overlap(c, b, l)'
    <2>1. l = col /\ InColumn(l)' = InColumn(col)
      BY <1>1, <1>3, <1>15 DEF IsOf, InColumn, Exists
    <2>2. Newcomers(c, l)'
      BY <1>8, <2>1 DEF Newcomers
    <2>3. ASSUME NEW b \in Calls, IsOf(b, l)' PROVE Overlap(b, c, l)' /\ Overlap(c, b, l)'
      <3>1. Holds(b, req[b].task) /\ req[b].task \in Tasks /\ req[b].column = col
        <4>1. b # c => IsOf(b, col)
          BY <1>14, <2>1, <2>3 DEF IsOf
        <4> QED BY <1>1, <1>2, <1>11, <4>1 DEF IInv, Reordering, IsOf, Holding, Request
      <3>2. req[b].task \in Seeing(c)'
        BY <1>8, <1>10, <3>1
      <3>3. SeenThere(b, l)' \subseteq Seeing(c)'
        BY <1>8, <2>1 DEF SeenThere
      <3> QED BY <1>3, <3>2, <3>3 DEF Overlap
    <2> QED BY <2>2, <2>3
  <1> QED BY <1>3, <1>5, <1>12, <1>13, <1>14, <1>15, CallStep

\* The head of a list leaves it; a task is appended to another.
LEMMA HeadGoes ==
  ASSUME NEW s \in Seq(Tasks), s # <<>>, Distinct(s)
  PROVE  /\ Head(s) \in Tasks /\ Head(s) \in Elements(s) /\ Tail(s) \in Seq(Tasks)
         /\ Elements(Tail(s)) = Elements(s) \ {Head(s)} /\ Distinct(Tail(s))
  <1> DEFINE n == Len(s)
             w == Tail(s)
  <1>1. n \in Nat \ {0} /\ DOMAIN s = 1 .. n /\ \A i \in 1 .. n : s[i] \in Tasks
    BY EmptySeq
  <1>2. Head(s) = s[1] /\ w \in Seq(Tasks) /\ Len(w) = n - 1 /\ \A i \in 1 .. Len(w) : w[i] = s[i + 1]
    BY HeadTailProperties
  <1> HIDE DEF n, w
  <1>3. DOMAIN w = 1 .. n - 1 /\ \A i \in 1 .. n - 1 : w[i] = s[i + 1]
    BY <1>2
  <1>4. \A i \in 1 .. n - 1 : i + 1 \in 1 .. n /\ i + 1 # 1
    BY <1>1
  <1>5. \A j \in 1 .. n : j # 1 => j - 1 \in 1 .. n - 1 /\ (j - 1) + 1 = j
    BY <1>1
  <1>6. 1 \in 1 .. n
    BY <1>1
  <1>7. \A i, j \in 1 .. n : s[i] = s[j] => i = j
    BY <1>1 DEF Distinct
  <1>8. Distinct(w)
    <2>1. ASSUME NEW i \in 1 .. n - 1, NEW j \in 1 .. n - 1, w[i] = w[j] PROVE i = j
      <3>1. i + 1 = j + 1
        BY <1>3, <1>4, <1>7, <2>1
      <3> QED BY <3>1
    <2> QED BY <1>3, <2>1 DEF Distinct
  <1>9. Elements(w) = Elements(s) \ {Head(s)}
    <2>1. ASSUME NEW t \in Elements(w) PROVE t \in Elements(s) \ {Head(s)}
      <3>1. PICK i \in 1 .. n - 1 : t = s[i + 1]
        BY <1>3, <2>1 DEF Elements
      <3>2. s[i + 1] # s[1]
        BY <1>4, <1>6, <1>7
      <3> QED BY <1>1, <1>2, <1>4, <3>1, <3>2 DEF Elements
    <2>2. ASSUME NEW t \in Elements(s) \ {Head(s)} PROVE t \in Elements(w)
      <3>1. PICK j \in 1 .. n : t = s[j] /\ j # 1
        BY <1>1, <1>2, <2>2 DEF Elements
      <3>2. PICK i \in 1 .. n - 1 : i + 1 = j
        BY <1>5, <3>1
      <3>3. w[i] = t
        BY <1>3, <3>1, <3>2
      <3> QED BY <1>3, <3>3 DEF Elements
    <2> QED BY <2>1, <2>2
  <1>10. Head(s) \in Tasks /\ Head(s) \in Elements(s)
    BY <1>1, <1>2, <1>6 DEF Elements
  <1> QED BY <1>2, <1>8, <1>9, <1>10 DEF w

LEMMA OneMore ==
  ASSUME NEW s \in Seq(Tasks), NEW t \in Tasks, Distinct(s), t \notin Elements(s)
  PROVE  /\ Append(s, t) \in Seq(Tasks) /\ Elements(Append(s, t)) = Elements(s) \cup {t}
         /\ Distinct(Append(s, t))
  <1> DEFINE n == Len(s)
             w == Append(s, t)
  <1>1. n \in Nat /\ DOMAIN s = 1 .. n
    OBVIOUS
  <1>2. w \in Seq(Tasks) /\ Len(w) = n + 1 /\ w[n + 1] = t /\ \A i \in 1 .. n : w[i] = s[i]
    BY AppendProperties
  <1> HIDE DEF n, w
  <1>3. DOMAIN w = 1 .. n + 1
    BY <1>2
  <1>4. \A i \in 1 .. n + 1 : i \in 1 .. n \/ i = n + 1
    BY <1>1
  <1>5. \A i \in 1 .. n : i \in 1 .. n + 1 /\ s[i] # t
    BY <1>1 DEF Elements
  <1>6. n + 1 \in 1 .. n + 1
    BY <1>1
  <1>7. Distinct(w)
    BY <1>1, <1>2, <1>3, <1>4, <1>5 DEF Distinct
  <1>8. Elements(w) \subseteq Elements(s) \cup {t}
    BY <1>1, <1>2, <1>3, <1>4 DEF Elements
  <1>9. Elements(s) \cup {t} \subseteq Elements(w)
    <2>1. ASSUME NEW u \in Elements(s) PROVE u \in Elements(w)
      <3>1. PICK i \in 1 .. n : s[i] = u
        BY <1>1, <2>1 DEF Elements
      <3> QED BY <1>2, <1>3, <1>5, <3>1 DEF Elements
    <2>2. t \in Elements(w)
      BY <1>2, <1>3, <1>6 DEF Elements
    <2> QED BY <2>1, <2>2
  <1> QED BY <1>2, <1>7, <1>8, <1>9 DEF w

LEMMA LockRowKeepsIInv ==
  ASSUME IInv, NEW c \in Calls, LockRow(c)
  PROVE  IInv'
  <1>1. PICK t, col, u : t = Head(todo[c]) /\ col = req[c].column /\ u = req[c].task
    OBVIOUS
  <1>2. /\ pc[c] = "column" /\ todo[c] # <<>> /\ req[c] \in Request /\ Asked(c) \in Reorders /\ Types
        /\ Holds(c, u) /\ u \in Seeing(c)
        /\ \A v \in Elements(got[c]) : Holds(c, v)
        /\ \A v \in Elements(todo[c]) : Exists(v)
        /\ Distinct(todo[c]) /\ Distinct(got[c]) /\ Elements(todo[c]) \cap Elements(got[c]) = {}
    BY <1>1 DEF LockRow, IInv, Reordering, Holding
  <1>3. todo[c] \in Seq(Tasks) /\ got[c] \in Seq(Tasks)
    BY <1>2 DEF Types
  <1>4. /\ t \in Tasks /\ t \in Elements(todo[c]) /\ Tail(todo[c]) \in Seq(Tasks)
        /\ Elements(Tail(todo[c])) = Elements(todo[c]) \ {t} /\ Distinct(Tail(todo[c]))
    BY <1>1, <1>2, <1>3, HeadGoes
  <1>5. PICK g : g = IF rows[t].column = col THEN Append(got[c], t) ELSE got[c]
    OBVIOUS
  <1>6. /\ rowLock[t] \in {None, c} /\ rowLock' = [rowLock EXCEPT ![t] = c]
        /\ got' = [got EXCEPT ![c] = g] /\ todo' = [todo EXCEPT ![c] = Tail(todo[c])]
        /\ UNCHANGED <<rows, pc, req, moverState>>
    BY <1>1, <1>2, <1>5 DEF LockRow, Types
  <1>7. /\ g \in Seq(Tasks) /\ Distinct(g)
        /\ Elements(g) = IF rows[t].column = col THEN Elements(got[c]) \cup {t} ELSE Elements(got[c])
    BY <1>2, <1>3, <1>4, <1>5, OneMore
  <1>8. Types'
    BY <1>2, <1>4, <1>6, <1>7 DEF Types, moverState
  <1>9. todo'[c] = Tail(todo[c]) /\ got'[c] = g /\ rowLock'[t] = c
    BY <1>2, <1>4, <1>6 DEF Types
  <1>10. Seeing(c)' = IF rows[t].column = col THEN Seeing(c) ELSE Seeing(c) \ {t}
    BY <1>2, <1>4, <1>7, <1>9 DEF Seeing
  <1>11. \A b \in Calls, v \in Tasks : Holds(b, v) => Holds(b, v)'
    <2>1. ASSUME NEW b \in Calls, NEW v \in Tasks, Holds(b, v) PROVE Holds(b, v)'
      <3>1. rowLock'[v] = b
        BY <1>2, <1>4, <1>6, <2>1, BoardAssumption DEF Holds, Types
      <3> QED BY <1>6, <2>1, <3>1 DEF Holds, Exists
    <2> QED BY <2>1
  <1>12. Exists(t)
    BY <1>2, <1>4
  <1>13. u \in Tasks /\ \A v \in Elements(got[c]) : v \in Tasks
    BY <1>1, <1>2, <1>3 DEF Request, Elements
  <1>14. Reordering(c)'
    <2>1. Holds(c, u)'
      BY <1>2, <1>11, <1>13
    <2>2. ASSUME NEW v \in Elements(g) PROVE Holds(c, v)'
      <3>1. CASE v \in Elements(got[c])
        BY <1>2, <1>11, <1>13, <3>1
      <3>2. CASE v = t /\ rows[t].column = col
        BY <1>1, <1>6, <1>9, <1>12, <3>2 DEF Holds, Exists
      <3> QED BY <1>7, <2>2, <3>1, <3>2
    <2>3. \A v \in Elements(todo'[c]) : Exists(v)'
      BY <1>2, <1>4, <1>6, <1>9 DEF Exists
    <2>4. u \in Seeing(c)'
      <3>1. rows[u].column = col
        BY <1>1, <1>2 DEF Holds
      <3> QED BY <1>2, <1>10, <3>1
    <2>5. Elements(todo'[c]) \cap Elements(got'[c]) = {}
      BY <1>2, <1>4, <1>7, <1>9
    <2>6. pc'[c] = "column" /\ req'[c] = req[c] /\ u = req'[c].task
      BY <1>1, <1>2, <1>6
    <2> QED BY <1>1, <1>2, <1>4, <1>6, <1>7, <1>9, <2>1, <2>2, <2>3, <2>4, <2>5, <2>6 DEF Reordering, Holding, Asked
  <1>15. LocksStand'
    BY <1>2, <1>4, <1>6, <1>12 DEF IInv, LocksStand, Exists, Types
  <1>16. \A b \in Calls \ {c} : pc'[b] = pc[b] /\ req'[b] = req[b] /\ todo'[b] = todo[b] /\ got'[b] = got[b]
    BY <1>2, <1>6 DEF Types
  <1>17. \A v \in Tasks : rowLock'[v] = rowLock[v] \/ (rowLock[v] \in {None, c} /\ rowLock'[v] \in {None, c})
    BY <1>2, <1>4, <1>6 DEF Types
  <1>18. ASSUME NEW l \in Columns \ raced, IsOf(c, l)'
         PROVE  /\ Newcomers(c, l)'
                /\ \A b \in Calls : IsOf(b, l)' => Overlap(b, c, l)' /\ Overlap(c, b, l)'
    <2>1. l = col /\ InColumn(l)' = InColumn(l) /\ rows' = rows /\ IsOf(c, l)
      BY <1>1, <1>6, <1>18 DEF IsOf, InColumn, Exists
    <2>2. t \in InColumn(l) => rows[t].column = col
      BY <2>1 DEF InColumn
    <2>3. SeenThere(c, l)' = SeenThere(c, l) /\ InColumn(l) \ Seeing(c)' = InColumn(l) \ Seeing(c)
      BY <1>10, <2>1, <2>2 DEF SeenThere
    <2>4. Newcomers(c, l)'
      BY <2>1, <2>3 DEF IInv, Ordered, Newcomers
    <2>5. ASSUME NEW b \in Calls, IsOf(b, l)' PROVE Overlap(b, c, l)' /\ Overlap(c, b, l)'
      <3>1. IsOf(b, l) /\ req'[b] = req[b]
        BY <1>6, <2>5 DEF IsOf
      <3>2. Overlap(b, c, l) /\ Overlap(c, b, l)
        BY <2>1, <3>1 DEF IInv, Ordered
      <3>3. Holds(b, req[b].task) /\ req[b].column = col
        BY <2>1, <3>1 DEF IInv, Reordering, Holding, IsOf
      <3>4. req[b].task \in Seeing(c) => req[b].task \in Seeing(c)'
        BY <1>10, <3>3 DEF Holds
      <3>5. CASE b = c
        BY <1>14, <2>5, <3>5 DEF Overlap, Reordering, IsOf
      <3>6. CASE b # c
        <4>1. Seeing(b)' = Seeing(b) /\ SeenThere(b, l)' = SeenThere(b, l)
          BY <1>16, <2>1, <3>6 DEF Seeing, SeenThere
        <4>2. SeenThere(b, l) \subseteq Seeing(c) => SeenThere(b, l) \subseteq Seeing(c)'
          BY <1>10, <2>2 DEF SeenThere
        <4> QED BY <1>6, <2>3, <3>1, <3>2, <3>4, <4>1, <4>2 DEF Overlap
      <3> QED BY <3>5, <3>6
    <2> QED BY <2>4, <2>5
  <1> QED BY <1>6, <1>8, <1>14, <1>15, <1>16, <1>17, <1>18, CallStep

(***************************************************************************)
(* The steps of a mover before its commit                                  *)
(***************************************************************************)

\* A step of one mover that writes no row: what has to be shown of it.
LEMMA MoverStep ==
  ASSUME IInv, NEW k \in Movers, UNCHANGED <<rows, callState>>,
         \A j \in Movers \ {k} : mpc'[j] = mpc[j] /\ move'[j] = move[j] /\ bottom'[j] = bottom[j],
         Types', Moving(k)', LocksStand',
         \A t \in Tasks : \/ rowLock'[t] = rowLock[t]
                          \/ rowLock[t] \in {None, k} /\ rowLock'[t] \in {None, k},
         raced \subseteq raced',
         \A col \in Columns \ raced' : Enters(k, col)' =>
            /\ Below(k, col)'
            /\ \A j \in Movers \ {k} : ~Enters(j, col)
  PROVE  IInv'
  <1>1. rows' = rows /\ pc' = pc /\ req' = req /\ todo' = todo /\ got' = got
    BY DEF callState
  <1>2. ASSUME NEW b \in Calls PROVE Reordering(b)'
    <2>1. \A t \in Tasks : Holds(b, t) => Holds(b, t)'
      BY <1>1, BoardAssumption DEF Holds, Exists
    <2>2. Reordering(b) /\ Elements(got[b]) \subseteq Tasks /\ (req[b] \in Request => req[b].task \in Tasks)
      BY DEF IInv, Types, Elements, Request
    <2> QED BY <1>1, <2>1, <2>2 DEF Reordering, Holding, Seeing, Exists, Asked
  <1>3. ASSUME NEW j \in Movers PROVE Moving(j)'
    <2>1. CASE j = k
      BY <2>1
    <2>2. CASE j # k
      <3>1. Moving(j) /\ mpc'[j] = mpc[j] /\ move'[j] = move[j] /\ bottom'[j] = bottom[j]
        BY <2>2 DEF IInv
      <3>2. \A t \in Tasks : rowLock[t] = j => rowLock'[t] = j
        BY <2>2, BoardAssumption
      <3>3. ASSUME mpc'[j] # "idle", NEW i \in Movers, mpc'[i] # "idle", move'[i].task = move'[j].task
            PROVE  i = j
        <4>1. CASE i = k
          BY <3>3, <4>1 DEF Moving
        <4>2. CASE i # k
          BY <3>1, <3>3, <4>2 DEF Moving
        <4> QED BY <4>1, <4>2
      <3> QED BY <1>1, <3>1, <3>2, <3>3 DEF Moving, Exists, Move
    <2> QED BY <2>1, <2>2
  <1>4. ASSUME NEW col \in Columns \ raced' PROVE Ordered(col)'
    <2>1. InColumn(col)' = InColumn(col) /\ Ordered(col)
      BY <1>1, <1>4 DEF IInv, InColumn, Exists
    <2>2. Apart(col)'
      BY <1>1, <2>1 DEF Ordered, Apart
    <2>3. \A j \in Movers \ {k} : (Enters(j, col)' <=> Enters(j, col)) /\ (Below(j, col)' <=> Below(j, col))
      BY <1>1, <2>1 DEF Enters, Below
    <2>4. ASSUME NEW i \in Movers, Enters(i, col)' PROVE Below(i, col)' /\ \A j \in Movers : Enters(j, col)' => j = i
      BY <1>4, <2>1, <2>3, <2>4 DEF Ordered
    <2>5. \A b \in Calls : (IsOf(b, col)' <=> IsOf(b, col)) /\ (Newcomers(b, col)' <=> Newcomers(b, col))
      BY <1>1, <2>1 DEF IsOf, Newcomers, Seeing, SeenThere
    <2>6. \A a, b \in Calls : Overlap(a, b, col)' <=> Overlap(a, b, col)
      BY <1>1, <2>1 DEF Overlap, Seeing, SeenThere
    <2> QED BY <2>1, <2>2, <2>4, <2>5, <2>6 DEF Ordered
  <1> QED BY <1>2, <1>3, <1>4 DEF IInv

LEMMA BeginKeepsIInv ==
  ASSUME IInv, NEW k \in Movers, NEW t \in Tasks, NEW to \in Columns \cup {None},
         mpc[k] = "idle", moves < MaxMoves, moves' = moves + 1,
         mpc' = [mpc EXCEPT ![k] = "rank"], move' = [move EXCEPT ![k] = [task |-> t, to |-> to]],
         UNCHANGED <<rows, callState, bottom, raced>>,
         \/ ~Exists(t) /\ t \notin Claimed /\ rowLock' = rowLock
         \/ Exists(t) /\ rowLock[t] = None /\ rowLock' = [rowLock EXCEPT ![t] = k]
  PROVE  IInv'
  <1>1. Types /\ [task |-> t, to |-> to] \in Move
    BY DEF IInv, Move
  <1>2. Types'
    <2>1. moves' \in 0 .. MaxMoves
      BY <1>1, BoardAssumption DEF Types
    <2>2. rowLock' \in [Tasks -> Calls \cup Movers \cup {None}]
      BY <1>1 DEF Types
    <2> QED BY <1>1, <2>1, <2>2 DEF Types, callState
  <1>3. mpc'[k] = "rank" /\ move'[k].task = t /\ move'[k] \in Move
    BY <1>1 DEF Types
  <1>4. \A j \in Movers \ {k} : mpc'[j] = mpc[j] /\ move'[j] = move[j] /\ bottom'[j] = bottom[j]
    BY <1>1 DEF Types
  <1>5. ASSUME NEW j \in Movers, mpc'[j] # "idle", move'[j].task = t PROVE j = k
    <2> SUFFICES ASSUME j # k PROVE FALSE
      OBVIOUS
    <2>1. mpc[j] # "idle" /\ move[j].task = t
      BY <1>4, <1>5
    <2>2. t \in Claimed
      BY <2>1 DEF Claimed
    <2>3. ~Exists(t) \/ rowLock[t] = j
      BY <2>1 DEF IInv, Moving
    <2> QED BY <2>2, <2>3, BoardAssumption
  <1>6. Moving(k)'
    <2>1. ~Exists(t)' \/ rowLock'[t] = k
      BY <1>1 DEF Types, Exists
    <2> QED BY <1>3, <1>5, <2>1 DEF Moving, Exists
  <1>7. LocksStand'
    BY <1>1 DEF IInv, LocksStand, Exists, Types
  <1>8. \A u \in Tasks : rowLock'[u] = rowLock[u] \/ (rowLock[u] \in {None, k} /\ rowLock'[u] \in {None, k})
    BY <1>1 DEF Types
  <1>9. \A col : ~Enters(k, col)'
    BY <1>3 DEF Enters
  <1> QED BY <1>2, <1>4, <1>6, <1>7, <1>8, <1>9, MoverStep

LEMMA BeginCreateKeepsIInv ==
  ASSUME IInv, NEW k \in Movers, NEW t \in Tasks, BeginCreate(k, t)
  PROVE  IInv'
  <1>1. DefaultColumn \in Columns \cup {None}
    BY BoardAssumption
  <1> QED BY <1>1, BeginKeepsIInv DEF BeginCreate

LEMMA BeginTransitionKeepsIInv ==
  ASSUME IInv, NEW k \in Movers, NEW t \in Tasks, NEW col \in Targets, BeginTransition(k, t, col)
  PROVE  IInv'
  <1>1. col \in Columns \cup {None}
    BY BoardAssumption
  <1> QED BY <1>1, BeginKeepsIInv DEF BeginTransition

LEMMA ReadRankKeepsIInv ==
  ASSUME IInv, NEW k \in Movers, ReadRank(k)
  PROVE  IInv'
  <1>1. PICK to, x : to = move[k].to /\ x = NextRank(to)
    OBVIOUS
  <1>2. Types /\ Moving(k) /\ mpc[k] = "rank"
    BY DEF IInv, ReadRank
  <1>3. to \in Columns \cup {None} /\ move[k] \in Move
    BY <1>1, <1>2 DEF Moving, Move
  <1>4. x \in Nat /\ x # 0 /\ (to # None => \A t \in InColumn(to) : rows[t].rank < x)
    BY <1>1, <1>2, BottomIsBelow
  <1>5. /\ bottom' = [bottom EXCEPT ![k] = x] /\ mpc' = [mpc EXCEPT ![k] = "enter"]
        /\ UNCHANGED <<rows, rowLock, callState, move, moves>>
    BY <1>1 DEF ReadRank
  <1>6. raced' = raced \cup {move[j].to : j \in {i \in Movers : mpc[i] = "enter" /\ move[i].to = to}}
    BY <1>1 DEF ReadRank
  <1>7. raced \subseteq raced' /\ raced' \subseteq Columns \cup {None}
    <2>1. \A j \in Movers : mpc[j] = "enter" /\ move[j].to = to => move[j].to \in Columns \cup {None}
      BY <1>3
    <2> QED BY <1>2, <1>6, <2>1 DEF Types
  <1>8. Types'
    BY <1>2, <1>4, <1>5, <1>7 DEF Types, callState
  <1>9. /\ \A j \in Movers \ {k} : mpc'[j] = mpc[j] /\ move'[j] = move[j] /\ bottom'[j] = bottom[j]
        /\ mpc'[k] = "enter" /\ bottom'[k] = x /\ move'[k] = move[k]
    BY <1>2, <1>5 DEF Types
  <1>10. Moving(k)'
    <2>1. ASSUME NEW j \in Movers, mpc'[j] # "idle", move'[j].task = move'[k].task PROVE j = k
      BY <1>2, <1>9, <2>1 DEF Moving
    <2>2. ~Exists(move[k].task)' \/ rowLock'[move[k].task] = k
      BY <1>2, <1>5 DEF Moving, Exists
    <2> QED BY <1>3, <1>4, <1>5, <1>9, <2>1, <2>2 DEF Moving, Exists
  <1>11. LocksStand'
    BY <1>5 DEF IInv, LocksStand, Exists
  <1>12. ASSUME NEW col \in Columns \ raced', Enters(k, col)'
         PROVE  Below(k, col)' /\ \A j \in Movers \ {k} : ~Enters(j, col)
    <2>1. col = to /\ to # None
      BY <1>1, <1>9, <1>12, BoardAssumption DEF Enters
    <2>2. Below(k, col)'
      BY <1>4, <1>5, <1>9, <2>1 DEF Below, InColumn, Exists
    <2>3. ASSUME NEW j \in Movers \ {k}, Enters(j, col) PROVE FALSE
      <3>1. mpc[j] = "enter" /\ move[j].to = to
        BY <2>1, <2>3 DEF Enters
      <3>2. to \in raced'
        BY <1>6, <3>1
      <3> QED BY <1>12, <2>1, <3>2
    <2> QED BY <2>2, <2>3
  <1>13. \A t \in Tasks : rowLock'[t] = rowLock[t]
    BY <1>5
  <1> QED BY <1>5, <1>7, <1>8, <1>9, <1>10, <1>11, <1>12, <1>13, MoverStep

LEMMA RefuseKeepsIInv ==
  ASSUME IInv, NEW k \in Movers, Refuse(k)
  PROVE  IInv'
  <1>1. Types /\ UNCHANGED <<rows, callState, moves, raced>> /\ rowLock' = Released(k)
        /\ mpc' = [mpc EXCEPT ![k] = "idle"] /\ move' = [move EXCEPT ![k] = NoMove]
        /\ bottom' = [bottom EXCEPT ![k] = 0]
    BY DEF Refuse, Idle, IInv
  <1>2. Types'
    BY <1>1 DEF Types, callState, Released
  <1>3. /\ \A j \in Movers \ {k} : mpc'[j] = mpc[j] /\ move'[j] = move[j] /\ bottom'[j] = bottom[j]
        /\ mpc'[k] = "idle"
    BY <1>1 DEF Types
  <1>4. Moving(k)' /\ \A col : ~Enters(k, col)'
    BY <1>3 DEF Moving, Enters
  <1>5. LocksStand' /\ \A t \in Tasks : rowLock'[t] = rowLock[t] \/ (rowLock[t] \in {None, k} /\ rowLock'[t] \in {None, k})
    BY <1>1 DEF IInv, LocksStand, Exists, Released
  <1> QED BY <1>1, <1>2, <1>3, <1>4, <1>5, MoverStep

(***************************************************************************)
(* A task enters a column                                                  *)
(***************************************************************************)

LEMMA EnterKeepsIInv ==
  ASSUME IInv, NEW k \in Movers, Enter(k)
  PROVE  IInv'
  <1>1. PICK t, to, x : t = move[k].task /\ to = move[k].to /\ x = bottom[k]
    OBVIOUS
  <1>2. Types /\ Moving(k) /\ mpc[k] = "enter" /\ x \in Nat \ {0}
    BY <1>1 DEF IInv, Enter, Moving, Types
  <1>3. t \in Tasks /\ to \in Columns \cup {None} /\ (~Exists(t) \/ rowLock[t] = k)
    BY <1>1, <1>2 DEF Moving, Move
  <1>4. /\ rows' = [rows EXCEPT ![t] = [column |-> to, rank |-> x]]
        /\ raced' = raced \cup {l \in {to} : Returns(k)}
        /\ mpc' = [mpc EXCEPT ![k] = "idle"] /\ move' = [move EXCEPT ![k] = NoMove]
        /\ bottom' = [bottom EXCEPT ![k] = 0] /\ rowLock' = Released(k)
        /\ UNCHANGED <<receipts, callState, moves, history>>
    BY <1>1 DEF Enter, Idle
  <1>5. /\ \A u \in Tasks : u # t => rows'[u] = rows[u] /\ (Exists(u)' <=> Exists(u))
        /\ rows'[t].column = to /\ rows'[t].rank = x /\ Exists(t)'
    BY <1>2, <1>3, <1>4 DEF Types, Exists
  <1>6. raced \subseteq raced' /\ pc' = pc /\ req' = req /\ todo' = todo /\ got' = got
    BY <1>4 DEF callState
  <1>7. Types'
    <2>1. rows' \in [Tasks -> Row] /\ \A u \in Tasks : rows'[u].rank = 0 => rows'[u] = NoRow
      BY <1>2, <1>3, <1>4, <1>5 DEF Types, Row
    <2>2. raced' \subseteq Columns \cup {None}
      BY <1>2, <1>3, <1>4 DEF Types
    <2> QED BY <1>2, <1>4, <1>6, <2>1, <2>2 DEF Types, Released
  <1>8. /\ \A j \in Movers \ {k} : mpc'[j] = mpc[j] /\ move'[j] = move[j] /\ bottom'[j] = bottom[j]
        /\ mpc'[k] = "idle"
    BY <1>2, <1>4 DEF Types
  <1>9. \A b \in Calls, u \in Tasks : Holds(b, u) => u # t /\ Holds(b, u)'
    <2>1. ASSUME NEW b \in Calls, NEW u \in Tasks, Holds(b, u) PROVE u # t /\ Holds(b, u)'
      <3>1. u # t
        BY <1>3, <2>1, BoardAssumption DEF Holds
      <3>2. rowLock'[u] = b
        BY <1>4, <2>1, BoardAssumption DEF Holds, Released
      <3> QED BY <1>5, <1>6, <2>1, <3>1, <3>2 DEF Holds
    <2> QED BY <2>1
  <1>10. ASSUME NEW b \in Calls PROVE Reordering(b)'
    <2>1. Reordering(b) /\ Elements(got[b]) \subseteq Tasks /\ Elements(todo[b]) \subseteq Tasks /\ (req[b] \in Request => req[b].task \in Tasks)
      BY <1>2 DEF IInv, Types, Elements, Request
    <2>2. \A u \in Tasks : Exists(u) => Exists(u)'
      BY <1>5
    <2> QED BY <1>6, <1>9, <2>1, <2>2 DEF Reordering, Holding, Seeing, Asked
  <1>11. ASSUME NEW j \in Movers PROVE Moving(j)'
    <2>1. CASE j = k
      BY <1>8, <2>1 DEF Moving
    <2>2. CASE j # k
      <3> SUFFICES ASSUME mpc'[j] # "idle" PROVE Moving(j)'
        BY DEF Moving
      <3>1. Moving(j) /\ mpc[j] # "idle" /\ move'[j] = move[j] /\ mpc'[j] = mpc[j] /\ bottom'[j] = bottom[j]
        BY <1>8, <2>2 DEF IInv
      <3>2. move[j].task # t /\ move[j] \in Move /\ move[j].task \in Tasks
        BY <1>1, <1>2, <2>2, <3>1 DEF Moving, Move
      <3>3. ~Exists(move[j].task)' \/ rowLock'[move[j].task] = j
        <4>1. PICK u \in Tasks : u = move[j].task
          BY <3>2
        <4>2. ~Exists(u)' \/ rowLock'[u] = j
          BY <1>4, <1>5, <2>2, <3>1, <3>2, <4>1 DEF Moving, Released
        <4> QED BY <3>1, <4>1, <4>2 DEF Exists
      <3>4. ASSUME NEW i \in Movers, mpc'[i] # "idle", move'[i].task = move'[j].task PROVE i = j
        BY <1>8, <3>1, <3>4 DEF Moving
      <3> QED BY <3>1, <3>2, <3>3, <3>4 DEF Moving, Exists
    <2> QED BY <2>1, <2>2
  <1>12. LocksStand'
    BY <1>4, <1>5 DEF IInv, LocksStand, Released
  <1>13. ASSUME NEW col \in Columns \ raced', col # to PROVE Ordered(col)'
    <2>1. Ordered(col) /\ InColumn(col)' = InColumn(col) \ {t}
      BY <1>5, <1>6, <1>13, <1>3 DEF IInv, InColumn
    <2>2. \A u \in InColumn(col)' : u \in InColumn(col) /\ rows'[u] = rows[u]
      BY <1>5, <2>1 DEF InColumn
    <2>3. Apart(col)'
      BY <2>1, <2>2 DEF Ordered, Apart
    <2>4. \A j \in Movers : Enters(j, col)' => Enters(j, col) /\ (Below(j, col) => Below(j, col)')
      BY <1>8, <2>2 DEF Enters, Below
    <2>5. ASSUME NEW b \in Calls, IsOf(b, col)' PROVE Newcomers(b, col)'
      <3>1. IsOf(b, col) /\ Seeing(b)' = Seeing(b) /\ SeenThere(b, col)' \in SUBSET SeenThere(b, col)
        BY <1>6, <2>1, <2>5 DEF IsOf, Seeing, SeenThere
      <3>2. IsFiniteSet(SeenThere(b, col))
        <4>1. SeenThere(b, col) \in SUBSET InColumn(col) /\ IsFiniteSet(InColumn(col))
          BY <1>2, ColumnRows DEF SeenThere
        <4> QED BY <4>1, FS_Subset
      <3>3. PICK x1, x2 : x1 = Cardinality(SeenThere(b, col)) /\ x2 = Cardinality(SeenThere(b, col)')
        OBVIOUS
      <3>4. x1 \in Nat /\ x2 \in Nat /\ x2 <= x1
        BY <3>1, <3>2, <3>3, FS_Subset, FS_CardinalityType
      <3>5. ASSUME NEW u \in InColumn(col)' \ Seeing(b)' PROVE rows'[u].rank > x2
        <4>1. u \in InColumn(col) \ Seeing(b) /\ rows'[u].rank = rows[u].rank /\ rows[u].rank \in Nat
          BY <1>2, <2>2, <3>1, <3>5, ColumnRows
        <4>2. rows[u].rank > x1
          BY <2>1, <3>1, <3>3, <4>1 DEF Ordered, Newcomers
        <4> QED BY <3>4, <4>1, <4>2
      <3> QED BY <3>3, <3>5 DEF Newcomers
    <2>6. ASSUME NEW a \in Calls, NEW b \in Calls, IsOf(a, col)', IsOf(b, col)' PROVE Overlap(a, b, col)'
      BY <1>6, <2>1, <2>6 DEF IsOf, Seeing, SeenThere, Ordered, Overlap
    <2> QED BY <2>1, <2>3, <2>4, <2>5, <2>6 DEF Ordered
  <1>14. ASSUME NEW col \in Columns \ raced', col = to PROVE Ordered(col)'
    <2>1. Ordered(col) /\ InColumn(col)' = InColumn(col) \cup {t} /\ Enters(k, col) /\ ~Returns(k)
      BY <1>1, <1>2, <1>3, <1>4, <1>5, <1>6, <1>14 DEF IInv, InColumn, Enters
    <2>2. \A u \in InColumn(col) : rows[u].rank \in Nat \ {0} /\ rows[u].rank < x
      BY <1>1, <1>2, <2>1, ColumnRows DEF Ordered, Below
    <2>3. \A u \in InColumn(col)' : u # t => u \in InColumn(col) /\ rows'[u] = rows[u]
      BY <1>5, <2>1 DEF InColumn
    <2>4. Apart(col)'
      <3>1. ASSUME NEW u \in InColumn(col)', NEW v \in InColumn(col)', rows'[u].rank = rows'[v].rank PROVE u = v
        <4>1. CASE u # t /\ v # t
          BY <2>1, <2>3, <3>1, <4>1 DEF Ordered, Apart
        <4>2. CASE u # t /\ v = t
          BY <1>2, <1>5, <2>2, <2>3, <3>1, <4>2
        <4>3. CASE u = t /\ v # t
          BY <1>2, <1>5, <2>2, <2>3, <3>1, <4>3
        <4> QED BY <4>1, <4>2, <4>3
      <3> QED BY <3>1 DEF Apart
    <2>5. \A j \in Movers : ~Enters(j, col)'
      <3>1. ASSUME NEW j \in Movers, Enters(j, col)' PROVE FALSE
        <4>1. j # k
          BY <1>8, <3>1 DEF Enters
        <4>2. Enters(j, col)
          BY <1>8, <3>1, <4>1 DEF Enters
        <4> QED BY <2>1, <4>1, <4>2 DEF Ordered
      <3> QED BY <3>1
    <2>6. ASSUME NEW b \in Calls, IsOf(b, col)'
          PROVE  IsOf(b, col) /\ Seeing(b)' = Seeing(b) /\ SeenThere(b, col)' = SeenThere(b, col)
      <3>1. IsOf(b, col) /\ Seeing(b)' = Seeing(b)
        BY <1>6, <2>6 DEF IsOf, Seeing
      <3>2. t \in Seeing(b) => t \in InColumn(col)
        <4> SUFFICES ASSUME t \in Seeing(b) PROVE t \in InColumn(col)
          OBVIOUS
        <4>1. Reordering(b) /\ pc[b] = "column" /\ req[b].column = to
          BY <1>14, <3>1 DEF IInv, IsOf
        <4>2. t \notin Elements(got[b])
          BY <1>3, <1>9, <4>1 DEF Reordering
        <4>3. t \in Elements(todo[b]) /\ Exists(t)
          BY <4>1, <4>2 DEF Seeing, Reordering
        <4>4. rows[t].column = to
          BY <1>1, <2>1, <4>1, <4>3 DEF Returns
        <4> QED BY <1>3, <1>14, <4>3, <4>4 DEF InColumn
      <3> QED BY <2>1, <3>1, <3>2 DEF SeenThere
    <2>7. ASSUME NEW b \in Calls, IsOf(b, col)' PROVE Newcomers(b, col)'
      <3>1. PICK n : n = Cardinality(SeenThere(b, col))
        OBVIOUS
      <3>2. n \in Nat /\ n <= x - 1
        <4>1. SeenThere(b, col) \subseteq InColumn(col)
          BY DEF SeenThere
        <4>2. /\ \A u \in SeenThere(b, col) : rows[u].rank \in 1 .. x - 1
              /\ \A u, v \in SeenThere(b, col) : rows[u].rank = rows[v].rank => u = v
          BY <1>2, <2>1, <2>2, <4>1 DEF Ordered, Apart
        <4>3. x - 1 \in Nat
          BY <1>2
        <4>4. IsFiniteSet(SeenThere(b, col)) /\ Cardinality(SeenThere(b, col)) <= x - 1
          BY <4>2, <4>3, FewRanks
        <4> QED BY <3>1, <4>4, FS_CardinalityType
      <3>3. ASSUME NEW u \in InColumn(col)' \ Seeing(b)' PROVE rows'[u].rank > n
        <4>1. CASE u = t
          BY <1>2, <1>5, <3>2, <4>1
        <4>2. CASE u # t
          BY <2>1, <2>3, <2>6, <2>7, <3>1, <3>3, <4>2 DEF Ordered, Newcomers
        <4> QED BY <4>1, <4>2
      <3> QED BY <2>6, <2>7, <3>1, <3>3 DEF Newcomers
    <2>8. ASSUME NEW a \in Calls, NEW b \in Calls, IsOf(a, col)', IsOf(b, col)' PROVE Overlap(a, b, col)'
      BY <1>6, <2>1, <2>6, <2>8 DEF Ordered, Overlap
    <2> QED BY <2>4, <2>5, <2>7, <2>8 DEF Ordered
  <1> QED BY <1>7, <1>10, <1>11, <1>12, <1>13, <1>14 DEF IInv

(***************************************************************************)
(* The commit of a reorder, and a crash                                    *)
(***************************************************************************)

LEMMA HowMany ==
  ASSUME NEW s \in Seq(Tasks), Distinct(s)
  PROVE  IsFiniteSet(Elements(s)) /\ Cardinality(Elements(s)) = Len(s)
  <1> DEFINE n == Len(s)
             S == Elements(s)
  <1>1. n \in Nat /\ s \in [1 .. n -> S] /\ DOMAIN s = 1 .. n
    BY LenProperties DEF Elements
  <1>2. s \in Bijection(1 .. n, S)
    BY <1>1 DEF Bijection, Injection, Surjection, IsInjective, Distinct, Elements
  <1>3. ExistsBijection(1 .. n, S)
    BY <1>2 DEF ExistsBijection
  <1> HIDE DEF n, S
  <1>4. IsFiniteSet(1 .. n) /\ Cardinality(1 .. n) = n
    <2>1. IsFiniteSet(1 .. n) /\ Cardinality(1 .. n) = IF 1 > n THEN 0 ELSE n - 1 + 1
      BY <1>1, FS_Interval
    <2> QED BY <1>1, <2>1
  <1>5. IsFiniteSet(S) /\ Cardinality(S) = n
    BY <1>3, <1>4, FS_Bijection
  <1> QED BY <1>5 DEF n, S

\* What a reorder writes when it commits: the tasks g that it has got, in the
\* order new, numbered from 1 to n; every other row stays.
Numbers(c, g, n, new) ==
    /\ req[c] \in Request /\ Asked(c) \in Reorders /\ pc[c] = "column"
    /\ g \in Seq(Tasks) /\ Distinct(g) /\ Seeing(c) = Elements(g) /\ n \in Nat
    /\ Elements(g) \subseteq InColumn(req[c].column)
    /\ \A t \in Elements(g) : rowLock[t] = c
    /\ Cardinality(Elements(g)) = n
    /\ new \in Seq(Tasks) /\ Len(new) = n /\ Distinct(new) /\ Elements(new) = Elements(g)
    /\ IF req[c].after = None THEN Position(new, req[c].task) = 1
       ELSE /\ Position(new, req[c].task) > 1
            /\ new[Position(new, req[c].task) - 1] = req[c].after
    /\ req[c].task \in Elements(g)
    /\ \A t \in Elements(g) : Position(new, t) \in 1 .. n
    /\ \A t, u \in Elements(g) : Position(new, t) = Position(new, u) => t = u
    /\ rows' \in [Tasks -> Row]
    /\ \A t \in Tasks :
          /\ rows'[t].column = rows[t].column
          /\ rows'[t].rank = IF t \in Elements(g) THEN Position(new, t) ELSE rows[t].rank
          /\ Exists(t)' <=> Exists(t)
          /\ t \notin Elements(g) => rows'[t] = rows[t]
    /\ \A l : InColumn(l)' = InColumn(l)

LEMMA RenumberFacts ==
  ASSUME IInv, NEW c \in Calls, Renumber(c)
  PROVE  \E g, n, new : Numbers(c, g, n, new)
  <1>0. PICK g, n, new : g = got[c] /\ n = Len(g) /\ new = Placed(g, req[c].task, req[c].after)
    OBVIOUS
  <1>1. /\ pc[c] = "column" /\ todo[c] = <<>> /\ Anchored(c) /\ Types
        /\ rows' = [t \in Tasks |-> IF t \in Elements(new)
                                    THEN [rows[t] EXCEPT !.rank = Position(new, t)]
                                    ELSE rows[t]]
    BY <1>0 DEF Renumber, MayRenumber, IInv
  <1>2. /\ req[c] \in Request /\ Asked(c) \in Reorders /\ Distinct(g) /\ req[c].task \in Seeing(c)
        /\ \A t \in Elements(g) : Holds(c, t)
    BY <1>0, <1>1 DEF IInv, Reordering
  <1>3. g \in Seq(Tasks) /\ n \in Nat /\ \A t \in Elements(g) : t \in Tasks
    <2>1. g \in Seq(Tasks)
      BY <1>0, <1>1 DEF Types
    <2> QED BY <1>0, <2>1 DEF Elements
  <1>4. Seeing(c) = Elements(g)
    BY <1>0, <1>1 DEF Seeing, Elements
  <1>5. req[c].after = None \/ req[c].after \in Elements(g) \ {req[c].task}
    BY <1>0, <1>1 DEF Anchored
  <1>6. /\ new \in Seq(Tasks) /\ Len(new) = n /\ Distinct(new) /\ Elements(new) = Elements(g)
        /\ IF req[c].after = None THEN Position(new, req[c].task) = 1
           ELSE /\ Position(new, req[c].task) > 1
                /\ new[Position(new, req[c].task) - 1] = req[c].after
    <2>1. req[c].task \in Elements(g)
      BY <1>2, <1>4
    <2> QED BY <1>0, <1>2, <1>3, <1>5, <2>1, PlacedWell
  <1>7. \A t \in Elements(g) : Position(new, t) \in 1 .. n /\ new[Position(new, t)] = t
    <2>1. DOMAIN new = 1 .. n
      BY <1>6
    <2> QED BY <1>6, <2>1, WhereItStands
  <1>8. ASSUME NEW t \in Tasks
        PROVE  /\ rows'[t].column = rows[t].column
               /\ rows'[t].rank = IF t \in Elements(g) THEN Position(new, t) ELSE rows[t].rank
               /\ t \notin Elements(g) => rows'[t] = rows[t]
               /\ rows'[t] \in Row
    <2>1. rows[t] \in Row
      BY <1>1 DEF Types
    <2>2. CASE t \in Elements(g)
      <3>1. PICK i : i = Position(new, t)
        OBVIOUS
      <3>2. rows'[t] = [rows[t] EXCEPT !.rank = i] /\ i \in Nat
        BY <1>1, <1>6, <1>7, <2>2, <3>1
      <3> QED BY <2>1, <2>2, <3>1, <3>2 DEF Row
    <2>3. CASE t \notin Elements(g)
      BY <1>1, <1>6, <2>1, <2>3
    <2> QED BY <2>2, <2>3
  <1>9. rows' \in [Tasks -> Row]
    BY <1>1, <1>8
  <1>10. \A t \in Tasks : Exists(t)' <=> Exists(t)
    <2>1. ASSUME NEW t \in Tasks PROVE Exists(t)' <=> Exists(t)
      <3>1. CASE t \in Elements(g)
        <4>1. Exists(t)
          BY <1>2, <3>1 DEF Holds
        <4>2. rows'[t].rank # 0
          BY <1>7, <1>8, <3>1
        <4> QED BY <4>1, <4>2 DEF Exists
      <3>2. CASE t \notin Elements(g)
        BY <1>8, <3>2 DEF Exists
      <3> QED BY <3>1, <3>2
    <2> QED BY <2>1
  <1>11. \A l : InColumn(l)' = InColumn(l)
    BY <1>8, <1>10 DEF InColumn
  <1>12. Elements(g) \subseteq InColumn(req[c].column) /\ \A t \in Elements(g) : rowLock[t] = c
    BY <1>2, <1>3 DEF Holds, InColumn
  <1>13. Cardinality(Elements(g)) = n
    BY <1>0, <1>2, <1>3, HowMany
  <1>14. \A t, u \in Elements(g) : Position(new, t) = Position(new, u) => t = u
    BY <1>7
  <1>15. req[c].task \in Elements(g)
    BY <1>2, <1>4
  <1>16. Numbers(c, g, n, new)
    BY <1>1, <1>2, <1>3, <1>4, <1>6, <1>7, <1>8, <1>9, <1>10, <1>11, <1>12, <1>13, <1>14, <1>15 DEF Numbers
  <1> QED BY <1>16

LEMMA RenumberKeepsIInv ==
  ASSUME IInv, NEW c \in Calls, Renumber(c)
  PROVE  IInv'
  <1>a. PICK g, n, new : Numbers(c, g, n, new)
    BY RenumberFacts
  <1>0. PICK to : to = req[c].column
    OBVIOUS
  <1>1. /\ pc[c] = "column" /\ Seeing(c) = Elements(g) /\ n \in Nat
        /\ Elements(g) \subseteq InColumn(to)
        /\ \A t \in Elements(g) : rowLock[t] = c
        /\ Cardinality(Elements(g)) = n
        /\ \A t \in Elements(g) : Position(new, t) \in 1 .. n
        /\ \A t, u \in Elements(g) : Position(new, t) = Position(new, u) => t = u
        /\ rows' \in [Tasks -> Row]
        /\ \A t \in Tasks :
              /\ rows'[t].column = rows[t].column
              /\ rows'[t].rank = IF t \in Elements(g) THEN Position(new, t) ELSE rows[t].rank
              /\ Exists(t)' <=> Exists(t)
              /\ t \notin Elements(g) => rows'[t] = rows[t]
        /\ \A l : InColumn(l)' = InColumn(l)
    BY <1>a, <1>0 DEF Numbers
  <1>2. /\ UNCHANGED <<req, moverState>> /\ rowLock' = Released(c)
        /\ pc' = [pc EXCEPT ![c] = "answered"] /\ todo' = [todo EXCEPT ![c] = <<>>] /\ got' = [got EXCEPT ![c] = <<>>]
    BY DEF Renumber, Answer
  <1>3. Types
    BY DEF IInv
  <1>4. Types'
    <2>1. \A t \in Tasks : rows'[t].rank = 0 => rows'[t] = NoRow
      <3>1. ASSUME NEW t \in Tasks, rows'[t].rank = 0 PROVE rows'[t] = NoRow
        <4>1. t \notin Elements(g)
          BY <1>1, <3>1
        <4> QED BY <1>1, <1>3, <3>1, <4>1 DEF Types
      <3> QED BY <3>1
    <2> QED BY <1>1, <1>2, <1>3, <2>1 DEF Types, Released, moverState
  <1>5. \A b \in Calls \ {c} : pc'[b] = pc[b] /\ req'[b] = req[b] /\ todo'[b] = todo[b] /\ got'[b] = got[b]
    BY <1>2, <1>3 DEF Types
  <1>6. pc'[c] = "answered" /\ req'[c] = req[c]
    BY <1>2, <1>3 DEF Types
  <1>7. ASSUME NEW b \in Calls PROVE Reordering(b)'
    <2>1. CASE b = c
      BY <1>1, <1>6, <2>1 DEF IInv, Reordering, Holding, Asked
    <2>2. CASE b # c
      <3>1. \A t \in Tasks : Holds(b, t) => Holds(b, t)'
        BY <1>1, <1>2, <2>2, BoardAssumption DEF Holds, Released
      <3>2. Reordering(b) /\ Elements(got[b]) \subseteq Tasks /\ Elements(todo[b]) \subseteq Tasks /\ (req[b] \in Request => req[b].task \in Tasks)
        BY <1>3 DEF IInv, Types, Elements, Request
      <3>3. \A t \in Tasks : Exists(t) => Exists(t)'
        BY <1>1
      <3> QED BY <1>5, <2>2, <3>1, <3>2, <3>3 DEF Reordering, Holding, Seeing, Asked
    <2> QED BY <2>1, <2>2
  <1>8. ASSUME NEW k \in Movers PROVE Moving(k)'
    <2>1. Moving(k) /\ mpc' = mpc /\ move' = move /\ bottom' = bottom
      BY <1>2 DEF IInv, moverState
    <2>2. \A t \in Tasks : (rowLock[t] = k => rowLock'[t] = k) /\ (Exists(t)' <=> Exists(t))
      BY <1>1, <1>2, BoardAssumption DEF Released
    <2>3. mpc[k] # "idle" => ~Exists(move[k].task)' \/ rowLock'[move[k].task] = k
      <3> SUFFICES ASSUME mpc[k] # "idle" PROVE ~Exists(move[k].task)' \/ rowLock'[move[k].task] = k
        OBVIOUS
      <3>1. PICK u \in Tasks : u = move[k].task
        BY <2>1 DEF Moving, Move
      <3>2. ~Exists(u)' \/ rowLock'[u] = k
        BY <2>1, <2>2, <3>1 DEF Moving
      <3> QED BY <2>1, <3>1, <3>2 DEF Exists
    <2> QED BY <2>1, <2>3 DEF Moving, Exists
  <1>9. LocksStand'
    BY <1>1, <1>2 DEF IInv, LocksStand, Released
  <1>10. ASSUME NEW l \in Columns \ raced', l # to PROVE Ordered(l)'
    <2>1. Ordered(l) /\ InColumn(l)' = InColumn(l) /\ raced' = raced
      BY <1>1, <1>2, <1>10 DEF IInv, moverState
    <2>2. \A t \in InColumn(l) : rows'[t] = rows[t]
      <3>1. ASSUME NEW t \in InColumn(l) PROVE rows'[t] = rows[t]
        <4>1. t \in Tasks /\ t \notin InColumn(to)
          BY <1>10, <3>1 DEF InColumn
        <4> QED BY <1>1, <4>1
      <3> QED BY <3>1
    <2>3. Apart(l)'
      BY <2>1, <2>2 DEF Ordered, Apart
    <2>4. \A k \in Movers : (Enters(k, l)' <=> Enters(k, l)) /\ (Below(k, l)' <=> Below(k, l))
      BY <1>2, <2>1, <2>2 DEF Enters, Below, moverState
    <2>5. \A b \in Calls : IsOf(b, l)' => b # c
      BY <1>6 DEF IsOf
    <2>6. \A b \in Calls : IsOf(b, l)' => IsOf(b, l) /\ Seeing(b)' = Seeing(b) /\ SeenThere(b, l)' = SeenThere(b, l)
      BY <1>5, <2>1, <2>5 DEF IsOf, Seeing, SeenThere
    <2>7. \A b \in Calls : IsOf(b, l)' => Newcomers(b, l)'
      BY <2>1, <2>2, <2>6 DEF Ordered, Newcomers
    <2>8. \A a, b \in Calls : IsOf(a, l)' /\ IsOf(b, l)' => Overlap(a, b, l)'
      BY <1>5, <2>1, <2>5, <2>6 DEF Ordered, Overlap
    <2> QED BY <2>1, <2>3, <2>4, <2>7, <2>8 DEF Ordered
  <1>11. ASSUME NEW l \in Columns \ raced', l = to PROVE Ordered(l)'
    <2>1. Ordered(l) /\ InColumn(l)' = InColumn(l) /\ raced' = raced /\ IsOf(c, l)
      BY <1>0, <1>1, <1>2, <1>11 DEF IInv, moverState, IsOf
    <2>2. /\ \A t \in InColumn(l) : t \in Tasks /\ rows[t].rank \in Nat \ {0}
          /\ \A t \in InColumn(l) \ Elements(g) : rows'[t] = rows[t] /\ rows[t].rank > n
          /\ \A t \in Elements(g) : t \in InColumn(l) /\ rows'[t].rank = Position(new, t)
      <3>1. \A t \in InColumn(l) : t \in Tasks /\ rows[t].rank \in Nat \ {0}
        BY <1>3, ColumnRows
      <3>2. SeenThere(c, l) = Elements(g)
        BY <1>1, <1>11 DEF SeenThere
      <3>3. \A t \in InColumn(l) \ Elements(g) : rows'[t] = rows[t] /\ rows[t].rank > n
        BY <1>1, <2>1, <3>1, <3>2 DEF Ordered, Newcomers
      <3> QED BY <1>1, <1>11, <3>1, <3>3
    <2>3. Apart(l)'
      <3>1. ASSUME NEW t \in InColumn(l), NEW u \in InColumn(l), rows'[t].rank = rows'[u].rank PROVE t = u
        <4>1. CASE t \in Elements(g) /\ u \in Elements(g)
          BY <1>1, <2>2, <3>1, <4>1
        <4>2. CASE t \in Elements(g) /\ u \notin Elements(g)
          BY <1>1, <2>2, <3>1, <4>2
        <4>3. CASE t \notin Elements(g) /\ u \in Elements(g)
          BY <1>1, <2>2, <3>1, <4>3
        <4>4. CASE t \notin Elements(g) /\ u \notin Elements(g)
          BY <2>1, <2>2, <3>1, <4>4 DEF Ordered, Apart
        <4> QED BY <4>1, <4>2, <4>3, <4>4
      <3> QED BY <2>1, <3>1 DEF Apart
    <2>4. ASSUME NEW k \in Movers, Enters(k, l)'
          PROVE  Below(k, l)' /\ \A j \in Movers : Enters(j, l)' => j = k
      <3>1. Enters(k, l) /\ bottom' = bottom /\ \A j \in Movers : Enters(j, l)' <=> Enters(j, l)
        BY <1>2, <2>4 DEF Enters, moverState
      <3>2. PICK x : x = bottom[k]
        OBVIOUS
      <3>3. x \in Nat /\ \A t \in InColumn(l) : rows[t].rank < x
        BY <1>3, <2>1, <3>1, <3>2 DEF Types, Ordered, Below
      <3>4. ASSUME NEW t \in InColumn(l) PROVE rows'[t].rank < x
        <4>1. CASE t \in Elements(g)
          <5>1. x - 1 \in Nat
            BY <2>2, <3>3, <4>1
          <5>2. /\ \A u \in Elements(g) : rows[u].rank \in 1 .. x - 1
                /\ \A u, v \in Elements(g) : rows[u].rank = rows[v].rank => u = v
            BY <2>1, <2>2, <3>3 DEF Ordered, Apart
          <5>3. n <= x - 1
            BY <1>1, <5>1, <5>2, FewRanks
          <5> QED BY <1>1, <2>2, <3>3, <4>1, <5>3
        <4>2. CASE t \notin Elements(g)
          BY <2>2, <3>3, <4>2
        <4> QED BY <4>1, <4>2
      <3>5. Below(k, l)'
        BY <2>1, <3>1, <3>2, <3>4 DEF Below
      <3> QED BY <2>1, <3>1, <3>5 DEF Ordered
    <2>5. ASSUME NEW b \in Calls, IsOf(b, l)'
          PROVE  /\ b # c /\ IsOf(b, l) /\ Seeing(b)' = Seeing(b) /\ SeenThere(b, l)' = SeenThere(b, l)
                 /\ Elements(g) \subseteq Seeing(b)
      <3>1. b # c
        BY <1>6, <2>5 DEF IsOf
      <3>2. IsOf(b, l) /\ Seeing(b)' = Seeing(b) /\ SeenThere(b, l)' = SeenThere(b, l)
        BY <1>5, <2>1, <2>5, <3>1 DEF IsOf, Seeing, SeenThere
      <3>3. req[b].task \notin Seeing(c)
        BY <1>1, <3>1, <3>2 DEF IInv, Reordering, Holding, IsOf, Holds
      <3>4. SeenThere(c, l) \subseteq Seeing(b)
        BY <2>1, <3>2, <3>3 DEF Ordered, Overlap
      <3> QED BY <1>1, <1>11, <3>1, <3>2, <3>4 DEF SeenThere
    <2>6. \A b \in Calls : IsOf(b, l)' => Newcomers(b, l)'
      <3>1. ASSUME NEW b \in Calls, IsOf(b, l)' PROVE Newcomers(b, l)'
        <4>1. \A t \in InColumn(l) \ Seeing(b) : rows'[t] = rows[t]
          BY <2>2, <2>5, <3>1
        <4> QED BY <2>1, <2>5, <3>1, <4>1 DEF Ordered, Newcomers
      <3> QED BY <3>1
    <2>7. \A a, b \in Calls : IsOf(a, l)' /\ IsOf(b, l)' => Overlap(a, b, l)'
      BY <1>2, <2>1, <2>5 DEF Ordered, Overlap
    <2> QED BY <2>3, <2>4, <2>6, <2>7 DEF Ordered
  <1> QED BY <1>4, <1>7, <1>8, <1>9, <1>10, <1>11 DEF IInv

LEMMA CrashKeepsIInv ==
  ASSUME IInv, Crash
  PROVE  IInv'
  <1>1. /\ pc' = [c \in Calls |-> IF InFlight(c) THEN "answered" ELSE pc[c]]
        /\ todo' = [c \in Calls |-> <<>>] /\ got' = [c \in Calls |-> <<>>]
        /\ mpc' = [k \in Movers |-> "idle"] /\ move' = [k \in Movers |-> NoMove]
        /\ bottom' = [k \in Movers |-> 0] /\ rowLock' = [t \in Tasks |-> None]
        /\ UNCHANGED <<rows, req, moves, raced>> /\ Types
    BY DEF Crash, IInv
  <1>2. Types'
    BY <1>1 DEF Types
  <1>3. \A c \in Calls : Reordering(c)'
    <2>1. ASSUME NEW c \in Calls PROVE Reordering(c)'
      <3>1. /\ pc'[c] \in {"idle", "answered"} /\ (pc'[c] = "idle" <=> pc[c] = "idle")
            /\ todo'[c] = <<>> /\ got'[c] = <<>> /\ req'[c] = req[c]
        BY <1>1 DEF InFlight, Types
      <3> QED BY <3>1 DEF IInv, Reordering, Holding, Asked
    <2> QED BY <2>1
  <1>4. \A k \in Movers : Moving(k)'
    BY <1>1 DEF Moving
  <1>5. LocksStand'
    BY <1>1 DEF LocksStand
  <1>6. ASSUME NEW col \in Columns \ raced' PROVE Ordered(col)'
    <2>1. InColumn(col)' = InColumn(col) /\ Apart(col)
      BY <1>1, <1>6 DEF IInv, Ordered, InColumn, Exists
    <2>2. Apart(col)'
      BY <1>1, <2>1 DEF Apart
    <2>3. (\A k \in Movers : ~Enters(k, col)') /\ (\A c \in Calls : ~IsOf(c, col)')
      BY <1>1 DEF Enters, IsOf, InFlight
    <2> QED BY <2>2, <2>3 DEF Ordered
  <1> QED BY <1>2, <1>3, <1>4, <1>5, <1>6 DEF IInv

LEMMA NextKeepsIInv == IInv /\ [Next]_vars => IInv'
  <1> SUFFICES ASSUME IInv, [Next]_vars PROVE IInv'
    OBVIOUS
  <1>1. ASSUME NEW c \in Calls, NEW o \in Ops, NEW q \in Reorders, Submit(c, o, q) PROVE IInv'
    BY <1>1, SubmitKeepsIInv
  <1>2. ASSUME NEW c \in Calls, Handle(c) PROVE IInv'
    <2>1. CASE CheckHit(c) \/ CheckMiss(c) \/ Recheck(c)
      BY <2>1, CheckKeepsIInv
    <2>2. CASE LockTarget(c)
      BY <2>2, LockTargetKeepsIInv
    <2>3. CASE SelectColumn(c)
      BY <2>3, SelectColumnKeepsIInv
    <2>4. CASE LockRow(c)
      BY <2>4, LockRowKeepsIInv
    <2>5. CASE RefuseRenumber(c)
      BY <2>5, AbortKeepsIInv DEF RefuseRenumber
    <2>6. CASE Renumber(c)
      BY <2>6, RenumberKeepsIInv
    <2>7. CASE BreakDeadlock(c)
      <3>1. pc[c] # "idle"
        <4>1. WaitsFor(c) \in Calls
          BY <2>7 DEF BreakDeadlock, Deadlocked
        <4>2. SUFFICES ASSUME pc[c] = "idle" PROVE FALSE
          OBVIOUS
        <4>3. WaitsFor(c) = None
          BY <4>2 DEF WaitsFor
        <4> QED BY <4>1, <4>3, BoardAssumption
      <3> QED BY <2>7, <3>1, AbortKeepsIInv DEF BreakDeadlock
    <2> QED BY <1>2, <2>1, <2>2, <2>3, <2>4, <2>5, <2>6, <2>7 DEF Handle
  <1>3. ASSUME NEW k \in Movers, NEW t \in Tasks, BeginCreate(k, t) PROVE IInv'
    BY <1>3, BeginCreateKeepsIInv
  <1>4. ASSUME NEW k \in Movers, NEW t \in Tasks, NEW col \in Targets, BeginTransition(k, t, col) PROVE IInv'
    BY <1>4, BeginTransitionKeepsIInv
  <1>5. ASSUME NEW k \in Movers, Finish(k) PROVE IInv'
    BY <1>5, ReadRankKeepsIInv, EnterKeepsIInv, RefuseKeepsIInv DEF Finish
  <1>6. CASE Crash
    BY <1>6, CrashKeepsIInv
  <1>7. CASE UNCHANGED vars
    <2>1. UNCHANGED <<rows, rowLock, pc, req, todo, got, mpc, move, bottom, moves, raced>>
      BY <1>7 DEF vars, callState, moverState
    <2>2. Types'
      BY <2>1 DEF IInv, Types
    <2>3. \A c \in Calls : Reordering(c)'
      BY <2>1 DEF IInv, Reordering, Holds, Exists, Seeing, Asked
    <2>4. (\A k \in Movers : Moving(k)') /\ LocksStand'
      BY <2>1 DEF IInv, Moving, LocksStand, Exists
    <2>5. \A col \in Columns \ raced' : Ordered(col)'
      <3>1. ASSUME NEW col \in Columns \ raced' PROVE Ordered(col)'
        <4>1. Ordered(col) /\ InColumn(col)' = InColumn(col)
          BY <2>1, <3>1 DEF IInv, InColumn, Exists
        <4>2. Apart(col)' /\ \A k \in Movers : (Enters(k, col)' <=> Enters(k, col)) /\ (Below(k, col)' <=> Below(k, col))
          BY <2>1, <4>1 DEF Ordered, Apart, Enters, Below
        <4>3. \A b \in Calls : (IsOf(b, col)' <=> IsOf(b, col)) /\ (Newcomers(b, col)' <=> Newcomers(b, col))
          BY <2>1, <4>1 DEF IsOf, Newcomers, Seeing, SeenThere
        <4>4. \A a, b \in Calls : Overlap(a, b, col)' <=> Overlap(a, b, col)
          BY <2>1, <4>1 DEF Overlap, Seeing, SeenThere
        <4> QED BY <4>1, <4>2, <4>3, <4>4 DEF Ordered
      <3> QED BY <3>1
    <2> QED BY <2>2, <2>3, <2>4, <2>5 DEF IInv
  <1> QED BY <1>1, <1>2, <1>3, <1>4, <1>5, <1>6, <1>7 DEF Next

\* In every state of the board the invariant of its proof holds: a task that
\* enters goes below the tasks of its column, and a reorder numbers no more
\* tasks than it has seen there.
THEOREM AlwaysIInv == Spec => []IInv
  <1>1. Init => IInv
    BY InitEstablishesIInv
  <1>2. IInv /\ [Next]_vars => IInv'
    BY NextKeepsIInv
  <1> QED BY <1>1, <1>2, PTL DEF Spec

LEMMA IInvIsSound == IInv => BoardIsSound
  <1> SUFFICES ASSUME IInv PROVE BoardIsSound
    OBVIOUS
  <1>1. Types
    BY DEF IInv
  <1>2. \A c \in Calls : req[c] = NoRequest \/ (req[c].op \in Ops /\ Asked(c) \in Reorders)
    <2>1. ASSUME NEW c \in Calls, req[c] # NoRequest PROVE req[c] \in Request /\ Asked(c) \in Reorders
      BY <2>1 DEF IInv, Reordering
    <2> QED BY <2>1 DEF Request
  <1>3. \A c \in Calls : Elements(todo[c]) \cup Elements(got[c]) \subseteq Tasks
    <2>1. ASSUME NEW c \in Calls PROVE todo[c] \in Seq(Tasks) /\ got[c] \in Seq(Tasks)
      BY <1>1 DEF Types
    <2> QED BY <2>1 DEF Elements
  <1>4. BoardTypeOK
    BY <1>1, <1>2, <1>3 DEF BoardTypeOK, Types, Row
  <1>5. RanksAreDistinct
    BY DEF IInv, Ordered, Apart, RanksAreDistinct
  <1> QED BY <1>4, <1>5 DEF BoardIsSound

\* The variables keep their types, and the tasks of a workflow column have
\* distinct ranks, so that ORDER BY rank says one order, whatever reorders,
\* creations and moves interleave, refuse or crash; save in a column that two
\* tasks entered at once, or that one left and came back to under a reorder.
THEOREM BoardSound == Spec => []BoardIsSound
  BY AlwaysIInv, IInvIsSound, PTL

LEMMA StepKeepsColumn == IInv /\ [Next]_vars => KeepsItsColumn
  <1> SUFFICES ASSUME IInv, [Next]_vars, NEW t \in Tasks, rows'[t].rank # rows[t].rank, Exists(t)
               PROVE  \/ \E k \in Movers : move[k].task = t /\ mpc[k] = "enter" /\ mpc'[k] = "idle"
                      \/ \E c \in Calls : /\ pc[c] = "column" /\ pc'[c] = "answered"
                                          /\ req[c].column = rows[t].column
    BY DEF KeepsItsColumn
  <1>1. Types
    BY DEF IInv
  <1>2. rows' # rows
    OBVIOUS
  <1>3. ASSUME NEW c \in Calls, Renumber(c)
        PROVE  pc[c] = "column" /\ pc'[c] = "answered" /\ req[c].column = rows[t].column
    <2>1. PICK g, n, new : Numbers(c, g, n, new)
      BY <1>3, RenumberFacts
    <2>2. t \in Elements(g)
      BY <2>1 DEF Numbers
    <2>3. t \in InColumn(req[c].column) /\ pc[c] = "column"
      BY <2>1, <2>2 DEF Numbers
    <2>4. pc' = [pc EXCEPT ![c] = "answered"]
      BY <1>3 DEF Renumber, Answer
    <2> QED BY <1>1, <2>3, <2>4 DEF InColumn, Types
  <1>4. ASSUME NEW k \in Movers, Enter(k)
        PROVE  move[k].task = t /\ mpc[k] = "enter" /\ mpc'[k] = "idle"
    <2>1. /\ mpc[k] = "enter" /\ mpc' = [mpc EXCEPT ![k] = "idle"]
          /\ rows' = [rows EXCEPT ![move[k].task] = [column |-> move[k].to, rank |-> bottom[k]]]
      BY <1>4 DEF Enter, Idle
    <2> QED BY <1>1, <2>1 DEF Types
  <1>5. ASSUME NEW c \in Calls, Handle(c) PROVE Renumber(c)
    BY <1>2, <1>5 DEF Handle, CheckHit, CheckMiss, AnswerFromReceipt, LockTarget, SelectColumn, LockRow,
                      RefuseRenumber, Recheck, BreakDeadlock, Abort
  <1>6. ASSUME NEW k \in Movers, Finish(k) PROVE Enter(k)
    BY <1>2, <1>6 DEF Finish, ReadRank, Refuse
  <1>7. (\E c \in Calls : Handle(c)) \/ (\E k \in Movers : Finish(k))
    BY <1>2 DEF Next, Submit, BeginCreate, BeginTransition, Crash, vars
  <1> QED BY <1>3, <1>4, <1>5, <1>6, <1>7

\* A task's rank changes only when the task itself moves, and when a reorder of
\* the column it is in commits: a reorder that saw it there before it left
\* takes it as it has become and leaves its new place alone.
THEOREM OnlyOwnColumn == Spec => OnlyItsColumn
  BY AlwaysIInv, StepKeepsColumn, PTL DEF Spec, OnlyItsColumn

(***************************************************************************)
(* What a reorder leaves                                                   *)
(***************************************************************************)

\* Rows that are numbered from 1 to n, above the others, are the first n.
LEMMA NumberedComeFirst ==
  ASSUME NEW r, NEW S \in SUBSET Nat, IsFiniteSet(S), \A t \in S : r[t].rank \in Nat,
         NEW T \in SUBSET S, NEW n \in Nat, Cardinality(T) = n,
         \A t \in T : r[t].rank \in 1 .. n,
         \A t, u \in T : r[t].rank = r[u].rank => t = u,
         \A t \in S \ T : r[t].rank > n
  PROVE  \A t \in T : /\ r[t].rank \in DOMAIN Sorted(r, S)
                      /\ Sorted(r, S)[r[t].rank] = t
  <1> DEFINE f == [t \in T |-> r[t].rank]
  <1>1. IsFiniteSet(T) /\ Cardinality(T) <= Cardinality(S) /\ Cardinality(S) \in Nat
    BY FS_Subset, FS_CardinalityType
  <1>2. f \in Surjection(T, 1 .. n)
    <2>1. f \in Injection(T, 1 .. n)
      BY DEF Injection, IsInjective
    <2>2. IsFiniteSet(1 .. n) /\ Cardinality(1 .. n) = n
      <3>1. IsFiniteSet(1 .. n) /\ Cardinality(1 .. n) = IF 1 > n THEN 0 ELSE n - 1 + 1
        BY FS_Interval
      <3> QED BY <3>1
    <2> HIDE DEF f
    <2> QED BY <2>1, <2>2, FS_Injection
  <1>3. \A i \in 1 .. n : \E t \in T : r[t].rank = i
    <2>1. \A i \in 1 .. n : \E t \in T : f[t] = i
      <3> HIDE DEF f
      <3> QED BY <1>2 DEF Surjection
    <2> QED BY <2>1
  <1>4. ASSUME NEW t \in T
        PROVE  r[t].rank \in DOMAIN Sorted(r, S) /\ Sorted(r, S)[r[t].rank] = t
    <2>1. PICK k \in 1 .. n : k = r[t].rank
      OBVIOUS
    <2> DEFINE B == {u \in S : Above(r, u, t)}
               g == [u \in B |-> r[u].rank]
    <2>2. B = {u \in T : r[u].rank < k}
      <3>1. ASSUME NEW u \in S, Above(r, u, t) PROVE u \in T /\ r[u].rank < k
        <4>1. PICK x : x = r[u].rank
          OBVIOUS
        <4>2. x \in Nat /\ (x < k \/ (x = k /\ u < t))
          BY <2>1, <3>1, <4>1 DEF Above
        <4>3. u \in T
          BY <4>1, <4>2
        <4>4. x # k
          <5> SUFFICES ASSUME x = k PROVE FALSE
            OBVIOUS
          <5>1. u = t
            BY <2>1, <4>1, <4>3
          <5>2. u < t /\ u \in Nat
            BY <4>2
          <5> QED BY <5>1, <5>2
        <4> QED BY <4>1, <4>2, <4>3, <4>4
      <3>2. ASSUME NEW u \in T, r[u].rank < k PROVE u \in S /\ Above(r, u, t)
        BY <2>1, <3>2 DEF Above
      <3> QED BY <3>1, <3>2
    <2>3. g \in Bijection(B, 1 .. k - 1)
      <3>1. \A u \in B : u \in T /\ r[u].rank \in 1 .. k - 1
        BY <2>1, <2>2
      <3>2. \A i \in 1 .. k - 1 : \E u \in B : r[u].rank = i
        <4>1. ASSUME NEW i \in 1 .. k - 1 PROVE \E u \in B : r[u].rank = i
          <5>1. i \in 1 .. n /\ i < k
            BY <2>1
          <5> QED BY <1>3, <2>2, <5>1
        <4> QED BY <4>1
      <3>3. g \in [B -> 1 .. k - 1] /\ \A u, v \in B : g[u] = g[v] => u = v
        BY <3>1
      <3>4. \A i \in 1 .. k - 1 : \E u \in B : g[u] = i
        BY <3>2
      <3> HIDE DEF g, B
      <3> QED BY <3>3, <3>4 DEF Bijection, Injection, Surjection, IsInjective
    <2>4. Cardinality(B) = k - 1
      <3>1. IsFiniteSet(B)
        BY <1>1, <2>2, FS_Subset
      <3>2. ExistsBijection(B, 1 .. k - 1)
        <4> HIDE DEF g
        <4> QED BY <2>3 DEF ExistsBijection
      <3> HIDE DEF B
      <3>3. Cardinality(1 .. k - 1) = Cardinality(B)
        BY <3>1, <3>2, FS_Bijection
      <3>4. Cardinality(1 .. k - 1) = k - 1
        <4>1. 1 \in Int /\ k - 1 \in Int
          BY <2>1
        <4>2. Cardinality(1 .. k - 1) = IF 1 > k - 1 THEN 0 ELSE (k - 1) - 1 + 1
          BY <4>1, FS_Interval
        <4> QED BY <2>1, <4>2
      <3> QED BY <3>3, <3>4
    <2>5. RankIn(r, S, t) = k - 1
      BY <2>4 DEF RankIn
    <2>6. k \in 1 .. Cardinality(S)
      BY <1>1, <2>1
    <2>7. RankIn(r, S, Sorted(r, S)[k]) = k - 1 /\ Sorted(r, S)[k] \in S
      <3>1. RankIn(r, S, Sorted(r, S)[k]) = k - 1
        BY <2>6, SortedRows
      <3>2. Sorted(r, S) \in Seq(S) /\ Len(Sorted(r, S)) = Cardinality(S)
        BY SortedRows
      <3>3. PICK w : w = Sorted(r, S)
        OBVIOUS
      <3>4. w \in Seq(S) /\ Len(w) = Cardinality(S)
        BY <3>2, <3>3
      <3>5. w[k] \in S
        BY <2>6, <3>4
      <3> QED BY <3>1, <3>3, <3>5
    <2>8. t = Sorted(r, S)[k]
      <3>1. \A u, v \in S : RankIn(r, S, u) = RankIn(r, S, v) => u = v
        BY RanksDiffer
      <3> QED BY <2>5, <2>7, <3>1
    <2>9. DOMAIN Sorted(r, S) = 1 .. Cardinality(S)
      BY DEF Sorted
    <2> QED BY <2>1, <2>6, <2>8, <2>9
  <1> QED BY <1>4

\* The task of a reorder stands right after its anchor, or first.
Honours(h) ==
    LET p == Position(h.now, h.req.task)
    IN  IF h.req.after = None THEN p = 1 ELSE p > 1 /\ h.now[p - 1] = h.req.after

LEMMA RenumberHonours ==
  ASSUME IInv, NEW c \in Calls, Renumber(c), NEW h, h.req = Asked(c), h.now = Order(req[c].column)'
  PROVE  /\ Order(req[c].column) \in Seq(Tasks)
         /\ h.now \in Seq(Tasks)
         /\ h.req \in Reorder
         /\ h.req.column \notin raced => Honours(h)
  <1>1. PICK g, n, new : Numbers(c, g, n, new)
    BY RenumberFacts
  <1>2. Types
    BY DEF IInv
  <1>3. PICK col, r, S : col = req[c].column /\ r = rows' /\ S = InColumn(col)
    OBVIOUS
  <1>4. Order(col)' = Sorted(r, S)
    <2>1. Order(col)' = Sorted(rows', InColumn(col)')
      BY DEF Order, Sorted, RankIn, Precedes, Above
    <2>2. InColumn(col)' = InColumn(col)
      BY <1>1 DEF Numbers
    <2> QED BY <1>3, <2>1, <2>2
  <1>5. /\ S \in SUBSET Nat /\ S \subseteq Tasks /\ IsFiniteSet(S)
        /\ \A t \in S : rows[t].rank \in Nat
        /\ Order(col) = Sorted(rows, S)
    BY <1>2, <1>3, ColumnRows
  <1>6. \A t \in S : r[t].rank \in Nat
    BY <1>1, <1>3, <1>5 DEF Numbers, Row
  <1>7. Order(col) \in Seq(Tasks)
    <2>1. Sorted(rows, S) \in Seq(S)
      BY <1>5, SortedRows
    <2>2. PICK w : w = Sorted(rows, S)
      OBVIOUS
    <2>3. w \in Seq(S) /\ S \subseteq Tasks
      BY <1>5, <2>1, <2>2
    <2>4. w \in Seq(Tasks)
      BY <2>3
    <2> QED BY <1>5, <2>2, <2>4
  <1>8. h.now = Sorted(r, S)
    <2>1. req'[c].column = col
      BY <1>3 DEF Renumber
    <2> QED BY <1>4, <2>1
  <1>9. h.now \in Seq(Tasks) /\ Distinct(h.now)
    <2>1. Sorted(r, S) \in Seq(S) /\ Distinct(Sorted(r, S))
      BY <1>5, <1>6, SortedRows
    <2> QED BY <1>5, <1>8, <2>1
  <1>10. h.req \in Reorder /\ h.req = [task |-> req[c].task, column |-> col, after |-> req[c].after]
    BY <1>1, <1>3 DEF Numbers, Request, Reorder, Asked
  <1>11. ASSUME col \notin raced PROVE Honours(h)
    <2>1. pc[c] = "column" /\ Seeing(c) = Elements(g) /\ Elements(g) \subseteq S /\ col \in Columns
      BY <1>1, <1>3 DEF Numbers, Request
    <2>2. Newcomers(c, col)
      BY <1>3, <1>11, <2>1 DEF IInv, Ordered, IsOf
    <2>3. SeenThere(c, col) = Elements(g) /\ Cardinality(Elements(g)) = n /\ n \in Nat
      BY <1>1, <1>3, <2>1 DEF SeenThere, Numbers
    <2>4. /\ \A t \in Elements(g) : r[t].rank = Position(new, t) /\ r[t].rank \in 1 .. n
          /\ \A t, u \in Elements(g) : r[t].rank = r[u].rank => t = u
      BY <1>1, <1>3, <1>5, <2>1 DEF Numbers
    <2>5. \A t \in S \ Elements(g) : r[t].rank > n
      <3>1. \A t \in S \ Elements(g) : r[t] = rows[t]
        BY <1>1, <1>3, <1>5 DEF Numbers
      <3> QED BY <1>3, <2>1, <2>2, <2>3, <3>1 DEF Newcomers
    <2>6. \A t \in Elements(g) : r[t].rank \in DOMAIN h.now /\ h.now[r[t].rank] = t
      <3>1. PICK T : T = Elements(g)
        OBVIOUS
      <3>2. /\ T \in SUBSET S /\ Cardinality(T) = n /\ n \in Nat
            /\ \A t \in T : r[t].rank \in 1 .. n
            /\ \A t, u \in T : r[t].rank = r[u].rank => t = u
            /\ \A t \in S \ T : r[t].rank > n
        BY <2>1, <2>3, <2>4, <2>5, <3>1
      <3>3. \A t \in T : r[t].rank \in DOMAIN Sorted(r, S) /\ Sorted(r, S)[r[t].rank] = t
        BY <1>5, <1>6, <3>2, NumberedComeFirst
      <3> QED BY <1>8, <3>1, <3>3
    <2>7. ASSUME NEW t \in Elements(g) PROVE Position(h.now, t) = Position(new, t)
      <3>1. PICK i : i = Position(new, t)
        OBVIOUS
      <3>2. i \in DOMAIN h.now /\ h.now[i] = t
        BY <2>4, <2>6, <3>1
      <3>3. Position(h.now, h.now[i]) = i
        BY <1>9, <3>2, OnlyThere
      <3> QED BY <3>1, <3>2, <3>3
    <2>8. PICK t, p : t = req[c].task /\ p = Position(new, t)
      OBVIOUS
    <2>9. t \in Elements(g) /\ Position(h.now, t) = p /\ p \in 1 .. n
      BY <1>1, <2>7, <2>8 DEF Numbers
    <2>10. CASE req[c].after = None
      <3>1. p = 1
        BY <1>1, <2>8, <2>10 DEF Numbers
      <3> QED BY <1>10, <2>8, <2>9, <2>10, <3>1 DEF Honours
    <2>11. CASE req[c].after # None
      <3>1. PICK a : a = req[c].after
        OBVIOUS
      <3>2. p > 1 /\ new[p - 1] = a
        BY <1>1, <2>8, <2>11, <3>1 DEF Numbers
      <3>3. new \in Seq(Tasks) /\ Len(new) = n /\ Distinct(new) /\ Elements(new) = Elements(g)
        BY <1>1 DEF Numbers
      <3>4. p - 1 \in DOMAIN new
        BY <2>3, <2>9, <3>2, <3>3
      <3>5. Position(new, new[p - 1]) = p - 1 /\ new[p - 1] \in Elements(new)
        BY <3>3, <3>4, OnlyThere
      <3>6. h.now[p - 1] = a
        BY <2>4, <2>6, <3>2, <3>3, <3>5
      <3> QED BY <1>10, <2>8, <2>9, <2>11, <3>1, <3>2, <3>6 DEF Honours
    <2> QED BY <2>10, <2>11
  <1> QED BY <1>3, <1>7, <1>9, <1>10, <1>11

(***************************************************************************)
(* What is recorded of a reorder, and told                                 *)
(***************************************************************************)

\* No success is told, nothing is recorded, and no column is less raced.
LEMMA TellsNothingKeepsRInv ==
  ASSUME RInv, UNCHANGED <<receipts, history>>, raced \subseteq raced',
         answer' \in [Calls -> [outcome : Outcomes, order : Seq(Tasks)]],
         \A c \in Calls : answer'[c].outcome = "ok" =>
            /\ answer[c].outcome = "ok" /\ answer'[c].order = answer[c].order
            /\ (pc[c] = "answered" => pc'[c] = "answered" /\ req'[c] = req[c])
  PROVE  RInv'
  <1>1. RecordTypes' /\ AnchorIsRespected'
    BY DEF RInv, RecordTypes, AnchorIsRespected
  <1>2. \A c \in Calls : answer'[c].outcome = "ok" =>
           /\ pc'[c] = "answered"
           /\ Recorded(req[c].op, Asked(c), answer[c].order)'
    <2>1. ASSUME NEW c \in Calls, answer'[c].outcome = "ok"
          PROVE  pc'[c] = "answered" /\ Recorded(req[c].op, Asked(c), answer[c].order)'
      <3>1. pc'[c] = "answered" /\ req'[c] = req[c] /\ Recorded(req[c].op, Asked(c), answer[c].order)
        BY <2>1 DEF RInv
      <3> QED BY <2>1, <3>1 DEF Recorded, Asked, Done
    <2> QED BY <2>1
  <1>3. /\ \A i, j \in Done' : history'[i].op = history'[j].op => i = j
        /\ \A i \in Done' : receipts'[history'[i].op] # NoReceipt
    BY DEF RInv, Done
  <1>4. \A o \in Ops : receipts'[o] # NoReceipt => Recorded(o, receipts[o].req, receipts[o].order)'
    BY DEF RInv, Recorded, Done
  <1> QED BY <1>1, <1>2, <1>3, <1>4 DEF RInv

LEMMA AbortKeepsRInv ==
  ASSUME RInv, NEW c \in Calls, pc[c] # "answered", NEW err \in Outcomes, err # "ok", Abort(c, err)
  PROVE  RInv'
  <1>1. /\ answer' = [answer EXCEPT ![c].outcome = err]
        /\ pc' = [pc EXCEPT ![c] = "recheck"]
        /\ UNCHANGED <<receipts, req, history, raced>>
        /\ answer \in [Calls -> [outcome : Outcomes, order : Seq(Tasks)]]
    BY DEF Abort, RInv, RecordTypes, moverState
  <1>2. answer' \in [Calls -> [outcome : Outcomes, order : Seq(Tasks)]]
    BY <1>1
  <1>3. \A b \in Calls : b # c => answer'[b] = answer[b] /\ (pc[b] = "answered" => pc'[b] = "answered")
    BY <1>1
  <1>4. answer'[c].outcome # "ok"
    BY <1>1
  <1> QED BY <1>1, <1>2, <1>3, <1>4, TellsNothingKeepsRInv

LEMMA AnswerKeepsRInv ==
  ASSUME RInv, IInv, NEW c \in Calls, pc[c] # "answered", NEW outcome \in Outcomes, NEW order \in Seq(Tasks),
         Answer(c, outcome, order), UNCHANGED <<rows, receipts, rowLock, req, moverState, history>>,
         outcome = "ok" => Recorded(req[c].op, Asked(c), order)
  PROVE  RInv'
  <1>1. /\ answer' = [answer EXCEPT ![c] = [outcome |-> outcome, order |-> order]]
        /\ pc' = [pc EXCEPT ![c] = "answered"]
        /\ UNCHANGED <<receipts, req, history, raced>>
        /\ RecordTypes /\ Types
    BY DEF Answer, RInv, IInv, moverState
  <1>2. RecordTypes' /\ AnchorIsRespected'
    BY <1>1 DEF RInv, RecordTypes, AnchorIsRespected
  <1>3. ASSUME NEW b \in Calls, answer'[b].outcome = "ok"
        PROVE  pc'[b] = "answered" /\ Recorded(req[b].op, Asked(b), answer[b].order)'
    <2>1. CASE b = c
      <3>1. outcome = "ok" /\ answer'[c].order = order /\ pc'[c] = "answered"
        BY <1>1, <1>3, <2>1 DEF RecordTypes, Types
      <3> QED BY <1>1, <2>1, <3>1 DEF Recorded, Asked, Done
    <2>2. CASE b # c
      <3>1. answer'[b] = answer[b] /\ pc'[b] = pc[b]
        BY <1>1, <2>2 DEF RecordTypes, Types
      <3>2. pc[b] = "answered" /\ Recorded(req[b].op, Asked(b), answer[b].order)
        BY <1>3, <3>1 DEF RInv
      <3> QED BY <1>1, <3>1, <3>2 DEF Recorded, Asked, Done
    <2> QED BY <2>1, <2>2
  <1>4. /\ \A i, j \in Done' : history'[i].op = history'[j].op => i = j
        /\ \A i \in Done' : receipts'[history'[i].op] # NoReceipt
    BY <1>1 DEF RInv, Done
  <1>5. \A o \in Ops : receipts'[o] # NoReceipt => Recorded(o, receipts[o].req, receipts[o].order)'
    BY <1>1 DEF RInv, Recorded, Done
  <1> QED BY <1>2, <1>3, <1>4, <1>5 DEF RInv

\* The receipt of an operation holds what was recorded of it.
LEMMA FromReceiptKeepsRInv ==
  ASSUME RInv, IInv, NEW c \in Calls, pc[c] \in {"check", "recheck"}, AnswerFromReceipt(c)
  PROVE  RInv'
  <1>1. req[c] \in Request
    BY DEF IInv, Reordering
  <1>2. PICK o, r : o = req[c].op /\ r = receipts[o]
    OBVIOUS
  <1>3. o \in Ops /\ r # NoReceipt /\ r \in Receipt
    BY <1>1, <1>2 DEF Request, AnswerFromReceipt, Seen, RInv, RecordTypes
  <1>4. Recorded(o, r.req, r.order)
    BY <1>2, <1>3 DEF RInv
  <1>5. PICK outcome : outcome = IF r.req = Asked(c) THEN "ok" ELSE "idempotencyConflict"
    OBVIOUS
  <1>6. Answer(c, outcome, r.order) /\ UNCHANGED <<rows, receipts, rowLock, req, moverState, history>>
    BY <1>2, <1>5 DEF AnswerFromReceipt
  <1>7. outcome \in Outcomes /\ r.order \in Seq(Tasks) /\ (outcome = "ok" => Recorded(req[c].op, Asked(c), r.order))
    <2>1. outcome \in Outcomes /\ (outcome = "ok" => r.req = Asked(c))
      BY <1>5 DEF Outcomes
    <2>2. r.order \in Seq(Tasks)
      BY <1>3 DEF Receipt
    <2>3. outcome = "ok" => Recorded(req[c].op, Asked(c), r.order)
      BY <1>2, <1>4, <2>1
    <2> QED BY <2>1, <2>2, <2>3
  <1> QED BY <1>6, <1>7, AnswerKeepsRInv

LEMMA RecheckKeepsRInv ==
  ASSUME RInv, IInv, NEW c \in Calls, CheckHit(c) \/ Recheck(c)
  PROVE  RInv'
  <1>1. CASE AnswerFromReceipt(c)
    BY <1>1, FromReceiptKeepsRInv DEF CheckHit, Recheck
  <1>2. CASE ~AnswerFromReceipt(c)
    <2>1. /\ pc[c] = "recheck" /\ Answer(c, answer[c].outcome, <<>>)
          /\ UNCHANGED <<rows, receipts, rowLock, req, moverState, history>>
      BY <1>2 DEF CheckHit, Recheck
    <2>2. answer[c].outcome # "ok" /\ answer[c].outcome \in Outcomes
      BY <2>1 DEF RInv, RecordTypes
    <2>3. <<>> \in Seq(Tasks)
      OBVIOUS
    <2>4. pc[c] # "answered" /\ (answer[c].outcome = "ok" => Recorded(req[c].op, Asked(c), <<>>))
      BY <2>1, <2>2
    <2> QED BY <2>1, <2>2, <2>3, <2>4, AnswerKeepsRInv
  <1> QED BY <1>1, <1>2

LEMMA RenumberKeepsRInv ==
  ASSUME RInv, IInv, NEW c \in Calls, Renumber(c)
  PROVE  RInv'
  <1>1. PICK h : h = [op |-> req[c].op, req |-> Asked(c), was |-> Order(req[c].column),
                      now |-> Order(req[c].column)']
    OBVIOUS
  <1>2. h.op = req[c].op /\ h.req = Asked(c) /\ h.was = Order(req[c].column) /\ h.now = Order(req[c].column)'
    BY <1>1
  <1>3. /\ receipts' = [receipts EXCEPT ![h.op] = [req |-> h.req, order |-> h.now]]
        /\ history' = Append(history, h)
        /\ answer' = [answer EXCEPT ![c] = [outcome |-> "ok", order |-> h.now]]
        /\ pc' = [pc EXCEPT ![c] = "answered"]
        /\ req' = req /\ raced' = raced
        /\ receipts[h.op] = NoReceipt
    BY <1>1, <1>2 DEF Renumber, MayRenumber, Seen, Answer, moverState
  <1>4. /\ Order(req[c].column) \in Seq(Tasks) /\ h.now \in Seq(Tasks) /\ h.req \in Reorder
        /\ h.req.column \notin raced => Honours(h)
    BY <1>2, RenumberHonours
  <1>5. h.op \in Ops
    <2>1. PICK g, n, new : Numbers(c, g, n, new)
      BY RenumberFacts
    <2> QED BY <1>2, <2>1 DEF Numbers, Request
  <1>6. h \in Known
    BY <1>1, <1>2, <1>4, <1>5 DEF Known
  <1>7. PICK n : n = Len(history)
    OBVIOUS
  <1>8. /\ n \in Nat /\ history' \in Seq(Known) /\ Done = 1 .. n /\ Done' = 1 .. n + 1
        /\ history'[n + 1] = h
        /\ \A i \in 1 .. n : history'[i] = history[i]
    BY <1>3, <1>6, <1>7 DEF RInv, RecordTypes, Done
  <1>9. RecordTypes'
    <2>1. [req |-> h.req, order |-> h.now] \in Receipt
      BY <1>4 DEF Receipt
    <2>2. receipts' \in [Ops -> Receipt \cup {NoReceipt}]
      BY <1>3, <2>1 DEF RInv, RecordTypes
    <2>3. answer' \in [Calls -> [outcome : Outcomes, order : Seq(Tasks)]]
      <3>1. PICK a : a = [outcome |-> "ok", order |-> h.now]
        OBVIOUS
      <3>2. a \in [outcome : Outcomes, order : Seq(Tasks)]
        BY <1>4, <3>1 DEF Outcomes
      <3>3. answer' = [answer EXCEPT ![c] = a] /\ answer \in [Calls -> [outcome : Outcomes, order : Seq(Tasks)]]
        BY <1>3, <3>1 DEF RInv, RecordTypes
      <3> QED BY <3>2, <3>3
    <2> QED BY <1>8, <2>2, <2>3 DEF RecordTypes
  <1>10. AnchorIsRespected'
    <2>1. \A i \in 1 .. n : history[i].req.column \notin raced => Honours(history[i])
      BY <1>8 DEF RInv, AnchorIsRespected, Honours, Done
    <2>2. \A i \in 1 .. n + 1 : history'[i].req.column \notin raced => Honours(history'[i])
      <3>1. ASSUME NEW i \in 1 .. n + 1 PROVE history'[i].req.column \notin raced => Honours(history'[i])
        <4>1. CASE i = n + 1
          BY <1>4, <1>8, <4>1
        <4>2. CASE i # n + 1
          BY <1>8, <2>1, <4>2
        <4> QED BY <4>1, <4>2
      <3> QED BY <3>1
    <2>3. \A i \in DOMAIN history' : history'[i].req.column \notin raced' => Honours(history'[i])
      BY <1>3, <1>8, <2>2 DEF Done
    <2> QED BY <2>3 DEF AnchorIsRespected, Honours
  <1>11. \A i \in 1 .. n : history[i].op # h.op
    BY <1>3, <1>8 DEF RInv
  <1>12. \A i, j \in Done' : history'[i].op = history'[j].op => i = j
    <2>1. ASSUME NEW i \in 1 .. n + 1, NEW j \in 1 .. n + 1, history'[i].op = history'[j].op PROVE i = j
      <3>1. CASE i = n + 1 \/ j = n + 1
        BY <1>8, <1>11, <2>1, <3>1
      <3>2. CASE i # n + 1 /\ j # n + 1
        <4>1. i \in 1 .. n /\ j \in 1 .. n
          BY <1>8, <3>2
        <4> QED BY <1>8, <2>1, <4>1 DEF RInv
      <3> QED BY <3>1, <3>2
    <2> QED BY <1>8, <2>1
  <1>13. \A o, q, order : Recorded(o, q, order) => Recorded(o, q, order)'
    <2>1. \A i \in Done : i \in Done' /\ history'[i] = history[i]
      BY <1>8
    <2> QED BY <2>1 DEF Recorded
  <1>14. Recorded(h.op, h.req, h.now)'
    <2>1. n + 1 \in Done'
      BY <1>8
    <2> QED BY <1>8, <2>1 DEF Recorded
  <1>15. \A i \in Done' : receipts'[history'[i].op] # NoReceipt
    <2>0. [req |-> h.req, order |-> h.now] # NoReceipt
      BY DEF NoReceipt
    <2>1. ASSUME NEW i \in 1 .. n + 1 PROVE receipts'[history'[i].op] # NoReceipt
      <3>1. CASE i = n + 1
        BY <1>3, <1>5, <1>8, <2>0, <3>1 DEF RInv, RecordTypes
      <3>2. CASE i # n + 1
        <4>1. i \in 1 .. n /\ history'[i] = history[i]
          BY <1>8, <3>2
        <4>2. history[i].op \in Ops /\ history[i].op # h.op /\ receipts[history[i].op] # NoReceipt
          <5>1. history[i] \in Known
            BY <1>7, <1>8, <4>1 DEF RInv, RecordTypes, Done
          <5>2. receipts[history[i].op] # NoReceipt
            BY <1>8, <4>1 DEF RInv
          <5> QED BY <1>11, <4>1, <5>1, <5>2 DEF Known
        <4> QED BY <1>3, <4>1, <4>2 DEF RInv, RecordTypes
      <3> QED BY <3>1, <3>2
    <2> QED BY <1>8, <2>1
  <1>16. \A o \in Ops : receipts'[o] # NoReceipt => Recorded(o, receipts[o].req, receipts[o].order)'
    <2>1. ASSUME NEW o \in Ops, receipts'[o] # NoReceipt
          PROVE  Recorded(o, receipts[o].req, receipts[o].order)'
      <3>1. PICK q, order : q = receipts'[o].req /\ order = receipts'[o].order
        OBVIOUS
      <3>2. Recorded(o, q, order)'
        <4>1. CASE o = h.op
          <5>1. q = h.req /\ order = h.now
            BY <1>3, <3>1, <4>1 DEF RInv, RecordTypes
          <5> QED BY <1>14, <4>1, <5>1
        <4>2. CASE o # h.op
          <5>1. receipts'[o] = receipts[o]
            BY <1>3, <4>2 DEF RInv, RecordTypes
          <5>2. Recorded(o, q, order)
            BY <2>1, <3>1, <5>1 DEF RInv
          <5> QED BY <1>13, <5>2
        <4> QED BY <4>1, <4>2
      <3> QED BY <3>1, <3>2
    <2> QED BY <2>1
  <1>17. ASSUME NEW b \in Calls, answer'[b].outcome = "ok"
         PROVE  pc'[b] = "answered" /\ Recorded(req[b].op, Asked(b), answer[b].order)'
    <2>1. PICK o, q, order : o = req[b].op /\ q = Asked(b) /\ order = answer'[b].order
      OBVIOUS
    <2>2. pc'[b] = "answered" /\ Recorded(o, q, order)'
      <3>1. CASE b = c
        <4>1. o = h.op /\ q = h.req /\ order = h.now /\ pc'[b] = "answered"
          BY <1>2, <1>3, <2>1, <3>1 DEF RInv, RecordTypes, IInv, Types
        <4> QED BY <1>14, <4>1
      <3>2. CASE b # c
        <4>1. answer'[b] = answer[b] /\ pc'[b] = pc[b]
          BY <1>3, <3>2 DEF RInv, RecordTypes, IInv, Types
        <4>2. pc[b] = "answered" /\ Recorded(o, q, order)
          BY <1>17, <2>1, <4>1 DEF RInv
        <4> QED BY <1>13, <4>1, <4>2
      <3> QED BY <3>1, <3>2
    <2>3. req'[b].op = o /\ Asked(b)' = q
      BY <1>3, <2>1 DEF Asked
    <2> QED BY <2>1, <2>2, <2>3
  <1> QED BY <1>9, <1>10, <1>12, <1>15, <1>16, <1>17 DEF RInv

LEMMA InitEstablishesRInv == Init => RInv
  <1> SUFFICES ASSUME Init PROVE RInv
    OBVIOUS
  <1>1. receipts = [o \in Ops |-> NoReceipt] /\ answer = [c \in Calls |-> NoAnswer] /\ history = <<>>
    BY DEF Init
  <1>2. RecordTypes
    BY <1>1 DEF RecordTypes, NoAnswer, Outcomes
  <1>3. DOMAIN history = {}
    BY <1>1
  <1>4. \A c \in Calls : answer[c].outcome # "ok"
    BY <1>1 DEF NoAnswer
  <1>5. \A o \in Ops : receipts[o] = NoReceipt
    BY <1>1
  <1> QED BY <1>2, <1>3, <1>4, <1>5 DEF RInv, AnchorIsRespected, Done

LEMMA NextKeepsRInv == RInv /\ IInv /\ [Next]_vars => RInv'
  <1> SUFFICES ASSUME RInv, IInv, [Next]_vars PROVE RInv'
    OBVIOUS
  <1>0. answer \in [Calls -> [outcome : Outcomes, order : Seq(Tasks)]] /\ Types
    BY DEF RInv, RecordTypes, IInv
  <1>1. ASSUME UNCHANGED <<receipts, history, answer, pc, req>>, raced \subseteq raced' PROVE RInv'
    BY <1>0, <1>1, TellsNothingKeepsRInv
  <1>2. ASSUME NEW c \in Calls, NEW o \in Ops, NEW q \in Reorders, Submit(c, o, q) PROVE RInv'
    <2>1. /\ UNCHANGED <<receipts, history, answer, raced>> /\ pc[c] = "idle"
          /\ \A b \in Calls : b # c => pc'[b] = pc[b] /\ req'[b] = req[b]
      BY <1>0, <1>2 DEF Submit, moverState, Types
    <2> QED BY <1>0, <2>1, TellsNothingKeepsRInv
  <1>3. ASSUME NEW c \in Calls, Handle(c) PROVE RInv'
    <2>1. CASE CheckHit(c) \/ Recheck(c)
      BY <2>1, RecheckKeepsRInv
    <2>2. CASE CheckMiss(c) \/ SelectColumn(c) \/ LockRow(c)
      <3>1. /\ UNCHANGED <<receipts, history, answer, req, raced>> /\ pc[c] # "answered"
            /\ \A b \in Calls : b # c => pc'[b] = pc[b]
        BY <1>0, <2>2 DEF CheckMiss, SelectColumn, LockRow, moverState, Types
      <3> QED BY <1>0, <3>1, TellsNothingKeepsRInv
    <2>3. CASE LockTarget(c)
      <3>1. CASE Abort(c, "notFound") \/ Abort(c, "notInColumn")
        BY <2>3, <3>1, AbortKeepsRInv DEF LockTarget, Outcomes
      <3>2. CASE ~(Abort(c, "notFound") \/ Abort(c, "notInColumn"))
        <4>1. /\ UNCHANGED <<receipts, history, answer, req, raced>> /\ pc[c] # "answered"
              /\ \A b \in Calls : b # c => pc'[b] = pc[b]
          BY <1>0, <2>3, <3>2 DEF LockTarget, moverState, Types
        <4> QED BY <1>0, <4>1, TellsNothingKeepsRInv
      <3> QED BY <3>1, <3>2
    <2>4. CASE RefuseRenumber(c)
      BY <2>4, AbortKeepsRInv DEF RefuseRenumber, Outcomes
    <2>5. CASE Renumber(c)
      BY <2>5, RenumberKeepsRInv
    <2>6. CASE BreakDeadlock(c)
      <3>1. pc[c] # "answered"
        <4>1. WaitsFor(c) \in Calls
          BY <2>6 DEF BreakDeadlock, Deadlocked
        <4>2. SUFFICES ASSUME pc[c] = "answered" PROVE FALSE
          OBVIOUS
        <4>3. WaitsFor(c) = None
          BY <4>2 DEF WaitsFor
        <4> QED BY <4>1, <4>3, BoardAssumption
      <3> QED BY <2>6, <3>1, AbortKeepsRInv DEF BreakDeadlock, Outcomes
    <2> QED BY <1>3, <2>1, <2>2, <2>3, <2>4, <2>5, <2>6 DEF Handle
  <1>4. ASSUME NEW k \in Movers, NEW t \in Tasks, BeginCreate(k, t) PROVE RInv'
    BY <1>1, <1>4 DEF BeginCreate, callState
  <1>5. ASSUME NEW k \in Movers, NEW t \in Tasks, NEW col \in Targets, BeginTransition(k, t, col) PROVE RInv'
    BY <1>1, <1>5 DEF BeginTransition, callState
  <1>6. ASSUME NEW k \in Movers, Finish(k) PROVE RInv'
    <2>1. UNCHANGED <<receipts, history, answer, pc, req>> /\ raced \subseteq raced'
      BY <1>6 DEF Finish, ReadRank, Enter, Refuse, callState
    <2> QED BY <1>1, <2>1
  <1>7. CASE Crash
    <2>1. /\ UNCHANGED <<receipts, req, history, raced>>
          /\ pc' = [c \in Calls |-> IF InFlight(c) THEN "answered" ELSE pc[c]]
          /\ answer' = [c \in Calls |-> IF InFlight(c)
                                        THEN [outcome |-> "lost", order |-> <<>>] ELSE answer[c]]
      BY <1>7 DEF Crash
    <2>2. answer' \in [Calls -> [outcome : Outcomes, order : Seq(Tasks)]]
      <3>1. ASSUME NEW c \in Calls PROVE answer'[c] \in [outcome : Outcomes, order : Seq(Tasks)]
        BY <1>0, <2>1 DEF Outcomes
      <3> QED BY <2>1, <3>1
    <2>3. \A c \in Calls : answer'[c].outcome = "ok" => ~InFlight(c) /\ answer'[c] = answer[c] /\ pc'[c] = pc[c]
      BY <2>1
    <2> QED BY <2>1, <2>2, <2>3, TellsNothingKeepsRInv
  <1>8. CASE UNCHANGED vars
    BY <1>1, <1>8 DEF vars, callState, moverState
  <1> QED BY <1>2, <1>3, <1>4, <1>5, <1>6, <1>7, <1>8 DEF Next

LEMMA RInvHonours == RInv => ReordersAreHonoured
  <1> SUFFICES ASSUME RInv PROVE ReordersAreHonoured
    OBVIOUS
  <1>1. \A i, j \in DOMAIN history : history[i].op = history[j].op => i = j
    BY DEF RInv, Done
  <1>2. \A c \in Calls : answer[c].outcome = "ok" =>
           \E i \in DOMAIN history : /\ history[i].op = req[c].op
                                     /\ history[i].req = Asked(c)
                                     /\ history[i].now = answer[c].order
    BY DEF RInv, Recorded, Done
  <1> QED BY <1>1, <1>2 DEF RInv, ReordersAreHonoured, ReordersApplyOnce

\* A reorder that commits leaves its task right after its anchor, or first, in
\* the column as everybody sees it then, also when other tasks have entered the
\* column since it was read; an operation takes effect once, however often it
\* is sent, with whatever crashes; and who is told of success is told the order
\* that this one commit left.
THEOREM ReordersHonoured == Spec => []ReordersAreHonoured
  <1>1. Init => RInv
    BY InitEstablishesRInv
  <1>2. RInv /\ IInv /\ [Next]_vars => RInv'
    BY NextKeepsRInv
  <1>3. Spec => []RInv
    BY <1>1, <1>2, AlwaysIInv, PTL DEF Spec
  <1> QED BY <1>3, RInvHonours, PTL
=============================================================================
