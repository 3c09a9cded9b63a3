------------------------- MODULE WindowServiceProofs -------------------------
(***************************************************************************)
(* Proofs about WindowService for any callers, sequences, batches, sizes   *)
(* and thresholds: behind vector, late points and lazy left edge, a window *)
(* is a map from times to values, appends that are called safe are behind  *)
(* every point, and a report covers what its update has changed.           *)
(***************************************************************************)
EXTENDS WindowService, FiniteSetTheorems, SequenceTheorems, TLAPS

Values == Int \cup {NonNumeric}
TimeSet(S) == IsFiniteSet(S) /\ S \subseteq Int

(* A finite map from times to values, and a vector sorted by time.         *)
IsMap(f) ==
  /\ f = [t \in DOMAIN f |-> f[t]]
  /\ TimeSet(DOMAIN f) /\ \A t \in DOMAIN f : f[t] \in Values
Sorted(q) ==
  /\ q \in Seq(Points)
  /\ \A i, j \in 1 .. Len(q) : i < j => q[i].time < q[j].time
-----------------------------------------------------------------------------
(***************************************************************************)
(* Finite sets of integers.                                                *)
(***************************************************************************)
(* A finite set of times has a first and a last one: the times from one on *)
(* become fewer with every later one, and not for ever.                    *)
LEMMA HasGreatest ==
  ASSUME NEW S, IsFiniteSet(S), S # {}, S \subseteq Int
  PROVE  \E x \in S : \A y \in S : x >= y
<1> DEFINE U(x) == {y \in S : y >= x}
           T == {U(x) : x \in S}
<1>1. T \subseteq FiniteSubsetsOf(S) /\ T # {}
  <2>1. \A x \in S : U(x) \in SUBSET S /\ IsFiniteSet(U(x))
    BY FS_Subset
  <2>2. \A V \in T : V \in FiniteSubsetsOf(S)
    BY <2>1 DEF FiniteSubsetsOf
  <2>3. T # {}
    OBVIOUS
  <2> HIDE DEF T
  <2> QED BY <2>2, <2>3
<1>2. PICK V \in T : \A W \in T : <<W, V>> \notin StrictSubsetOrdering(S)
  BY <1>1, FS_StrictSubsetOrderingWellFounded, WFMin
<1>3. PICK x \in S : V = U(x)
  BY <1>2
<1>4. ASSUME NEW y \in S, ~(x >= y)
      PROVE  FALSE
  <2>1. x \in Int /\ y \in Int /\ y > x
    BY <1>4
  <2>2. \A z \in S : z \in Int /\ (z >= y => z >= x) /\ x >= x /\ ~(x >= y)
    BY <2>1
  <2>3. <<U(y), U(x)>> \in StrictSubsetOrdering(S)
    <3>1. U(y) \subseteq U(x)
      BY <2>2, Zenon
    <3>2. x \in U(x) /\ x \notin U(y)
      BY <2>2, Zenon
    <3>3. U(x) \subseteq S /\ U(y) \subseteq S
      OBVIOUS
    <3> HIDE DEF U
    <3> QED BY <3>1, <3>2, <3>3 DEF StrictSubsetOrdering
  <2> QED BY <1>2, <1>3, <2>3
<1> QED BY <1>4

LEMMA HasLeast ==
  ASSUME NEW S, IsFiniteSet(S), S # {}, S \subseteq Int
  PROVE  \E x \in S : \A y \in S : x <= y
<1> DEFINE U(x) == {y \in S : y <= x}
           T == {U(x) : x \in S}
<1>1. T \subseteq FiniteSubsetsOf(S) /\ T # {}
  <2>1. \A x \in S : U(x) \in SUBSET S /\ IsFiniteSet(U(x))
    BY FS_Subset
  <2>2. \A V \in T : V \in FiniteSubsetsOf(S)
    BY <2>1 DEF FiniteSubsetsOf
  <2>3. T # {}
    OBVIOUS
  <2> HIDE DEF T
  <2> QED BY <2>2, <2>3
<1>2. PICK V \in T : \A W \in T : <<W, V>> \notin StrictSubsetOrdering(S)
  BY <1>1, FS_StrictSubsetOrderingWellFounded, WFMin
<1>3. PICK x \in S : V = U(x)
  BY <1>2
<1>4. ASSUME NEW y \in S, ~(x <= y)
      PROVE  FALSE
  <2>1. x \in Int /\ y \in Int /\ y < x
    BY <1>4
  <2>2. \A z \in S : z \in Int /\ (z <= y => z <= x) /\ x <= x /\ ~(x <= y)
    BY <2>1
  <2>3. <<U(y), U(x)>> \in StrictSubsetOrdering(S)
    <3>1. U(y) \subseteq U(x)
      BY <2>2, Zenon
    <3>2. x \in U(x) /\ x \notin U(y)
      BY <2>2, Zenon
    <3>3. U(x) \subseteq S /\ U(y) \subseteq S
      OBVIOUS
    <3> HIDE DEF U
    <3> QED BY <3>1, <3>2, <3>3 DEF StrictSubsetOrdering
  <2> QED BY <1>2, <1>3, <2>3
<1> QED BY <1>4

LEMMA GreatestIs ==
  ASSUME NEW S, IsFiniteSet(S), S # {}, S \subseteq Int
  PROVE  Greatest(S) \in S /\ \A y \in S : Greatest(S) >= y
BY HasGreatest DEF Greatest

LEMMA LeastIs ==
  ASSUME NEW S, IsFiniteSet(S), S # {}, S \subseteq Int
  PROVE  Least(S) \in S /\ \A y \in S : Least(S) <= y
BY HasLeast DEF Least

(* How many elements of S are smaller than x.                              *)
Below(S, x) == {y \in S : y < x}
Ranked(S) ==
  \A i \in 1 .. Cardinality(S) : \E x \in S : Cardinality(Below(S, x)) = i - 1

LEMMA RankStep ==
  ASSUME NEW S, TimeSet(S), S # {}, Ranked(S \ {Greatest(S)})
  PROVE  Ranked(S)
<1> DEFINE g == Greatest(S)
           T == S \ {g}
<1>1. g \in S /\ g \in Int /\ \A y \in S : y \in Int /\ g >= y
  BY GreatestIs DEF TimeSet
<1>2. /\ Cardinality(S) \in Nat /\ Cardinality(T) \in Nat
      /\ Cardinality(T) = Cardinality(S) - 1
  BY <1>1, FS_RemoveElement, FS_CardinalityType DEF TimeSet
<1>3. Below(S, g) = T
  BY <1>1 DEF Below
<1>4. \A x \in T : Below(S, x) = Below(T, x)
  <2>1. \A x \in T : ~(g < x)
    BY <1>1
  <2> QED BY <2>1 DEF Below
<1>5. \A x \in T : x \in S
  OBVIOUS
<1>6. ASSUME NEW i \in 1 .. Cardinality(S)
      PROVE  \E x \in S : Cardinality(Below(S, x)) = i - 1
  <2>1. CASE i = Cardinality(S)
    BY <1>1, <1>2, <1>3, <2>1
  <2>2. CASE i # Cardinality(S)
    <3>1. i \in 1 .. Cardinality(T)
      BY <1>2, <2>2
    <3>2. Ranked(T)
      OBVIOUS
    <3> HIDE DEF T
    <3>3. PICK x \in T : Cardinality(Below(T, x)) = i - 1
      BY <3>1, <3>2 DEF Ranked
    <3> QED BY <1>4, <1>5, <3>3
  <2> QED BY <2>1, <2>2
<1> QED BY <1>6 DEF Ranked

(* A smallest set without ranks would have them without its greatest       *)
(* element, and so have them itself.                                       *)
LEMMA RanksExist ==
  ASSUME NEW S, TimeSet(S)
  PROVE  Ranked(S)
<1> DEFINE D == {T \in FiniteSubsetsOf(S) : ~Ranked(T)}
<1>1. SUFFICES ASSUME ~Ranked(S) PROVE FALSE
  OBVIOUS
<1>2. S \in D
  BY <1>1 DEF FiniteSubsetsOf, TimeSet
<1>3. D \subseteq FiniteSubsetsOf(S) /\ D # {}
  BY <1>2
<1>4. PICK T \in D : \A U \in D : <<U, T>> \notin StrictSubsetOrdering(S)
  <2> HIDE DEF D
  <2> QED BY <1>3, FS_StrictSubsetOrderingWellFounded, WFMin
<1>5. T \subseteq S /\ TimeSet(T) /\ ~Ranked(T)
  BY <1>4 DEF FiniteSubsetsOf, TimeSet
<1>6. T # {}
  BY <1>5, FS_EmptySet DEF Ranked
<1>7. Greatest(T) \in T
  BY <1>5, <1>6, GreatestIs DEF TimeSet
<1> DEFINE U == T \ {Greatest(T)}
<1>8. U \subseteq S /\ IsFiniteSet(U) /\ <<U, T>> \in StrictSubsetOrdering(S)
  BY <1>5, <1>7, FS_RemoveElement DEF StrictSubsetOrdering, TimeSet
<1>9. U \in FiniteSubsetsOf(S)
  BY <1>8 DEF FiniteSubsetsOf
<1>10. Ranked(U)
  BY <1>4, <1>8, <1>9
<1> QED BY <1>5, <1>6, <1>10, RankStep

(* Ascending(S) is S, sorted.                                              *)
LEMMA AscendingIs ==
  ASSUME NEW S, TimeSet(S)
  PROVE  /\ Ascending(S) \in Seq(S)
         /\ DOMAIN Ascending(S) = 1 .. Len(Ascending(S))
         /\ Len(Ascending(S)) = Cardinality(S) /\ Cardinality(S) \in Nat
         /\ \A i, j \in DOMAIN Ascending(S) :
              i < j => Ascending(S)[i] < Ascending(S)[j]
         /\ \A x \in S : \E i \in DOMAIN Ascending(S) : Ascending(S)[i] = x
<1> DEFINE n == Cardinality(S)
           Rank(x) == Cardinality(Below(S, x))
<1>1. n \in Nat /\ \A x \in S : x \in Int
  BY FS_CardinalityType DEF TimeSet
<1>2. ASSUME NEW x \in S
      PROVE  /\ IsFiniteSet(Below(S, x)) /\ Below(S, x) \subseteq S \ {x}
             /\ Rank(x) \in Nat /\ Rank(x) < n
  <2>1. Below(S, x) \subseteq S \ {x}
    BY <1>1 DEF Below
  <2>2. IsFiniteSet(S \ {x}) /\ Cardinality(S \ {x}) = n - 1
    BY FS_RemoveElement DEF TimeSet
  <2>3. IsFiniteSet(Below(S, x)) /\ Rank(x) <= Cardinality(S \ {x})
    BY <2>1, <2>2, FS_Subset
  <2>4. Rank(x) \in Nat
    BY <2>3, FS_CardinalityType
  <2> QED BY <1>1, <2>1, <2>2, <2>3, <2>4
<1>3. ASSUME NEW x \in S, NEW y \in S, x < y
      PROVE  Rank(x) < Rank(y)
  <2>1. Below(S, x) \cup {x} \subseteq Below(S, y) /\ x \notin Below(S, x)
    BY <1>1, <1>3 DEF Below
  <2>2. /\ IsFiniteSet(Below(S, x) \cup {x})
        /\ Cardinality(Below(S, x) \cup {x}) = Rank(x) + 1
    BY <1>2, <2>1, FS_AddElement
  <2>3. Cardinality(Below(S, x) \cup {x}) <= Rank(y)
    BY <1>2, <2>1, FS_Subset
  <2> QED BY <1>2, <2>2, <2>3
<1>4. \A i \in 1 .. n : Ascending(S)[i] \in S /\ Rank(Ascending(S)[i]) = i - 1
  <2> SUFFICES ASSUME NEW i \in 1 .. n
               PROVE  Ascending(S)[i] \in S /\ Rank(Ascending(S)[i]) = i - 1
    OBVIOUS
  <2>1. \E x \in S : Rank(x) = i - 1
    BY RanksExist DEF Ranked
  <2>2. Ascending(S)[i] = CHOOSE x \in S : Rank(x) = i - 1
    BY DEF Ascending, Below
  <2> QED BY <2>1, <2>2
<1> HIDE DEF Rank
<1>5. DOMAIN Ascending(S) = 1 .. n
  BY DEF Ascending
<1>6. Ascending(S) \in Seq(S) /\ Len(Ascending(S)) = n
  <2> DEFINE e(i) == CHOOSE x \in S : Cardinality({y \in S : y < x}) = i - 1
  <2>1. Ascending(S) = [i \in 1 .. n |-> e(i)]
    BY DEF Ascending
  <2> HIDE DEF e
  <2>2. Ascending(S) \in [1 .. n -> S]
    BY <1>4, <2>1
  <2>3. Ascending(S) \in Seq(S)
    BY <1>1, <2>2, SeqDef
  <2>4. Len(Ascending(S)) \in Nat /\ 1 .. Len(Ascending(S)) = 1 .. n
    BY <1>5, <2>3, LenProperties
  <2> QED BY <1>1, <2>3, <2>4
<1>7. ASSUME NEW i \in 1 .. n, NEW j \in 1 .. n, i < j
      PROVE  Ascending(S)[i] < Ascending(S)[j]
  <2> DEFINE x == Ascending(S)[i]
             y == Ascending(S)[j]
  <2>1. x \in S /\ y \in S /\ Rank(x) = i - 1 /\ Rank(y) = j - 1
    BY <1>4
  <2>2. Rank(x) < Rank(y) /\ Rank(x) \in Int /\ Rank(y) \in Int
    BY <1>1, <1>7, <2>1
  <2>3. x \in Int /\ y \in Int
    BY <1>1, <2>1
  <2> HIDE DEF x, y
  <2>4. x # y /\ ~(y < x)
    BY <1>3, <2>1, <2>2
  <2> QED BY <2>3, <2>4 DEF x, y
<1>8. ASSUME NEW x \in S
      PROVE  \E i \in 1 .. n : Ascending(S)[i] = x
  <2>1. Rank(x) \in Nat /\ Rank(x) < n
    BY <1>2 DEF Rank
  <2> DEFINE i == Rank(x) + 1
             y == Ascending(S)[i]
  <2>2. i \in 1 .. n
    BY <1>1, <2>1
  <2>3. y \in S /\ Rank(y) = Rank(x)
    BY <1>4, <2>1, <2>2
  <2>4. x \in Int /\ y \in Int
    BY <1>1, <2>3
  <2> HIDE DEF i, y
  <2>5. ~(x < y) /\ ~(y < x)
    BY <1>3, <2>1, <2>3
  <2>6. x = y
    BY <2>4, <2>5
  <2> QED BY <2>2, <2>6 DEF y
<1> QED BY <1>1, <1>5, <1>6, <1>7, <1>8
-----------------------------------------------------------------------------
(***************************************************************************)
(* Vectors and maps.                                                       *)
(***************************************************************************)
(* The times of a vector are finitely many.                                *)
LEMMA VectorTimes ==
  ASSUME NEW q \in Seq(Points)
  PROVE  /\ TimeSet(TimesOf(q))
         /\ Len(q) \in Nat /\ DOMAIN q = 1 .. Len(q)
         /\ \A i \in 1 .. Len(q) : q[i] \in Points /\ q[i].time \in Int
                                   /\ q[i].value \in Values
<1>1. /\ Len(q) \in Nat /\ DOMAIN q = 1 .. Len(q)
      /\ \A i \in 1 .. Len(q) : q[i] \in Points
  BY LenProperties, ElementOfSeq
<1>2. \A i \in 1 .. Len(q) : q[i].time \in Int /\ q[i].value \in Values
  BY <1>1 DEF Points, Values
<1>3. IsFiniteSet(1 .. Len(q))
  BY <1>1, FS_Interval
<1>4. IsFiniteSet(TimesOf(q))
  <2> DEFINE f == [i \in 1 .. Len(q) |-> q[i].time]
  <2>1. f \in Surjection(1 .. Len(q), TimesOf(q))
    BY <1>1 DEF Surjection, TimesOf
  <2> QED BY <1>3, <2>1, FS_Surjection
<1>5. TimesOf(q) \subseteq Int
  BY <1>1, <1>2 DEF TimesOf
<1> QED BY <1>1, <1>2, <1>4, <1>5 DEF TimeSet

(* A time of a vector has the value of its last point with that time.      *)
LEMMA LastWinsIs ==
  ASSUME NEW q \in Seq(Points)
  PROVE  /\ IsMap(LastWins(q)) /\ DOMAIN LastWins(q) = TimesOf(q)
         /\ \A t \in TimesOf(q) : \E i \in 1 .. Len(q) :
              /\ q[i].time = t /\ LastWins(q)[t] = q[i].value
              /\ \A j \in 1 .. Len(q) : q[j].time = t => j <= i
<1> DEFINE At(t) == {i \in DOMAIN q : q[i].time = t}
           v(t) == q[Greatest(At(t))].value
<1>1. LastWins(q) = [t \in TimesOf(q) |-> v(t)]
  BY DEF LastWins
<1>2. ASSUME NEW t \in TimesOf(q)
      PROVE  \E i \in 1 .. Len(q) :
               /\ q[i].time = t /\ v(t) = q[i].value
               /\ \A j \in 1 .. Len(q) : q[j].time = t => j <= i
  <2>1. At(t) \subseteq 1 .. Len(q) /\ At(t) # {} /\ At(t) \subseteq Int
    BY VectorTimes DEF TimesOf
  <2>2. IsFiniteSet(At(t))
    <3>1. IsFiniteSet(1 .. Len(q))
      BY VectorTimes, FS_Interval
    <3> QED BY <2>1, <3>1, FS_Subset
  <2>3. Greatest(At(t)) \in At(t) /\ \A j \in At(t) : Greatest(At(t)) >= j
    BY <2>1, <2>2, GreatestIs
  <2>4. \A j \in 1 .. Len(q) : q[j].time = t => j <= Greatest(At(t))
    BY <2>1, <2>3, VectorTimes
  <2> QED BY <2>1, <2>3, <2>4
<1> HIDE DEF v
<1>3. \A t \in TimesOf(q) : v(t) \in Values
  BY <1>2, VectorTimes
<1>4. DOMAIN LastWins(q) = TimesOf(q) /\ \A t \in TimesOf(q) : LastWins(q)[t] = v(t)
  BY <1>1
<1>5. LastWins(q) = [t \in DOMAIN LastWins(q) |-> LastWins(q)[t]]
  BY <1>1
<1>6. IsMap(LastWins(q))
  BY <1>3, <1>4, <1>5, VectorTimes DEF IsMap
<1> QED BY <1>2, <1>4, <1>6

(* In a sorted vector a time has one point.                                *)
LEMMA SortedMap ==
  ASSUME NEW q, Sorted(q), NEW i \in 1 .. Len(q)
  PROVE  /\ q[i].time \in TimesOf(q) /\ LastWins(q)[q[i].time] = q[i].value
         /\ \A j \in 1 .. Len(q) : q[j].time = q[i].time => j = i
<1>1. q \in Seq(Points) /\ Len(q) \in Nat /\ DOMAIN q = 1 .. Len(q)
      /\ \A j \in 1 .. Len(q) : q[j].time \in Int
  BY VectorTimes DEF Sorted
<1>2. \A j \in 1 .. Len(q) : q[j].time = q[i].time => j = i
  <2> SUFFICES ASSUME NEW j \in 1 .. Len(q), q[j].time = q[i].time, j # i
               PROVE  FALSE
    OBVIOUS
  <2>1. j < i \/ i < j
    BY <1>1
  <2>2. q[j].time < q[i].time \/ q[i].time < q[j].time
    BY <2>1 DEF Sorted
  <2> QED BY <1>1, <2>2
<1>3. q[i].time \in TimesOf(q)
  BY <1>1 DEF TimesOf
<1> QED BY <1>1, <1>2, <1>3, LastWinsIs

(* A map in time order is a sorted vector, and the vector is the map.      *)
LEMMA InTimeOrderIs ==
  ASSUME NEW f, IsMap(f)
  PROVE  /\ Sorted(InTimeOrder(f)) /\ LastWins(InTimeOrder(f)) = f
         /\ TimesOf(InTimeOrder(f)) = DOMAIN f
<1> DEFINE D == DOMAIN f
           times == Ascending(D)
           q == InTimeOrder(f)
<1>1. TimeSet(D) /\ \A t \in D : t \in Int /\ f[t] \in Values
  BY DEF IsMap, TimeSet
<1>2. /\ times \in Seq(D) /\ DOMAIN times = 1 .. Len(times)
      /\ Len(times) \in Nat
      /\ \A i, j \in DOMAIN times : i < j => times[i] < times[j]
      /\ \A x \in D : \E i \in DOMAIN times : times[i] = x
  BY <1>1, AscendingIs
<1> HIDE DEF times
<1>3. \A i \in 1 .. Len(times) : times[i] \in D
  BY <1>2, ElementOfSeq
<1>4. q = [i \in 1 .. Len(times) |-> [time |-> times[i], value |-> f[times[i]]]]
  BY <1>2 DEF InTimeOrder, times
<1> HIDE DEF D
<1>5. q \in [1 .. Len(times) -> Points]
  BY <1>1, <1>3, <1>4 DEF Points, Values
<1>6. q \in Seq(Points)
  BY <1>2, <1>5, SeqDef
<1>7. Len(q) = Len(times)
  <2>1. Len(q) \in Nat /\ 1 .. Len(q) = 1 .. Len(times)
    BY <1>4, <1>6, LenProperties
  <2> QED BY <1>2, <2>1
<1>8. \A i \in 1 .. Len(q) : q[i].time = times[i] /\ q[i].value = f[times[i]]
  BY <1>4, <1>7
<1> HIDE DEF q
<1>9. Sorted(q)
  BY <1>2, <1>6, <1>7, <1>8 DEF Sorted
<1>10. TimesOf(q) = D
  <2>1. TimesOf(q) \subseteq D
    BY <1>3, <1>6, <1>7, <1>8, VectorTimes DEF TimesOf
  <2>2. \A x \in D : x \in TimesOf(q)
    BY <1>2, <1>6, <1>7, <1>8, VectorTimes DEF TimesOf
  <2> QED BY <2>1, <2>2
<1>11. LastWins(q) = f
  <2>1. IsMap(LastWins(q)) /\ DOMAIN LastWins(q) = D
    BY <1>6, <1>10, LastWinsIs
  <2>2. \A t \in D : LastWins(q)[t] = f[t]
    BY <1>2, <1>7, <1>8, <1>9, SortedMap
  <2>3. /\ f = [t \in D |-> f[t]]
        /\ LastWins(q) = [t \in D |-> LastWins(q)[t]]
    BY <2>1 DEF IsMap, D
  <2> QED BY <2>2, <2>3
<1> QED BY <1>9, <1>10, <1>11 DEF q, D

(* A map wins over another.                                                *)
LEMMA OverIs ==
  ASSUME NEW f, IsMap(f), NEW g, IsMap(g)
  PROVE  /\ IsMap(Over(f, g))
         /\ DOMAIN Over(f, g) = (DOMAIN f) \cup (DOMAIN g)
         /\ \A t \in (DOMAIN f) \cup (DOMAIN g) :
              Over(f, g)[t] = (IF t \in DOMAIN f THEN f[t] ELSE g[t])
<1> DEFINE D == (DOMAIN f) \cup (DOMAIN g)
<1>1. TimeSet(D)
  BY FS_Union DEF IsMap, TimeSet
<1>2. \A t \in D : (IF t \in DOMAIN f THEN f[t] ELSE g[t]) \in Values
  BY DEF IsMap
<1> QED BY <1>1, <1>2 DEF IsMap, Over

(* Two maps with the same times and values are one.                        *)
LEMMA SameMap ==
  ASSUME NEW f, IsMap(f), NEW g, IsMap(g), DOMAIN f = DOMAIN g,
         \A t \in DOMAIN f : f[t] = g[t]
  PROVE  f = g
<1>1. f = [t \in DOMAIN f |-> f[t]] /\ g = [t \in DOMAIN f |-> g[t]]
  BY DEF IsMap
<1> QED BY <1>1

LEMMA RestrictIs ==
  ASSUME NEW f, IsMap(f), NEW D, D \subseteq DOMAIN f
  PROVE  /\ IsMap(Restrict(f, D)) /\ DOMAIN Restrict(f, D) = D
         /\ \A t \in D : Restrict(f, D)[t] = f[t]
<1>1. TimeSet(D)
  BY FS_Subset DEF IsMap, TimeSet
<1> QED BY <1>1 DEF Restrict, IsMap

(* A part of a sorted vector, and what its bounds are.                     *)
LEMMA PartOf ==
  ASSUME NEW q, Sorted(q), NEW a \in 0 .. Len(q), NEW b \in 0 .. Len(q), a <= b
  PROVE  LET part == SubSeq(q, a + 1, b) IN
         /\ Sorted(part) /\ Len(part) = b - a
         /\ \A i \in 1 .. Len(part) : part[i] = q[a + i]
<1> DEFINE part == SubSeq(q, a + 1, b)
<1>1. q \in Seq(Points) /\ Len(q) \in Nat /\ a \in Int /\ b \in Int
      /\ \A i \in 1 .. Len(q) : q[i] \in Points /\ q[i].time \in Int
  BY VectorTimes DEF Sorted
<1>2. \A i \in a + 1 .. b : q[i] \in Points
  BY <1>1
<1>3. a + 1 \in Int /\ b \in Int
  BY <1>1
<1>4. /\ part \in Seq(Points)
      /\ Len(part) = IF a + 1 <= b THEN b - (a + 1) + 1 ELSE 0
      /\ \A i \in 1 .. b - (a + 1) + 1 : part[i] = q[(a + 1) + i - 1]
  BY <1>2, <1>3, SubSeqProperties
<1>5. Len(part) = b - a
  BY <1>1, <1>4
<1>6. \A i \in 1 .. Len(part) : part[i] = q[a + i] /\ a + i \in 1 .. Len(q)
  <2> SUFFICES ASSUME NEW i \in 1 .. Len(part)
               PROVE  part[i] = q[a + i] /\ a + i \in 1 .. Len(q)
    OBVIOUS
  <2>1. i \in 1 .. b - (a + 1) + 1 /\ (a + 1) + i - 1 = a + i
        /\ a + i \in 1 .. Len(q)
    BY <1>1, <1>5
  <2> QED BY <1>4, <2>1
<1> HIDE DEF part
<1>7. ASSUME NEW i \in 1 .. Len(part), NEW j \in 1 .. Len(part), i < j
      PROVE  part[i].time < part[j].time
  <2>1. a + i < a + j
    BY <1>1, <1>7
  <2> QED BY <1>6, <2>1 DEF Sorted
<1> QED BY <1>4, <1>5, <1>6, <1>7 DEF Sorted, part

LEMMA BoundsAre ==
  ASSUME NEW q, Sorted(q), NEW t \in Int
  PROVE  /\ LowerBound(q, t) \in 0 .. Len(q) /\ UpperBound(q, t) \in 0 .. Len(q)
         /\ \A i \in 1 .. Len(q) :
              /\ q[i].time < t <=> i <= LowerBound(q, t)
              /\ q[i].time <= t <=> i <= UpperBound(q, t)
<1> DEFINE L == {i \in DOMAIN q : q[i].time < t}
           U == {i \in DOMAIN q : q[i].time <= t}
<1>1. /\ q \in Seq(Points) /\ Len(q) \in Nat /\ DOMAIN q = 1 .. Len(q)
      /\ \A i \in 1 .. Len(q) : i \in Int /\ q[i].time \in Int
      /\ \A i, j \in 1 .. Len(q) : i < j => q[i].time < q[j].time
  BY VectorTimes DEF Sorted
<1>2. IsFiniteSet(0 .. Len(q))
  BY <1>1, FS_Interval
<1>3. ASSUME NEW S, S \subseteq 1 .. Len(q)
      PROVE  /\ Greatest({0} \cup S) \in {0} \cup S
             /\ Greatest({0} \cup S) \in 0 .. Len(q)
             /\ \A y \in S : Greatest({0} \cup S) >= y
  <2>1. {0} \cup S \subseteq 0 .. Len(q) /\ {0} \cup S # {} /\ {0} \cup S \subseteq Int
    BY <1>1, <1>3
  <2>2. IsFiniteSet({0} \cup S)
    BY <1>2, <2>1, FS_Subset
  <2> HIDE DEF L, U
  <2> QED BY <2>1, <2>2, GreatestIs
<1>4. LowerBound(q, t) = Greatest({0} \cup L) /\ UpperBound(q, t) = Greatest({0} \cup U)
  BY DEF LowerBound, UpperBound
<1>5. L \subseteq 1 .. Len(q) /\ U \subseteq 1 .. Len(q)
  BY <1>1
<1> DEFINE l == LowerBound(q, t)
           u == UpperBound(q, t)
<1>6. l \in {0} \cup L /\ l \in 0 .. Len(q) /\ \A y \in L : l >= y
  BY <1>3, <1>4, <1>5
<1>7. u \in {0} \cup U /\ u \in 0 .. Len(q) /\ \A y \in U : u >= y
  BY <1>3, <1>4, <1>5
<1> HIDE DEF l, u
<1>8. ASSUME NEW i \in 1 .. Len(q)
      PROVE  /\ q[i].time < t <=> i <= l
             /\ q[i].time <= t <=> i <= u
  <2>1. q[i].time < t => i <= l
    BY <1>1, <1>6, <1>8
  <2>2. i <= l => q[i].time < t
    <3> SUFFICES ASSUME i <= l PROVE q[i].time < t
      OBVIOUS
    <3>1. l \in L /\ l \in 1 .. Len(q) /\ q[l].time < t
      BY <1>1, <1>6
    <3>2. CASE i = l
      BY <3>1, <3>2
    <3>3. CASE i < l
      <4>1. q[i].time < q[l].time
        BY <1>1, <3>1, <3>3
      <4> QED BY <1>1, <3>1, <4>1
    <3> QED BY <1>1, <3>1, <3>2, <3>3
  <2>3. q[i].time <= t => i <= u
    BY <1>1, <1>7, <1>8
  <2>4. i <= u => q[i].time <= t
    <3> SUFFICES ASSUME i <= u PROVE q[i].time <= t
      OBVIOUS
    <3>1. u \in U /\ u \in 1 .. Len(q) /\ q[u].time <= t
      BY <1>1, <1>7
    <3>2. CASE i = u
      BY <3>1, <3>2
    <3>3. CASE i < u
      <4>1. q[i].time < q[u].time
        BY <1>1, <3>1, <3>3
      <4> QED BY <1>1, <3>1, <4>1
    <3> QED BY <1>1, <3>1, <3>2, <3>3
  <2> QED BY <2>1, <2>2, <2>3, <2>4
<1> QED BY <1>6, <1>7, <1>8 DEF l, u
-----------------------------------------------------------------------------
(***************************************************************************)
(* One window.                                                             *)
(***************************************************************************)
(* latest_time bounds every point that is kept, behind the left edge too.  *)
Bounded(w) ==
  \A t \in TimesOf(w.points) \cup DOMAIN w.late :
    w.latest # NoTime /\ t <= w.latest

WindowShape(w) ==
  /\ w = [points |-> w.points, activeBegin |-> w.activeBegin, late |-> w.late,
          latest |-> w.latest, statistics |-> w.statistics]
  /\ Sorted(w.points) /\ w.activeBegin \in 0 .. Len(w.points)
  /\ IsMap(w.late)
  /\ w.latest \in Int \cup {NoTime}

WindowOK(w) == WindowShape(w) /\ Bounded(w)

LEMMA NoPoints ==
  /\ IsMap(<<>>) /\ DOMAIN <<>> = {} /\ Sorted(<<>>)
  /\ TimesOf(<<>>) = {} /\ Len(<<>>) = 0
<1>1. DOMAIN <<>> = {} /\ Len(<<>>) = 0 /\ <<>> \in Seq(Points)
  OBVIOUS
<1>2. <<>> = [t \in DOMAIN <<>> |-> <<>>[t]]
  BY <1>1
<1> QED BY <1>1, <1>2, FS_EmptySet DEF IsMap, TimeSet, Sorted, TimesOf

(* A map over nothing, and nothing over a map, is the map.                 *)
LEMMA OverNothing ==
  ASSUME NEW f, IsMap(f), NEW g, IsMap(g), DOMAIN g = {}
  PROVE  Over(f, g) = f /\ Over(g, f) = f
<1>1. IsMap(Over(f, g)) /\ IsMap(Over(g, f))
  BY OverIs
<1>2. DOMAIN Over(f, g) = DOMAIN f /\ DOMAIN Over(g, f) = DOMAIN f
      /\ \A t \in DOMAIN f : Over(f, g)[t] = f[t] /\ Over(g, f)[t] = f[t]
  BY DEF Over
<1> QED BY <1>1, <1>2, SameMap

LEMMA ActiveIs ==
  ASSUME NEW w, WindowShape(w)
  PROVE  LET active == ActivePoints(w) IN
         /\ Sorted(active) /\ Len(active) = Len(w.points) - w.activeBegin
         /\ \A i \in 1 .. Len(active) : active[i] = w.points[w.activeBegin + i]
         /\ IsMap(LastWins(active)) /\ DOMAIN LastWins(active) = TimesOf(active)
         /\ IsMap(Live(w))
         /\ DOMAIN Live(w) = (DOMAIN w.late) \cup TimesOf(active)
         /\ \A t \in DOMAIN Live(w) :
              Live(w)[t] = (IF t \in DOMAIN w.late THEN w.late[t]
                            ELSE LastWins(active)[t])
<1> DEFINE active == ActivePoints(w)
<1>1. Len(w.points) \in Nat /\ Len(w.points) \in 0 .. Len(w.points)
  BY VectorTimes DEF WindowShape, Sorted
<1>2. w.activeBegin <= Len(w.points)
  BY <1>1 DEF WindowShape
<1>3. /\ Sorted(active) /\ Len(active) = Len(w.points) - w.activeBegin
      /\ \A i \in 1 .. Len(active) : active[i] = w.points[w.activeBegin + i]
  BY <1>1, <1>2, PartOf DEF WindowShape, ActivePoints
<1>4. IsMap(LastWins(active)) /\ DOMAIN LastWins(active) = TimesOf(active)
  BY <1>3, LastWinsIs DEF Sorted
<1>5. IsMap(w.late) /\ Live(w) = Over(w.late, LastWins(active))
  BY DEF WindowShape, Live
<1>6. IsMap(Live(w))
  <2> DEFINE f == w.late
             g == LastWins(active)
  <2>1. IsMap(f) /\ IsMap(g) /\ Live(w) = Over(f, g)
    BY <1>4, <1>5
  <2> HIDE DEF f, g
  <2>2. IsMap(Over(f, g))
    <3>1. IsMap(f) /\ IsMap(g)
      BY <2>1
    <3> QED BY <3>1, OverIs
  <2>3. Live(w) = Over(f, g)
    BY <2>1
  <2> QED BY <2>2, <2>3
<1>7. /\ DOMAIN Live(w) = (DOMAIN w.late) \cup TimesOf(active)
      /\ \A t \in DOMAIN Live(w) :
           Live(w)[t] = (IF t \in DOMAIN w.late THEN w.late[t]
                         ELSE LastWins(active)[t])
  BY <1>4, <1>5 DEF Over
<1> QED BY <1>3, <1>4, <1>6, <1>7

(* Active points are points.                                               *)
LEMMA ActiveTimes ==
  ASSUME NEW w, WindowShape(w)
  PROVE  TimesOf(ActivePoints(w)) \subseteq TimesOf(w.points)
<1> DEFINE active == ActivePoints(w)
<1>1. /\ Sorted(active) /\ Len(active) = Len(w.points) - w.activeBegin
      /\ \A i \in 1 .. Len(active) : active[i] = w.points[w.activeBegin + i]
  BY ActiveIs
<1>2. /\ DOMAIN active = 1 .. Len(active) /\ DOMAIN w.points = 1 .. Len(w.points)
      /\ Len(w.points) \in Nat /\ w.activeBegin \in 0 .. Len(w.points)
  BY <1>1, VectorTimes DEF Sorted, WindowShape
<1> HIDE DEF active
<1>3. ASSUME NEW i \in 1 .. Len(active)
      PROVE  active[i].time \in TimesOf(w.points)
  <2>1. w.activeBegin + i \in 1 .. Len(w.points)
    BY <1>1, <1>2
  <2> QED BY <1>1, <1>2, <2>1 DEF TimesOf
<1>4. TimesOf(active) \subseteq TimesOf(w.points)
  BY <1>2, <1>3 DEF TimesOf
<1> QED BY <1>4 DEF active

LEMMA LiveBounded ==
  ASSUME NEW w, WindowOK(w), NEW t \in DOMAIN Live(w)
  PROVE  t \in Int /\ w.latest # NoTime /\ w.latest \in Int /\ t <= w.latest
<1>1. t \in TimesOf(w.points) \cup DOMAIN w.late /\ t \in Int
  BY ActiveIs, ActiveTimes DEF WindowOK, IsMap, TimeSet
<1> QED BY <1>1 DEF WindowOK, WindowShape, Bounded

(* An empty left part makes all points active.                             *)
LEMMA AllActive ==
  ASSUME NEW w, WindowShape(w), w.activeBegin = 0
  PROVE  ActivePoints(w) = w.points
BY SubSeqFull DEF ActivePoints, WindowShape, Sorted

(* Without late points a window is its vector.                             *)
LEMMA LiveVector ==
  ASSUME NEW w, WindowShape(w), DOMAIN w.late = {}
  PROVE  Live(w) = LastWins(ActivePoints(w))
BY ActiveIs, OverNothing DEF WindowShape, Live

(* Statistics are no part of what is live.                                 *)
LEMMA StatisticsApart ==
  ASSUME NEW w, WindowOK(w), NEW s
  PROVE  LET v == [w EXCEPT !.statistics = s] IN
         /\ WindowOK(v) /\ Live(v) = Live(w) /\ ActivePoints(v) = ActivePoints(w)
         /\ v.points = w.points /\ v.activeBegin = w.activeBegin
         /\ v.late = w.late /\ v.latest = w.latest
<1> DEFINE v == [w EXCEPT !.statistics = s]
<1>1. /\ v.points = w.points /\ v.activeBegin = w.activeBegin
      /\ v.late = w.late /\ v.latest = w.latest
      /\ v = [points |-> v.points, activeBegin |-> v.activeBegin, late |-> v.late,
              latest |-> v.latest, statistics |-> v.statistics]
  BY DEF WindowOK, WindowShape
<1> HIDE DEF v
<1>2. ActivePoints(v) = ActivePoints(w) /\ Live(v) = Live(w)
  BY <1>1 DEF ActivePoints, Live
<1>3. WindowOK(v)
  BY <1>1, <1>2 DEF WindowOK, WindowShape, Bounded
<1> QED BY <1>1, <1>2, <1>3 DEF v

(* compactSequence changes nothing that a reader could see.                *)
LEMMA CompactIs ==
  ASSUME NEW w, WindowOK(w)
  PROVE  LET c == Compact(w) IN
         /\ WindowOK(c) /\ Live(c) = Live(w) /\ ActivePoints(c) = ActivePoints(w)
         /\ c.points = ActivePoints(w) /\ c.activeBegin = 0
         /\ c.late = w.late /\ c.latest = w.latest /\ c.statistics = w.statistics
<1> DEFINE c == Compact(w)
<1>0. c = [points |-> ActivePoints(w), activeBegin |-> 0, late |-> w.late,
           latest |-> w.latest, statistics |-> w.statistics]
  <2> DEFINE p == ActivePoints(w)
  <2>1. c = [w EXCEPT !.points = p, !.activeBegin = 0]
    BY DEF Compact
  <2> HIDE DEF p, c
  <2> QED BY <2>1 DEF WindowOK, WindowShape, p
<1> HIDE DEF c
<1>1. /\ c.points = ActivePoints(w) /\ c.activeBegin = 0
      /\ c.late = w.late /\ c.latest = w.latest /\ c.statistics = w.statistics
      /\ c = [points |-> c.points, activeBegin |-> c.activeBegin, late |-> c.late,
              latest |-> c.latest, statistics |-> c.statistics]
  BY <1>0
<1>2. Sorted(c.points) /\ Len(c.points) \in Nat
  BY <1>1, ActiveIs, VectorTimes DEF WindowOK, Sorted
<1>3. WindowShape(c)
  BY <1>1, <1>2 DEF WindowOK, WindowShape
<1>4. ActivePoints(c) = ActivePoints(w)
  BY <1>1, <1>3, AllActive
<1>5. Live(c) = Live(w)
  BY <1>1, <1>4 DEF Live
<1>6. Bounded(c)
  BY <1>1, ActiveTimes DEF WindowOK, Bounded
<1> QED BY <1>1, <1>3, <1>4, <1>5, <1>6 DEF WindowOK, c

(* The last point of a sorted vector is its latest.                        *)
LEMMA LastIs ==
  ASSUME NEW q, Sorted(q), TimesOf(q) # {}
  PROVE  /\ Last(q) = q[Len(q)] /\ Len(q) \in 1 .. Len(q)
         /\ Last(q).time \in Int
         /\ \A t \in TimesOf(q) : t <= Last(q).time
<1>1. /\ q \in Seq(Points) /\ Len(q) \in Nat /\ DOMAIN q = 1 .. Len(q)
      /\ \A i \in 1 .. Len(q) : q[i].time \in Int
      /\ \A i, j \in 1 .. Len(q) : i < j => q[i].time < q[j].time
  BY VectorTimes DEF Sorted
<1>2. Len(q) \in 1 .. Len(q)
  BY <1>1 DEF TimesOf
<1>3. \A i \in 1 .. Len(q) : q[i].time <= q[Len(q)].time
  <2> SUFFICES ASSUME NEW i \in 1 .. Len(q)
               PROVE  q[i].time <= q[Len(q)].time
    OBVIOUS
  <2>1. CASE i = Len(q)
    BY <1>1, <2>1
  <2>2. CASE i < Len(q)
    <3>1. q[i].time < q[Len(q)].time
      BY <1>1, <1>2, <2>2
    <3> QED BY <1>1, <1>2, <3>1
  <2>3. i = Len(q) \/ i < Len(q)
    <3>1. Len(q) \in Nat
      BY <1>1
    <3> QED BY <3>1
  <2> QED BY <2>1, <2>2, <2>3
<1> QED BY <1>1, <1>2, <1>3 DEF TimesOf, Last

(* mergeSortedPoints is the map's update.                                  *)
LEMMA MergeIs ==
  ASSUME NEW w, WindowOK(w), DOMAIN w.late = {}, NEW f, IsMap(f)
  PROVE  LET m == MergePoints(w, f) IN
         /\ WindowOK(m) /\ DOMAIN m.late = {} /\ m.activeBegin = 0
         /\ Live(m) = Over(f, Live(w))
<1> DEFINE v == [w EXCEPT !.statistics = InvalidStatistics]
           c == Compact(v)
           g == Over(f, LastWins(c.points))
           merged == InTimeOrder(g)
           m == MergePoints(w, f)
<1>1. /\ WindowOK(v) /\ Live(v) = Live(w) /\ ActivePoints(v) = ActivePoints(w)
      /\ v.late = w.late
  BY StatisticsApart
<1> HIDE DEF v
<1>2. /\ WindowOK(c) /\ Live(c) = Live(w) /\ c.points = ActivePoints(w)
      /\ c.activeBegin = 0 /\ c.late = w.late
  BY <1>1, CompactIs
<1>3. m = IF DOMAIN f = {} THEN c
          ELSE [c EXCEPT !.points = merged, !.latest = Last(merged).time]
  BY DEF MergePoints, v
<1>4. IsMap(LastWins(c.points)) /\ Live(w) = LastWins(c.points)
  BY <1>2, ActiveIs, LiveVector DEF WindowOK
<1> HIDE DEF m, c
<1>5. CASE DOMAIN f = {}
  BY <1>2, <1>3, <1>4, <1>5, OverNothing DEF m
<1>6. CASE DOMAIN f # {}
  <2>1. IsMap(g) /\ DOMAIN g # {}
    BY <1>4, <1>6, OverIs, ZenonT(30)
  <2>2. Sorted(merged) /\ LastWins(merged) = g /\ TimesOf(merged) = DOMAIN g
    BY <2>1, InTimeOrderIs
  <2> HIDE DEF merged, g
  <2>3. Last(merged).time \in Int /\ \A t \in DOMAIN g : t <= Last(merged).time
    BY <2>1, <2>2, LastIs
  <2>4. /\ m.points = merged /\ m.activeBegin = 0 /\ m.late = w.late
        /\ m.latest = Last(merged).time
        /\ m = [points |-> m.points, activeBegin |-> m.activeBegin, late |-> m.late,
                latest |-> m.latest, statistics |-> m.statistics]
    BY <1>2, <1>3, <1>6 DEF WindowOK, WindowShape
  <2>5. Len(merged) \in Nat
    BY <2>2, VectorTimes DEF Sorted
  <2>6. WindowShape(m)
    BY <2>2, <2>3, <2>4, <2>5 DEF WindowOK, WindowShape
  <2>7. Live(m) = g
    BY <2>2, <2>4, <2>6, AllActive, LiveVector
  <2>8. Last(merged).time # NoTime
    BY <2>3, SequenceWindowAssumption
  <2>9. WindowOK(m)
    <3>1. TimesOf(m.points) \cup DOMAIN m.late = DOMAIN g
      BY <2>2, <2>4
    <3> QED BY <2>3, <2>4, <2>6, <2>8, <3>1 DEF WindowOK, Bounded
  <2> QED BY <1>4, <2>4, <2>7, <2>9 DEF g, m
<1> QED BY <1>5, <1>6

(* flushLatePoints, too, changes nothing that a reader could see.          *)
LEMMA FlushIs ==
  ASSUME NEW w, WindowOK(w)
  PROVE  LET f == FlushLate(w) IN
         WindowOK(f) /\ DOMAIN f.late = {} /\ Live(f) = Live(w)
<1>1. CASE DOMAIN w.late = {}
  BY <1>1 DEF FlushLate
<1>2. CASE DOMAIN w.late # {}
  <2> DEFINE v == [w EXCEPT !.late = <<>>]
  <2>1. /\ v.points = w.points /\ v.activeBegin = w.activeBegin
        /\ v.late = <<>> /\ v.latest = w.latest
        /\ v = [points |-> v.points, activeBegin |-> v.activeBegin, late |-> v.late,
                latest |-> v.latest, statistics |-> v.statistics]
    BY DEF WindowOK, WindowShape
  <2>2. FlushLate(w) = MergePoints(v, w.late)
    BY <1>2 DEF FlushLate
  <2> HIDE DEF v
  <2>3. WindowShape(v) /\ DOMAIN v.late = {} /\ ActivePoints(v) = ActivePoints(w)
    BY <2>1, NoPoints DEF WindowOK, WindowShape, ActivePoints
  <2>4. Live(v) = LastWins(ActivePoints(w))
    BY <2>3, LiveVector
  <2>6. WindowOK(v)
    BY <2>1, <2>3 DEF WindowOK, Bounded
  <2>7. Live(w) = Over(w.late, Live(v)) /\ IsMap(w.late)
    BY <2>4 DEF Live, WindowOK, WindowShape
  <2> QED BY <2>2, <2>3, <2>6, <2>7, MergeIs
<1> QED BY <1>1, <1>2

LEMMA RebuildIs ==
  ASSUME NEW w, WindowOK(w)
  PROVE  WindowOK(RebuildStatistics(w)) /\ Live(RebuildStatistics(w)) = Live(w)
<1> DEFINE f == FlushLate(w)
           s == AppendStatistics(ResetStatistics, ActivePoints(f))
<1>1. WindowOK(f) /\ Live(f) = Live(w)
  BY FlushIs
<1>2. RebuildStatistics(w) = [f EXCEPT !.statistics = s]
  BY DEF RebuildStatistics
<1> HIDE DEF f, s
<1> QED BY <1>1, <1>2, StatisticsApart

(* replaceDerivedSequence starts anew.                                     *)
LEMMA ReplaceIs ==
  ASSUME NEW data \in Seq(Points)
  PROVE  WindowOK(ReplaceWindow(data))
<1> DEFINE f == LastWins(data)
           q == InTimeOrder(f)
           n == IF q = <<>> THEN NoTime ELSE Last(q).time
           s == AppendStatistics(ResetStatistics, q)
           w == ReplaceWindow(data)
<1>1. Sorted(q) /\ Len(q) \in Nat
  BY LastWinsIs, InTimeOrderIs, VectorTimes DEF Sorted
<1>2. w = [points |-> q, activeBegin |-> 0, late |-> <<>>, latest |-> n, statistics |-> s]
  BY DEF ReplaceWindow
<1> HIDE DEF q, s, w
<1>3. n \in Int \cup {NoTime} /\ \A t \in TimesOf(q) : n # NoTime /\ t <= n
  <2>1. CASE q = <<>>
    BY <2>1, NoPoints
  <2>2. CASE TimesOf(q) # {} /\ q # <<>>
    BY <1>1, <2>2, LastIs, SequenceWindowAssumption
  <2>3. q = <<>> \/ TimesOf(q) # {}
    <3>1. q \in Seq(Points)
      BY <1>1 DEF Sorted
    <3>2. Len(q) = 0 => q = <<>>
      BY <3>1
    <3>3. Len(q) # 0 => 1 \in DOMAIN q
      BY <1>1, <3>1, VectorTimes
    <3> QED BY <3>2, <3>3 DEF TimesOf
  <2> QED BY <2>1, <2>2, <2>3
<1> HIDE DEF n
<1>4. WindowShape(w)
  BY <1>1, <1>2, <1>3, NoPoints DEF WindowShape
<1>5. TimesOf(w.points) \cup DOMAIN w.late = TimesOf(q) /\ w.latest = n
  BY <1>2, NoPoints
<1> QED BY <1>3, <1>4, <1>5 DEF WindowOK, Bounded, w

(* Two sorted vectors, one before the other, are one.                      *)
LEMMA ConcatIs ==
  ASSUME NEW a, Sorted(a), NEW b, Sorted(b),
         \A t \in TimesOf(a) : \A u \in TimesOf(b) : t < u
  PROVE  /\ Sorted(a \o b) /\ TimesOf(a \o b) = TimesOf(a) \cup TimesOf(b)
         /\ \A t \in TimesOf(a) : LastWins(a \o b)[t] = LastWins(a)[t]
         /\ \A t \in TimesOf(b) : LastWins(a \o b)[t] = LastWins(b)[t]
<1> DEFINE q == a \o b
           m == Len(a)
           n == Len(b)
<1>1. /\ a \in Seq(Points) /\ b \in Seq(Points) /\ m \in Nat /\ n \in Nat
      /\ DOMAIN a = 1 .. m /\ DOMAIN b = 1 .. n
      /\ \A i \in 1 .. m : a[i].time \in Int
      /\ \A i \in 1 .. n : b[i].time \in Int
      /\ \A i, j \in 1 .. m : i < j => a[i].time < a[j].time
      /\ \A i, j \in 1 .. n : i < j => b[i].time < b[j].time
  BY VectorTimes DEF Sorted
<1>2. /\ q \in Seq(Points) /\ Len(q) = m + n
      /\ \A i \in 1 .. m + n : q[i] = IF i <= m THEN a[i] ELSE b[i - m]
  BY <1>1, ConcatProperties
<1> HIDE DEF q, m, n
<1>3. /\ \A i \in 1 .. m : q[i] = a[i]
      /\ \A i \in 1 .. n : q[m + i] = b[i]
  <2>1. \A i \in 1 .. m : i \in 1 .. m + n /\ i <= m
    BY <1>1
  <2>2. \A i \in 1 .. n : m + i \in 1 .. m + n /\ ~(m + i <= m) /\ (m + i) - m = i
    BY <1>1
  <2> QED BY <1>2, <2>1, <2>2
<1>4. \A i \in 1 .. Len(q) :
        i \in 1 .. m \/ (~(i <= m) /\ i - m \in 1 .. n /\ m + (i - m) = i)
  BY <1>1, <1>2
<1>5. ASSUME NEW i \in 1 .. Len(q), NEW j \in 1 .. Len(q), i < j
      PROVE  q[i].time < q[j].time
  <2>0. i \in Int /\ j \in Int /\ m \in Int
    BY <1>1, <1>2
  <2>1. CASE i \in 1 .. m /\ j \in 1 .. m
    BY <1>1, <1>3, <1>5, <2>1
  <2>2. CASE i \in 1 .. m /\ j - m \in 1 .. n /\ m + (j - m) = j
    <3>1. q[i] = a[i] /\ q[j] = b[j - m]
      BY <1>3, <2>2
    <3>2. a[i].time \in TimesOf(a) /\ b[j - m].time \in TimesOf(b)
      BY <1>1, <2>2 DEF TimesOf
    <3> QED BY <3>1, <3>2
  <2>3. CASE i - m \in 1 .. n /\ m + (i - m) = i /\ j - m \in 1 .. n /\ m + (j - m) = j
    <3>1. q[i] = b[i - m] /\ q[j] = b[j - m]
      BY <1>3, <2>3
    <3>2. i - m < j - m
      BY <1>5, <2>0
    <3> QED BY <1>1, <2>3, <3>1, <3>2
  <2>4. j <= m => i <= m
    BY <1>5, <2>0
  <2>5. i \in 1 .. m => i <= m
    BY <1>1
  <2> QED BY <1>4, <2>1, <2>2, <2>3, <2>4, <2>5
<1>6. Sorted(q)
  BY <1>2, <1>5 DEF Sorted
<1>7. DOMAIN q = 1 .. Len(q) /\ \A i \in 1 .. m : i \in 1 .. Len(q)
      /\ \A j \in 1 .. n : m + j \in 1 .. Len(q)
  BY <1>1, <1>2, VectorTimes
<1>8. TimesOf(q) = TimesOf(a) \cup TimesOf(b)
  <2>0. /\ \A i \in 1 .. m : a[i].time \in TimesOf(a)
        /\ \A i \in 1 .. n : b[i].time \in TimesOf(b)
        /\ \A k \in 1 .. Len(q) : q[k].time \in TimesOf(q)
    BY <1>1, <1>7 DEF TimesOf
  <2>1. ASSUME NEW i \in 1 .. Len(q)
        PROVE  q[i].time \in TimesOf(a) \cup TimesOf(b)
    <3>1. CASE i \in 1 .. m
      BY <1>3, <2>0, <3>1
    <3>2. CASE i - m \in 1 .. n /\ m + (i - m) = i
      <4>1. q[m + (i - m)] = b[i - m]
        BY <1>3, <3>2
      <4> QED BY <2>0, <3>2, <4>1
    <3> QED BY <1>4, <3>1, <3>2
  <2>2. \A i \in 1 .. m : a[i].time \in TimesOf(q)
    BY <1>3, <1>7 DEF TimesOf
  <2>3. ASSUME NEW j \in 1 .. n
        PROVE  b[j].time \in TimesOf(q)
    <3> DEFINE k == m + j
    <3>1. k \in 1 .. Len(q)
      BY <1>1, <1>2
    <3>2. q[k] = b[j]
      BY <1>3
    <3> HIDE DEF k
    <3>3. q[k].time \in TimesOf(q)
      BY <2>0, <3>1
    <3> QED BY <3>2, <3>3
  <2>4. /\ \A t \in TimesOf(q) : \E i \in 1 .. Len(q) : t = q[i].time
        /\ \A t \in TimesOf(a) : \E i \in 1 .. m : t = a[i].time
        /\ \A t \in TimesOf(b) : \E i \in 1 .. n : t = b[i].time
    BY <1>1, <1>7 DEF TimesOf
  <2> QED BY <2>1, <2>2, <2>3, <2>4
<1>9. ASSUME NEW t \in TimesOf(a)
      PROVE  LastWins(q)[t] = LastWins(a)[t]
  <2>1. PICK i \in 1 .. m : a[i].time = t
    BY <1>1 DEF TimesOf
  <2>2. LastWins(a)[t] = a[i].value
    BY <2>1, SortedMap DEF m
  <2>3. LastWins(q)[t] = q[i].value
    BY <1>3, <1>6, <1>7, <2>1, SortedMap
  <2> QED BY <1>3, <2>2, <2>3
<1>10. ASSUME NEW t \in TimesOf(b)
       PROVE  LastWins(q)[t] = LastWins(b)[t]
  <2>1. PICK i \in 1 .. n : b[i].time = t
    BY <1>1 DEF TimesOf
  <2>2. LastWins(b)[t] = b[i].value
    BY <2>1, SortedMap DEF n
  <2> DEFINE k == m + i
  <2>4. k \in 1 .. Len(q) /\ q[k] = b[i]
    <3>1. k \in 1 .. Len(q)
      BY <1>1, <1>2
    <3>2. q[k] = b[i]
      BY <1>3
    <3> QED BY <3>1, <3>2
  <2> HIDE DEF k
  <2>3. LastWins(q)[t] = q[k].value
    BY <1>6, <2>1, <2>4, SortedMap
  <2> QED BY <2>2, <2>3, <2>4
<1> QED BY <1>6, <1>8, <1>9, <1>10 DEF q

(* A vector in which every point is later than the one before is sorted.   *)
LEMMA IncreasingSorted ==
  ASSUME NEW q \in Seq(Points), StrictlyIncreasing(q)
  PROVE  Sorted(q)
<1>1. Len(q) \in Nat /\ \A i \in 1 .. Len(q) : i \in Int /\ q[i].time \in Int
  BY VectorTimes
<1>2. ASSUME NEW i \in 1 .. Len(q), NEW k \in 1 .. Len(q), i < k,
             ~(q[i].time < q[k].time)
      PROVE  FALSE
  <2> DEFINE B == {j \in 1 .. Len(q) : i < j /\ ~(q[i].time < q[j].time)}
  <2>1. B \subseteq 1 .. Len(q) /\ B # {} /\ B \subseteq Int
    BY <1>1, <1>2
  <2>2. IsFiniteSet(B)
    <3>1. IsFiniteSet(1 .. Len(q))
      BY <1>1, FS_Interval
    <3> QED BY <2>1, <3>1, FS_Subset
  <2> DEFINE j == Least(B)
  <2>3. j \in B /\ \A y \in B : j <= y
    BY <2>1, <2>2, LeastIs
  <2> HIDE DEF j
  <2>4. /\ j \in 1 .. Len(q) /\ i < j /\ ~(q[i].time < q[j].time)
        /\ j - 1 \in 1 .. Len(q) - 1 /\ j - 1 \in 1 .. Len(q) /\ (j - 1) + 1 = j
    BY <1>1, <2>3
  <2>5. q[j - 1].time < q[j].time
    BY <2>4 DEF StrictlyIncreasing
  <2>6. j - 1 = i \/ i < j - 1
    BY <1>1, <2>4
  <2>7. ASSUME i < j - 1 PROVE FALSE
    <3> DEFINE h == j - 1
    <3>1. ~(j <= h) /\ h \in 1 .. Len(q)
      BY <1>1, <2>4
    <3>2. q[i].time < q[h].time
      <4>1. h \notin B
        BY <2>3, <3>1
      <4> QED BY <2>7, <3>1, <4>1
    <3>3. q[i].time \in Int /\ q[j - 1].time \in Int /\ q[j].time \in Int
      BY <1>1, <2>4
    <3> QED BY <2>4, <2>5, <3>2, <3>3
  <2> QED BY <2>4, <2>5, <2>6, <2>7
<1> QED BY <1>2 DEF Sorted

(* A part of a sorted vector is a part of the map.                         *)
LEMMA PartMap ==
  ASSUME NEW q, Sorted(q), NEW a \in 0 .. Len(q), NEW b \in 0 .. Len(q), a <= b
  PROVE  LET part == SubSeq(q, a + 1, b) IN
         /\ Sorted(part)
         /\ \A t \in TimesOf(part) :
              /\ t \in TimesOf(q) /\ LastWins(part)[t] = LastWins(q)[t]
              /\ \E i \in 1 .. Len(q) : a < i /\ i <= b /\ q[i].time = t
         /\ \A i \in 1 .. Len(q) : a < i /\ i <= b => q[i].time \in TimesOf(part)
<1> DEFINE part == SubSeq(q, a + 1, b)
<1>1. /\ Sorted(part) /\ Len(part) = b - a
      /\ \A i \in 1 .. Len(part) : part[i] = q[a + i]
  BY PartOf
<1>2. /\ Len(q) \in Nat /\ a \in Int /\ b \in Int /\ DOMAIN q = 1 .. Len(q)
      /\ DOMAIN part = 1 .. Len(part)
  BY <1>1, VectorTimes DEF Sorted
<1> HIDE DEF part
<1>3. ASSUME NEW i \in 1 .. Len(part)
      PROVE  /\ part[i].time \in TimesOf(q)
             /\ LastWins(part)[part[i].time] = LastWins(q)[part[i].time]
             /\ \E j \in 1 .. Len(q) : a < j /\ j <= b /\ q[j].time = part[i].time
  <2> DEFINE k == a + i
  <2>1. k \in 1 .. Len(q) /\ a < k /\ k <= b
    BY <1>1, <1>2
  <2>2. part[i] = q[k]
    BY <1>1
  <2> HIDE DEF k
  <2>3. /\ q[k].time \in TimesOf(q) /\ LastWins(q)[q[k].time] = q[k].value
        /\ LastWins(part)[part[i].time] = part[i].value
    BY <1>1, <2>1, SortedMap
  <2> QED BY <2>1, <2>2, <2>3
<1>4. ASSUME NEW i \in 1 .. Len(q), a < i, i <= b
      PROVE  q[i].time \in TimesOf(part)
  <2> DEFINE k == i - a
  <2>1. k \in 1 .. Len(part) /\ a + k = i
    BY <1>1, <1>2, <1>4
  <2> HIDE DEF k
  <2>2. part[k] = q[i]
    BY <1>1, <2>1
  <2> QED BY <1>2, <2>1, <2>2 DEF TimesOf
<1>5. \A t \in TimesOf(part) : \E i \in 1 .. Len(part) : t = part[i].time
  BY <1>2 DEF TimesOf
<1>6. \A t \in TimesOf(part) :
        /\ t \in TimesOf(q) /\ LastWins(part)[t] = LastWins(q)[t]
        /\ \E i \in 1 .. Len(q) : a < i /\ i <= b /\ q[i].time = t
  <2> SUFFICES ASSUME NEW t \in TimesOf(part)
               PROVE  /\ t \in TimesOf(q) /\ LastWins(part)[t] = LastWins(q)[t]
                      /\ \E i \in 1 .. Len(q) : a < i /\ i <= b /\ q[i].time = t
    OBVIOUS
  <2>1. PICK k \in 1 .. Len(part) : t = part[k].time
    BY <1>5
  <2>2. t \in TimesOf(q) /\ LastWins(part)[t] = LastWins(q)[t]
    BY <1>3, <2>1
  <2>3. PICK i \in 1 .. Len(q) : a < i /\ i <= b /\ q[i].time = t
    BY <1>3, <2>1
  <2> QED BY <2>2, <2>3
<1> QED BY <1>1, <1>4, <1>6 DEF part

(* pruneOne keeps what is not older than its start.                        *)
LEMMA PruneIs ==
  ASSUME NEW w, WindowOK(w), NEW start \in Int
  PROVE  LET v == PruneWindow(w, start) IN
         /\ WindowOK(v)
         /\ Live(v) = Restrict(Live(w), {t \in DOMAIN Live(w) : t >= start})
<1> DEFINE active == ActivePoints(w)
           lb == LowerBound(active, start)
           expired == SubSeq(active, 1, lb)
           fresh == {t \in DOMAIN w.late : t >= start}
           left == RemoveStatistics(w.statistics, expired)
           s == IF fresh = DOMAIN w.late THEN left ELSE InvalidStatistics
           b == w.activeBegin + lb
           l == Restrict(w.late, fresh)
           pruned == [w EXCEPT
                        !.activeBegin = @ + Len(expired),
                        !.late = Restrict(@, fresh),
                        !.statistics = IF fresh = DOMAIN w.late THEN left
                                       ELSE InvalidStatistics]
<1>1. PruneWindow(w, start) =
        IF pruned.activeBegin >= CompactThreshold
             /\ pruned.activeBegin * 2 >= Len(pruned.points)
        THEN Compact(pruned) ELSE pruned
  BY DEF PruneWindow
<1>2. /\ Sorted(active) /\ Len(active) = Len(w.points) - w.activeBegin
      /\ \A i \in 1 .. Len(active) : active[i] = w.points[w.activeBegin + i]
      /\ DOMAIN Live(w) = (DOMAIN w.late) \cup TimesOf(active)
      /\ IsMap(Live(w))
      /\ \A t \in DOMAIN Live(w) :
              Live(w)[t] = (IF t \in DOMAIN w.late THEN w.late[t]
                            ELSE LastWins(active)[t])
  BY ActiveIs DEF WindowOK
<1>3. /\ lb \in 0 .. Len(active)
      /\ \A i \in 1 .. Len(active) : active[i].time < start <=> i <= lb
  BY <1>2, BoundsAre
<1>4. /\ Len(w.points) \in Nat /\ Len(active) \in Nat
      /\ w.activeBegin \in 0 .. Len(w.points) /\ Sorted(w.points)
      /\ DOMAIN active = 1 .. Len(active)
      /\ \A i \in 1 .. Len(active) : active[i].time \in Int
  BY <1>2, VectorTimes DEF WindowOK, WindowShape, Sorted
<1>5. Len(expired) = lb
  <2>1. 0 \in 0 .. Len(active) /\ 0 <= lb /\ 0 + 1 = 1 /\ lb - 0 = lb
    BY <1>3, <1>4
  <2> HIDE DEF active, lb
  <2>2. Len(SubSeq(active, 0 + 1, lb)) = lb - 0
    BY <1>2, <1>3, <2>1, PartOf
  <2> QED BY <2>1, <2>2
<1> HIDE DEF active, lb, expired, left
<1>6. b \in 0 .. Len(w.points) /\ b <= Len(w.points)
  BY <1>2, <1>3, <1>4
<1>7. IsMap(l) /\ DOMAIN l = fresh /\ \A t \in fresh : l[t] = w.late[t]
  BY RestrictIs DEF WindowOK, WindowShape
<1>8. pruned = [points |-> w.points, activeBegin |-> b, late |-> l,
                latest |-> w.latest, statistics |-> s]
  <2>1. w = [points |-> w.points, activeBegin |-> w.activeBegin, late |-> w.late,
             latest |-> w.latest, statistics |-> w.statistics]
    BY DEF WindowOK, WindowShape
  <2>2. w.activeBegin + Len(expired) = b
    BY <1>5
  <2>3. pruned = [w EXCEPT !.activeBegin = w.activeBegin + Len(expired),
                           !.late = l, !.statistics = s]
    OBVIOUS
  <2>4. pruned = [w EXCEPT !.activeBegin = b, !.late = l, !.statistics = s]
    BY <2>2, <2>3
  <2> HIDE DEF pruned, b, l, s
  <2> QED BY <2>1, <2>4
<1> HIDE DEF pruned, l, s, b
<1>9. WindowShape(pruned)
  BY <1>4, <1>6, <1>7, <1>8 DEF WindowOK, WindowShape
<1>10. Bounded(pruned)
  BY <1>7, <1>8 DEF WindowOK, Bounded
<1> DEFINE part == ActivePoints(pruned)
<1>11. /\ \A t \in TimesOf(part) :
            /\ t \in TimesOf(w.points) /\ LastWins(part)[t] = LastWins(w.points)[t]
            /\ \E i \in 1 .. Len(w.points) :
                 b < i /\ i <= Len(w.points) /\ w.points[i].time = t
       /\ \A i \in 1 .. Len(w.points) :
            b < i /\ i <= Len(w.points) => w.points[i].time \in TimesOf(part)
  <2>1. part = SubSeq(w.points, b + 1, Len(w.points))
    BY <1>8 DEF ActivePoints
  <2>2. Len(w.points) \in 0 .. Len(w.points)
    BY <1>4
  <2> HIDE DEF part
  <2> DEFINE n == Len(w.points)
  <2>3. b \in 0 .. n /\ n \in 0 .. n /\ b <= n /\ Sorted(w.points)
    BY <1>4, <1>6, <2>2
  <2>4. part = SubSeq(w.points, b + 1, n)
    BY <2>1
  <2> HIDE DEF n
  <2>5. /\ \A t \in TimesOf(part) :
               /\ t \in TimesOf(w.points)
               /\ LastWins(part)[t] = LastWins(w.points)[t]
               /\ \E i \in 1 .. Len(w.points) : b < i /\ i <= n /\ w.points[i].time = t
        /\ \A i \in 1 .. Len(w.points) :
               b < i /\ i <= n => w.points[i].time \in TimesOf(part)
    BY <2>3, <2>4, PartMap, ZenonT(30) DEF n
  <2> QED BY <2>5 DEF n
<1>12. \A t \in TimesOf(active) : LastWins(active)[t] = LastWins(w.points)[t]
  <2>1. active = SubSeq(w.points, w.activeBegin + 1, Len(w.points))
    BY DEF ActivePoints, active
  <2>2. Len(w.points) \in 0 .. Len(w.points) /\ w.activeBegin <= Len(w.points)
    BY <1>4
  <2> QED BY <1>4, <2>1, <2>2, PartMap
<1> HIDE DEF part
<1>13. ASSUME NEW t \in TimesOf(part)
       PROVE  t \in TimesOf(active) /\ t >= start
  <2>1. PICK i \in 1 .. Len(w.points) : b < i /\ w.points[i].time = t
    BY <1>11
  <2> DEFINE k == i - w.activeBegin
  <2>2. k \in 1 .. Len(active) /\ w.activeBegin + k = i /\ ~(k <= lb)
    BY <1>2, <1>3, <1>4, <1>6, <2>1 DEF b
  <2> HIDE DEF k
  <2>3. active[k].time = t
    BY <1>2, <2>1, <2>2
  <2>4. ~(t < start) /\ t \in Int
    BY <1>3, <1>4, <2>2, <2>3
  <2> QED BY <1>4, <2>2, <2>3, <2>4 DEF TimesOf
<1>14. ASSUME NEW t \in TimesOf(active), t >= start
       PROVE  t \in TimesOf(part)
  <2>1. PICK k \in 1 .. Len(active) : active[k].time = t
    BY <1>4 DEF TimesOf
  <2> DEFINE i == w.activeBegin + k
  <2>2. ~(k <= lb)
    BY <1>3, <1>4, <1>14, <2>1
  <2>3. i \in 1 .. Len(w.points) /\ b < i /\ i <= Len(w.points)
    BY <1>2, <1>3, <1>4, <2>2 DEF b
  <2>4. w.points[i] = active[k]
    BY <1>2
  <2> HIDE DEF i
  <2> QED BY <1>11, <2>1, <2>3, <2>4
<1> DEFINE kept == {t \in DOMAIN Live(w) : t >= start}
<1>15. /\ IsMap(Live(pruned))
       /\ DOMAIN Live(pruned) = (DOMAIN l) \cup TimesOf(part)
       /\ \A t \in DOMAIN Live(pruned) :
            Live(pruned)[t] = (IF t \in DOMAIN l THEN l[t] ELSE LastWins(part)[t])
  <2>1. pruned.late = l
    BY <1>8
  <2> QED BY <1>9, <2>1, ActiveIs DEF part
<1>16. DOMAIN Live(pruned) = kept
  BY <1>2, <1>7, <1>13, <1>14, <1>15
<1>17. IsMap(Restrict(Live(w), kept)) /\ DOMAIN Restrict(Live(w), kept) = kept
       /\ \A t \in kept : Restrict(Live(w), kept)[t] = Live(w)[t]
  BY <1>2, RestrictIs
<1>18. ASSUME NEW t \in kept
       PROVE  Live(pruned)[t] = Live(w)[t]
  <2>1. CASE t \in DOMAIN w.late
    BY <1>2, <1>7, <1>15, <1>16, <2>1
  <2>2. CASE t \notin DOMAIN w.late
    <3>1. t \in TimesOf(active) /\ t \notin fresh
      BY <1>2, <2>2
    <3>2. t \in TimesOf(part)
      BY <1>14, <3>1
    <3> QED BY <1>2, <1>7, <1>11, <1>12, <1>15, <1>16, <2>2, <3>1, <3>2
  <2> QED BY <2>1, <2>2
<1> HIDE DEF kept
<1>19. Live(pruned) = Restrict(Live(w), kept)
  BY <1>15, <1>16, <1>17, <1>18, SameMap
<1>20. WindowOK(pruned)
  BY <1>9, <1>10 DEF WindowOK
<1>21. WindowOK(Compact(pruned)) /\ Live(Compact(pruned)) = Live(pruned)
  BY <1>20, CompactIs
<1> QED BY <1>1, <1>19, <1>20, <1>21 DEF kept

(* What is older than the start is evicted.                                *)
LEMMA EvictsIs ==
  ASSUME NEW w, WindowOK(w), NEW start \in Int, NEW t \in DOMAIN Live(w), t < start
  PROVE  Evicts(w, start)
<1>1. t \in DOMAIN w.late \/ t \in TimesOf(ActivePoints(w))
  BY ActiveIs DEF WindowOK
<1> QED BY <1>1 DEF Evicts, TimesOf

(* What is left of a sorted vector without the times from start to end.    *)
LEMMA OutsideIs ==
  ASSUME NEW q, Sorted(q), NEW start \in Int, NEW end \in Int, start <= end
  PROVE  LET left == SubSeq(q, 1, LowerBound(q, start))
                       \o SubSeq(q, UpperBound(q, end) + 1, Len(q)) IN
         /\ Sorted(left)
         /\ TimesOf(left) = TimesOf(q) \ (start .. end)
         /\ \A t \in TimesOf(left) : LastWins(left)[t] = LastWins(q)[t]
<1> DEFINE lb == LowerBound(q, start)
           ub == UpperBound(q, end)
           n == Len(q)
           before == SubSeq(q, 1, lb)
           behind == SubSeq(q, ub + 1, n)
           left == before \o behind
<1>1. /\ n \in Nat /\ DOMAIN q = 1 .. n
      /\ \A i \in 1 .. n : q[i].time \in Int
  BY VectorTimes DEF Sorted
<1>2. /\ lb \in 0 .. n /\ ub \in 0 .. n
      /\ \A i \in 1 .. n : /\ q[i].time < start <=> i <= lb
                           /\ q[i].time <= end <=> i <= ub
  BY BoundsAre
<1>3. before = SubSeq(q, 0 + 1, lb) /\ 0 \in 0 .. n /\ 0 <= lb
  BY <1>1, <1>2
<1>4. n \in 0 .. n /\ ub <= n
  BY <1>1, <1>2
<1> HIDE DEF lb, ub
<1>5. /\ Sorted(before)
      /\ \A t \in TimesOf(before) :
           /\ t \in TimesOf(q) /\ LastWins(before)[t] = LastWins(q)[t]
           /\ \E i \in 1 .. n : 0 < i /\ i <= lb /\ q[i].time = t
      /\ \A i \in 1 .. n : 0 < i /\ i <= lb => q[i].time \in TimesOf(before)
  <2> HIDE DEF before
  <2> QED BY <1>2, <1>3, PartMap
<1>6. /\ Sorted(behind)
      /\ \A t \in TimesOf(behind) :
           /\ t \in TimesOf(q) /\ LastWins(behind)[t] = LastWins(q)[t]
           /\ \E i \in 1 .. n : ub < i /\ i <= n /\ q[i].time = t
      /\ \A i \in 1 .. n : ub < i /\ i <= n => q[i].time \in TimesOf(behind)
  BY <1>2, <1>4, PartMap
<1> HIDE DEF before, behind, n
<1>7. \A t \in TimesOf(before) : t \in Int /\ t < start
  BY <1>1, <1>2, <1>5
<1>8. ASSUME NEW t \in TimesOf(behind)
      PROVE  t \in Int /\ t > end
  <2>1. PICK i \in 1 .. n : ub < i /\ q[i].time = t
    BY <1>6
  <2>2. ~(i <= ub)
    BY <1>1, <1>2, <2>1
  <2> QED BY <1>1, <1>2, <2>1, <2>2
<1>9. \A t \in TimesOf(before) : \A u \in TimesOf(behind) : t < u
  BY <1>7, <1>8
<1>10. /\ Sorted(left) /\ TimesOf(left) = TimesOf(before) \cup TimesOf(behind)
       /\ \A t \in TimesOf(before) : LastWins(left)[t] = LastWins(before)[t]
       /\ \A t \in TimesOf(behind) : LastWins(left)[t] = LastWins(behind)[t]
  BY <1>5, <1>6, <1>9, ConcatIs
<1> HIDE DEF left
<1>11. ASSUME NEW t \in TimesOf(q), t \notin start .. end
       PROVE  t \in TimesOf(before) \cup TimesOf(behind)
  <2>1. PICK i \in 1 .. n : q[i].time = t
    BY <1>1 DEF TimesOf
  <2>2. i \in Int /\ i > 0 /\ i <= n /\ t \in Int
    BY <1>1, <2>1
  <2>3. CASE t < start
    BY <1>2, <1>5, <2>1, <2>2, <2>3
  <2>4. CASE t > end
    <3>1. ~(i <= ub)
      BY <1>2, <2>1, <2>2, <2>4
    <3>2. ub < i
      BY <1>1, <1>2, <2>2, <3>1
    <3> QED BY <1>6, <2>1, <2>2, <3>2
  <2> QED BY <1>11, <2>2, <2>3, <2>4
<1>12. TimesOf(left) = TimesOf(q) \ (start .. end)
  BY <1>5, <1>6, <1>7, <1>8, <1>10, <1>11
<1> QED BY <1>5, <1>6, <1>10, <1>12 DEF left, before, behind, lb, ub, n

(* patchDerivedSequence replaces the range and nothing else.               *)
LEMMA PatchIs ==
  ASSUME NEW w, WindowOK(w), NEW start \in Int, NEW end \in Int, start <= end,
         NEW data \in Seq(Points)
  PROVE  LET v == PatchWindow(w, start, end, data) IN
         /\ WindowOK(v)
         /\ Live(v) = Over(LastWins(data),
                           Restrict(Live(w), DOMAIN Live(w) \ (start .. end)))
<1> DEFINE f == FlushLate(w)
           c == Compact(f)
           q == c.points
           left == SubSeq(q, 1, LowerBound(q, start))
                     \o SubSeq(q, UpperBound(q, end) + 1, Len(q))
           v == [c EXCEPT !.points = left]
           kept == Restrict(Live(w), DOMAIN Live(w) \ (start .. end))
<1>1. WindowOK(f) /\ DOMAIN f.late = {} /\ Live(f) = Live(w)
  BY FlushIs
<1>2. PatchWindow(w, start, end, data) = MergePoints(v, LastWins(data))
  BY DEF PatchWindow
<1> HIDE DEF f
<1>3. /\ WindowOK(c) /\ Live(c) = Live(w) /\ c.activeBegin = 0
      /\ DOMAIN c.late = {}
  BY <1>1, CompactIs
<1> HIDE DEF c
<1>4. Sorted(q) /\ Live(w) = LastWins(q) /\ IsMap(Live(w)) /\ IsMap(c.late)
  BY <1>3, ActiveIs, AllActive, LiveVector DEF WindowOK, WindowShape
<1>5. DOMAIN Live(w) = TimesOf(q)
  BY <1>4, LastWinsIs DEF Sorted
<1> HIDE DEF q
<1>6. /\ Sorted(left) /\ TimesOf(left) = TimesOf(q) \ (start .. end)
      /\ \A t \in TimesOf(left) : LastWins(left)[t] = LastWins(q)[t]
  BY <1>4, OutsideIs
<1> HIDE DEF left
<1>7. /\ v.points = left /\ v.activeBegin = 0 /\ v.late = c.late /\ v.latest = c.latest
      /\ v = [points |-> v.points, activeBegin |-> v.activeBegin, late |-> v.late,
              latest |-> v.latest, statistics |-> v.statistics]
  BY <1>3 DEF WindowOK, WindowShape
<1> HIDE DEF v
<1>8. WindowShape(v)
  <2>1. Len(left) \in Nat
    BY <1>6, VectorTimes DEF Sorted
  <2> QED BY <1>3, <1>6, <1>7, <2>1 DEF WindowOK, WindowShape
<1>9. WindowOK(v)
  BY <1>3, <1>6, <1>7, <1>8 DEF WindowOK, Bounded, q
<1>10. Live(v) = LastWins(left)
  BY <1>3, <1>7, <1>8, AllActive, LiveVector
<1>11. LastWins(left) = kept
  <2>1. IsMap(LastWins(left)) /\ DOMAIN LastWins(left) = TimesOf(left)
    BY <1>6, LastWinsIs DEF Sorted
  <2> DEFINE D == DOMAIN Live(w) \ (start .. end)
  <2>2. D \subseteq DOMAIN Live(w) /\ D = TimesOf(left)
    BY <1>5, <1>6
  <2>3. kept = Restrict(Live(w), D)
    OBVIOUS
  <2> HIDE DEF D, kept
  <2>4. IsMap(kept) /\ DOMAIN kept = D /\ \A t \in D : kept[t] = Live(w)[t]
    BY <1>4, <2>2, <2>3, RestrictIs
  <2> QED BY <1>4, <1>6, <2>1, <2>2, <2>4, SameMap
<1> HIDE DEF kept
<1>12. /\ WindowOK(MergePoints(v, LastWins(data)))
       /\ Live(MergePoints(v, LastWins(data))) = Over(LastWins(data), Live(v))
  <2>1. IsMap(LastWins(data)) /\ DOMAIN v.late = {}
    BY <1>3, <1>7, LastWinsIs
  <2> QED BY <1>9, <2>1, MergeIs
<1> QED BY <1>2, <1>10, <1>11, <1>12 DEF kept

LEMMA OverOver ==
  ASSUME NEW f, IsMap(f), NEW g, IsMap(g), NEW h, IsMap(h)
  PROVE  Over(Over(f, g), h) = Over(f, Over(g, h))
<1> DEFINE fg == Over(f, g)
           gh == Over(g, h)
           l == Over(fg, h)
           r == Over(f, gh)
<1>1. /\ IsMap(fg) /\ DOMAIN fg = (DOMAIN f) \cup (DOMAIN g)
      /\ IsMap(gh) /\ DOMAIN gh = (DOMAIN g) \cup (DOMAIN h)
  BY OverIs
<1>2. /\ \A t \in DOMAIN f : fg[t] = f[t]
      /\ \A t \in (DOMAIN g) \ (DOMAIN f) : fg[t] = g[t]
      /\ \A t \in DOMAIN g : gh[t] = g[t]
      /\ \A t \in (DOMAIN h) \ (DOMAIN g) : gh[t] = h[t]
  BY DEF Over
<1> HIDE DEF fg, gh
<1>3. /\ IsMap(l) /\ DOMAIN l = (DOMAIN fg) \cup (DOMAIN h)
      /\ IsMap(r) /\ DOMAIN r = (DOMAIN f) \cup (DOMAIN gh)
  BY <1>1, OverIs
<1>4. /\ \A t \in DOMAIN fg : l[t] = fg[t]
      /\ \A t \in (DOMAIN h) \ (DOMAIN fg) : l[t] = h[t]
      /\ \A t \in DOMAIN f : r[t] = f[t]
      /\ \A t \in (DOMAIN gh) \ (DOMAIN f) : r[t] = gh[t]
  BY DEF Over
<1> HIDE DEF l, r
<1>5. DOMAIN l = DOMAIN r
  BY <1>1, <1>3
<1>6. ASSUME NEW t \in DOMAIN l
      PROVE  l[t] = r[t]
  <2>1. CASE t \in DOMAIN f
    BY <1>1, <1>2, <1>4, <2>1
  <2>2. CASE t \notin DOMAIN f /\ t \in DOMAIN g
    BY <1>1, <1>2, <1>4, <2>2
  <2>3. CASE t \notin DOMAIN f /\ t \notin DOMAIN g
    BY <1>1, <1>2, <1>3, <1>4, <2>3
  <2> QED BY <2>1, <2>2, <2>3
<1>7. l = r
  BY <1>3, <1>5, <1>6, SameMap
<1> QED BY <1>7 DEF l, r, fg, gh

(* What is appended lies behind every point, the late ones included.       *)
LEMMA SafeIs ==
  ASSUME NEW w, WindowOK(w), NEW data \in Seq(Points), data # <<>>,
         AppendOnly(w, data)
  PROVE  /\ Sorted(data) /\ TimesOf(data) # {}
         /\ \A t \in TimesOf(w.points) \cup DOMAIN w.late \cup DOMAIN Live(w) :
              \A u \in TimesOf(data) : t < u
<1>1. Sorted(data)
  BY IncreasingSorted DEF AppendOnly
<1>2. /\ Len(data) \in Nat /\ DOMAIN data = 1 .. Len(data)
      /\ \A i \in 1 .. Len(data) : data[i].time \in Int
  BY VectorTimes
<1>3. Len(data) # 0
  OBVIOUS
<1>4. 1 \in 1 .. Len(data) /\ Head(data) = data[1]
  BY <1>2, <1>3
<1>5. TimesOf(data) # {}
  BY <1>2, <1>4 DEF TimesOf
<1>6. \A u \in TimesOf(data) : u \in Int /\ Head(data).time <= u
  <2>1. ASSUME NEW i \in 1 .. Len(data)
        PROVE  Head(data).time <= data[i].time
    <3>1. CASE i = 1
      BY <1>2, <1>4, <3>1
    <3>2. CASE 1 < i
      <4>1. data[1].time < data[i].time
        BY <1>1, <1>4, <3>2 DEF Sorted
      <4> QED BY <1>2, <1>4, <4>1
    <3> QED BY <3>1, <3>2
  <2> QED BY <1>2, <2>1 DEF TimesOf
<1>7. /\ Head(data).time \in Int /\ w.latest \in Int \cup {NoTime}
      /\ w.latest = NoTime \/ Head(data).time > w.latest
  BY <1>2, <1>4 DEF AppendOnly, WindowOK, WindowShape
<1>8. ASSUME NEW t \in TimesOf(w.points) \cup DOMAIN w.late \cup DOMAIN Live(w)
      PROVE  t \in Int /\ w.latest # NoTime /\ t <= w.latest
  <2>1. t \in DOMAIN Live(w) => t \in TimesOf(w.points) \cup DOMAIN w.late
    BY ActiveIs, ActiveTimes DEF WindowOK
  <2>2. t \in TimesOf(w.points) \cup DOMAIN w.late
    BY <2>1
  <2>3. TimesOf(w.points) \subseteq Int /\ DOMAIN w.late \subseteq Int
    BY VectorTimes DEF WindowOK, WindowShape, Sorted, IsMap, TimeSet
  <2> QED BY <2>2, <2>3 DEF WindowOK, Bounded
<1>9. ASSUME NEW t \in TimesOf(w.points) \cup DOMAIN w.late \cup DOMAIN Live(w),
             NEW u \in TimesOf(data)
      PROVE  t < u
  BY <1>6, <1>7, <1>8, <1>9
<1> QED BY <1>1, <1>5, <1>9

(* The left edge does not see what is appended.                            *)
LEMMA ActiveAppend ==
  ASSUME NEW p \in Seq(Points), NEW d \in Seq(Points), NEW a \in 0 .. Len(p)
  PROVE  SubSeq(p \o d, a + 1, Len(p \o d)) = SubSeq(p, a + 1, Len(p)) \o d
<1> DEFINE m == Len(p)
           n == Len(d)
           pd == p \o d
           l == SubSeq(pd, a + 1, Len(pd))
           x == SubSeq(p, a + 1, m)
           r == x \o d
<1>1. /\ m \in Nat /\ n \in Nat /\ a \in Nat /\ a <= m
      /\ \A i \in 1 .. m : p[i] \in Points
      /\ \A i \in 1 .. n : d[i] \in Points
  BY VectorTimes
<1>2. /\ pd \in Seq(Points) /\ Len(pd) = m + n
      /\ \A i \in 1 .. m : pd[i] = p[i]
      /\ \A i \in 1 .. n : pd[m + i] = d[i]
  <2>1. pd \in Seq(Points) /\ Len(pd) = m + n
        /\ \A i \in 1 .. m + n : pd[i] = IF i <= m THEN p[i] ELSE d[i - m]
    BY ConcatProperties
  <2> HIDE DEF pd, m, n
  <2>2. ASSUME NEW i \in 1 .. m PROVE pd[i] = p[i]
    BY <1>1, <2>1
  <2>3. ASSUME NEW i \in 1 .. n PROVE pd[m + i] = d[i]
    <3> DEFINE k == m + i
    <3>1. k \in 1 .. m + n /\ ~(k <= m) /\ k - m = i
      BY <1>1
    <3> HIDE DEF k
    <3>2. pd[k] = d[k - m]
      BY <2>1, <3>1
    <3> QED BY <3>1, <3>2 DEF k
  <2> QED BY <2>1, <2>2, <2>3
<1>3. /\ x \in Seq(Points) /\ Len(x) = m - a
      /\ \A i \in 1 .. m - a : x[i] = p[a + i]
  <2>1. \A i \in a + 1 .. m : p[i] \in Points
    BY <1>1
  <2>2. x \in Seq(Points)
    BY <1>1, <2>1
  <2>3. Len(x) = IF a + 1 <= m THEN m - (a + 1) + 1 ELSE 0
    BY <1>1, SubSeqProperties
  <2>4. Len(x) = m - a
    BY <1>1, <2>3
  <2>5. ASSUME NEW i \in 1 .. m - a PROVE x[i] = p[a + i]
    <3>1. i \in 1 .. (m - (a + 1) + 1) /\ a + 1 + i - 1 = a + i
      BY <1>1
    <3> QED BY <1>1, <3>1
  <2> QED BY <2>2, <2>4, <2>5
<1> HIDE DEF pd, m, n
<1>4. /\ l \in Seq(Points) /\ Len(l) = m + n - a
      /\ \A i \in 1 .. m + n - a : l[i] = pd[a + i]
  <2> DEFINE k == Len(pd)
  <2>1. k \in Nat /\ k = m + n /\ a <= k /\ \A i \in 1 .. k : pd[i] \in Points
    BY <1>1, <1>2, VectorTimes
  <2>2. \A i \in a + 1 .. k : pd[i] \in Points
    BY <1>1, <2>1
  <2> HIDE DEF k
  <2>3. l = SubSeq(pd, a + 1, k)
    BY DEF k
  <2>4. l \in Seq(Points)
    BY <1>1, <2>1, <2>2, <2>3
  <2>5. Len(l) = IF a + 1 <= k THEN k - (a + 1) + 1 ELSE 0
    BY <1>1, <2>1, <2>3, SubSeqProperties
  <2>6. Len(l) = m + n - a
    BY <1>1, <2>1, <2>5
  <2>7. ASSUME NEW i \in 1 .. m + n - a PROVE l[i] = pd[a + i]
    <3>1. i \in 1 .. (k - (a + 1) + 1) /\ a + 1 + i - 1 = a + i
      BY <1>1, <2>1
    <3> QED BY <1>1, <2>1, <2>3, <3>1
  <2> QED BY <2>4, <2>6, <2>7
<1> HIDE DEF x, l
<1>5. /\ r \in Seq(Points) /\ Len(r) = m - a + n
      /\ \A i \in 1 .. m - a + n :
           r[i] = IF i <= m - a THEN x[i] ELSE d[i - (m - a)]
  <2>1. /\ r \in Seq(Points) /\ Len(r) = Len(x) + Len(d)
        /\ \A i \in 1 .. Len(x) + Len(d) :
             r[i] = IF i <= Len(x) THEN x[i] ELSE d[i - Len(x)]
    BY <1>3, ConcatProperties
  <2> HIDE DEF r
  <2> QED BY <1>3, <2>1 DEF n
<1> HIDE DEF r
<1>6. ASSUME NEW i \in 1 .. Len(l) PROVE l[i] = r[i]
  <2>1. i \in 1 .. m - a + n /\ i \in 1 .. m + n - a /\ l[i] = pd[a + i]
    BY <1>1, <1>4
  <2>2. CASE i <= m - a
    <3>1. i \in 1 .. m - a /\ a + i \in 1 .. m
      BY <1>1, <2>1, <2>2
    <3> QED BY <1>2, <1>3, <1>5, <2>1, <2>2, <3>1
  <2>3. CASE ~(i <= m - a)
    <3> DEFINE j == i - (m - a)
    <3>1. j \in 1 .. n /\ m + j = a + i
      BY <1>1, <2>1, <2>3
    <3>2. r[i] = d[j]
      BY <1>5, <2>1, <2>3
    <3> HIDE DEF j
    <3>3. pd[m + j] = d[j]
      BY <1>2, <3>1
    <3> QED BY <2>1, <3>1, <3>2, <3>3
  <2> QED BY <2>2, <2>3
<1>7. Len(l) = Len(r)
  BY <1>1, <1>4, <1>5
<1>8. l = r
  BY <1>4, <1>5, <1>6, <1>7, SeqEqual
<1> QED BY <1>8 DEF l, r, x, pd, m

(* The three ways a batch gets into a window.                              *)
LEMMA AppendIs ==
  ASSUME NEW w, WindowOK(w), NEW data \in Seq(Points), data # <<>>,
         AppendOnly(w, data)
  PROVE  /\ WindowOK(AppendPoints(w, data))
         /\ Live(AppendPoints(w, data)) = Over(LastWins(data), Live(w))
<1> DEFINE a == ActivePoints(w)
           p == w.points \o data
           s == AppendStatistics(w.statistics, data)
           n == Last(data).time
           v == AppendPoints(w, data)
<1>1. /\ Sorted(data) /\ TimesOf(data) # {}
      /\ \A t \in TimesOf(w.points) \cup DOMAIN w.late \cup DOMAIN Live(w) :
           \A u \in TimesOf(data) : t < u
  BY SafeIs
<1>2. /\ Sorted(w.points) /\ w.points \in Seq(Points)
      /\ w.activeBegin \in 0 .. Len(w.points) /\ IsMap(w.late)
  BY DEF WindowOK, WindowShape, Sorted
<1>3. Sorted(p) /\ TimesOf(p) = TimesOf(w.points) \cup TimesOf(data)
  BY <1>1, <1>2, ConcatIs
<1>4. n \in Int /\ \A t \in TimesOf(data) : t <= n
  BY <1>1, LastIs
<1>5. /\ Sorted(a) /\ IsMap(LastWins(a)) /\ DOMAIN LastWins(a) = TimesOf(a)
      /\ TimesOf(a) \subseteq TimesOf(w.points)
  BY ActiveIs, ActiveTimes DEF WindowOK
<1>6. SubSeq(p, w.activeBegin + 1, Len(p)) = a \o data
  BY <1>2, ActiveAppend DEF ActivePoints
<1>7. Len(w.points) \in Nat /\ Len(p) \in Nat /\ Len(w.points) <= Len(p)
  BY <1>2, VectorTimes, ConcatProperties
<1>8. v = [w EXCEPT !.points = p, !.latest = n, !.statistics = s]
  BY DEF AppendPoints
<1> HIDE DEF p, s, n, v, a
<1>9. v = [points |-> p, activeBegin |-> w.activeBegin, late |-> w.late,
           latest |-> n, statistics |-> s]
  BY <1>8 DEF WindowOK, WindowShape
<1>10. WindowShape(v)
  BY <1>2, <1>3, <1>4, <1>7, <1>9 DEF WindowShape
<1>11. Bounded(v)
  <2>1. TimesOf(v.points) \cup DOMAIN v.late
          = (TimesOf(w.points) \cup DOMAIN w.late) \cup TimesOf(data)
    BY <1>3, <1>9
  <2>2. v.latest = n /\ n # NoTime
    BY <1>4, <1>9, SequenceWindowAssumption
  <2>3. ASSUME NEW t \in TimesOf(w.points) \cup DOMAIN w.late
        PROVE  t <= n
    <3>1. PICK u \in TimesOf(data) : TRUE
      BY <1>1
    <3>2. t < u /\ u <= n
      BY <1>1, <1>4, <3>1
    <3>3. t \in Int /\ u \in Int
      BY <1>1, <1>2, VectorTimes DEF IsMap, TimeSet, Sorted
    <3> QED BY <1>4, <3>2, <3>3
  <2> QED BY <1>4, <2>1, <2>2, <2>3 DEF Bounded
<1> DEFINE b == a \o data
           f == LastWins(data)
           g == LastWins(b)
           old == Live(w)
           new == Live(v)
<1>12. ActivePoints(v) = b
  BY <1>6, <1>9 DEF ActivePoints
<1>13. /\ TimesOf(b) = TimesOf(a) \cup TimesOf(data)
       /\ \A t \in TimesOf(a) : g[t] = LastWins(a)[t]
       /\ \A t \in TimesOf(data) : g[t] = f[t]
  BY <1>1, <1>5, ConcatIs
<1>14. IsMap(f) /\ DOMAIN f = TimesOf(data)
  BY LastWinsIs
<1>15. /\ IsMap(old) /\ DOMAIN old = (DOMAIN w.late) \cup TimesOf(a)
       /\ \A t \in DOMAIN old :
            old[t] = (IF t \in DOMAIN w.late THEN w.late[t] ELSE LastWins(a)[t])
  BY ActiveIs DEF a, WindowOK
<1>16. v.late = w.late
  BY <1>9
<1> HIDE DEF b, f, g
<1>17. /\ IsMap(new) /\ DOMAIN new = (DOMAIN v.late) \cup TimesOf(b)
       /\ \A t \in DOMAIN new :
            new[t] = (IF t \in DOMAIN v.late THEN v.late[t] ELSE g[t])
  BY <1>10, <1>12, ActiveIs DEF g
<1> HIDE DEF old, new
<1> DEFINE o == Over(f, old)
<1>18. /\ IsMap(o) /\ DOMAIN o = (DOMAIN f) \cup (DOMAIN old)
  BY <1>14, <1>15, OverIs
<1>19. /\ \A t \in DOMAIN f : o[t] = f[t]
       /\ \A t \in (DOMAIN old) \ (DOMAIN f) : o[t] = old[t]
  BY DEF Over
<1> HIDE DEF o
<1>20. \A t \in DOMAIN w.late : t \notin TimesOf(data)
  <2>1. ASSUME NEW t \in DOMAIN w.late, t \in TimesOf(data)
        PROVE  FALSE
    <3>1. t < t /\ t \in Int
      BY <1>1, <1>2, <2>1 DEF IsMap, TimeSet
    <3> QED BY <3>1
  <2> QED BY <2>1
<1>21. DOMAIN new = DOMAIN o
  BY <1>13, <1>14, <1>15, <1>16, <1>17, <1>18
<1>22. ASSUME NEW t \in DOMAIN new
       PROVE  new[t] = o[t]
  <2>1. CASE t \in TimesOf(data)
    BY <1>13, <1>14, <1>16, <1>17, <1>19, <1>20, <2>1
  <2>2. CASE t \notin TimesOf(data) /\ t \in DOMAIN w.late
    BY <1>14, <1>15, <1>16, <1>17, <1>19, <2>2
  <2>3. CASE t \notin TimesOf(data) /\ t \notin DOMAIN w.late
    BY <1>13, <1>14, <1>15, <1>16, <1>17, <1>19, <2>3
  <2> QED BY <2>1, <2>2, <2>3
<1>23. new = o
  BY <1>17, <1>18, <1>21, <1>22, SameMap
<1> QED BY <1>10, <1>11, <1>23 DEF WindowOK, v, new, o, f, old

LEMMA KeepIs ==
  ASSUME NEW w, WindowOK(w), NEW data \in Seq(Points), TimesOf(data) # {}
  PROVE  /\ WindowOK(KeepLate(w, data))
         /\ Live(KeepLate(w, data)) = Over(LastWins(data), Live(w))
<1> DEFINE f == LastWins(data)
           l == Over(f, w.late)
           newest == Greatest(DOMAIN f)
           n == IF w.latest = NoTime \/ newest > w.latest THEN newest ELSE w.latest
           v == [w EXCEPT !.statistics = InvalidStatistics, !.late = l, !.latest = n]
<1>1. KeepLate(w, data) = IF Cardinality(DOMAIN v.late) >= FlushThreshold
                          THEN FlushLate(v) ELSE v
  BY DEF KeepLate
<1>2. IsMap(f) /\ DOMAIN f = TimesOf(data) /\ DOMAIN f # {}
  BY LastWinsIs
<1>3. newest \in Int /\ \A t \in DOMAIN f : t \in Int /\ newest >= t
  <2> DEFINE D == DOMAIN f
  <2>1. IsFiniteSet(D) /\ D # {} /\ D \subseteq Int
    BY <1>2 DEF IsMap, TimeSet
  <2> HIDE DEF D
  <2>2. Greatest(D) \in D /\ \A t \in D : Greatest(D) >= t
    BY <2>1, GreatestIs
  <2> QED BY <2>1, <2>2 DEF D
<1>4. IsMap(w.late) /\ w.latest \in Int \cup {NoTime} /\ Sorted(w.points)
  BY DEF WindowOK, WindowShape
<1> HIDE DEF f, newest
<1>5. IsMap(l) /\ DOMAIN l = (DOMAIN f) \cup DOMAIN w.late
  BY <1>2, <1>4, OverIs
<1>6. /\ n \in Int /\ n # NoTime /\ newest <= n
      /\ w.latest # NoTime => w.latest <= n
  BY <1>3, <1>4, SequenceWindowAssumption
<1> HIDE DEF l, n
<1>7. v = [points |-> w.points, activeBegin |-> w.activeBegin, late |-> l,
           latest |-> n, statistics |-> InvalidStatistics]
  <2>1. w = [points |-> w.points, activeBegin |-> w.activeBegin, late |-> w.late,
             latest |-> w.latest, statistics |-> w.statistics]
    BY DEF WindowOK, WindowShape
  <2>2. v = [w EXCEPT !.statistics = InvalidStatistics, !.late = l, !.latest = n]
    OBVIOUS
  <2> HIDE DEF v
  <2> QED BY <2>1, <2>2
<1> HIDE DEF v
<1>8. WindowShape(v)
  BY <1>5, <1>6, <1>7 DEF WindowOK, WindowShape
<1>9. Bounded(v)
  <2>1. /\ TimesOf(v.points) \cup DOMAIN v.late
             = TimesOf(w.points) \cup DOMAIN w.late \cup DOMAIN f
        /\ v.latest = n
    BY <1>5, <1>7
  <2>2. ASSUME NEW t \in TimesOf(w.points) \cup DOMAIN w.late
        PROVE  t <= n
    <3>1. t \in Int
      BY <1>4, VectorTimes DEF IsMap, TimeSet, Sorted
    <3>2. w.latest # NoTime /\ t <= w.latest
      BY DEF WindowOK, Bounded
    <3> QED BY <1>4, <1>6, <3>1, <3>2
  <2>3. ASSUME NEW t \in DOMAIN f
        PROVE  t <= n
    BY <1>3, <1>6
  <2> QED BY <1>6, <2>1, <2>2, <2>3 DEF Bounded
<1>10. Live(v) = Over(f, Live(w))
  <2> DEFINE q == LastWins(ActivePoints(w))
  <2>1. IsMap(q)
    BY ActiveIs DEF WindowOK
  <2>2. ActivePoints(v) = ActivePoints(w) /\ v.late = l
    BY <1>7 DEF ActivePoints
  <2>3. Live(v) = Over(l, q) /\ Live(w) = Over(w.late, q)
    BY <2>2 DEF Live
  <2> HIDE DEF q
  <2>4. Over(Over(f, w.late), q) = Over(f, Over(w.late, q))
    BY <1>2, <1>4, <2>1, OverOver
  <2> QED BY <2>3, <2>4 DEF l
<1>11. WindowOK(v)
  BY <1>8, <1>9 DEF WindowOK
<1>12. WindowOK(FlushLate(v)) /\ Live(FlushLate(v)) = Live(v)
  BY <1>11, FlushIs
<1> QED BY <1>1, <1>10, <1>11, <1>12 DEF f

(* Whatever way it takes, an update overwrites the times it carries.       *)
LEMMA InsertIs ==
  ASSUME NEW w, WindowOK(w), NEW data \in Seq(Points), data # <<>>
  PROVE  /\ WindowOK(InsertPoints(w, data))
         /\ Live(InsertPoints(w, data)) = Over(LastWins(data), Live(w))
<1>1. CASE AppendOnly(w, data)
  BY <1>1, AppendIs DEF InsertPoints
<1>2. CASE ~AppendOnly(w, data) /\ IsEmptyWindow(w)
  <2>1. InsertPoints(w, data) = MergePoints(w, LastWins(data))
    BY <1>2 DEF InsertPoints
  <2>2. DOMAIN w.late = {} /\ IsMap(LastWins(data))
    BY <1>2, LastWinsIs DEF IsEmptyWindow
  <2> QED BY <2>1, <2>2, MergeIs
<1>3. CASE ~AppendOnly(w, data) /\ ~IsEmptyWindow(w)
  <2>1. InsertPoints(w, data) = KeepLate(w, data)
    BY <1>3 DEF InsertPoints
  <2>2. TimesOf(data) # {}
    <3>1. Len(data) \in Nat /\ Len(data) # 0 /\ DOMAIN data = 1 .. Len(data)
      BY VectorTimes
    <3>2. 1 \in DOMAIN data
      BY <3>1
    <3> QED BY <3>2 DEF TimesOf
  <2> QED BY <2>1, <2>2, KeepIs
<1> QED BY <1>1, <1>2, <1>3
-----------------------------------------------------------------------------
(***************************************************************************)
(* What a request carries.                                                 *)
(***************************************************************************)
LEMMA BatchIs ==
  ASSUME NEW batch \in Batches
  PROVE  /\ Len(batch) \in Nat \ {0} /\ DOMAIN batch = 1 .. Len(batch)
         /\ \A i \in DOMAIN batch :
              /\ batch[i].sequence \in SequenceIds
              /\ batch[i].time \in Int /\ batch[i].value \in Values
         /\ SequencesOf(batch) \subseteq SequenceIds /\ SequencesOf(batch) # {}
         /\ Greatest(TimesOf(batch)) \in Int
<1> DEFINE Records == [sequence : SequenceIds, time : Int, value : Int \cup {NonNumeric}]
<1>1. batch \in Seq(Records) /\ batch # <<>>
  BY BatchAssumption
<1>2. /\ Len(batch) \in Nat /\ DOMAIN batch = 1 .. Len(batch)
      /\ \A i \in 1 .. Len(batch) : batch[i] \in Records
  <2> HIDE DEF Records
  <2> QED BY <1>1, LenProperties, ElementOfSeq
<1>3. Len(batch) # 0
  <2> HIDE DEF Records
  <2> QED BY <1>1
<1>4. 1 \in DOMAIN batch
  BY <1>2, <1>3
<1>5. \A i \in DOMAIN batch :
        /\ batch[i].sequence \in SequenceIds
        /\ batch[i].time \in Int /\ batch[i].value \in Values
  BY <1>2 DEF Values
<1>6. SequencesOf(batch) \subseteq SequenceIds /\ SequencesOf(batch) # {}
  BY <1>4, <1>5 DEF SequencesOf
<1> DEFINE S == TimesOf(batch)
           time == [i \in DOMAIN batch |-> batch[i].time]
<1>7. S # {} /\ S \subseteq Int
  BY <1>4, <1>5 DEF TimesOf
<1>8. IsFiniteSet(S)
  <2>1. IsFiniteSet(1 .. Len(batch))
    BY <1>2, FS_Interval
  <2>2. time \in Surjection(DOMAIN batch, S)
    BY DEF Surjection, TimesOf
  <2> HIDE DEF time, S
  <2> QED BY <1>2, <2>1, <2>2, FS_Surjection
<1> HIDE DEF S
<1>9. Greatest(S) \in S
  BY <1>7, <1>8, GreatestIs
<1> QED BY <1>2, <1>3, <1>5, <1>6, <1>7, <1>9 DEF S

LEMMA IncomingIs ==
  ASSUME NEW batch \in Batches, NEW s \in SequencesOf(batch)
  PROVE  IncomingFor(batch, s) \in Seq(Points) /\ IncomingFor(batch, s) # <<>>
<1> DEFINE I == {i \in DOMAIN batch : batch[i].sequence = s}
           mine == Ascending(I)
           e(k) == [time |-> batch[mine[k]].time, value |-> batch[mine[k]].value]
           q == IncomingFor(batch, s)
<1>1. TimeSet(I) /\ I # {}
  <2>1. IsFiniteSet(1 .. Len(batch)) /\ DOMAIN batch = 1 .. Len(batch)
    BY BatchIs, FS_Interval
  <2>2. I \subseteq DOMAIN batch /\ DOMAIN batch \subseteq Int
    BY <2>1
  <2>3. I # {}
    BY DEF SequencesOf
  <2> HIDE DEF I
  <2> QED BY <2>1, <2>2, <2>3, FS_Subset DEF TimeSet
<1>2. \A i \in I : batch[i].time \in Int /\ batch[i].value \in Values
  BY BatchIs
<1>3. q = [k \in DOMAIN mine |-> e(k)]
  BY DEF IncomingFor
<1> HIDE DEF I, q
<1>4. /\ mine \in Seq(I) /\ DOMAIN mine = 1 .. Len(mine)
      /\ \A x \in I : \E i \in DOMAIN mine : mine[i] = x
  BY <1>1, AscendingIs
<1>5. Len(mine) \in Nat /\ \A k \in 1 .. Len(mine) : mine[k] \in I
  <2> HIDE DEF mine
  <2> QED BY <1>4, LenProperties, ElementOfSeq
<1> HIDE DEF mine
<1>6. \A k \in 1 .. Len(mine) : e(k) \in Points
  BY <1>2, <1>5 DEF Points, Values
<1> HIDE DEF e
<1> DEFINE n == Len(mine)
<1>7. q = [k \in 1 .. n |-> e(k)] /\ n \in Nat /\ \A k \in 1 .. n : e(k) \in Points
  BY <1>3, <1>4, <1>5, <1>6
<1> HIDE DEF n
<1>8. q \in [1 .. n -> Points]
  BY <1>7
<1>9. q \in Seq(Points)
  BY <1>7, <1>8, SeqDef
<1>10. 1 \in DOMAIN mine
  BY <1>1, <1>4, <1>5
<1>11. q # <<>>
  BY <1>4, <1>7, <1>10, NoPoints DEF n
<1> QED BY <1>9, <1>11 DEF q
-----------------------------------------------------------------------------
(***************************************************************************)
(* The state.                                                              *)
(***************************************************************************)
Calls ==
  [pc : {"idle", "inserting", "pruning", "replaced"},
   batch : Batches \cup {NoBatch},
   start : Int,
   inserting : SUBSET SequenceIds,
   pruning : SUBSET SequenceIds,
   generation : 0 .. MaxGeneration,
   safe : SUBSET SequenceIds,
   evicted : SUBSET SequenceIds,
   touched : SUBSET (SequenceIds \X Int)]

(* Only an update still has sequences to insert into, those of its batch,  *)
(* and none of them is called safe before it was inserted into.            *)
CallShape(r) ==
  /\ r.inserting # {} => r.pc = "inserting"
  /\ r.pruning # {} => r.pc \in {"inserting", "pruning"}
  /\ r.pc = "inserting" => r.batch \in Batches
  /\ r.inserting \subseteq SequencesOf(r.batch)
  /\ r.safe \cap r.inserting = {}

(* Every change a call made is one it reports.                             *)
Covered(r) ==
  \A change \in r.touched :
    LET incoming == TimesOf(IncomingFor(r.batch, change[1]))
    IN \/ change[1] \in r.evicted /\ change[2] < r.start
       \/ incoming # {} /\ change[2] \in Least(incoming) .. Greatest(incoming)

WindowInv ==
  /\ window = [s \in SequenceIds |-> window[s]]
  /\ \A s \in SequenceIds : WindowOK(window[s])
  /\ known \subseteq SequenceIds
  /\ watermark \in Int \cup {NoTime}
  /\ size \in Nat \ {0}
  /\ generation \in 0 .. MaxGeneration
  /\ call \in [Callers -> Calls]
  /\ \A c \in Callers : CallShape(call[c]) /\ Covered(call[c])

LEMMA IdleIs ==
  Idle \in Calls /\ CallShape(Idle) /\ Covered(Idle)
<1>1. 0 \in 0 .. MaxGeneration
  BY WindowServiceAssumption
<1> QED BY <1>1, WindowServiceAssumption DEF Idle, Calls, CallShape, Covered, NoBatch

LEMMA EmptyIs ==
  WindowOK(EmptyWindow)
BY NoPoints DEF EmptyWindow, WindowOK, WindowShape, Bounded

LEMMA StartIs ==
  ASSUME NEW mark \in Int, NEW n \in Nat
  PROVE  WindowStart(mark, n) \in Int
BY WindowServiceAssumption DEF WindowStart

LEMMA WindowInit ==
  Init => WindowInv
<1> SUFFICES ASSUME Init PROVE WindowInv
  OBVIOUS
<1>1. /\ window = [s \in SequenceIds |-> EmptyWindow]
      /\ call = [c \in Callers |-> Idle]
  BY DEF Init
<1>2. DefaultSize \in Nat \ {0} /\ 0 \in 0 .. MaxGeneration
  BY WindowServiceAssumption
<1> QED BY <1>1, <1>2, IdleIs, EmptyIs DEF Init, WindowInv
-----------------------------------------------------------------------------
(***************************************************************************)
(* The steps of an update.                                                 *)
(***************************************************************************)
(* A step changes the live points of a sequence within a set of times.     *)
LEMMA ChangedIs ==
  ASSUME NEW s, NEW after, NEW t \in ChangedTimes(s, after)
  PROVE  /\ t \in DOMAIN Live(window[s]) \cup DOMAIN Live(after)
         /\ ~(/\ t \in DOMAIN Live(window[s]) /\ t \in DOMAIN Live(after)
              /\ Live(window[s])[t] = Live(after)[t])
BY DEF ChangedTimes

LEMMA InsertStep ==
  ASSUME WindowInv, NEW c \in Callers, Insert(c)
  PROVE  \E s \in call[c].inserting :
           LET data == IncomingFor(call[c].batch, s)
               after == InsertPoints(window[s], data)
           IN /\ s \in SequenceIds /\ call[c].pc = "inserting"
              /\ call[c].batch \in Batches
              /\ data \in Seq(Points) /\ data # <<>>
              /\ WindowOK(after)
              /\ Live(after) = Over(LastWins(data), Live(window[s]))
              /\ window' = [window EXCEPT ![s] = after]
              /\ call'[c] = [call[c] EXCEPT
                   !.inserting = call[c].inserting \ {s},
                   !.pc = IF call[c].inserting \ {s} = {} THEN "pruning"
                          ELSE "inserting",
                   !.safe = IF AppendOnly(window[s], data)
                            THEN call[c].safe \cup {s} ELSE call[c].safe,
                   !.touched = call[c].touched \cup ({s} \X ChangedTimes(s, after))]
              /\ call' \in [Callers -> {call'[d] : d \in Callers}]
              /\ \A d \in Callers : d # c => call'[d] = call[d]
<1>1. PICK s \in call[c].inserting :
        LET data == IncomingFor(call[c].batch, s)
            after == InsertPoints(window[s], data)
            rest == call[c].inserting \ {s}
        IN /\ window' = [window EXCEPT ![s] = after]
           /\ call' = [call EXCEPT
                ![c].inserting = rest,
                ![c].pc = IF rest = {} THEN "pruning" ELSE "inserting",
                ![c].safe = IF AppendOnly(window[s], data)
                            THEN @ \cup {s} ELSE @,
                ![c].touched = @ \cup ({s} \X ChangedTimes(s, after))]
  BY DEF Insert
<1> DEFINE data == IncomingFor(call[c].batch, s)
           after == InsertPoints(window[s], data)
           rest == call[c].inserting \ {s}
           pc == IF rest = {} THEN "pruning" ELSE "inserting"
           safe == IF AppendOnly(window[s], data) THEN call[c].safe \cup {s}
                   ELSE call[c].safe
           touched == call[c].touched \cup ({s} \X ChangedTimes(s, after))
<1>2. /\ call[c].pc = "inserting" /\ call[c].batch \in Batches
      /\ s \in SequencesOf(call[c].batch) /\ s \in SequenceIds
      /\ WindowOK(window[s]) /\ call \in [Callers -> Calls]
  <2>1. call[c] \in Calls /\ CallShape(call[c])
    BY DEF WindowInv
  <2>2. call[c].pc = "inserting"
    BY DEF Insert
  <2>3. s \in SequenceIds
    BY <2>1 DEF Calls
  <2> QED BY <2>1, <2>2, <2>3 DEF CallShape, WindowInv
<1>3. data \in Seq(Points) /\ data # <<>>
  BY <1>2, IncomingIs
<1> HIDE DEF data
<1>4. WindowOK(after) /\ Live(after) = Over(LastWins(data), Live(window[s]))
  BY <1>2, <1>3, InsertIs
<1>5. window' = [window EXCEPT ![s] = after]
  BY <1>1 DEF data
<1>6. call' = [call EXCEPT ![c].inserting = rest, ![c].pc = pc,
                           ![c].safe = safe, ![c].touched = touched]
  BY <1>1 DEF data
<1> HIDE DEF after, rest, pc, safe, touched
<1>7. /\ call'[c] = [call[c] EXCEPT !.inserting = rest, !.pc = pc,
                                    !.safe = safe, !.touched = touched]
      /\ call' \in [Callers -> {call'[d] : d \in Callers}]
      /\ \A d \in Callers : d # c => call'[d] = call[d]
  BY <1>2, <1>6
<1> QED BY <1>2, <1>3, <1>4, <1>5, <1>7 DEF data, after, rest, pc, safe, touched

LEMMA PruneStep ==
  ASSUME WindowInv, NEW c \in Callers, Prune(c)
  PROVE  \E s \in call[c].pruning :
           LET after == PruneWindow(window[s], call[c].start)
           IN /\ s \in SequenceIds /\ call[c].pc = "pruning"
              /\ call[c].start \in Int
              /\ WindowOK(after)
              /\ Live(after) = Restrict(Live(window[s]),
                                        {t \in DOMAIN Live(window[s]) :
                                           t >= call[c].start})
              /\ window' = [window EXCEPT ![s] = after]
              /\ call'[c] = [call[c] EXCEPT
                   !.pruning = call[c].pruning \ {s},
                   !.evicted = IF Evicts(window[s], call[c].start)
                               THEN call[c].evicted \cup {s} ELSE call[c].evicted,
                   !.touched = call[c].touched \cup ({s} \X ChangedTimes(s, after))]
              /\ call' \in [Callers -> {call'[d] : d \in Callers}]
              /\ \A d \in Callers : d # c => call'[d] = call[d]
<1>1. PICK s \in call[c].pruning :
        LET after == PruneWindow(window[s], call[c].start)
        IN /\ window' = [window EXCEPT ![s] = after]
           /\ call' = [call EXCEPT
                ![c].pruning = @ \ {s},
                ![c].evicted = IF Evicts(window[s], call[c].start)
                               THEN @ \cup {s} ELSE @,
                ![c].touched = @ \cup ({s} \X ChangedTimes(s, after))]
  BY DEF Prune
<1> DEFINE start == call[c].start
           after == PruneWindow(window[s], start)
           rest == call[c].pruning \ {s}
           evicted == IF Evicts(window[s], start) THEN call[c].evicted \cup {s}
                      ELSE call[c].evicted
           touched == call[c].touched \cup ({s} \X ChangedTimes(s, after))
<1>2. /\ call[c].pc = "pruning" /\ start \in Int
      /\ s \in SequenceIds
      /\ WindowOK(window[s]) /\ call \in [Callers -> Calls]
  <2>1. call[c] \in Calls
    BY DEF WindowInv
  <2>2. call[c].pc = "pruning"
    BY DEF Prune
  <2>3. s \in SequenceIds /\ start \in Int
    BY <2>1 DEF Calls
  <2> QED BY <2>1, <2>2, <2>3 DEF WindowInv
<1>3. /\ window' = [window EXCEPT ![s] = after]
      /\ call' = [call EXCEPT ![c].pruning = rest, ![c].evicted = evicted,
                              ![c].touched = touched]
  BY <1>1
<1> HIDE DEF start
<1>4. WindowOK(after)
      /\ Live(after) = Restrict(Live(window[s]),
                                {t \in DOMAIN Live(window[s]) : t >= start})
  BY <1>2, PruneIs
<1> HIDE DEF after, rest, evicted, touched
<1>5. /\ call'[c] = [call[c] EXCEPT !.pruning = rest, !.evicted = evicted,
                                    !.touched = touched]
      /\ call' \in [Callers -> {call'[d] : d \in Callers}]
      /\ \A d \in Callers : d # c => call'[d] = call[d]
  BY <1>2, <1>3
<1> QED BY <1>2, <1>3, <1>4, <1>5 DEF start, after, rest, evicted, touched

(* A call that begins, or that prunes only.                                *)
LEMMA BeginStep ==
  ASSUME WindowInv, NEW c \in Callers, Begin(c)
  PROVE  /\ call[c] \in Calls /\ call[c].pc = "idle"
         /\ window' = window
         /\ \E batch \in Batches, n \in {size} \cup Sizes, mark \in Int,
               next \in 0 .. MaxGeneration :
              /\ size' = n /\ watermark' = mark /\ generation' = next
              /\ known' = known \cup SequencesOf(batch)
              /\ call' = [call EXCEPT
                   ![c] = [Idle EXCEPT
                             !.pc = "inserting", !.batch = batch,
                             !.start = WindowStart(mark, n),
                             !.inserting = SequencesOf(batch),
                             !.pruning = known \cup SequencesOf(batch),
                             !.generation = next]]
<1>1. PICK batch \in Batches, n \in {size} \cup Sizes :
        LET mark == MarkAfter(batch)
            next == NextGeneration(generation)
        IN /\ size' = n
           /\ watermark' = mark
           /\ generation' = next
           /\ known' = known \cup SequencesOf(batch)
           /\ call' = [call EXCEPT
                         ![c] = [Idle EXCEPT
                                   !.pc = "inserting", !.batch = batch,
                                   !.start = WindowStart(mark, n),
                                   !.inserting = SequencesOf(batch),
                                   !.pruning = known',
                                   !.generation = next]]
  BY DEF Begin
<1> DEFINE mark == MarkAfter(batch)
           next == NextGeneration(generation)
<1>2. Greatest(TimesOf(batch)) \in Int
  BY BatchIs
<1>3. mark \in Int
  <2>1. Len(batch) \in DOMAIN batch /\ batch[Len(batch)].time \in Int
    BY BatchIs
  <2> HIDE DEF mark
  <2>2. mark = MarkAfter(batch)
    BY DEF mark
  <2> QED BY <1>2, <2>1, <2>2 DEF MarkAfter, WindowInv
<1>4. next \in 0 .. MaxGeneration
  <2>1. generation \in 0 .. MaxGeneration /\ MaxGeneration \in Nat
    BY WindowServiceAssumption DEF WindowInv
  <2> QED BY <2>1 DEF NextGeneration
<1>5. /\ size' = n /\ watermark' = mark /\ generation' = next
      /\ known' = known \cup SequencesOf(batch)
      /\ call' = [call EXCEPT
                    ![c] = [Idle EXCEPT
                              !.pc = "inserting", !.batch = batch,
                              !.start = WindowStart(mark, n),
                              !.inserting = SequencesOf(batch),
                              !.pruning = known \cup SequencesOf(batch),
                              !.generation = next]]
  BY <1>1
<1>6. call[c] \in Calls /\ call[c].pc = "idle" /\ window' = window
  BY DEF WindowInv, Begin
<1> HIDE DEF mark, next
<1> QED BY <1>3, <1>4, <1>5, <1>6

(* A call that prunes every sequence, or has nothing to prune.             *)
LEMMA PruneAllIs ==
  ASSUME WindowInv, NEW c \in Callers, NEW n \in Nat, PruneAll(c, n)
  PROVE  /\ call'[c] \in Calls /\ CallShape(call'[c]) /\ Covered(call'[c])
         /\ call' \in [Callers -> {call'[d] : d \in Callers}]
         /\ \A d \in Callers : d # c => call'[d] = call[d]
<1> DEFINE r == [Idle EXCEPT !.pc = "pruning", !.start = WindowStart(watermark, n),
                             !.pruning = known]
<1>1. call \in [Callers -> Calls] /\ known \subseteq SequenceIds
  BY DEF WindowInv
<1>2. CASE watermark = NoTime
  <2>1. call' = [call EXCEPT ![c] = Idle]
    BY <1>2 DEF PruneAll
  <2> QED BY <1>1, <2>1, IdleIs
<1>3. CASE watermark # NoTime
  <2>1. call' = [call EXCEPT ![c] = r]
    BY <1>3 DEF PruneAll
  <2> DEFINE start == WindowStart(watermark, n)
  <2>2. start \in Int
    BY <1>3, StartIs DEF WindowInv
  <2>3. r = [Idle EXCEPT !.pc = "pruning", !.start = start, !.pruning = known]
    OBVIOUS
  <2> HIDE DEF start
  <2>4. r \in Calls /\ CallShape(r) /\ Covered(r)
    <3> HIDE DEF r
    <3>1. /\ r \in Calls /\ r.pc = "pruning" /\ r.inserting = {} /\ r.safe = {}
          /\ r.touched = {}
      BY <1>1, <2>2, <2>3, IdleIs DEF Calls, Idle
    <3> QED BY <3>1 DEF CallShape, Covered
  <2> HIDE DEF r
  <2> QED BY <1>1, <2>1, <2>4
<1> QED BY <1>2, <1>3

(* What an insertion changes lies among the times it carries.              *)
LEMMA InsertCovers ==
  ASSUME NEW s, NEW after, NEW data \in Seq(Points), data # <<>>,
         WindowOK(window[s]),
         Live(after) = Over(LastWins(data), Live(window[s])),
         NEW t \in ChangedTimes(s, after)
  PROVE  /\ TimesOf(data) # {} /\ t \in Int
         /\ t \in Least(TimesOf(data)) .. Greatest(TimesOf(data))
<1> DEFINE old == Live(window[s])
           f == LastWins(data)
           S == TimesOf(data)
<1>1. IsMap(old) /\ IsMap(f) /\ DOMAIN f = S /\ TimeSet(S)
  BY ActiveIs, LastWinsIs, VectorTimes DEF WindowOK
<1>2. /\ t \in DOMAIN old \cup DOMAIN Live(after)
      /\ ~(t \in DOMAIN old /\ t \in DOMAIN Live(after) /\ old[t] = Live(after)[t])
  BY ChangedIs
<1>3. Live(after) = Over(f, old)
  OBVIOUS
<1> HIDE DEF old, f
<1>4. DOMAIN Live(after) = (DOMAIN f) \cup DOMAIN old
      /\ \A u \in (DOMAIN old) \ (DOMAIN f) : Live(after)[u] = old[u]
  BY <1>3 DEF Over
<1>5. t \in S
  BY <1>1, <1>2, <1>4
<1> HIDE DEF S
<1>6. /\ Least(S) \in S /\ Least(S) <= t
      /\ Greatest(S) \in S /\ Greatest(S) >= t
  BY <1>1, <1>5, LeastIs, GreatestIs DEF TimeSet
<1>7. t \in Int /\ Least(S) \in Int /\ Greatest(S) \in Int
  BY <1>1, <1>5, <1>6 DEF TimeSet
<1> QED BY <1>5, <1>6, <1>7 DEF S

(* What a pruning changes was older than the start, and is evicted.        *)
LEMMA PruneCovers ==
  ASSUME NEW s, NEW after, NEW start \in Int, WindowOK(window[s]),
         Live(after) = Restrict(Live(window[s]),
                                {t \in DOMAIN Live(window[s]) : t >= start}),
         NEW t \in ChangedTimes(s, after)
  PROVE  t \in Int /\ t < start /\ Evicts(window[s], start)
<1> DEFINE old == Live(window[s])
           kept == {u \in DOMAIN old : u >= start}
<1>1. IsMap(old)
  BY ActiveIs DEF WindowOK
<1>2. /\ t \in DOMAIN old \cup DOMAIN Live(after)
      /\ ~(t \in DOMAIN old /\ t \in DOMAIN Live(after) /\ old[t] = Live(after)[t])
  BY ChangedIs
<1>3. Live(after) = Restrict(old, kept) /\ kept \subseteq DOMAIN old
  OBVIOUS
<1> HIDE DEF old
<1>4. DOMAIN Live(after) = kept /\ \A u \in kept : Live(after)[u] = old[u]
  <2> HIDE DEF kept
  <2> QED BY <1>1, <1>3, RestrictIs
<1>5. t \in DOMAIN old /\ ~(t >= start)
  BY <1>2, <1>3, <1>4
<1>6. t \in Int /\ t < start
  BY <1>1, <1>5 DEF IsMap, TimeSet
<1> QED BY <1>5, <1>6, EvictsIs DEF old

LEMMA InsertKeeps ==
  ASSUME WindowInv, NEW c \in Callers, Insert(c)
  PROVE  WindowInv'
<1>1. PICK s \in call[c].inserting :
        LET data == IncomingFor(call[c].batch, s)
            after == InsertPoints(window[s], data)
        IN /\ s \in SequenceIds /\ call[c].pc = "inserting"
           /\ call[c].batch \in Batches
           /\ data \in Seq(Points) /\ data # <<>>
           /\ WindowOK(after)
           /\ Live(after) = Over(LastWins(data), Live(window[s]))
           /\ window' = [window EXCEPT ![s] = after]
           /\ call'[c] = [call[c] EXCEPT
                !.inserting = call[c].inserting \ {s},
                !.pc = IF call[c].inserting \ {s} = {} THEN "pruning"
                       ELSE "inserting",
                !.safe = IF AppendOnly(window[s], data)
                         THEN call[c].safe \cup {s} ELSE call[c].safe,
                !.touched = call[c].touched \cup ({s} \X ChangedTimes(s, after))]
           /\ call' \in [Callers -> {call'[d] : d \in Callers}]
           /\ \A d \in Callers : d # c => call'[d] = call[d]
  BY InsertStep
<1> DEFINE data == IncomingFor(call[c].batch, s)
           after == InsertPoints(window[s], data)
           old == call[c]
           new == call'[c]
           pc == IF old.inserting \ {s} = {} THEN "pruning" ELSE "inserting"
           safe == IF AppendOnly(window[s], data) THEN old.safe \cup {s} ELSE old.safe
           changes == {s} \X ChangedTimes(s, after)
<1>2. /\ s \in SequenceIds /\ old.pc = "inserting" /\ old.batch \in Batches
      /\ data \in Seq(Points) /\ data # <<>> /\ WindowOK(after)
      /\ Live(after) = Over(LastWins(data), Live(window[s]))
      /\ window' = [window EXCEPT ![s] = after]
      /\ new = [old EXCEPT !.inserting = old.inserting \ {s}, !.pc = pc,
                           !.safe = safe, !.touched = old.touched \cup changes]
      /\ call' \in [Callers -> {call'[d] : d \in Callers}]
      /\ \A d \in Callers : d # c => call'[d] = call[d]
  BY <1>1
<1>3. /\ old \in Calls /\ CallShape(old) /\ Covered(old) /\ WindowOK(window[s])
      /\ window = [q \in SequenceIds |-> window[q]]
  BY <1>2 DEF WindowInv
<1>4. ASSUME NEW t \in ChangedTimes(s, after)
      PROVE  /\ TimesOf(data) # {} /\ t \in Int
             /\ t \in Least(TimesOf(data)) .. Greatest(TimesOf(data))
  <2> HIDE DEF after, data
  <2> QED BY <1>2, <1>3, InsertCovers
<1>5. changes \subseteq SequenceIds \X Int
  BY <1>2, <1>4
<1>6. safe \subseteq SequenceIds /\ safe \subseteq old.safe \cup {s}
  BY <1>2, <1>3 DEF Calls
<1>7. pc \in {"inserting", "pruning"} /\ (pc = "pruning" => old.inserting \ {s} = {})
  OBVIOUS
<1> HIDE DEF old, new, pc, safe, changes, after
<1>8. /\ new.pc = pc /\ new.batch = old.batch /\ new.start = old.start
      /\ new.inserting = old.inserting \ {s} /\ new.pruning = old.pruning
      /\ new.safe = safe /\ new.evicted = old.evicted
      /\ new.touched = old.touched \cup changes
      /\ new \in Calls
  BY <1>2, <1>3, <1>5, <1>6, <1>7 DEF Calls
<1>9. CallShape(new)
  BY <1>2, <1>3, <1>6, <1>7, <1>8 DEF CallShape
<1>10. Covered(new)
  <2> SUFFICES ASSUME NEW change \in new.touched
               PROVE  LET incoming == TimesOf(IncomingFor(new.batch, change[1])) IN
                      \/ change[1] \in new.evicted /\ change[2] < new.start
                      \/ /\ incoming # {}
                         /\ change[2] \in Least(incoming) .. Greatest(incoming)
    BY DEF Covered
  <2>1. CASE change \in old.touched
    BY <1>3, <1>8, <2>1 DEF Covered
  <2>2. CASE change \in changes
    <3>1. change[1] = s /\ change[2] \in ChangedTimes(s, after)
      BY <2>2 DEF changes
    <3>2. IncomingFor(new.batch, change[1]) = data
      BY <1>8, <3>1 DEF old
    <3> HIDE DEF data
    <3> QED BY <1>4, <3>1, <3>2
  <2> QED BY <1>8, <2>1, <2>2
<1>11. \A d \in Callers :
         call'[d] \in Calls /\ CallShape(call'[d]) /\ Covered(call'[d])
  BY <1>2, <1>8, <1>9, <1>10 DEF WindowInv, new
<1>12. call' \in [Callers -> Calls]
  BY <1>2, <1>11
<1>13. /\ window' = [q \in SequenceIds |-> window'[q]]
       /\ \A q \in SequenceIds : WindowOK(window'[q])
  <2>1. \A q \in SequenceIds : window'[q] = IF q = s THEN after ELSE window[q]
    BY <1>2, <1>3
  <2>2. \A q \in SequenceIds : WindowOK(window[q])
    BY DEF WindowInv
  <2> QED BY <1>2, <1>3, <2>1, <2>2
<1>14. UNCHANGED metadataVars
  BY DEF Insert
<1> QED BY <1>11, <1>12, <1>13, <1>14 DEF WindowInv, metadataVars

LEMMA PruneKeeps ==
  ASSUME WindowInv, NEW c \in Callers, Prune(c)
  PROVE  WindowInv'
<1>1. PICK s \in call[c].pruning :
        LET after == PruneWindow(window[s], call[c].start)
        IN /\ s \in SequenceIds /\ call[c].pc = "pruning"
           /\ call[c].start \in Int
           /\ WindowOK(after)
           /\ Live(after) = Restrict(Live(window[s]),
                                     {t \in DOMAIN Live(window[s]) :
                                        t >= call[c].start})
           /\ window' = [window EXCEPT ![s] = after]
           /\ call'[c] = [call[c] EXCEPT
                !.pruning = call[c].pruning \ {s},
                !.evicted = IF Evicts(window[s], call[c].start)
                            THEN call[c].evicted \cup {s} ELSE call[c].evicted,
                !.touched = call[c].touched \cup ({s} \X ChangedTimes(s, after))]
           /\ call' \in [Callers -> {call'[d] : d \in Callers}]
           /\ \A d \in Callers : d # c => call'[d] = call[d]
  BY PruneStep
<1> DEFINE start == call[c].start
           after == PruneWindow(window[s], start)
           old == call[c]
           new == call'[c]
           evicted == IF Evicts(window[s], start) THEN old.evicted \cup {s}
                      ELSE old.evicted
           changes == {s} \X ChangedTimes(s, after)
<1>2. /\ s \in SequenceIds /\ old.pc = "pruning" /\ start \in Int /\ start = old.start
      /\ WindowOK(after)
      /\ Live(after) = Restrict(Live(window[s]),
                                {t \in DOMAIN Live(window[s]) : t >= start})
      /\ window' = [window EXCEPT ![s] = after]
      /\ new = [old EXCEPT !.pruning = old.pruning \ {s}, !.evicted = evicted,
                           !.touched = old.touched \cup changes]
      /\ call' \in [Callers -> {call'[d] : d \in Callers}]
      /\ \A d \in Callers : d # c => call'[d] = call[d]
  BY <1>1
<1>3. /\ old \in Calls /\ CallShape(old) /\ Covered(old) /\ WindowOK(window[s])
      /\ window = [q \in SequenceIds |-> window[q]]
  BY <1>2 DEF WindowInv
<1> HIDE DEF after, start
<1>4. ASSUME NEW t \in ChangedTimes(s, after)
      PROVE  t \in Int /\ t < start /\ Evicts(window[s], start)
  BY <1>2, <1>3, PruneCovers
<1>5. changes \subseteq SequenceIds \X Int
  BY <1>2, <1>4
<1>6. /\ evicted \subseteq SequenceIds /\ old.evicted \subseteq evicted
      /\ Evicts(window[s], start) => s \in evicted
  BY <1>2, <1>3 DEF Calls
<1> HIDE DEF old, new, evicted, changes
<1>7. /\ new.pc = old.pc /\ new.batch = old.batch /\ new.start = old.start
      /\ new.inserting = old.inserting /\ new.pruning = old.pruning \ {s}
      /\ new.safe = old.safe /\ new.evicted = evicted
      /\ new.touched = old.touched \cup changes
      /\ new \in Calls
  BY <1>2, <1>3, <1>5, <1>6 DEF Calls
<1>8. CallShape(new)
  BY <1>2, <1>3, <1>7 DEF CallShape
<1>9. Covered(new)
  <2> SUFFICES ASSUME NEW change \in new.touched
               PROVE  LET incoming == TimesOf(IncomingFor(new.batch, change[1])) IN
                      \/ change[1] \in new.evicted /\ change[2] < new.start
                      \/ /\ incoming # {}
                         /\ change[2] \in Least(incoming) .. Greatest(incoming)
    BY DEF Covered
  <2>1. CASE change \in old.touched
    BY <1>3, <1>6, <1>7, <2>1 DEF Covered
  <2>2. CASE change \in changes
    <3>1. change[1] = s /\ change[2] \in ChangedTimes(s, after)
      BY <2>2 DEF changes
    <3> QED BY <1>2, <1>4, <1>6, <1>7, <3>1
  <2> QED BY <1>7, <2>1, <2>2
<1>10. \A d \in Callers :
         call'[d] \in Calls /\ CallShape(call'[d]) /\ Covered(call'[d])
  BY <1>2, <1>7, <1>8, <1>9 DEF WindowInv, new
<1>11. call' \in [Callers -> Calls]
  BY <1>2, <1>10
<1>12. /\ window' = [q \in SequenceIds |-> window'[q]]
       /\ \A q \in SequenceIds : WindowOK(window'[q])
  <2>1. \A q \in SequenceIds : window'[q] = IF q = s THEN after ELSE window[q]
    BY <1>2, <1>3
  <2>2. \A q \in SequenceIds : WindowOK(window[q])
    BY DEF WindowInv
  <2> QED BY <1>2, <1>3, <2>1, <2>2
<1>13. UNCHANGED metadataVars
  BY DEF Prune
<1> QED BY <1>10, <1>11, <1>12, <1>13 DEF WindowInv, metadataVars

LEMMA BeginKeeps ==
  ASSUME WindowInv, NEW c \in Callers, Begin(c)
  PROVE  WindowInv'
<1>1. PICK batch \in Batches, n \in {size} \cup Sizes, mark \in Int,
           next \in 0 .. MaxGeneration :
        /\ size' = n /\ watermark' = mark /\ generation' = next
        /\ known' = known \cup SequencesOf(batch)
        /\ call' = [call EXCEPT
             ![c] = [Idle EXCEPT
                       !.pc = "inserting", !.batch = batch,
                       !.start = WindowStart(mark, n),
                       !.inserting = SequencesOf(batch),
                       !.pruning = known \cup SequencesOf(batch),
                       !.generation = next]]
  BY BeginStep
<1> DEFINE start == WindowStart(mark, n)
           mine == SequencesOf(batch)
           all == known \cup mine
           new == [Idle EXCEPT !.pc = "inserting", !.batch = batch, !.start = start,
                               !.inserting = mine, !.pruning = all,
                               !.generation = next]
<1>2. n \in Nat \ {0}
  BY WindowServiceAssumption DEF WindowInv
<1>3. start \in Int
  BY <1>2, StartIs
<1>4. mine \subseteq SequenceIds /\ all \subseteq SequenceIds
  BY BatchIs DEF WindowInv
<1>5. call' = [call EXCEPT ![c] = new] /\ known' = all /\ mine = SequencesOf(batch)
  BY <1>1
<1> HIDE DEF start, mine, all
<1>6. new = [pc |-> "inserting", batch |-> batch, start |-> start,
             inserting |-> mine, pruning |-> all, generation |-> next,
             safe |-> {}, evicted |-> {}, touched |-> {}]
  <2>1. new = [Idle EXCEPT !.pc = "inserting", !.batch = batch, !.start = start,
                           !.inserting = mine, !.pruning = all,
                           !.generation = next]
    OBVIOUS
  <2>2. Idle = [pc |-> "idle", batch |-> NoBatch, start |-> MinTime,
                inserting |-> {}, pruning |-> {}, generation |-> 0,
                safe |-> {}, evicted |-> {}, touched |-> {}]
    BY DEF Idle
  <2> HIDE DEF new
  <2> QED BY <2>1, <2>2
<1> HIDE DEF new
<1>7. new \in Calls
  BY <1>3, <1>4, <1>6 DEF Calls
<1>8. CallShape(new) /\ Covered(new)
  BY <1>5, <1>6 DEF CallShape, Covered
<1>9. /\ call' \in [Callers -> Calls]
      /\ \A d \in Callers : CallShape(call'[d]) /\ Covered(call'[d])
  BY <1>5, <1>7, <1>8 DEF WindowInv
<1>10. window' = window
  BY BeginStep
<1> QED BY <1>1, <1>2, <1>4, <1>5, <1>9, <1>10 DEF WindowInv

LEMMA PruneAllKeeps ==
  ASSUME WindowInv, NEW c \in Callers, NEW n \in Nat \ {0}, PruneAll(c, n),
         size' = n, UNCHANGED <<known, window, watermark, generation>>
  PROVE  WindowInv'
<1>1. /\ call'[c] \in Calls /\ CallShape(call'[c]) /\ Covered(call'[c])
      /\ call' \in [Callers -> {call'[d] : d \in Callers}]
      /\ \A d \in Callers : d # c => call'[d] = call[d]
  BY PruneAllIs
<1>2. \A d \in Callers :
        call'[d] \in Calls /\ CallShape(call'[d]) /\ Covered(call'[d])
  BY <1>1 DEF WindowInv
<1>3. call' \in [Callers -> Calls]
  BY <1>1, <1>2
<1> QED BY <1>2, <1>3 DEF WindowInv

(* A derived write gives its sequence another good window.                 *)
LEMMA WriteKeeps ==
  ASSUME WindowInv, NEW s \in SequenceIds, NEW after, WindowOK(after),
         window' = [window EXCEPT ![s] = after],
         known' = known \cup {s}, UNCHANGED <<watermark, size, generation>>,
         call' \in [Callers -> Calls],
         \A c \in Callers : CallShape(call'[c]) /\ Covered(call'[c])
  PROVE  WindowInv'
<1>1. /\ window' = [q \in SequenceIds |-> window'[q]]
      /\ \A q \in SequenceIds : window'[q] = IF q = s THEN after ELSE window[q]
  BY DEF WindowInv
<1>2. \A q \in SequenceIds : WindowOK(window[q])
  BY DEF WindowInv
<1>3. \A q \in SequenceIds : WindowOK(window'[q])
  BY <1>1, <1>2
<1>4. known' \subseteq SequenceIds /\ watermark' \in Int \cup {NoTime}
      /\ size' \in Nat \ {0} /\ generation' \in 0 .. MaxGeneration
  BY DEF WindowInv
<1> QED BY <1>1, <1>3, <1>4 DEF WindowInv

LEMMA ReplaceKeeps ==
  ASSUME WindowInv, NEW c \in Callers, ReplaceDerived(c)
  PROVE  WindowInv'
<1>1. PICK s \in DerivedIds, data \in DerivedBatches :
        /\ window' = [window EXCEPT ![s] = ReplaceWindow(data)]
        /\ known' = known \cup {s}
  BY DEF ReplaceDerived
<1>2. s \in SequenceIds /\ WindowOK(ReplaceWindow(data))
  BY WindowServiceAssumption, BatchAssumption, ReplaceIs
<1>3. /\ call[c].pc = "idle" /\ call' = [call EXCEPT ![c].pc = "replaced"]
      /\ call \in [Callers -> Calls] /\ CallShape(call[c]) /\ Covered(call[c])
  BY DEF ReplaceDerived, WindowInv
<1> DEFINE old == call[c]
           new == [old EXCEPT !.pc = "replaced"]
<1>4. /\ new \in Calls /\ new.pc = "replaced" /\ new.inserting = old.inserting
      /\ new.pruning = old.pruning /\ new.batch = old.batch /\ new.safe = old.safe
      /\ new.touched = old.touched /\ new.evicted = old.evicted
      /\ new.start = old.start
  <2>1. old \in Calls
    BY <1>3
  <2> HIDE DEF old
  <2> QED BY <2>1 DEF Calls
<1>5. call' = [call EXCEPT ![c] = new]
  BY <1>3
<1> HIDE DEF new
<1>6. CallShape(new) /\ Covered(new)
  BY <1>3, <1>4 DEF CallShape, Covered
<1>7. /\ call' \in [Callers -> Calls]
      /\ \A d \in Callers : CallShape(call'[d]) /\ Covered(call'[d])
  BY <1>3, <1>4, <1>5, <1>6 DEF WindowInv
<1>8. UNCHANGED <<watermark, size, generation>>
  BY DEF ReplaceDerived
<1> QED BY <1>1, <1>2, <1>7, <1>8, WriteKeeps

LEMMA PatchStep ==
  ASSUME WindowInv, NEW c \in Callers, PatchDerived(c)
  PROVE  \E s \in SequenceIds, range \in Patches, data \in DerivedBatches :
           LET after == PatchWindow(window[s], range[1], range[2], data) IN
           /\ TimesOf(data) \subseteq range[1] .. range[2]
           /\ WindowOK(after)
           /\ Live(after) = Over(LastWins(data),
                                 Restrict(Live(window[s]),
                                          DOMAIN Live(window[s])
                                            \ (range[1] .. range[2])))
           /\ window' = [window EXCEPT ![s] = after]
           /\ known' = known \cup {s}
           /\ UNCHANGED <<watermark, size, generation, call>>
<1>1. PICK s \in DerivedIds, range \in Patches, data \in DerivedBatches :
        /\ TimesOf(data) \subseteq range[1] .. range[2]
        /\ window' = [window EXCEPT
                        ![s] = PatchWindow(@, range[1], range[2], data)]
        /\ known' = known \cup {s}
  BY DEF PatchDerived
<1> DEFINE start == range[1]
           end == range[2]
           after == PatchWindow(window[s], start, end, data)
<1>2. /\ s \in SequenceIds /\ start \in Int /\ end \in Int /\ start <= end
      /\ data \in Seq(Points)
  BY WindowServiceAssumption, BatchAssumption
<1>3. WindowOK(window[s])
  BY <1>2 DEF WindowInv
<1>4. UNCHANGED <<watermark, size, generation, call>>
  BY DEF PatchDerived
<1>5. window' = [window EXCEPT ![s] = after]
      /\ TimesOf(data) \subseteq start .. end
  BY <1>1
<1> HIDE DEF start, end
<1>6. /\ WindowOK(after)
      /\ Live(after) = Over(LastWins(data),
                            Restrict(Live(window[s]),
                                     DOMAIN Live(window[s]) \ (start .. end)))
  BY <1>2, <1>3, PatchIs
<1> HIDE DEF after
<1> QED BY <1>1, <1>2, <1>4, <1>5, <1>6 DEF after, start, end

LEMMA PatchKeeps ==
  ASSUME WindowInv, NEW c \in Callers, PatchDerived(c)
  PROVE  WindowInv'
<1>1. PICK s \in SequenceIds, range \in Patches, data \in DerivedBatches :
        LET after == PatchWindow(window[s], range[1], range[2], data) IN
        /\ WindowOK(after)
        /\ window' = [window EXCEPT ![s] = after]
        /\ known' = known \cup {s}
        /\ UNCHANGED <<watermark, size, generation, call>>
  BY PatchStep
<1>2. /\ call' \in [Callers -> Calls]
      /\ \A d \in Callers : CallShape(call'[d]) /\ Covered(call'[d])
  BY <1>1 DEF WindowInv
<1> QED BY <1>1, <1>2, WriteKeeps

LEMMA QueryKeeps ==
  ASSUME WindowInv, QueryStatistics
  PROVE  WindowInv'
<1>1. PICK s \in known : window' = [window EXCEPT ![s] = RebuildStatistics(@)]
  BY DEF QueryStatistics
<1> DEFINE after == RebuildStatistics(window[s])
<1>2. s \in SequenceIds /\ known = known \cup {s}
  BY DEF WindowInv
<1>3. WindowOK(after)
  BY <1>2, RebuildIs DEF WindowInv
<1>4. window' = [window EXCEPT ![s] = after]
  BY <1>1
<1> HIDE DEF after
<1>5. UNCHANGED <<known, watermark, size, generation, call>>
  BY DEF QueryStatistics, metadataVars
<1>6. /\ call' \in [Callers -> Calls]
      /\ \A d \in Callers : CallShape(call'[d]) /\ Covered(call'[d])
  BY <1>5 DEF WindowInv
<1> QED BY <1>2, <1>3, <1>4, <1>5, <1>6, WriteKeeps

LEMMA WindowNext ==
  ASSUME WindowInv, [Next]_vars
  PROVE  WindowInv'
<1>1. ASSUME NEW c \in Callers, CallerStep(c)
      PROVE  WindowInv'
  <2>1. CASE Begin(c)
    BY <2>1, BeginKeeps
  <2>2. CASE Insert(c)
    BY <2>2, InsertKeeps
  <2>3. CASE Prune(c)
    BY <2>3, PruneKeeps
  <2>4. CASE Return(c)
    <3>1. call' = [call EXCEPT ![c] = Idle] /\ UNCHANGED <<metadataVars, window>>
      BY <2>4 DEF Return
    <3>2. call \in [Callers -> Calls]
      BY DEF WindowInv
    <3>3. /\ call' \in [Callers -> Calls]
          /\ \A d \in Callers : CallShape(call'[d]) /\ Covered(call'[d])
      BY <3>1, <3>2, IdleIs DEF WindowInv
    <3> QED BY <3>1, <3>3 DEF WindowInv, metadataVars
  <2>5. CASE ReplaceDerived(c)
    BY <2>5, ReplaceKeeps
  <2>6. CASE ReplacedDerived(c)
    <3>1. size \in Nat \ {0}
      BY DEF WindowInv
    <3>2. PruneAll(c, size) /\ UNCHANGED <<known, window, watermark, generation, size>>
      BY <2>6 DEF ReplacedDerived, metadataVars
    <3> QED BY <3>1, <3>2, PruneAllKeeps
  <2>7. CASE PatchDerived(c)
    BY <2>7, PatchKeeps
  <2>8. CASE ConfigureWindowSize(c)
    <3>1. PICK n \in Sizes : size' = n /\ PruneAll(c, n)
      BY <2>8 DEF ConfigureWindowSize
    <3>2. n \in Nat \ {0} /\ UNCHANGED <<known, window, watermark, generation>>
      BY <2>8, WindowServiceAssumption DEF ConfigureWindowSize
    <3> QED BY <3>1, <3>2, PruneAllKeeps
  <2> QED BY <1>1, <2>1, <2>2, <2>3, <2>4, <2>5, <2>6, <2>7, <2>8 DEF CallerStep
<1>2. CASE QueryStatistics
  BY <1>2, QueryKeeps
<1>3. CASE UNCHANGED vars
  BY <1>3 DEF vars, metadataVars, WindowInv
<1> QED BY <1>1, <1>2, <1>3 DEF Next

(* A good window is ordered, and has an unbroken left edge.                *)
LEMMA OrderedIs ==
  ASSUME NEW w, WindowOK(w)
  PROVE  WindowOrdered(w)
<1>1. /\ Len(w.points) \in Nat /\ w.activeBegin \in 0 .. Len(w.points)
      /\ Sorted(w.points)
  BY VectorTimes DEF WindowOK, WindowShape, Sorted
<1>2. ASSUME NEW i \in 1 .. (Len(w.points) - 1)
      PROVE  w.points[i].time < w.points[i + 1].time
  <2>1. i \in 1 .. Len(w.points) /\ i + 1 \in 1 .. Len(w.points) /\ i < i + 1
    BY <1>1
  <2> QED BY <1>1, <2>1 DEF Sorted
<1>3. \A t \in DOMAIN Live(w) : w.latest # NoTime /\ t <= w.latest
  BY LiveBounded
<1> QED BY <1>1, <1>2, <1>3 DEF WindowOrdered, StrictlyIncreasing

(* The invariant behind the properties of the service: every window has a  *)
(* sorted vector and late points that latest_time bounds, and every call   *)
(* has reported what it changed so far.                                    *)
THEOREM WindowInvariant ==
  Spec => []WindowInv
<1> QED BY WindowInit, WindowNext, PTL DEF Spec

(* Whatever appends, late merges, evictions, patches and compactions it    *)
(* went through, a window stays strictly sorted by time and bounded by its *)
(* latest_time (std::lower_bound and append_only rely on both).            *)
THEOREM WindowsStayOrdered ==
  Spec => [](\A s \in SequenceIds : WindowOrdered(window[s]))
<1>1. WindowInv => \A s \in SequenceIds : WindowOrdered(window[s])
  BY OrderedIs DEF WindowInv
<1> QED BY <1>1, WindowInvariant, PTL

(* The result of an update names every change it made: in the range of the *)
(* points it carries, or before the window in a sequence marked evicted.   *)
THEOREM ReportsCover ==
  Spec => []ReportCovers
<1>1. WindowInv => ReportCovers
  <2> SUFFICES ASSUME WindowInv, NEW c \in Callers, NEW change \in call[c].touched
               PROVE  LET s == change[1]
                          t == change[2]
                          incoming == TimesOf(IncomingFor(call[c].batch, s))
                      IN \/ s \in call[c].evicted /\ t < call[c].start
                         \/ incoming # {}
                            /\ t \in Least(incoming) .. Greatest(incoming)
    BY DEF ReportCovers
  <2>1. Covered(call[c])
    BY DEF WindowInv
  <2> QED BY <2>1 DEF Covered
<1> QED BY <1>1, WindowInvariant, PTL
-----------------------------------------------------------------------------
(***************************************************************************)
(* What a step does to one sequence.                                       *)
(***************************************************************************)
(* A caller's step leaves the calls of the others alone.                   *)
LEMMA CallsApart ==
  ASSUME WindowInv, NEW c \in Callers, NEW d \in Callers, d # c, CallerStep(d)
  PROVE  call'[c] = call[c]
<1>1. call \in [Callers -> Calls]
  BY DEF WindowInv
<1>2. CASE Begin(d)
  BY <1>1, <1>2, BeginStep
<1>3. CASE Insert(d)
  BY <1>3, InsertStep
<1>4. CASE Prune(d)
  BY <1>4, PruneStep
<1>5. CASE Return(d)
  BY <1>1, <1>5 DEF Return
<1>6. CASE ReplaceDerived(d)
  BY <1>1, <1>6 DEF ReplaceDerived
<1>7. ASSUME NEW n, PruneAll(d, n) PROVE call'[c] = call[c]
  BY <1>1, <1>7 DEF PruneAll
<1>8. CASE ReplacedDerived(d)
  BY <1>7, <1>8 DEF ReplacedDerived
<1>9. CASE PatchDerived(d)
  BY <1>9 DEF PatchDerived
<1>10. CASE ConfigureWindowSize(d)
  BY <1>7, <1>10 DEF ConfigureWindowSize
<1> QED BY <1>2, <1>3, <1>4, <1>5, <1>6, <1>8, <1>9, <1>10 DEF CallerStep

LEMMA InsertedIs ==
  ASSUME WindowInv, [Next]_vars, NEW c \in Callers, NEW s, Inserted(c, s)
  PROVE  LET data == IncomingFor(call[c].batch, s) IN
         /\ s \in SequenceIds /\ data \in Seq(Points) /\ data # <<>>
         /\ WindowOK(window[s])
         /\ Live(window'[s]) = Over(LastWins(data), Live(window[s]))
         /\ s \in call'[c].safe => AppendOnly(window[s], data)
         /\ call' # call
<1> DEFINE data == IncomingFor(call[c].batch, s)
<1>1. /\ s \in call[c].inserting /\ s \notin call'[c].inserting
      /\ call[c] \in Calls /\ CallShape(call[c])
  BY DEF Inserted, WindowInv
<1>2. call[c].pc = "inserting" /\ s \notin call[c].safe /\ call'[c] # call[c]
  BY <1>1 DEF CallShape
<1>3. PICK d \in Callers : CallerStep(d)
  BY <1>2 DEF Next, QueryStatistics, vars
<1>4. d = c
  BY <1>2, <1>3, CallsApart
<1>5. Insert(c)
  BY <1>2, <1>3, <1>4
     DEF CallerStep, Begin, Prune, Return, ReplaceDerived, ReplacedDerived,
         PatchDerived, ConfigureWindowSize
<1>6. PICK q \in call[c].inserting :
        LET more == IncomingFor(call[c].batch, q)
            after == InsertPoints(window[q], more)
        IN /\ q \in SequenceIds
           /\ more \in Seq(Points) /\ more # <<>>
           /\ Live(after) = Over(LastWins(more), Live(window[q]))
           /\ window' = [window EXCEPT ![q] = after]
           /\ call'[c] = [call[c] EXCEPT
                !.inserting = call[c].inserting \ {q},
                !.pc = IF call[c].inserting \ {q} = {} THEN "pruning"
                       ELSE "inserting",
                !.safe = IF AppendOnly(window[q], more)
                         THEN call[c].safe \cup {q} ELSE call[c].safe,
                !.touched = call[c].touched \cup ({q} \X ChangedTimes(q, after))]
  BY <1>5, InsertStep
<1> DEFINE old == call[c]
           new == call'[c]
           rest(p) == old.inserting \ {p}
           pc(p) == IF rest(p) = {} THEN "pruning" ELSE "inserting"
           more(p) == IncomingFor(call[c].batch, p)
           after(p) == InsertPoints(window[p], more(p))
           safe(p) == IF AppendOnly(window[p], more(p)) THEN old.safe \cup {p}
                      ELSE old.safe
           touched(p) == old.touched \cup ({p} \X ChangedTimes(p, after(p)))
<1>7. /\ q \in SequenceIds /\ more(q) \in Seq(Points) /\ more(q) # <<>>
      /\ Live(after(q)) = Over(LastWins(more(q)), Live(window[q]))
      /\ window' = [window EXCEPT ![q] = after(q)]
      /\ new = [old EXCEPT !.inserting = rest(q), !.pc = pc(q), !.safe = safe(q),
                           !.touched = touched(q)]
  BY <1>6
<1>8. rest(q) = old.inserting \ {q}
  OBVIOUS
<1>9. AppendOnly(window[q], more(q)) \/ safe(q) = old.safe
  OBVIOUS
<1>10. old \in Calls
  BY <1>1
<1> HIDE DEF rest, pc, safe, touched, after, old, new
<1>11. new.inserting = rest(q) /\ new.safe = safe(q)
  BY <1>7, <1>10 DEF Calls
<1>12. q = s
  BY <1>1, <1>8, <1>11 DEF old, new
<1>13. window'[s] = after(s)
  BY <1>7, <1>12 DEF WindowInv
<1>14. WindowOK(window[s])
  BY <1>7, <1>12 DEF WindowInv
<1>15. s \in call'[c].safe => AppendOnly(window[s], more(s))
  BY <1>2, <1>9, <1>11, <1>12 DEF old, new
<1> QED BY <1>2, <1>7, <1>12, <1>13, <1>14, <1>15

LEMMA PrunedIs ==
  ASSUME WindowInv, [Next]_vars, NEW c \in Callers, NEW s, Pruned(c, s)
  PROVE  /\ Live(window'[s]) = Restrict(Live(window[s]),
                                        {t \in DOMAIN Live(window[s]) :
                                           t >= call[c].start})
         /\ call' # call
<1>1. /\ s \in call[c].pruning /\ s \notin call'[c].pruning
      /\ call[c] \in Calls /\ CallShape(call[c])
  BY DEF Pruned, WindowInv
<1>2. call[c].pc \in {"inserting", "pruning"} /\ call'[c] # call[c]
  BY <1>1 DEF CallShape
<1>3. PICK d \in Callers : CallerStep(d)
  BY <1>2 DEF Next, QueryStatistics, vars
<1>4. d = c
  BY <1>2, <1>3, CallsApart
<1>5. ~Insert(c)
  <2> SUFFICES ASSUME Insert(c) PROVE FALSE
    OBVIOUS
  <2>1. PICK q \in call[c].inserting :
          call'[c] = [call[c] EXCEPT
            !.inserting = call[c].inserting \ {q},
            !.pc = IF call[c].inserting \ {q} = {} THEN "pruning"
                   ELSE "inserting",
            !.safe = IF AppendOnly(window[q], IncomingFor(call[c].batch, q))
                     THEN call[c].safe \cup {q} ELSE call[c].safe,
            !.touched = call[c].touched
                          \cup ({q} \X ChangedTimes(q,
                                  InsertPoints(window[q],
                                               IncomingFor(call[c].batch, q))))]
    BY InsertStep
  <2>2. call'[c].pruning = call[c].pruning
    BY <1>1, <2>1 DEF Calls
  <2> QED BY <1>1, <2>2
<1>6. Prune(c)
  BY <1>1, <1>2, <1>3, <1>4, <1>5
     DEF CallerStep, Begin, Return, ReplaceDerived, ReplacedDerived,
         PatchDerived, ConfigureWindowSize
<1>7. PICK q \in call[c].pruning :
        LET after == PruneWindow(window[q], call[c].start) IN
        /\ q \in SequenceIds
        /\ Live(after) = Restrict(Live(window[q]),
                                  {t \in DOMAIN Live(window[q]) :
                                     t >= call[c].start})
        /\ window' = [window EXCEPT ![q] = after]
        /\ call'[c] = [call[c] EXCEPT
             !.pruning = call[c].pruning \ {q},
             !.evicted = IF Evicts(window[q], call[c].start)
                         THEN call[c].evicted \cup {q} ELSE call[c].evicted,
             !.touched = call[c].touched \cup ({q} \X ChangedTimes(q, after))]
  BY <1>6, PruneStep
<1>8. call'[c].pruning = call[c].pruning \ {q}
  BY <1>1, <1>7 DEF Calls
<1>9. q = s
  BY <1>1, <1>8
<1> DEFINE after == PruneWindow(window[s], call[c].start)
<1>10. /\ s \in SequenceIds /\ window' = [window EXCEPT ![s] = after]
       /\ Live(after) = Restrict(Live(window[s]),
                                 {t \in DOMAIN Live(window[s]) :
                                    t >= call[c].start})
  BY <1>7, <1>9
<1> HIDE DEF after
<1>11. window'[s] = after
  BY <1>10 DEF WindowInv
<1> QED BY <1>2, <1>10, <1>11

(* A step that leaves every call alone, but not the window: a patch.       *)
LEMMA PatchedIs ==
  ASSUME WindowInv, [Next]_vars, NEW s \in SequenceIds,
         call' = call, Live(window'[s]) # Live(window[s])
  PROVE  \E range \in Patches, data \in DerivedBatches :
           /\ TimesOf(data) \subseteq range[1] .. range[2]
           /\ Live(window'[s])
                = Over(LastWins(data),
                       Restrict(Live(window[s]),
                                DOMAIN Live(window[s]) \ (range[1] .. range[2])))
<1>1. call \in [Callers -> Calls] /\ WindowOK(window[s])
      /\ window = [q \in SequenceIds |-> window[q]]
  BY DEF WindowInv
<1>2. window' # window
  OBVIOUS
<1>3. ~QueryStatistics
  <2> SUFFICES ASSUME QueryStatistics PROVE FALSE
    OBVIOUS
  <2>1. PICK q \in known : window' = [window EXCEPT ![q] = RebuildStatistics(window[q])]
    BY DEF QueryStatistics
  <2>2. window'[s] = window[s] \/ window'[s] = RebuildStatistics(window[s])
    BY <1>1, <2>1
  <2> QED BY <1>1, <2>2, RebuildIs
<1>4. PICK c \in Callers : CallerStep(c)
  BY <1>2, <1>3 DEF Next, vars
<1>5. ~Insert(c)
  <2> SUFFICES ASSUME Insert(c) PROVE FALSE
    OBVIOUS
  <2>1. PICK q \in call[c].inserting :
          call'[c] = [call[c] EXCEPT
            !.inserting = call[c].inserting \ {q},
            !.pc = IF call[c].inserting \ {q} = {} THEN "pruning"
                   ELSE "inserting",
            !.safe = IF AppendOnly(window[q], IncomingFor(call[c].batch, q))
                     THEN call[c].safe \cup {q} ELSE call[c].safe,
            !.touched = call[c].touched
                          \cup ({q} \X ChangedTimes(q,
                                  InsertPoints(window[q],
                                               IncomingFor(call[c].batch, q))))]
    BY InsertStep
  <2>2. call[c] \in Calls
    BY <1>1
  <2>3. call'[c].inserting = call[c].inserting \ {q}
    BY <2>1, <2>2 DEF Calls
  <2> QED BY <2>1, <2>3
<1>6. ~Prune(c)
  <2> SUFFICES ASSUME Prune(c) PROVE FALSE
    OBVIOUS
  <2>1. PICK q \in call[c].pruning :
          call'[c] = [call[c] EXCEPT
            !.pruning = call[c].pruning \ {q},
            !.evicted = IF Evicts(window[q], call[c].start)
                        THEN call[c].evicted \cup {q} ELSE call[c].evicted,
            !.touched = call[c].touched
                          \cup ({q} \X ChangedTimes(q,
                                  PruneWindow(window[q], call[c].start)))]
    BY PruneStep
  <2>2. call[c] \in Calls
    BY <1>1
  <2>3. call'[c].pruning = call[c].pruning \ {q}
    BY <2>1, <2>2 DEF Calls
  <2> QED BY <2>1, <2>3
<1>7. ~ReplaceDerived(c)
  <2> SUFFICES ASSUME ReplaceDerived(c) PROVE FALSE
    OBVIOUS
  <2>1. call[c].pc = "idle" /\ call' = [call EXCEPT ![c].pc = "replaced"]
    BY DEF ReplaceDerived
  <2>2. call[c] \in Calls
    BY <1>1
  <2>3. call'[c].pc = "replaced"
    BY <1>1, <2>1, <2>2 DEF Calls
  <2> QED BY <2>1, <2>3
<1>8. ~Begin(c)
  BY <1>2, BeginStep
<1>9. PatchDerived(c)
  BY <1>2, <1>4, <1>5, <1>6, <1>7, <1>8
     DEF CallerStep, Return, ReplacedDerived, ConfigureWindowSize
<1>10. PICK q \in SequenceIds, range \in Patches, data \in DerivedBatches :
         LET after == PatchWindow(window[q], range[1], range[2], data) IN
         /\ TimesOf(data) \subseteq range[1] .. range[2]
         /\ Live(after) = Over(LastWins(data),
                               Restrict(Live(window[q]),
                                        DOMAIN Live(window[q])
                                          \ (range[1] .. range[2])))
         /\ window' = [window EXCEPT ![q] = after]
  BY <1>9, PatchStep
<1> DEFINE after == PatchWindow(window[q], range[1], range[2], data)
<1>11. window' = [window EXCEPT ![q] = after]
  BY <1>10
<1> HIDE DEF after
<1>12. window'[s] = IF s = q THEN after ELSE window[s]
  BY <1>1, <1>11
<1>13. s = q /\ window'[s] = after
  BY <1>12
<1> QED BY <1>10, <1>13 DEF after

(* Behind vector, late points and lazy edge a window is a map: an update   *)
(* overwrites the times it carries and its last duplicate wins, a pruning  *)
(* keeps what is not older than its start, a patch replaces its range, and *)
(* a reader that rebuilds a cache changes nothing.                         *)
THEOREM WindowsAreMaps ==
  Spec => WindowIsMap
<1>1. WindowInv /\ [Next]_vars =>
        [\A s \in SequenceIds :
           LET before == Live(window[s])
               after == Live(window'[s])
           IN /\ \A c \in Callers :
                   /\ Inserted(c, s) =>
                        after = Over(LastWins(IncomingFor(call[c].batch, s)), before)
                   /\ Pruned(c, s) =>
                        after = Restrict(before, {t \in DOMAIN before :
                                                    t >= call[c].start})
              /\ call' = call /\ after # before =>
                   \E range \in Patches, data \in DerivedBatches :
                     LET patched == range[1] .. range[2] IN
                     /\ TimesOf(data) \subseteq patched
                     /\ after = Over(LastWins(data),
                                     Restrict(before, DOMAIN before \ patched))
        ]_vars
  <2>1. ASSUME WindowInv, [Next]_vars, NEW s \in SequenceIds,
               NEW c \in Callers, Inserted(c, s)
        PROVE  Live(window'[s]) = Over(LastWins(IncomingFor(call[c].batch, s)),
                                       Live(window[s]))
    BY <2>1, InsertedIs
  <2>2. ASSUME WindowInv, [Next]_vars, NEW s \in SequenceIds,
               NEW c \in Callers, Pruned(c, s)
        PROVE  Live(window'[s]) = Restrict(Live(window[s]),
                                           {t \in DOMAIN Live(window[s]) :
                                              t >= call[c].start})
    BY <2>2, PrunedIs
  <2>3. ASSUME WindowInv, [Next]_vars, NEW s \in SequenceIds,
               call' = call, Live(window'[s]) # Live(window[s])
        PROVE  \E range \in Patches, data \in DerivedBatches :
                 /\ TimesOf(data) \subseteq range[1] .. range[2]
                 /\ Live(window'[s])
                      = Over(LastWins(data),
                             Restrict(Live(window[s]),
                                      DOMAIN Live(window[s])
                                        \ (range[1] .. range[2])))
    BY <2>3, PatchedIs
  <2> QED BY <2>1, <2>2, <2>3
<1> QED BY <1>1, WindowInvariant, PTL DEF Spec, WindowIsMap

(* incremental_safe is said only of an update whose points lie behind      *)
(* every point the sequence had, late ones included, so what was computed  *)
(* from those is not stale.                                                *)
THEOREM SafeUpdatesAppend ==
  Spec => SafeIsSuffix
<1>1. ASSUME WindowInv, [Next]_vars, NEW c \in Callers, NEW s \in SequenceIds,
             Inserted(c, s), s \in call'[c].safe
      PROVE  \A p \in TimesOf(IncomingFor(call[c].batch, s)) :
               \A t \in DOMAIN Live(window[s]) : t < p
  <2> DEFINE data == IncomingFor(call[c].batch, s)
  <2>1. /\ data \in Seq(Points) /\ data # <<>>
        /\ WindowOK(window[s]) /\ AppendOnly(window[s], data)
    BY <1>1, InsertedIs
  <2> HIDE DEF data
  <2>2. \A t \in DOMAIN Live(window[s]) : \A p \in TimesOf(data) : t < p
    BY <2>1, SafeIs
  <2> QED BY <2>2 DEF data
<1>2. WindowInv /\ [Next]_vars =>
        [\A c \in Callers, s \in SequenceIds :
           Inserted(c, s) /\ s \in call'[c].safe =>
             \A p \in TimesOf(IncomingFor(call[c].batch, s)) :
               \A t \in DOMAIN Live(window[s]) : t < p]_vars
  BY <1>1
<1> QED BY <1>2, WindowInvariant, PTL DEF Spec, SafeIsSuffix
-----------------------------------------------------------------------------
(***************************************************************************)
(* Calls one after the other.                                              *)
(***************************************************************************)
FreshFrom(w, start) == \A t \in DOMAIN Live(w) : t >= start

(* A call that prunes has every sequence with points before it, and what   *)
(* it has pruned stays free of expired points until it returns.            *)
ExpiryInv ==
  /\ \A s \in SequenceIds \ known : DOMAIN Live(window[s]) = {}
  /\ \A c \in Callers :
       /\ call[c].pc = "inserting" =>
            call[c].pruning = known /\ call[c].inserting \subseteq known
       /\ call[c].pc \in {"inserting", "pruning"} =>
            watermark # NoTime /\ call[c].start = WindowStart(watermark, size)
       /\ call[c].pc = "pruning" =>
            \A s \in known \ call[c].pruning : FreshFrom(window[s], call[c].start)
       /\ call[c].pc = "idle" /\ watermark # NoTime =>
            \A s \in known : FreshFrom(window[s], WindowStart(watermark, size))

LEMMA ExpiryInit ==
  Init => ExpiryInv
<1>1. DOMAIN Live(EmptyWindow) = {}
  <2>1. WindowShape(EmptyWindow)
    BY EmptyIs DEF WindowOK
  <2>2. EmptyWindow.points = <<>> /\ EmptyWindow.activeBegin = 0
        /\ EmptyWindow.late = <<>>
    BY DEF EmptyWindow
  <2>3. ActivePoints(EmptyWindow) = <<>>
    BY <2>1, <2>2, AllActive
  <2> QED BY <2>1, <2>2, <2>3, ActiveIs, NoPoints
<1> QED BY <1>1 DEF Init, ExpiryInv, Idle

LEMMA ExpiryInsert ==
  ASSUME NEW c, Callers = {c}, WindowInv, ExpiryInv, Insert(c)
  PROVE  ExpiryInv'
<1>1. PICK s \in call[c].inserting :
        LET after == InsertPoints(window[s], IncomingFor(call[c].batch, s))
            safe == IF AppendOnly(window[s], IncomingFor(call[c].batch, s))
                    THEN call[c].safe \cup {s} ELSE call[c].safe
            touched == call[c].touched \cup ({s} \X ChangedTimes(s, after))
        IN /\ s \in SequenceIds /\ call[c].pc = "inserting"
           /\ window' = [window EXCEPT ![s] = after]
           /\ call'[c] = [call[c] EXCEPT
                !.inserting = call[c].inserting \ {s},
                !.pc = IF call[c].inserting \ {s} = {} THEN "pruning"
                       ELSE "inserting",
                !.safe = safe,
                !.touched = touched]
  BY InsertStep
<1> DEFINE old == call[c]
           new == call'[c]
<1>2. /\ old.pc = "inserting" /\ old \in Calls /\ s \in known
      /\ old.pruning = known /\ old.inserting \subseteq known
      /\ watermark # NoTime /\ old.start = WindowStart(watermark, size)
  BY <1>1 DEF ExpiryInv, WindowInv
<1>3. UNCHANGED <<known, watermark, size>>
  BY DEF Insert, metadataVars
<1>4. /\ new.inserting = old.inserting \ {s} /\ new.pruning = old.pruning
      /\ new.start = old.start /\ new.pc \in {"inserting", "pruning"}
  BY <1>1, <1>2 DEF Calls
<1>5. \A q \in SequenceIds \ known : window'[q] = window[q]
  BY <1>1, <1>2 DEF WindowInv
<1> HIDE DEF old, new
<1>6. \A q \in SequenceIds \ known' : DOMAIN Live(window'[q]) = {}
  BY <1>3, <1>5 DEF ExpiryInv
<1>7. /\ new.pc = "inserting" => new.pruning = known' /\ new.inserting \subseteq known'
      /\ watermark' # NoTime /\ new.start = WindowStart(watermark', size')
      /\ known' \ new.pruning = {} /\ new.pc # "idle"
  BY <1>2, <1>3, <1>4
<1> QED BY <1>6, <1>7 DEF ExpiryInv, new

LEMMA ExpiryPrune ==
  ASSUME NEW c, Callers = {c}, WindowInv, ExpiryInv, Prune(c)
  PROVE  ExpiryInv'
<1>1. PICK s \in call[c].pruning :
        LET after == PruneWindow(window[s], call[c].start)
            evicted == IF Evicts(window[s], call[c].start)
                       THEN call[c].evicted \cup {s} ELSE call[c].evicted
            touched == call[c].touched \cup ({s} \X ChangedTimes(s, after))
        IN /\ s \in SequenceIds /\ call[c].pc = "pruning"
           /\ Live(after) = Restrict(Live(window[s]),
                                     {t \in DOMAIN Live(window[s]) :
                                        t >= call[c].start})
           /\ window' = [window EXCEPT ![s] = after]
           /\ call'[c] = [call[c] EXCEPT
                !.pruning = call[c].pruning \ {s},
                !.evicted = evicted,
                !.touched = touched]
  BY PruneStep
<1> DEFINE old == call[c]
           new == call'[c]
           start == call[c].start
           f == Live(window[s])
           D == {t \in DOMAIN f : t >= start}
<1>2. /\ old.pc = "pruning" /\ old \in Calls
      /\ watermark # NoTime /\ start = WindowStart(watermark, size)
      /\ \A q \in known \ old.pruning : FreshFrom(window[q], start)
  BY <1>1 DEF ExpiryInv, WindowInv
<1>3. UNCHANGED <<known, watermark, size>>
  BY DEF Prune, metadataVars
<1>4. new.pruning = old.pruning \ {s} /\ new.start = start /\ new.pc = "pruning"
  BY <1>1, <1>2 DEF Calls
<1>5. \A q \in SequenceIds : q # s => window'[q] = window[q]
  BY <1>1 DEF WindowInv
<1>6. Live(window'[s]) = Restrict(f, D)
  BY <1>1 DEF WindowInv
<1>7. IsMap(f) /\ D \subseteq DOMAIN f
  BY <1>1, ActiveIs DEF WindowInv, WindowOK
<1> HIDE DEF f
<1>8. DOMAIN Restrict(f, D) = D
  <2> HIDE DEF D
  <2> QED BY <1>7, RestrictIs
<1>9. FreshFrom(window'[s], start)
  BY <1>6, <1>8 DEF FreshFrom
<1>10. \A q \in SequenceIds \ known' : DOMAIN Live(window'[q]) = {}
  <2>1. s \notin known => DOMAIN f = {}
    BY <1>1 DEF ExpiryInv, f
  <2>2. \A q \in SequenceIds \ known : DOMAIN Live(window[q]) = {}
    BY DEF ExpiryInv
  <2> QED BY <1>3, <1>5, <1>6, <1>7, <1>8, <2>1, <2>2
<1> HIDE DEF old, new, start
<1>11. ASSUME NEW q \in known' \ new.pruning
       PROVE  FreshFrom(window'[q], new.start)
  <2>1. q \in SequenceIds /\ (q = s \/ q \in known \ old.pruning)
    BY <1>3, <1>4 DEF WindowInv
  <2> QED BY <1>2, <1>4, <1>5, <1>9, <2>1
<1>12. watermark' # NoTime /\ new.start = WindowStart(watermark', size')
  BY <1>2, <1>3, <1>4
<1> QED BY <1>4, <1>10, <1>11, <1>12 DEF ExpiryInv, new

LEMMA ExpiryPruneAll ==
  ASSUME NEW c, Callers = {c}, WindowInv, ExpiryInv, NEW n, PruneAll(c, n),
         size' = n, UNCHANGED <<known, window, watermark>>
  PROVE  ExpiryInv'
<1>1. call \in [Callers -> Calls]
  BY DEF WindowInv
<1>2. \A s \in SequenceIds \ known' : DOMAIN Live(window'[s]) = {}
  BY DEF ExpiryInv
<1>3. CASE watermark = NoTime
  <2>1. call'[c].pc = "idle"
    BY <1>1, <1>3 DEF PruneAll, Idle
  <2> QED BY <1>2, <1>3, <2>1 DEF ExpiryInv
<1>4. CASE watermark # NoTime
  <2>1. /\ call'[c].pc = "pruning" /\ call'[c].pruning = known
        /\ call'[c].start = WindowStart(watermark, n)
    BY <1>1, <1>4 DEF PruneAll, Idle
  <2> QED BY <1>2, <1>4, <2>1 DEF ExpiryInv
<1> QED BY <1>3, <1>4

LEMMA ExpiryBegin ==
  ASSUME NEW c, Callers = {c}, WindowInv, ExpiryInv, Begin(c)
  PROVE  ExpiryInv'
<1>1. PICK batch \in Batches, n \in {size} \cup Sizes, mark \in Int,
           next \in 0 .. MaxGeneration :
        /\ size' = n /\ watermark' = mark /\ generation' = next
        /\ known' = known \cup SequencesOf(batch)
        /\ call' = [call EXCEPT
             ![c] = [Idle EXCEPT
                       !.pc = "inserting", !.batch = batch,
                       !.start = WindowStart(mark, n),
                       !.inserting = SequencesOf(batch),
                       !.pruning = known \cup SequencesOf(batch),
                       !.generation = next]]
  BY BeginStep
<1>2. window' = window /\ c \in DOMAIN call
  BY BeginStep DEF WindowInv
<1>3. /\ call'[c].pc = "inserting" /\ call'[c].pruning = known'
      /\ call'[c].inserting \subseteq known'
      /\ call'[c].start = WindowStart(watermark', size')
  BY <1>1, <1>2 DEF Idle
<1>4. watermark' # NoTime
  BY <1>1, SequenceWindowAssumption
<1>5. \A s \in SequenceIds \ known' : DOMAIN Live(window'[s]) = {}
  BY <1>1, <1>2 DEF ExpiryInv
<1> QED BY <1>3, <1>4, <1>5 DEF ExpiryInv

LEMMA ExpiryNext ==
  ASSUME NEW c, Callers = {c}, Patches = {}, WindowInv, ExpiryInv, [Next]_vars
  PROVE  ExpiryInv'
<1>1. CASE CallerStep(c)
  <2>1. CASE Begin(c)
    BY <2>1, ExpiryBegin
  <2>2. CASE Insert(c)
    BY <2>2, ExpiryInsert
  <2>3. CASE Prune(c)
    BY <2>3, ExpiryPrune
  <2>4. CASE Return(c)
    <3>1. /\ call[c].pc = "pruning" /\ call[c].pruning = {}
          /\ call' = [call EXCEPT ![c] = Idle] /\ UNCHANGED <<metadataVars, window>>
      BY <2>4 DEF Return
    <3>2. call'[c].pc = "idle"
      BY <3>1 DEF WindowInv, Idle
    <3>3. /\ watermark # NoTime /\ call[c].start = WindowStart(watermark, size)
          /\ \A s \in known : FreshFrom(window[s], call[c].start)
      BY <3>1 DEF ExpiryInv
    <3> QED BY <3>1, <3>2, <3>3 DEF ExpiryInv, metadataVars
  <2>5. CASE ReplaceDerived(c)
    <3>1. PICK s \in DerivedIds, data \in DerivedBatches :
            /\ window' = [window EXCEPT ![s] = ReplaceWindow(data)]
            /\ known' = known \cup {s}
      BY <2>5 DEF ReplaceDerived
    <3>2. call'[c].pc = "replaced"
      <4>1. call[c] \in Calls /\ c \in DOMAIN call
        BY DEF WindowInv
      <4> QED BY <2>5, <4>1 DEF ReplaceDerived, Calls
    <3>3. \A q \in SequenceIds : q # s => window'[q] = window[q]
      BY <3>1 DEF WindowInv
    <3>4. \A q \in SequenceIds \ known' : DOMAIN Live(window'[q]) = {}
      BY <3>1, <3>3 DEF ExpiryInv
    <3> QED BY <3>2, <3>4 DEF ExpiryInv
  <2>6. CASE ReplacedDerived(c)
    BY <2>6, ExpiryPruneAll DEF ReplacedDerived, metadataVars
  <2>7. CASE PatchDerived(c)
    BY <2>7 DEF PatchDerived
  <2>8. CASE ConfigureWindowSize(c)
    BY <2>8, ExpiryPruneAll DEF ConfigureWindowSize
  <2> QED BY <1>1, <2>1, <2>2, <2>3, <2>4, <2>5, <2>6, <2>7, <2>8 DEF CallerStep
<1>2. CASE QueryStatistics
  <2>1. PICK s \in known : window' = [window EXCEPT ![s] = RebuildStatistics(window[s])]
    BY <1>2 DEF QueryStatistics
  <2>2. UNCHANGED <<known, watermark, size, call>>
    BY <1>2 DEF QueryStatistics, metadataVars
  <2>3. ASSUME NEW q \in SequenceIds
        PROVE  Live(window'[q]) = Live(window[q])
    <3>1. WindowOK(window[q])
      BY DEF WindowInv
    <3>2. window'[q] = window[q] \/ window'[q] = RebuildStatistics(window[q])
      BY <2>1 DEF WindowInv
    <3> QED BY <3>1, <3>2, RebuildIs
  <2>4. known \subseteq SequenceIds
    BY DEF WindowInv
  <2> QED BY <2>2, <2>3, <2>4 DEF ExpiryInv, FreshFrom
<1>3. CASE UNCHANGED vars
  BY <1>3 DEF vars, metadataVars, ExpiryInv
<1> QED BY <1>1, <1>2, <1>3 DEF Next

(* When calls come one after the other, and no derived sequence is         *)
(* patched, nothing expired is left when they have returned: the expired   *)
(* points that MCWindowExpired finds take two calls at a time.             *)
THEOREM SerialCallsExpire ==
  ASSUME NEW c, Callers = {c}, Patches = {}
  PROVE  Spec => []NothingExpiredAtRest
<1>1. Init => ExpiryInv
  BY ExpiryInit
<1>2. WindowInv /\ ExpiryInv /\ [Next]_vars => ExpiryInv'
  BY ExpiryNext
<1>3. WindowInv /\ ExpiryInv => NothingExpiredAtRest
  <2> SUFFICES ASSUME WindowInv, ExpiryInv, call[c].pc = "idle", watermark # NoTime,
                      NEW s \in SequenceIds, NEW t \in DOMAIN Live(window[s])
               PROVE  t >= WindowStart(watermark, size)
    BY DEF NothingExpiredAtRest
  <2>1. s \in known
    BY DEF ExpiryInv
  <2> QED BY <2>1 DEF ExpiryInv, FreshFrom
<1> QED BY <1>1, <1>2, <1>3, WindowInvariant, PTL DEF Spec
-----------------------------------------------------------------------------
(***************************************************************************)
(* The loops over points, as functions of how many points they have done.  *)
(***************************************************************************)
(* What holds at 0 and passes from a number to the next holds up to n.     *)
LEMMA UpTo ==
  ASSUME NEW n \in Nat, NEW S, 0 \in S,
         \A i \in 1 .. n : i - 1 \in S => i \in S
  PROVE  \A i \in 0 .. n : i \in S
<1> DEFINE D == {i \in 0 .. n : i \notin S}
<1> SUFFICES ASSUME D # {} PROVE FALSE
  OBVIOUS
<1>1. IsFiniteSet(D) /\ D \subseteq Int
  <2>1. IsFiniteSet(0 .. n) /\ D \subseteq 0 .. n
    BY FS_Interval
  <2> QED BY <2>1, FS_Subset
<1>2. PICK m \in D : \A i \in D : m <= i
  BY <1>1, HasLeast
<1>3. m \in 1 .. n /\ m - 1 \in 0 .. n /\ ~(m <= m - 1)
  BY <1>2
<1>4. m - 1 \in S
  BY <1>2, <1>3
<1> QED BY <1>2, <1>3, <1>4

(* appendStatistic, point after point.                                     *)
LEMMA AppendsAre ==
  ASSUME NEW s, NEW data, Len(data) \in Nat
  PROVE  \E f : /\ f[0] = s /\ f[Len(data)] = AppendStatistics(s, data)
                /\ \A i \in 1 .. Len(data) :
                     f[i] = AppendStatistic(f[i - 1], data[i])
<1> DEFINE n == Len(data)
           Runs(f, m) == f = [i \in 0 .. m |->
                                IF i = 0 THEN s ELSE AppendStatistic(f[i - 1], data[i])]
           S == {m \in 0 .. n : \E f : Runs(f, m)}
<1>1. 0 \in S
  <2>1. Runs([i \in 0 .. 0 |-> s], 0)
    OBVIOUS
  <2>2. \E f : Runs(f, 0)
    BY <2>1
  <2> HIDE DEF Runs
  <2> QED BY <2>2
<1>2. ASSUME NEW m \in 1 .. n, m - 1 \in S
      PROVE  m \in S
  <2>1. PICK f : Runs(f, m - 1)
    BY <1>2
  <2> DEFINE last == AppendStatistic(f[m - 1], data[m])
             g == [i \in 0 .. m |-> IF i = m THEN last ELSE f[i]]
             h == [i \in 0 .. m |->
                     IF i = 0 THEN s ELSE AppendStatistic(g[i - 1], data[i])]
  <2>2. \A i \in 0 .. m : i = m \/ i \in 0 .. (m - 1)
    OBVIOUS
  <2>3. \A i \in 0 .. (m - 1) :
          f[i] = (IF i = 0 THEN s ELSE AppendStatistic(f[i - 1], data[i]))
    BY <2>1
  <2>4. g[m] = last /\ \A i \in 0 .. (m - 1) : g[i] = f[i]
    OBVIOUS
  <2> HIDE DEF last, g
  <2>5. h[m] = g[m]
    BY <2>4 DEF last
  <2>6. \A i \in 0 .. (m - 1) : h[i] = g[i]
    <3> SUFFICES ASSUME NEW i \in 0 .. (m - 1) PROVE h[i] = g[i]
      OBVIOUS
    <3>1. CASE i = 0
      BY <2>3, <2>4, <3>1
    <3>2. CASE i # 0
      <4>1. i - 1 \in 0 .. (m - 1) /\ i \in 0 .. m
        BY <3>2
      <4> QED BY <2>3, <2>4, <3>2, <4>1
    <3> QED BY <3>1, <3>2
  <2>7. g = [i \in 0 .. m |-> g[i]] /\ h = [i \in 0 .. m |-> h[i]]
    BY DEF g
  <2>8. \A i \in 0 .. m : g[i] = h[i]
    BY <2>2, <2>5, <2>6
  <2> HIDE DEF h
  <2>9. g = h
    BY <2>7, <2>8
  <2>10. Runs(g, m)
    BY <2>9 DEF h
  <2> QED BY <2>10
<1> HIDE DEF S
<1>3. \A m \in 0 .. n : m \in S
  BY <1>1, <1>2, UpTo
<1>4. \E f : Runs(f, n)
  BY <1>3 DEF S
<1>5. PICK r : Runs(r, n) /\ AppendStatistics(s, data) = r[n]
  BY <1>4 DEF AppendStatistics
<1>6. \A i \in 0 .. n :
        r[i] = (IF i = 0 THEN s ELSE AppendStatistic(r[i - 1], data[i]))
  BY <1>5
<1>7. r[0] = s /\ \A i \in 1 .. n : r[i] = AppendStatistic(r[i - 1], data[i])
  BY <1>6
<1> QED BY <1>5, <1>7
(* removeStatistic, point after point.                                     *)
LEMMA RemovesAre ==
  ASSUME NEW s, NEW data, Len(data) \in Nat
  PROVE  \E f : /\ f[0] = s /\ f[Len(data)] = RemoveStatistics(s, data)
                /\ \A i \in 1 .. Len(data) :
                     f[i] = RemoveStatistic(f[i - 1], data[i])
<1> DEFINE n == Len(data)
           Runs(f, m) == f = [i \in 0 .. m |->
                                IF i = 0 THEN s ELSE RemoveStatistic(f[i - 1], data[i])]
           S == {m \in 0 .. n : \E f : Runs(f, m)}
<1>1. 0 \in S
  <2>1. Runs([i \in 0 .. 0 |-> s], 0)
    OBVIOUS
  <2>2. \E f : Runs(f, 0)
    BY <2>1
  <2> HIDE DEF Runs
  <2> QED BY <2>2
<1>2. ASSUME NEW m \in 1 .. n, m - 1 \in S
      PROVE  m \in S
  <2>1. PICK f : Runs(f, m - 1)
    BY <1>2
  <2> DEFINE last == RemoveStatistic(f[m - 1], data[m])
             g == [i \in 0 .. m |-> IF i = m THEN last ELSE f[i]]
             h == [i \in 0 .. m |->
                     IF i = 0 THEN s ELSE RemoveStatistic(g[i - 1], data[i])]
  <2>2. \A i \in 0 .. m : i = m \/ i \in 0 .. (m - 1)
    OBVIOUS
  <2>3. \A i \in 0 .. (m - 1) :
          f[i] = (IF i = 0 THEN s ELSE RemoveStatistic(f[i - 1], data[i]))
    BY <2>1
  <2>4. g[m] = last /\ \A i \in 0 .. (m - 1) : g[i] = f[i]
    OBVIOUS
  <2> HIDE DEF last, g
  <2>5. h[m] = g[m]
    BY <2>4 DEF last
  <2>6. \A i \in 0 .. (m - 1) : h[i] = g[i]
    <3> SUFFICES ASSUME NEW i \in 0 .. (m - 1) PROVE h[i] = g[i]
      OBVIOUS
    <3>1. CASE i = 0
      BY <2>3, <2>4, <3>1
    <3>2. CASE i # 0
      <4>1. i - 1 \in 0 .. (m - 1) /\ i \in 0 .. m
        BY <3>2
      <4> QED BY <2>3, <2>4, <3>2, <4>1
    <3> QED BY <3>1, <3>2
  <2>7. g = [i \in 0 .. m |-> g[i]] /\ h = [i \in 0 .. m |-> h[i]]
    BY DEF g
  <2>8. \A i \in 0 .. m : g[i] = h[i]
    BY <2>2, <2>5, <2>6
  <2> HIDE DEF h
  <2>9. g = h
    BY <2>7, <2>8
  <2>10. Runs(g, m)
    BY <2>9 DEF h
  <2> QED BY <2>10
<1> HIDE DEF S
<1>3. \A m \in 0 .. n : m \in S
  BY <1>1, <1>2, UpTo
<1>4. \E f : Runs(f, n)
  BY <1>3 DEF S
<1>5. PICK r : Runs(r, n) /\ RemoveStatistics(s, data) = r[n]
  BY <1>4 DEF RemoveStatistics
<1>6. \A i \in 0 .. n :
        r[i] = (IF i = 0 THEN s ELSE RemoveStatistic(r[i - 1], data[i]))
  BY <1>5
<1>7. r[0] = s /\ \A i \in 1 .. n : r[i] = RemoveStatistic(r[i - 1], data[i])
  BY <1>6
<1> QED BY <1>5, <1>7
(* A sum, point after point.                                               *)
LEMMA TotalsAre ==
  ASSUME NEW data, Len(data) \in Nat
  PROVE  \E f : /\ f[0] = 0 /\ f[Len(data)] = Total(data)
                /\ \A i \in 1 .. Len(data) :
                     f[i] = f[i - 1] + Number(data[i].value)
<1> DEFINE n == Len(data)
           Runs(f, m) == f = [i \in 0 .. m |->
                                IF i = 0 THEN 0 ELSE f[i - 1] + Number(data[i].value)]
           S == {m \in 0 .. n : \E f : Runs(f, m)}
<1>1. 0 \in S
  <2>1. Runs([i \in 0 .. 0 |-> 0], 0)
    OBVIOUS
  <2>2. \E f : Runs(f, 0)
    BY <2>1
  <2> HIDE DEF Runs
  <2> QED BY <2>2
<1>2. ASSUME NEW m \in 1 .. n, m - 1 \in S
      PROVE  m \in S
  <2>1. PICK f : Runs(f, m - 1)
    BY <1>2
  <2> DEFINE last == f[m - 1] + Number(data[m].value)
             g == [i \in 0 .. m |-> IF i = m THEN last ELSE f[i]]
             h == [i \in 0 .. m |->
                     IF i = 0 THEN 0 ELSE g[i - 1] + Number(data[i].value)]
  <2>2. \A i \in 0 .. m : i = m \/ i \in 0 .. (m - 1)
    OBVIOUS
  <2>3. \A i \in 0 .. (m - 1) :
          f[i] = (IF i = 0 THEN 0 ELSE f[i - 1] + Number(data[i].value))
    BY <2>1
  <2>4. g[m] = last /\ \A i \in 0 .. (m - 1) : g[i] = f[i]
    OBVIOUS
  <2> HIDE DEF last, g
  <2>5. h[m] = g[m]
    BY <2>4 DEF last
  <2>6. \A i \in 0 .. (m - 1) : h[i] = g[i]
    <3> SUFFICES ASSUME NEW i \in 0 .. (m - 1) PROVE h[i] = g[i]
      OBVIOUS
    <3>1. CASE i = 0
      BY <2>3, <2>4, <3>1
    <3>2. CASE i # 0
      <4>1. i - 1 \in 0 .. (m - 1) /\ i \in 0 .. m
        BY <3>2
      <4> QED BY <2>3, <2>4, <3>2, <4>1
    <3> QED BY <3>1, <3>2
  <2>7. g = [i \in 0 .. m |-> g[i]] /\ h = [i \in 0 .. m |-> h[i]]
    BY DEF g
  <2>8. \A i \in 0 .. m : g[i] = h[i]
    BY <2>2, <2>5, <2>6
  <2> HIDE DEF h
  <2>9. g = h
    BY <2>7, <2>8
  <2>10. Runs(g, m)
    BY <2>9 DEF h
  <2> QED BY <2>10
<1> HIDE DEF S
<1>3. \A m \in 0 .. n : m \in S
  BY <1>1, <1>2, UpTo
<1>4. \E f : Runs(f, n)
  BY <1>3 DEF S
<1>5. PICK r : Runs(r, n) /\ Total(data) = r[n]
  BY <1>4 DEF Total
<1>6. \A i \in 0 .. n :
        r[i] = (IF i = 0 THEN 0 ELSE r[i - 1] + Number(data[i].value))
  BY <1>5
<1>7. r[0] = 0 /\ \A i \in 1 .. n : r[i] = r[i - 1] + Number(data[i].value)
  BY <1>6
<1> QED BY <1>5, <1>7

(* Whatever adds up point after point is the sum.                          *)
LEMMA TotalIs ==
  ASSUME NEW q \in Seq(Points), NEW f, f[0] = 0,
         \A i \in 1 .. Len(q) : f[i] = f[i - 1] + Number(q[i].value)
  PROVE  /\ f[Len(q)] = Total(q) /\ Total(q) \in Int
         /\ \A i \in 0 .. Len(q) : f[i] \in Int
<1>1. /\ Len(q) \in Nat /\ Len(q) \in 0 .. Len(q)
      /\ \A i \in 1 .. Len(q) : Number(q[i].value) \in Int
  BY VectorTimes DEF Number, Values
<1>2. PICK g : /\ g[0] = 0 /\ g[Len(q)] = Total(q)
               /\ \A i \in 1 .. Len(q) : g[i] = g[i - 1] + Number(q[i].value)
  BY <1>1, TotalsAre
<1> DEFINE S == {i \in 0 .. Len(q) : f[i] = g[i] /\ f[i] \in Int}
<1>3. 0 \in S
  BY <1>1, <1>2
<1>4. ASSUME NEW i \in 1 .. Len(q), i - 1 \in S
      PROVE  i \in S
  <2>1. i \in 0 .. Len(q) /\ f[i - 1] = g[i - 1] /\ f[i - 1] \in Int
    BY <1>1, <1>4
  <2>2. f[i] = f[i - 1] + Number(q[i].value) /\ g[i] = g[i - 1] + Number(q[i].value)
    BY <1>2
  <2>3. f[i] = g[i] /\ f[i] \in Int
    BY <1>1, <2>1, <2>2
  <2> QED BY <2>1, <2>3
<1> HIDE DEF S
<1>5. \A i \in 0 .. Len(q) : i \in S
  BY <1>1, <1>3, <1>4, UpTo
<1> QED BY <1>1, <1>2, <1>5 DEF S

(* The sum with a point more at the end.                                   *)
LEMMA TotalAppend ==
  ASSUME NEW q \in Seq(Points), NEW p \in Points
  PROVE  /\ Total(Append(q, p)) = Total(q) + Number(p.value)
         /\ Total(q) \in Int /\ Number(p.value) \in Int
<1> DEFINE n == Len(q)
           a == Append(q, p)
<1>1. /\ n \in Nat /\ a \in Seq(Points) /\ Len(a) = n + 1
      /\ a[n + 1] = p /\ \A i \in 1 .. n : a[i] = q[i]
      /\ Number(p.value) \in Int
  BY AppendProperties, LenProperties DEF Points, Number
<1> HIDE DEF a
<1>2. PICK f : /\ f[0] = 0 /\ f[Len(a)] = Total(a)
               /\ \A i \in 1 .. Len(a) : f[i] = f[i - 1] + Number(a[i].value)
  BY <1>1, TotalsAre
<1>3. \A i \in 1 .. n : f[i] = f[i - 1] + Number(q[i].value)
  BY <1>1, <1>2
<1>4. f[n] = Total(q) /\ Total(q) \in Int
  BY <1>2, <1>3, TotalIs
<1>5. n + 1 \in 1 .. Len(a) /\ (n + 1) - 1 = n
  BY <1>1
<1>6. f[n + 1] = f[n] + Number(p.value)
  BY <1>1, <1>2, <1>5
<1> QED BY <1>1, <1>2, <1>4, <1>6 DEF a

(* The sum without its first point.                                        *)
LEMMA TotalTail ==
  ASSUME NEW q \in Seq(Points), q # <<>>
  PROVE  /\ Total(Tail(q)) = Total(q) - Number(Head(q).value)
         /\ Total(q) \in Int /\ Number(Head(q).value) \in Int
<1> DEFINE n == Len(q)
           a == Tail(q)
<1>1. /\ n \in Nat \ {0} /\ a \in Seq(Points) /\ Len(a) = n - 1
      /\ \A i \in 1 .. (n - 1) : a[i] = q[i + 1]
      /\ Head(q) = q[1] /\ q[1] \in Points
  BY HeadTailProperties, EmptySeq, LenProperties, ElementOfSeq
<1>2. Number(q[1].value) \in Int
  BY <1>1 DEF Points, Number
<1>3. PICK f : /\ f[0] = 0 /\ f[n] = Total(q)
               /\ \A i \in 1 .. n : f[i] = f[i - 1] + Number(q[i].value)
  BY <1>1, TotalsAre
<1>4. Total(q) \in Int /\ \A i \in 0 .. n : f[i] \in Int
  BY <1>3, TotalIs
<1> DEFINE g == [i \in 0 .. (n - 1) |-> f[i + 1] - Number(q[1].value)]
<1>5. f[1] = f[0] + Number(q[1].value)
  BY <1>1, <1>3
<1>6. g[0] = 0 /\ g[n - 1] = f[n] - Number(q[1].value)
  BY <1>1, <1>2, <1>3, <1>5
<1>7. ASSUME NEW i \in 1 .. (n - 1)
      PROVE  g[i] = g[i - 1] + Number(a[i].value)
  <2>1. /\ i + 1 \in 1 .. n /\ (i + 1) - 1 = i /\ i \in 0 .. n /\ i - 1 \in 0 .. (n - 1)
        /\ i \in 0 .. (n - 1) /\ (i - 1) + 1 = i
    BY <1>1
  <2>2. f[i + 1] = f[i] + Number(q[i + 1].value)
    BY <1>3, <2>1
  <2>3. g[i] = f[i + 1] - Number(q[1].value) /\ g[i - 1] = f[i] - Number(q[1].value)
    BY <2>1
  <2>4. Number(q[i + 1].value) \in Int
    <3>1. q[i + 1] \in Points
      BY <2>1, ElementOfSeq
    <3> QED BY <3>1 DEF Points, Number
  <2>5. f[i] \in Int /\ a[i] = q[i + 1]
    BY <1>1, <1>4, <2>1
  <2> HIDE DEF g, a
  <2> QED BY <1>2, <2>2, <2>3, <2>4, <2>5
<1> HIDE DEF g, a
<1>8. g[Len(a)] = Total(a)
  BY <1>1, <1>6, <1>7, TotalIs
<1> QED BY <1>1, <1>2, <1>3, <1>4, <1>6, <1>8 DEF a

-----------------------------------------------------------------------------
(***************************************************************************)
(* What the statistics of a vector are, in closed form.                    *)
(***************************************************************************)
PointsOf(q) == {q[i] : i \in 1 .. Len(q)}
Numbers(P) == {x \in P : x.value # NonNumeric}

(* The points that are lower, and higher, than all later ones.             *)
Lows(P) == {x \in P : \A y \in P : y.time > x.time => y.value > x.value}
Highs(P) == {x \in P : \A y \in P : y.time > x.time => y.value < x.value}

Holds(d, P) == Sorted(d) /\ PointsOf(d) = P

StatsOf(q, s) ==
  LET P == PointsOf(q) IN
  /\ s = [valid |-> TRUE, count |-> s.count, nonNumeric |-> s.nonNumeric,
          sum |-> s.sum, minimum |-> s.minimum, maximum |-> s.maximum]
  /\ s.count = Cardinality(Numbers(P))
  /\ s.nonNumeric = Cardinality(P \ Numbers(P))
  /\ s.sum = Total(q)
  /\ Holds(s.minimum, Lows(Numbers(P))) /\ Holds(s.maximum, Highs(Numbers(P)))

LEMMA PointsAre ==
  ASSUME NEW q \in Seq(Points)
  PROVE  /\ IsFiniteSet(PointsOf(q)) /\ PointsOf(q) \subseteq Points
         /\ \A x \in PointsOf(q) : x.time \in Int /\ x.value \in Values
<1>1. /\ Len(q) \in Nat
      /\ \A i \in 1 .. Len(q) : q[i] \in Points /\ q[i].time \in Int
                                /\ q[i].value \in Values
  BY VectorTimes
<1>2. IsFiniteSet(PointsOf(q))
  <2> DEFINE f == [i \in 1 .. Len(q) |-> q[i]]
  <2>1. f \in Surjection(1 .. Len(q), PointsOf(q))
    BY DEF Surjection, PointsOf
  <2>2. IsFiniteSet(1 .. Len(q))
    BY <1>1, FS_Interval
  <2> QED BY <2>1, <2>2, FS_Surjection
<1> QED BY <1>1, <1>2 DEF PointsOf

(* A point behind a sorted vector.                                         *)
LEMMA SortedAppend ==
  ASSUME NEW q, Sorted(q), NEW p \in Points,
         \A x \in PointsOf(q) : x.time < p.time
  PROVE  /\ Sorted(Append(q, p)) /\ Len(Append(q, p)) = Len(q) + 1
         /\ PointsOf(Append(q, p)) = PointsOf(q) \cup {p} /\ p \notin PointsOf(q)
<1> DEFINE n == Len(q)
           a == Append(q, p)
<1>1. /\ q \in Seq(Points) /\ n \in Nat /\ a \in Seq(Points) /\ Len(a) = n + 1
      /\ a[n + 1] = p /\ \A i \in 1 .. n : a[i] = q[i]
  BY AppendProperties, LenProperties DEF Sorted
<1>2. p.time \in Int /\ p \notin PointsOf(q)
  <2>1. p.time \in Int
    BY DEF Points
  <2> QED BY <2>1
<1> HIDE DEF a
<1>3. \A i \in 1 .. (n + 1) : i \in 1 .. n \/ i = n + 1
  BY <1>1
<1>4. ASSUME NEW i \in 1 .. (n + 1), NEW j \in 1 .. (n + 1), i < j
      PROVE  a[i].time < a[j].time
  <2>1. i \in 1 .. n
    BY <1>1, <1>4
  <2>2. CASE j \in 1 .. n
    BY <1>1, <1>4, <2>1, <2>2 DEF Sorted
  <2>3. CASE j = n + 1
    <3>1. q[i] \in PointsOf(q)
      BY <2>1 DEF PointsOf
    <3> QED BY <1>1, <2>1, <2>3, <3>1
  <2> QED BY <1>3, <2>2, <2>3
<1>5. PointsOf(a) = PointsOf(q) \cup {p}
  <2>1. \A i \in 1 .. n : i \in 1 .. (n + 1)
    BY <1>1
  <2>2. n + 1 \in 1 .. (n + 1)
    BY <1>1
  <2>3. PointsOf(a) = {a[i] : i \in 1 .. (n + 1)}
    BY <1>1 DEF PointsOf
  <2>4. ASSUME NEW x \in PointsOf(a)
        PROVE  x \in PointsOf(q) \cup {p}
    BY <1>1, <1>3, <2>3 DEF PointsOf
  <2>5. ASSUME NEW x \in PointsOf(q)
        PROVE  x \in PointsOf(a)
    <3>1. PICK i \in 1 .. n : x = q[i]
      BY DEF PointsOf
    <3>2. i \in 1 .. (n + 1) /\ x = a[i]
      BY <1>1, <2>1, <3>1
    <3> QED BY <2>3, <3>2
  <2>6. p \in PointsOf(a)
    BY <1>1, <2>2, <2>3
  <2> QED BY <2>4, <2>5, <2>6
<1> QED BY <1>1, <1>2, <1>4, <1>5 DEF Sorted, a

(* A sorted vector without its first point.                                *)
LEMMA SortedTail ==
  ASSUME NEW q, Sorted(q), q # <<>>
  PROVE  /\ Sorted(Tail(q)) /\ Head(q) = q[1] /\ Head(q) \in PointsOf(q)
         /\ PointsOf(Tail(q)) = PointsOf(q) \ {Head(q)}
         /\ \A x \in PointsOf(Tail(q)) : Head(q).time < x.time
<1> DEFINE n == Len(q)
           a == Tail(q)
<1>1. /\ n \in Nat \ {0} /\ a \in Seq(Points) /\ Len(a) = n - 1
      /\ \A i \in 1 .. (n - 1) : a[i] = q[i + 1]
      /\ Head(q) = q[1] /\ q[1] \in Points /\ q \in Seq(Points)
      /\ \A i \in 1 .. n : q[i].time \in Int
  BY HeadTailProperties, EmptySeq, LenProperties, ElementOfSeq, VectorTimes DEF Sorted
<1> HIDE DEF a
<1>2. \A i \in 1 .. (n - 1) : i + 1 \in 1 .. n /\ 1 < i + 1
  BY <1>1
<1>3. Sorted(a)
  <2>1. ASSUME NEW i \in 1 .. (n - 1), NEW j \in 1 .. (n - 1), i < j
        PROVE  a[i].time < a[j].time
    <3>1. i + 1 < j + 1 /\ i + 1 \in 1 .. n /\ j + 1 \in 1 .. n
      BY <1>2, <2>1
    <3> QED BY <1>1, <3>1 DEF Sorted
  <2> QED BY <1>1, <2>1 DEF Sorted
<1>4. 1 \in 1 .. n
  BY <1>1
<1>5. \A i \in 1 .. (n - 1) : q[1].time < a[i].time
  BY <1>1, <1>2, <1>4 DEF Sorted
<1>6. \A x \in PointsOf(a) : q[1].time < x.time
  BY <1>1, <1>5 DEF PointsOf
<1>7. PointsOf(a) = PointsOf(q) \ {q[1]}
  <2>1. ASSUME NEW x \in PointsOf(a)
        PROVE  x \in PointsOf(q) /\ x # q[1]
    <3>1. PICK i \in 1 .. (n - 1) : x = a[i]
      BY <1>1 DEF PointsOf
    <3>2. x = q[i + 1] /\ i + 1 \in 1 .. n
      BY <1>1, <1>2, <3>1
    <3>3. x # q[1]
      BY <1>1, <1>4, <1>6
    <3> QED BY <3>2, <3>3 DEF PointsOf
  <2>2. ASSUME NEW x \in PointsOf(q), x # q[1]
        PROVE  x \in PointsOf(a)
    <3>1. PICK i \in 1 .. n : x = q[i]
      BY DEF PointsOf
    <3> DEFINE k == i - 1
    <3>2. k \in 1 .. (n - 1) /\ k + 1 = i
      BY <1>1, <2>2, <3>1
    <3> HIDE DEF k
    <3>3. x = a[k] /\ k \in 1 .. Len(a)
      BY <1>1, <3>1, <3>2
    <3> QED BY <3>3 DEF PointsOf
  <2> QED BY <2>1, <2>2
<1>8. q[1] \in PointsOf(q)
  BY <1>4 DEF PointsOf
<1> QED BY <1>1, <1>3, <1>6, <1>7, <1>8 DEF a

(* Appending to the minimum deque: what is not lower than the new point is *)
(* popped, and the lower points stay in their order.                       *)
LEMMA LowsAppend ==
  ASSUME NEW P, P \subseteq Points, \A x \in P : x.value \in Int,
         NEW d, Holds(d, Lows(P)),
         NEW p \in Points, p.value \in Int, \A x \in P : x.time < p.time
  PROVE  Holds(Append(SubSeq(d, 1, Greatest({0} \cup
                        {i \in DOMAIN d : ~(d[i].value >= p.value)})), p),
               Lows(P \cup {p}))
<1> DEFINE n == Len(d)
           below == {i \in DOMAIN d : ~(d[i].value >= p.value)}
           G == {0} \cup below
           g == Greatest(G)
           c == SubSeq(d, 1, g)
<1>1. /\ Sorted(d) /\ d \in Seq(Points) /\ n \in Nat /\ DOMAIN d = 1 .. n
      /\ \A i \in 1 .. n : d[i].time \in Int
  BY VectorTimes DEF Holds, Sorted
<1>2. p.time \in Int /\ \A x \in P : x.time \in Int
  BY DEF Points
<1>3. \A i \in 1 .. n : /\ d[i] \in P /\ d[i].value \in Int
                        /\ \A y \in P : y.time > d[i].time => y.value > d[i].value
  BY DEF Holds, PointsOf, Lows
<1>4. \A i \in 1 .. n, j \in 1 .. n : i < j => d[i].value < d[j].value
  <2> SUFFICES ASSUME NEW i \in 1 .. n, NEW j \in 1 .. n, i < j
               PROVE  d[i].value < d[j].value
    OBVIOUS
  <2>1. d[j].time > d[i].time
    BY <1>1 DEF Sorted
  <2> QED BY <1>3, <2>1
<1>5. g \in G /\ G \subseteq 0 .. n /\ \A i \in G : g >= i
  <2>1. G \subseteq 0 .. n /\ G # {} /\ G \subseteq Int
    BY <1>1
  <2>2. IsFiniteSet(0 .. n)
    BY <1>1, FS_Interval
  <2>3. IsFiniteSet(G)
    BY <2>1, <2>2, FS_Subset
  <2> HIDE DEF G
  <2> QED BY <2>1, <2>3, GreatestIs
<1>6. g \in 0 .. n
  BY <1>5
<1>7. \A i \in 1 .. n : i <= g => d[i].value < p.value
  <2> SUFFICES ASSUME NEW i \in 1 .. n, i <= g PROVE d[i].value < p.value
    OBVIOUS
  <2>1. g \in 1 .. n /\ g \in below
    BY <1>1, <1>5, <1>6
  <2>2. d[g].value < p.value
    BY <1>3, <2>1
  <2>3. i = g \/ i < g
    BY <1>6
  <2> QED BY <1>3, <1>4, <2>1, <2>2, <2>3
<1>8. \A i \in 1 .. n : d[i].value < p.value => i <= g
  <2> SUFFICES ASSUME NEW i \in 1 .. n, d[i].value < p.value PROVE i <= g
    OBVIOUS
  <2>1. i \in G
    BY <1>1, <1>3
  <2> QED BY <1>5, <1>6, <2>1
<1> HIDE DEF g
<1>9. /\ Sorted(c) /\ Len(c) = g /\ \A i \in 1 .. g : c[i] = d[i]
  <2>1. 0 \in 0 .. n /\ 0 <= g /\ 0 + 1 = 1 /\ g - 0 = g
        /\ \A i \in 1 .. g : 0 + i = i
    BY <1>1, <1>6
  <2> DEFINE part == SubSeq(d, 0 + 1, g)
  <2>2. Sorted(part) /\ Len(part) = g - 0 /\ \A i \in 1 .. Len(part) : part[i] = d[0 + i]
    BY <1>1, <1>6, <2>1, PartOf
  <2>3. part = c
    BY <2>1
  <2> QED BY <2>1, <2>2, <2>3
<1> HIDE DEF c
<1>10. \A i \in 1 .. g : i \in 1 .. n /\ i <= g
  BY <1>1, <1>6
<1>11. PointsOf(c) = {x \in Lows(P) : x.value < p.value}
  <2>1. ASSUME NEW x \in PointsOf(c)
        PROVE  x \in Lows(P) /\ x.value < p.value
    <3>1. PICK i \in 1 .. g : x = d[i]
      BY <1>9 DEF PointsOf
    <3>2. d[i] \in PointsOf(d)
      BY <1>10 DEF PointsOf
    <3> QED BY <1>7, <1>10, <3>1, <3>2 DEF Holds
  <2>2. ASSUME NEW x \in Lows(P), x.value < p.value
        PROVE  x \in PointsOf(c)
    <3>1. PICK i \in 1 .. n : x = d[i]
      BY DEF Holds, PointsOf
    <3>2. i \in 1 .. g
      BY <1>6, <1>8, <2>2, <3>1
    <3> QED BY <1>9, <3>1, <3>2 DEF PointsOf
  <2> QED BY <2>1, <2>2
<1>12. \A x \in PointsOf(c) : x.time < p.time
  BY <1>11 DEF Lows
<1>13. Sorted(Append(c, p)) /\ PointsOf(Append(c, p)) = PointsOf(c) \cup {p}
  BY <1>9, <1>12, SortedAppend
<1>14. Lows(P \cup {p}) = {x \in Lows(P) : x.value < p.value} \cup {p}
  <2>1. \A x \in P : p.time > x.time /\ ~(x.time > p.time)
    BY <1>2
  <2>2. ~(p.time > p.time)
    BY <1>2
  <2>3. \A x \in P : p.value > x.value <=> x.value < p.value
    OBVIOUS
  <2>4. ASSUME NEW x \in Lows(P \cup {p}), x # p
        PROVE  x \in Lows(P) /\ x.value < p.value
    BY <2>1, <2>3, <2>4 DEF Lows
  <2>5. ASSUME NEW x \in Lows(P), x.value < p.value
        PROVE  x \in Lows(P \cup {p})
    BY <2>1, <2>3, <2>5 DEF Lows
  <2>6. p \in Lows(P \cup {p})
    BY <2>1, <2>2 DEF Lows
  <2> QED BY <2>4, <2>5, <2>6
<1> QED BY <1>11, <1>13, <1>14 DEF Holds, c, g

(* The same for the maximum deque and the higher points.                   *)
LEMMA HighsAppend ==
  ASSUME NEW P, P \subseteq Points, \A x \in P : x.value \in Int,
         NEW d, Holds(d, Highs(P)),
         NEW p \in Points, p.value \in Int, \A x \in P : x.time < p.time
  PROVE  Holds(Append(SubSeq(d, 1, Greatest({0} \cup
                        {i \in DOMAIN d : ~(d[i].value <= p.value)})), p),
               Highs(P \cup {p}))
<1> DEFINE n == Len(d)
           above == {i \in DOMAIN d : ~(d[i].value <= p.value)}
           G == {0} \cup above
           g == Greatest(G)
           c == SubSeq(d, 1, g)
<1>1. /\ Sorted(d) /\ d \in Seq(Points) /\ n \in Nat /\ DOMAIN d = 1 .. n
      /\ \A i \in 1 .. n : d[i].time \in Int
  BY VectorTimes DEF Holds, Sorted
<1>2. p.time \in Int /\ \A x \in P : x.time \in Int
  BY DEF Points
<1>3. \A i \in 1 .. n : /\ d[i] \in P /\ d[i].value \in Int
                        /\ \A y \in P : y.time > d[i].time => y.value < d[i].value
  BY DEF Holds, PointsOf, Highs
<1>4. \A i \in 1 .. n, j \in 1 .. n : i < j => d[i].value > d[j].value
  <2> SUFFICES ASSUME NEW i \in 1 .. n, NEW j \in 1 .. n, i < j
               PROVE  d[i].value > d[j].value
    OBVIOUS
  <2>1. d[j].time > d[i].time
    BY <1>1 DEF Sorted
  <2> QED BY <1>3, <2>1
<1>5. g \in G /\ G \subseteq 0 .. n /\ \A i \in G : g >= i
  <2>1. G \subseteq 0 .. n /\ G # {} /\ G \subseteq Int
    BY <1>1
  <2>2. IsFiniteSet(0 .. n)
    BY <1>1, FS_Interval
  <2>3. IsFiniteSet(G)
    BY <2>1, <2>2, FS_Subset
  <2> HIDE DEF G
  <2> QED BY <2>1, <2>3, GreatestIs
<1>6. g \in 0 .. n
  BY <1>5
<1>7. \A i \in 1 .. n : i <= g => d[i].value > p.value
  <2> SUFFICES ASSUME NEW i \in 1 .. n, i <= g PROVE d[i].value > p.value
    OBVIOUS
  <2>1. g \in 1 .. n /\ g \in above
    BY <1>1, <1>5, <1>6
  <2>2. d[g].value > p.value
    BY <1>3, <2>1
  <2>3. i = g \/ i < g
    BY <1>6
  <2> QED BY <1>3, <1>4, <2>1, <2>2, <2>3
<1>8. \A i \in 1 .. n : d[i].value > p.value => i <= g
  <2> SUFFICES ASSUME NEW i \in 1 .. n, d[i].value > p.value PROVE i <= g
    OBVIOUS
  <2>1. i \in G
    BY <1>1, <1>3
  <2> QED BY <1>5, <1>6, <2>1
<1> HIDE DEF g
<1>9. /\ Sorted(c) /\ Len(c) = g /\ \A i \in 1 .. g : c[i] = d[i]
  <2>1. 0 \in 0 .. n /\ 0 <= g /\ 0 + 1 = 1 /\ g - 0 = g
        /\ \A i \in 1 .. g : 0 + i = i
    BY <1>1, <1>6
  <2> DEFINE part == SubSeq(d, 0 + 1, g)
  <2>2. Sorted(part) /\ Len(part) = g - 0 /\ \A i \in 1 .. Len(part) : part[i] = d[0 + i]
    BY <1>1, <1>6, <2>1, PartOf
  <2>3. part = c
    BY <2>1
  <2> QED BY <2>1, <2>2, <2>3
<1> HIDE DEF c
<1>10. \A i \in 1 .. g : i \in 1 .. n /\ i <= g
  BY <1>1, <1>6
<1>11. PointsOf(c) = {x \in Highs(P) : x.value > p.value}
  <2>1. ASSUME NEW x \in PointsOf(c)
        PROVE  x \in Highs(P) /\ x.value > p.value
    <3>1. PICK i \in 1 .. g : x = d[i]
      BY <1>9 DEF PointsOf
    <3>2. d[i] \in PointsOf(d)
      BY <1>10 DEF PointsOf
    <3> QED BY <1>7, <1>10, <3>1, <3>2 DEF Holds
  <2>2. ASSUME NEW x \in Highs(P), x.value > p.value
        PROVE  x \in PointsOf(c)
    <3>1. PICK i \in 1 .. n : x = d[i]
      BY DEF Holds, PointsOf
    <3>2. i \in 1 .. g
      BY <1>6, <1>8, <2>2, <3>1
    <3> QED BY <1>9, <3>1, <3>2 DEF PointsOf
  <2> QED BY <2>1, <2>2
<1>12. \A x \in PointsOf(c) : x.time < p.time
  BY <1>11 DEF Highs
<1>13. Sorted(Append(c, p)) /\ PointsOf(Append(c, p)) = PointsOf(c) \cup {p}
  BY <1>9, <1>12, SortedAppend
<1>14. Highs(P \cup {p}) = {x \in Highs(P) : x.value > p.value} \cup {p}
  <2>1. \A x \in P : p.time > x.time /\ ~(x.time > p.time)
    BY <1>2
  <2>2. ~(p.time > p.time)
    BY <1>2
  <2>3. \A x \in P : p.value < x.value <=> x.value > p.value
    OBVIOUS
  <2>4. ASSUME NEW x \in Highs(P \cup {p}), x # p
        PROVE  x \in Highs(P) /\ x.value > p.value
    BY <2>1, <2>3, <2>4 DEF Highs
  <2>5. ASSUME NEW x \in Highs(P), x.value > p.value
        PROVE  x \in Highs(P \cup {p})
    BY <2>1, <2>3, <2>5 DEF Highs
  <2>6. p \in Highs(P \cup {p})
    BY <2>1, <2>2 DEF Highs
  <2> QED BY <2>4, <2>5, <2>6
<1> QED BY <1>11, <1>13, <1>14 DEF Holds, c, g

(* Removing the earliest point: it can only be at a deque's front.         *)
LEMMA FrontRemove ==
  ASSUME NEW P, P \subseteq Points, NEW d, Holds(d, P),
         NEW first \in Points, \A x \in P : x # first => first.time < x.time
  PROVE  Holds(PopFront(d, first.time), P \ {first})
<1>1. /\ Sorted(d) /\ d \in Seq(Points) /\ Len(d) \in Nat /\ PointsOf(d) = P
      /\ first.time \in Int /\ \A x \in P : x.time \in Int
  BY VectorTimes DEF Holds, Sorted, Points
<1>2. CASE d = <<>>
  <2>1. P = {}
    BY <1>1, <1>2, NoPoints DEF PointsOf
  <2>2. PopFront(d, first.time) = d
    BY <1>2 DEF PopFront
  <2>3. P \ {first} = P
    BY <2>1
  <2> QED BY <2>2, <2>3
<1>3. CASE d # <<>>
  <2>1. /\ Sorted(Tail(d)) /\ Head(d) = d[1] /\ Head(d) \in P
        /\ PointsOf(Tail(d)) = P \ {Head(d)}
        /\ \A x \in PointsOf(Tail(d)) : Head(d).time < x.time
    BY <1>1, <1>3, SortedTail
  <2>2. CASE Head(d).time = first.time
    <3>1. Head(d) = first
      BY <1>1, <2>1, <2>2
    <3>2. PopFront(d, first.time) = Tail(d)
      BY <1>3, <2>2 DEF PopFront
    <3> QED BY <2>1, <3>1, <3>2 DEF Holds
  <2>3. CASE Head(d).time # first.time
    <3>1. first \notin P
      <4>1. Head(d) # first
        BY <2>3
      <4>2. first.time < Head(d).time
        BY <2>1, <4>1
      <4>3. first \notin PointsOf(Tail(d))
        BY <1>1, <2>1, <4>2
      <4> QED BY <2>1, <4>1, <4>3
    <3>2. PopFront(d, first.time) = d
      BY <2>3 DEF PopFront
    <3>3. P \ {first} = P
      BY <3>1
    <3> QED BY <3>2, <3>3
  <2> QED BY <2>2, <2>3
<1> QED BY <1>2, <1>3

LEMMA EarliestApart ==
  ASSUME NEW P, P \subseteq Points, NEW first \in Points,
         \A x \in P : x # first => first.time < x.time
  PROVE  Lows(P \ {first}) = Lows(P) \ {first} /\ Highs(P \ {first}) = Highs(P) \ {first}
<1>1. \A x \in P : x # first => ~(first.time > x.time)
  BY DEF Points
<1>2. ASSUME NEW x, x # first
      PROVE  x \in Lows(P \ {first}) <=> x \in Lows(P)
  BY <1>1, <1>2 DEF Lows
<1>3. ASSUME NEW x, x # first
      PROVE  x \in Highs(P \ {first}) <=> x \in Highs(P)
  BY <1>1, <1>3 DEF Highs
<1>4. first \notin Lows(P \ {first}) /\ first \notin Highs(P \ {first})
  BY DEF Lows, Highs
<1> QED BY <1>2, <1>3, <1>4

(* The front of the minimum deque is as low as any number.                 *)
LEMMA LowestFirst ==
  ASSUME NEW q, Sorted(q), NEW d, Holds(d, Lows(Numbers(PointsOf(q)))),
         NEW y \in Numbers(PointsOf(q))
  PROVE  /\ d # <<>> /\ Head(d) \in Numbers(PointsOf(q))
         /\ Head(d).value <= y.value
<1> DEFINE P == Numbers(PointsOf(q))
           n == Len(q)
           I == {i \in 1 .. n : q[i] \in P /\ q[i].value <= y.value}
<1>1. /\ n \in Nat /\ \A i \in 1 .. n : q[i].time \in Int
      /\ q \in Seq(Points) /\ P \subseteq Points
      /\ \A x \in P : x.time \in Int /\ x.value \in Int
  <2>1. q \in Seq(Points) /\ n \in Nat /\ \A i \in 1 .. n : q[i].time \in Int
    BY VectorTimes DEF Sorted
  <2>2. PointsOf(q) \subseteq Points
    BY <2>1, PointsAre
  <2> QED BY <2>1, <2>2 DEF Numbers, Points
<1>2. PICK k \in 1 .. n : y = q[k]
  BY DEF Numbers, PointsOf
<1>3. I # {} /\ IsFiniteSet(I) /\ I \subseteq Int
  <2>1. k \in I
    BY <1>1, <1>2
  <2>2. IsFiniteSet(1 .. n) /\ I \subseteq 1 .. n
    BY <1>1, FS_Interval
  <2>3. IsFiniteSet(I)
    BY <2>2, FS_Subset
  <2> QED BY <2>1, <2>2, <2>3
<1>4. PICK g \in I : \A i \in I : g >= i
  BY <1>3, HasGreatest
<1>5. q[g] \in Lows(P)
  <2> SUFFICES ASSUME NEW z \in P, z.time > q[g].time PROVE z.value > q[g].value
    BY <1>4 DEF Lows
  <2>1. PICK j \in 1 .. n : z = q[j]
    BY DEF Numbers, PointsOf
  <2>2. j > g
    <3>1. j < g \/ j = g \/ j > g
      BY <1>4
    <3>2. j < g => q[j].time < q[g].time
      BY <1>4 DEF Sorted
    <3> QED BY <1>1, <1>4, <2>1, <3>1, <3>2
  <2>3. j \notin I
    BY <1>4, <2>2
  <2>4. ~(z.value <= y.value) /\ q[g].value <= y.value
    BY <1>4, <2>1, <2>3
  <2> QED BY <1>1, <1>4, <2>4
<1>6. Sorted(d) /\ PointsOf(d) = Lows(P)
  BY DEF Holds
<1> HIDE DEF P
<1>7. d # <<>>
  BY <1>5, <1>6, NoPoints DEF PointsOf
<1>8. /\ Head(d) \in Lows(P) /\ PointsOf(Tail(d)) = Lows(P) \ {Head(d)}
      /\ \A x \in PointsOf(Tail(d)) : Head(d).time < x.time
  BY <1>6, <1>7, SortedTail
<1>9. Head(d) \in P /\ q[g] \in P
  BY <1>5, <1>8 DEF Lows
<1>10. Head(d).value <= q[g].value
  <2>1. CASE q[g] = Head(d)
    BY <1>1, <1>9, <2>1
  <2>2. CASE q[g] # Head(d)
    <3>1. Head(d).time < q[g].time
      BY <1>5, <1>8, <2>2
    <3>2. q[g].time > Head(d).time
      BY <1>1, <1>9, <3>1
    <3>3. q[g].value > Head(d).value
      BY <1>8, <1>9, <3>2 DEF Lows
    <3> QED BY <1>1, <1>9, <3>3
  <2> QED BY <2>1, <2>2
<1>11. q[g].value <= y.value /\ y.value \in Int
  BY <1>1, <1>4 DEF P
<1>12. Head(d).value <= y.value
  BY <1>1, <1>9, <1>10, <1>11
<1> QED BY <1>7, <1>9, <1>12 DEF P

(* The front of the maximum deque is as high as any number.                *)
LEMMA HighestFirst ==
  ASSUME NEW q, Sorted(q), NEW d, Holds(d, Highs(Numbers(PointsOf(q)))),
         NEW y \in Numbers(PointsOf(q))
  PROVE  /\ d # <<>> /\ Head(d) \in Numbers(PointsOf(q))
         /\ Head(d).value >= y.value
<1> DEFINE P == Numbers(PointsOf(q))
           n == Len(q)
           I == {i \in 1 .. n : q[i] \in P /\ q[i].value >= y.value}
<1>1. /\ n \in Nat /\ \A i \in 1 .. n : q[i].time \in Int
      /\ q \in Seq(Points) /\ P \subseteq Points
      /\ \A x \in P : x.time \in Int /\ x.value \in Int
  <2>1. q \in Seq(Points) /\ n \in Nat /\ \A i \in 1 .. n : q[i].time \in Int
    BY VectorTimes DEF Sorted
  <2>2. PointsOf(q) \subseteq Points
    BY <2>1, PointsAre
  <2> QED BY <2>1, <2>2 DEF Numbers, Points
<1>2. PICK k \in 1 .. n : y = q[k]
  BY DEF Numbers, PointsOf
<1>3. I # {} /\ IsFiniteSet(I) /\ I \subseteq Int
  <2>1. k \in I
    BY <1>1, <1>2
  <2>2. IsFiniteSet(1 .. n) /\ I \subseteq 1 .. n
    BY <1>1, FS_Interval
  <2>3. IsFiniteSet(I)
    BY <2>2, FS_Subset
  <2> QED BY <2>1, <2>2, <2>3
<1>4. PICK g \in I : \A i \in I : g >= i
  BY <1>3, HasGreatest
<1>5. q[g] \in Highs(P)
  <2> SUFFICES ASSUME NEW z \in P, z.time > q[g].time PROVE z.value < q[g].value
    BY <1>4 DEF Highs
  <2>1. PICK j \in 1 .. n : z = q[j]
    BY DEF Numbers, PointsOf
  <2>2. j > g
    <3>1. j < g \/ j = g \/ j > g
      BY <1>4
    <3>2. j < g => q[j].time < q[g].time
      BY <1>4 DEF Sorted
    <3> QED BY <1>1, <1>4, <2>1, <3>1, <3>2
  <2>3. j \notin I
    BY <1>4, <2>2
  <2>4. ~(z.value >= y.value) /\ q[g].value >= y.value
    BY <1>4, <2>1, <2>3
  <2> QED BY <1>1, <1>4, <2>4
<1>6. Sorted(d) /\ PointsOf(d) = Highs(P)
  BY DEF Holds
<1> HIDE DEF P
<1>7. d # <<>>
  BY <1>5, <1>6, NoPoints DEF PointsOf
<1>8. /\ Head(d) \in Highs(P) /\ PointsOf(Tail(d)) = Highs(P) \ {Head(d)}
      /\ \A x \in PointsOf(Tail(d)) : Head(d).time < x.time
  BY <1>6, <1>7, SortedTail
<1>9. Head(d) \in P /\ q[g] \in P
  BY <1>5, <1>8 DEF Highs
<1>10. Head(d).value >= q[g].value
  <2>1. CASE q[g] = Head(d)
    BY <1>1, <1>9, <2>1
  <2>2. CASE q[g] # Head(d)
    <3>1. Head(d).time < q[g].time
      BY <1>5, <1>8, <2>2
    <3>2. q[g].time > Head(d).time
      BY <1>1, <1>9, <3>1
    <3>3. q[g].value < Head(d).value
      BY <1>8, <1>9, <3>2 DEF Highs
    <3> QED BY <1>1, <1>9, <3>3
  <2> QED BY <2>1, <2>2
<1>11. q[g].value >= y.value /\ y.value \in Int
  BY <1>1, <1>4 DEF P
<1>12. Head(d).value >= y.value
  BY <1>1, <1>9, <1>10, <1>11
<1> QED BY <1>7, <1>9, <1>12 DEF P

LEMMA NoStatistics ==
  StatsOf(<<>>, ResetStatistics)
<1>1. PointsOf(<<>>) = {} /\ Sorted(<<>>) /\ <<>> \in Seq(Points)
  BY NoPoints DEF PointsOf, Sorted
<1>2. Numbers({}) = {} /\ Lows({}) = {} /\ Highs({}) = {} /\ ({} \ {}) = {}
  BY DEF Numbers, Lows, Highs
<1>3. Cardinality({}) = 0
  BY FS_EmptySet
<1>4. Total(<<>>) = 0
  <2>1. Len(<<>>) = 0 /\ 0 \in Nat
    BY NoPoints
  <2>2. PICK f : f[0] = 0 /\ f[Len(<<>>)] = Total(<<>>)
    BY <2>1, TotalsAre
  <2> QED BY <2>1, <2>2
<1> QED BY <1>1, <1>2, <1>3, <1>4 DEF StatsOf, ResetStatistics, Holds

(* appendStatistic keeps the statistics of what is there, with the point.  *)
LEMMA StatsAppend ==
  ASSUME NEW q, Sorted(q), NEW p \in Points,
         \A x \in PointsOf(q) : x.time < p.time, NEW s, StatsOf(q, s)
  PROVE  StatsOf(Append(q, p), AppendStatistic(s, p))
<1> DEFINE a == Append(q, p)
           P == PointsOf(q)
           N == Numbers(P)
           low == Append(SubSeq(s.minimum, 1, Greatest({0} \cup
                    {i \in DOMAIN s.minimum : ~(s.minimum[i].value >= p.value)})), p)
           high == Append(SubSeq(s.maximum, 1, Greatest({0} \cup
                     {i \in DOMAIN s.maximum : ~(s.maximum[i].value <= p.value)})), p)
           t == AppendStatistic(s, p)
<1>1. q \in Seq(Points) /\ Sorted(a) /\ PointsOf(a) = P \cup {p} /\ p \notin P
  BY SortedAppend DEF Sorted
<1>2. /\ IsFiniteSet(P) /\ P \subseteq Points /\ N \subseteq P
      /\ IsFiniteSet(N) /\ IsFiniteSet(P \ N)
      /\ \A x \in N : x.value \in Int
  <2>1. IsFiniteSet(P) /\ P \subseteq Points /\ N \subseteq P
    BY <1>1, PointsAre DEF Numbers
  <2>2. IsFiniteSet(N) /\ IsFiniteSet(P \ N)
    BY <2>1, FS_Subset
  <2> QED BY <2>1, <2>2 DEF Numbers, Points
<1>3. Total(a) = Total(q) + Number(p.value) /\ Total(q) \in Int
  BY <1>1, TotalAppend
<1>4. /\ s = [valid |-> TRUE, count |-> s.count, nonNumeric |-> s.nonNumeric,
              sum |-> s.sum, minimum |-> s.minimum, maximum |-> s.maximum]
      /\ s.valid = TRUE
      /\ s.count = Cardinality(N) /\ s.nonNumeric = Cardinality(P \ N)
      /\ s.sum = Total(q)
      /\ Holds(s.minimum, Lows(N)) /\ Holds(s.maximum, Highs(N))
  BY DEF StatsOf
<1>5. CASE p.value = NonNumeric
  <2>1. t = [valid |-> TRUE, count |-> s.count, nonNumeric |-> s.nonNumeric + 1,
             sum |-> s.sum, minimum |-> s.minimum, maximum |-> s.maximum]
    <3>1. t = [s EXCEPT !.nonNumeric = @ + 1]
      BY <1>4, <1>5 DEF AppendStatistic
    <3> HIDE DEF t
    <3> QED BY <1>4, <3>1
  <2>2. Numbers(P \cup {p}) = N /\ (P \cup {p}) \ N = (P \ N) \cup {p}
        /\ p \notin P \ N
    BY <1>1, <1>5 DEF Numbers
  <2>3. Cardinality((P \ N) \cup {p}) = Cardinality(P \ N) + 1
    BY <1>1, <1>2, FS_AddElement
  <2>4. Total(a) = Total(q)
    BY <1>3, <1>5 DEF Number
  <2> HIDE DEF t, a, P, N
  <2>5. /\ t.count = s.count /\ t.nonNumeric = s.nonNumeric + 1 /\ t.sum = s.sum
        /\ t.minimum = s.minimum /\ t.maximum = s.maximum
        /\ t = [valid |-> TRUE, count |-> t.count, nonNumeric |-> t.nonNumeric,
                sum |-> t.sum, minimum |-> t.minimum, maximum |-> t.maximum]
    BY <2>1
  <2>6. StatsOf(a, t)
    BY <1>1, <1>4, <2>2, <2>3, <2>4, <2>5 DEF StatsOf
  <2> QED BY <2>6 DEF t, a
<1>6. CASE p.value # NonNumeric
  <2>1. t = [valid |-> TRUE, count |-> s.count + 1, nonNumeric |-> s.nonNumeric,
             sum |-> s.sum + p.value, minimum |-> low, maximum |-> high]
    <3>1. t = [s EXCEPT !.count = @ + 1, !.sum = @ + p.value,
                        !.minimum = low, !.maximum = high]
      BY <1>4, <1>6 DEF AppendStatistic, PopBack
    <3> HIDE DEF t, low, high
    <3> QED BY <1>4, <3>1
  <2>2. Numbers(P \cup {p}) = N \cup {p} /\ (P \cup {p}) \ (N \cup {p}) = P \ N
        /\ p \notin N /\ p.value \in Int
    BY <1>1, <1>6 DEF Numbers, Points
  <2>3. Cardinality(N \cup {p}) = Cardinality(N) + 1
    BY <1>2, <2>2, FS_AddElement
  <2>4. Total(a) = Total(q) + p.value
    BY <1>3, <1>6 DEF Number
  <2>5. N \subseteq Points /\ \A x \in N : x.time < p.time
    BY <1>2
  <2>6. Holds(low, Lows(N \cup {p}))
    <3> DEFINE d == s.minimum
    <3>1. Holds(d, Lows(N))
      BY <1>4
    <3> HIDE DEF d, N
    <3>2. Holds(Append(SubSeq(d, 1, Greatest({0} \cup
                          {i \in DOMAIN d : ~(d[i].value >= p.value)})), p),
                Lows(N \cup {p}))
      BY <1>2, <2>2, <2>5, <3>1, LowsAppend
    <3> QED BY <3>2 DEF d
  <2>7. Holds(high, Highs(N \cup {p}))
    <3> DEFINE d == s.maximum
    <3>1. Holds(d, Highs(N))
      BY <1>4
    <3> HIDE DEF d, N
    <3>2. Holds(Append(SubSeq(d, 1, Greatest({0} \cup
                          {i \in DOMAIN d : ~(d[i].value <= p.value)})), p),
                Highs(N \cup {p}))
      BY <1>2, <2>2, <2>5, <3>1, HighsAppend
    <3> QED BY <3>2 DEF d
  <2> HIDE DEF t, a, P, N, low, high
  <2>8. /\ t.count = s.count + 1 /\ t.nonNumeric = s.nonNumeric
        /\ t.sum = s.sum + p.value /\ t.minimum = low /\ t.maximum = high
        /\ t = [valid |-> TRUE, count |-> t.count, nonNumeric |-> t.nonNumeric,
                sum |-> t.sum, minimum |-> t.minimum, maximum |-> t.maximum]
    BY <2>1
  <2>9. StatsOf(a, t)
    BY <1>1, <1>4, <2>2, <2>3, <2>4, <2>6, <2>7, <2>8 DEF StatsOf
  <2> QED BY <2>9 DEF t, a
<1> QED BY <1>5, <1>6

(* removeStatistic takes the first point out of the statistics.            *)
LEMMA StatsRemove ==
  ASSUME NEW q, Sorted(q), q # <<>>, NEW s, StatsOf(q, s)
  PROVE  StatsOf(Tail(q), RemoveStatistic(s, Head(q)))
<1> DEFINE a == Tail(q)
           p == Head(q)
           P == PointsOf(q)
           N == Numbers(P)
           low == PopFront(s.minimum, p.time)
           high == PopFront(s.maximum, p.time)
           t == RemoveStatistic(s, p)
<1>1. /\ q \in Seq(Points) /\ Sorted(a) /\ p \in P /\ PointsOf(a) = P \ {p}
      /\ \A x \in P \ {p} : p.time < x.time
  BY SortedTail DEF Sorted
<1>2. /\ IsFiniteSet(P) /\ P \subseteq Points /\ N \subseteq P /\ p \in Points
      /\ IsFiniteSet(N) /\ IsFiniteSet(P \ N)
      /\ Cardinality(N) \in Nat /\ Cardinality(P \ N) \in Nat
      /\ Cardinality(N) = 0 => N = {}
      /\ Cardinality(P \ N) = 0 => (P \ N) = {}
  <2>1. IsFiniteSet(P) /\ P \subseteq Points /\ N \subseteq P
    BY <1>1, PointsAre DEF Numbers
  <2>2. IsFiniteSet(N) /\ IsFiniteSet(P \ N)
    BY <2>1, FS_Subset
  <2> QED BY <1>1, <2>1, <2>2, FS_CardinalityType, FS_EmptySet
<1>3. Total(a) = Total(q) - Number(p.value) /\ Total(q) \in Int
  BY <1>1, TotalTail
<1>4. /\ s = [valid |-> TRUE, count |-> s.count, nonNumeric |-> s.nonNumeric,
              sum |-> s.sum, minimum |-> s.minimum, maximum |-> s.maximum]
      /\ s.valid = TRUE
      /\ s.count = Cardinality(N) /\ s.nonNumeric = Cardinality(P \ N)
      /\ s.sum = Total(q)
      /\ Holds(s.minimum, Lows(N)) /\ Holds(s.maximum, Highs(N))
  BY DEF StatsOf
<1>5. CASE p.value = NonNumeric
  <2>1. t = [valid |-> TRUE, count |-> s.count,
             nonNumeric |-> Decrement(s.nonNumeric),
             sum |-> s.sum, minimum |-> s.minimum, maximum |-> s.maximum]
    <3>1. t = [s EXCEPT !.nonNumeric = Decrement(@)]
      BY <1>4, <1>5 DEF RemoveStatistic
    <3> HIDE DEF t
    <3> QED BY <1>4, <3>1
  <2>2. Numbers(P \ {p}) = N /\ (P \ {p}) \ N = (P \ N) \ {p} /\ p \in P \ N
    BY <1>1, <1>5 DEF Numbers
  <2>3. Cardinality((P \ N) \ {p}) = Decrement(s.nonNumeric)
    <3>1. Cardinality((P \ N) \ {p}) = Cardinality(P \ N) - 1
      BY <1>2, <2>2, FS_RemoveElement
    <3>2. s.nonNumeric # 0
      BY <1>2, <1>4, <2>2
    <3> QED BY <1>4, <3>1, <3>2 DEF Decrement
  <2>4. Total(a) = Total(q)
    BY <1>3, <1>5 DEF Number
  <2> HIDE DEF t, a, P, N
  <2>5. /\ t.count = s.count /\ t.nonNumeric = Decrement(s.nonNumeric)
        /\ t.sum = s.sum /\ t.minimum = s.minimum /\ t.maximum = s.maximum
        /\ t = [valid |-> TRUE, count |-> t.count, nonNumeric |-> t.nonNumeric,
                sum |-> t.sum, minimum |-> t.minimum, maximum |-> t.maximum]
    BY <2>1
  <2>6. StatsOf(a, t)
    BY <1>1, <1>4, <2>2, <2>3, <2>4, <2>5 DEF StatsOf
  <2> QED BY <2>6 DEF t, a
<1>6. CASE p.value # NonNumeric
  <2>1. t = [valid |-> TRUE, count |-> Decrement(s.count),
             nonNumeric |-> s.nonNumeric,
             sum |-> s.sum - p.value, minimum |-> low, maximum |-> high]
    <3>1. t = [s EXCEPT !.count = Decrement(@), !.sum = @ - p.value,
                        !.minimum = low, !.maximum = high]
      BY <1>4, <1>6 DEF RemoveStatistic
    <3> HIDE DEF t, low, high
    <3> QED BY <1>4, <3>1
  <2>2. Numbers(P \ {p}) = N \ {p} /\ (P \ {p}) \ (N \ {p}) = P \ N /\ p \in N
    BY <1>1, <1>6 DEF Numbers
  <2>3. Cardinality(N \ {p}) = Decrement(s.count)
    <3>1. Cardinality(N \ {p}) = Cardinality(N) - 1
      BY <1>2, <2>2, FS_RemoveElement
    <3>2. s.count # 0
      BY <1>2, <1>4, <2>2
    <3> QED BY <1>4, <3>1, <3>2 DEF Decrement
  <2>4. Total(a) = Total(q) - p.value
    BY <1>3, <1>6 DEF Number
  <2>5. N \subseteq Points /\ \A x \in N : x # p => p.time < x.time
    BY <1>1, <1>2
  <2>6. Lows(N \ {p}) = Lows(N) \ {p} /\ Highs(N \ {p}) = Highs(N) \ {p}
    <3> HIDE DEF N, p
    <3> QED BY <1>2, <2>5, EarliestApart
  <2>7. /\ Lows(N) \subseteq N /\ Highs(N) \subseteq N
    BY DEF Lows, Highs
  <2>8. Holds(low, Lows(N) \ {p})
    <3> DEFINE d == s.minimum
               L == Lows(N)
    <3>1. Holds(d, L) /\ L \subseteq Points /\ \A x \in L : x # p => p.time < x.time
      BY <1>4, <2>5, <2>7
    <3> HIDE DEF d, L, p
    <3>2. Holds(PopFront(d, p.time), L \ {p})
      BY <1>2, <3>1, FrontRemove
    <3> QED BY <3>2 DEF d, L
  <2>9. Holds(high, Highs(N) \ {p})
    <3> DEFINE d == s.maximum
               L == Highs(N)
    <3>1. Holds(d, L) /\ L \subseteq Points /\ \A x \in L : x # p => p.time < x.time
      BY <1>4, <2>5, <2>7
    <3> HIDE DEF d, L, p
    <3>2. Holds(PopFront(d, p.time), L \ {p})
      BY <1>2, <3>1, FrontRemove
    <3> QED BY <3>2 DEF d, L
  <2> HIDE DEF t, a, P, N, low, high
  <2>10. /\ t.count = Decrement(s.count) /\ t.nonNumeric = s.nonNumeric
         /\ t.sum = s.sum - p.value /\ t.minimum = low /\ t.maximum = high
         /\ t = [valid |-> TRUE, count |-> t.count, nonNumeric |-> t.nonNumeric,
                 sum |-> t.sum, minimum |-> t.minimum, maximum |-> t.maximum]
    BY <2>1
  <2>11. StatsOf(a, t)
    BY <1>1, <1>4, <2>2, <2>3, <2>4, <2>6, <2>8, <2>9, <2>10 DEF StatsOf
  <2> QED BY <2>11 DEF t, a
<1> QED BY <1>5, <1>6

(* A part of a sorted vector, with its next point and without its first.   *)
LEMMA NextPart ==
  ASSUME NEW q, Sorted(q), NEW b \in 0 .. Len(q), NEW k \in 1 .. b
  PROVE  /\ SubSeq(q, 1, k) = Append(SubSeq(q, 1, k - 1), q[k]) /\ q[k] \in Points
         /\ Sorted(SubSeq(q, 1, k - 1))
         /\ \A x \in PointsOf(SubSeq(q, 1, k - 1)) : x.time < q[k].time
<1> DEFINE a == SubSeq(q, 0 + 1, k - 1)
           c == SubSeq(q, 0 + 1, k)
           e == Append(a, q[k])
<1>1. /\ q \in Seq(Points) /\ Len(q) \in Nat /\ \A i \in 1 .. Len(q) : q[i] \in Points
      /\ k \in 1 .. Len(q) /\ 0 \in 0 .. Len(q) /\ k \in 0 .. Len(q)
      /\ k - 1 \in 0 .. Len(q) /\ 0 <= k /\ 0 <= k - 1 /\ 0 + 1 = 1
  BY VectorTimes DEF Sorted
<1>2. Sorted(a) /\ Len(a) = (k - 1) - 0 /\ \A i \in 1 .. Len(a) : a[i] = q[0 + i]
  BY <1>1, PartOf
<1>3. Sorted(c) /\ Len(c) = k - 0 /\ \A i \in 1 .. Len(c) : c[i] = q[0 + i]
  BY <1>1, PartOf
<1> HIDE DEF a, c
<1>4. /\ a \in Seq(Points) /\ c \in Seq(Points) /\ e \in Seq(Points)
      /\ Len(e) = Len(a) + 1 /\ e[Len(a) + 1] = q[k]
      /\ \A i \in 1 .. Len(a) : e[i] = a[i]
  BY <1>1, <1>2, <1>3, AppendProperties DEF Sorted
<1> HIDE DEF e
<1>5. Len(a) = k - 1 /\ Len(c) = k /\ Len(e) = k /\ e[k] = q[k]
  BY <1>1, <1>2, <1>3, <1>4
<1>6. \A i \in 1 .. Len(c) : c[i] = e[i]
  <2> SUFFICES ASSUME NEW i \in 1 .. k PROVE c[i] = e[i]
    BY <1>5
  <2>1. c[i] = q[i]
    BY <1>3, <1>5
  <2>2. CASE i = k
    BY <1>5, <2>1, <2>2
  <2>3. CASE i # k
    <3>1. i \in 1 .. Len(a) /\ 0 + i = i
      BY <1>1, <1>5, <2>3
    <3>2. a[i] = q[i]
      BY <1>2, <3>1
    <3>3. e[i] = a[i]
      BY <1>4, <3>1
    <3> QED BY <2>1, <3>2, <3>3
  <2> QED BY <2>2, <2>3
<1>7. c = e
  BY <1>4, <1>5, <1>6, SeqEqual
<1>8. ASSUME NEW x \in PointsOf(a)
      PROVE  x.time < q[k].time
  <2>1. PICK i \in 1 .. Len(a) : x = a[i]
    BY DEF PointsOf
  <2>2. i \in 1 .. Len(q) /\ i < k /\ x = q[i]
    BY <1>1, <1>2, <1>5, <2>1
  <2> QED BY <1>1, <2>2 DEF Sorted
<1>9. a = SubSeq(q, 1, k - 1) /\ c = SubSeq(q, 1, k)
  BY <1>1 DEF a, c
<1> QED BY <1>1, <1>2, <1>7, <1>8, <1>9 DEF e

LEMMA RestPart ==
  ASSUME NEW q, Sorted(q), NEW k \in 1 .. Len(q)
  PROVE  LET rest == SubSeq(q, k, Len(q)) IN
         /\ Sorted(rest) /\ rest # <<>> /\ Head(rest) = q[k]
         /\ Tail(rest) = SubSeq(q, k + 1, Len(q))
<1> DEFINE n == Len(q)
           a == SubSeq(q, (k - 1) + 1, n)
           c == SubSeq(q, k + 1, n)
<1>1. /\ q \in Seq(Points) /\ n \in Nat /\ k - 1 \in 0 .. n /\ n \in 0 .. n
      /\ k \in 0 .. n /\ k - 1 <= n /\ k <= n /\ (k - 1) + 1 = k
  BY VectorTimes DEF Sorted
<1>2. /\ Sorted(a) /\ Len(a) = n - (k - 1)
      /\ \A i \in 1 .. Len(a) : a[i] = q[(k - 1) + i]
  BY <1>1, PartOf
<1>3. Sorted(c) /\ Len(c) = n - k /\ \A i \in 1 .. Len(c) : c[i] = q[k + i]
  BY <1>1, PartOf
<1> HIDE DEF a, c
<1>4. a # <<>> /\ 1 \in 1 .. Len(a) /\ a \in Seq(Points) /\ c \in Seq(Points)
  BY <1>1, <1>2, <1>3, NoPoints DEF Sorted
<1>5. /\ Tail(a) \in Seq(Points) /\ Len(Tail(a)) = Len(a) - 1
      /\ \A i \in 1 .. Len(Tail(a)) : Tail(a)[i] = a[i + 1]
      /\ Head(a) = a[1]
  BY <1>4, HeadTailProperties
<1>6. a[1] = q[k]
  <2>1. (k - 1) + 1 = k
    BY <1>1
  <2> QED BY <1>2, <1>4, <2>1
<1>7. Len(Tail(a)) = Len(c)
  <2>1. (n - (k - 1)) - 1 = n - k
    BY <1>1
  <2>2. Len(Tail(a)) = (n - (k - 1)) - 1
    BY <1>2, <1>5, Zenon
  <2> QED BY <1>3, <2>1, <2>2, Zenon
<1>8. \A i \in 1 .. Len(c) : Tail(a)[i] = c[i]
  <2> SUFFICES ASSUME NEW i \in 1 .. Len(c) PROVE Tail(a)[i] = c[i]
    OBVIOUS
  <2>1. i + 1 \in 1 .. Len(a) /\ (k - 1) + (i + 1) = k + i
    BY <1>1, <1>2, <1>3
  <2>2. a[i + 1] = q[(k - 1) + (i + 1)]
    BY <1>2, <2>1
  <2> QED BY <1>3, <1>5, <1>7, <2>1, <2>2
<1>9. Tail(a) = c
  BY <1>4, <1>5, <1>7, <1>8, SeqEqual
<1>10. a = SubSeq(q, k, n)
  BY <1>1 DEF a
<1> QED BY <1>2, <1>4, <1>5, <1>6, <1>9, <1>10 DEF c

(* The loop that appends points behind those the statistics are of.        *)
LEMMA StatsAppends ==
  ASSUME NEW q \in Seq(Points), NEW data \in Seq(Points), Sorted(q \o data),
         NEW s, StatsOf(q, s)
  PROVE  StatsOf(q \o data, AppendStatistics(s, data))
<1> DEFINE m == Len(q)
           n == Len(data)
           r == q \o data
<1>1. /\ m \in Nat /\ n \in Nat /\ r \in Seq(Points) /\ Len(r) = m + n
      /\ \A i \in 1 .. m + n : r[i] = IF i <= m THEN q[i] ELSE data[i - m]
  BY LenProperties, ConcatProperties
<1>2. PICK f : /\ f[0] = s /\ f[n] = AppendStatistics(s, data)
               /\ \A i \in 1 .. n : f[i] = AppendStatistic(f[i - 1], data[i])
  BY <1>1, AppendsAre
<1> DEFINE S == {i \in 0 .. n : StatsOf(SubSeq(r, 1, m + i), f[i])}
<1> HIDE DEF r
<1>3. 0 \in S
  <2>1. SubSeq(r, 1, m) = q
    <3>1. \A i \in 1 .. m : i \in 1 .. (m + n) /\ r[i] = q[i] /\ q[i] \in Points
      BY <1>1, ElementOfSeq
    <3>2. /\ SubSeq(r, 1, m) \in Seq(Points)
          /\ Len(SubSeq(r, 1, m)) = m
          /\ \A i \in 1 .. m : SubSeq(r, 1, m)[i] = r[i]
      <4>1. \A i \in 1 .. m : r[i] \in Points
        BY <3>1
      <4>2. 1 \in Int /\ m \in Int
        BY <1>1
      <4>3. /\ SubSeq(r, 1, m) \in Seq(Points)
            /\ Len(SubSeq(r, 1, m)) = IF 1 <= m THEN m - 1 + 1 ELSE 0
            /\ \A i \in 1 .. m - 1 + 1 : SubSeq(r, 1, m)[i] = r[1 + i - 1]
        BY <4>1, <4>2, SubSeqProperties
      <4>4. m - 1 + 1 = m /\ \A i \in 1 .. m : 1 + i - 1 = i
        BY <1>1
      <4> QED BY <1>1, <4>3, <4>4
    <3> DEFINE c == SubSeq(r, 1, m)
    <3>3. c \in Seq(Points) /\ Len(c) = Len(q) /\ \A i \in 1 .. Len(c) : c[i] = q[i]
      BY <3>1, <3>2
    <3> HIDE DEF c
    <3>4. c = q
      BY <3>3, SeqEqual
    <3> QED BY <3>4 DEF c
  <2>2. 0 \in 0 .. n /\ m + 0 = m
    BY <1>1
  <2> QED BY <1>2, <2>1, <2>2
<1>4. ASSUME NEW i \in 1 .. n, i - 1 \in S
      PROVE  i \in S
  <2> DEFINE k == m + i
  <2>1. /\ k \in 1 .. Len(r) /\ k \in 1 .. (m + n) /\ Len(r) \in 0 .. Len(r)
        /\ m + (i - 1) = k - 1 /\ ~(k <= m) /\ k - m = i /\ i \in 0 .. n
    BY <1>1
  <2>2. r[k] = data[i]
    BY <1>1, <2>1
  <2>3. StatsOf(SubSeq(r, 1, k - 1), f[i - 1])
    BY <1>4, <2>1
  <2> HIDE DEF k
  <2>4. /\ SubSeq(r, 1, k) = Append(SubSeq(r, 1, k - 1), r[k]) /\ r[k] \in Points
        /\ Sorted(SubSeq(r, 1, k - 1))
        /\ \A x \in PointsOf(SubSeq(r, 1, k - 1)) : x.time < r[k].time
    BY <2>1, NextPart DEF r
  <2>5. StatsOf(SubSeq(r, 1, k), AppendStatistic(f[i - 1], r[k]))
    <3> DEFINE a == SubSeq(r, 1, k - 1)
               p == r[k]
               t == f[i - 1]
    <3>1. /\ Sorted(a) /\ p \in Points /\ StatsOf(a, t)
          /\ \A x \in PointsOf(a) : x.time < p.time
      BY <2>3, <2>4
    <3> HIDE DEF a, p, t
    <3>2. StatsOf(Append(a, p), AppendStatistic(t, p))
      BY <3>1, StatsAppend
    <3> QED BY <2>4, <3>2 DEF a, p, t
  <2>6. StatsOf(SubSeq(r, 1, k), f[i])
    BY <1>2, <2>2, <2>5
  <2> QED BY <2>1, <2>6 DEF k
<1> HIDE DEF S
<1>5. \A i \in 0 .. n : i \in S
  BY <1>1, <1>3, <1>4, UpTo
<1>6. StatsOf(SubSeq(r, 1, Len(r)), f[n])
  BY <1>1, <1>5 DEF S
<1>7. SubSeq(r, 1, Len(r)) = r
  BY <1>1, SubSeqFull
<1> QED BY <1>2, <1>6, <1>7 DEF r

(* The loop that removes points from the front.                            *)
LEMMA StatsRemoves ==
  ASSUME NEW q, Sorted(q), NEW m \in 0 .. Len(q), NEW s, StatsOf(q, s)
  PROVE  StatsOf(SubSeq(q, m + 1, Len(q)), RemoveStatistics(s, SubSeq(q, 1, m)))
<1> DEFINE n == Len(q)
           data == SubSeq(q, 0 + 1, m)
<1>1. /\ q \in Seq(Points) /\ n \in Nat /\ m \in Nat /\ m <= n /\ 0 \in 0 .. n
      /\ 0 <= m /\ 0 + 1 = 1 /\ m - 0 = m
  BY VectorTimes DEF Sorted
<1>2. Len(data) = m - 0 /\ \A i \in 1 .. Len(data) : data[i] = q[0 + i]
  BY <1>1, PartOf
<1> HIDE DEF data
<1>3. Len(data) = m /\ \A i \in 1 .. m : data[i] = q[i]
  BY <1>1, <1>2
<1>4. PICK f : /\ f[0] = s /\ f[m] = RemoveStatistics(s, data)
               /\ \A i \in 1 .. m : f[i] = RemoveStatistic(f[i - 1], data[i])
  BY <1>1, <1>3, RemovesAre
<1> DEFINE S == {i \in 0 .. m : StatsOf(SubSeq(q, i + 1, n), f[i])}
<1>5. 0 \in S
  <2>1. SubSeq(q, 0 + 1, n) = q
    BY <1>1, SubSeqFull
  <2>2. StatsOf(SubSeq(q, 0 + 1, n), f[0])
    BY <1>4, <2>1
  <2>3. 0 \in 0 .. m
    BY <1>1
  <2> QED BY <2>2, <2>3
<1>6. ASSUME NEW i \in 1 .. m, i - 1 \in S
      PROVE  i \in S
  <2>1. i \in 1 .. n /\ (i - 1) + 1 = i /\ i \in 0 .. m
    BY <1>1
  <2> DEFINE rest == SubSeq(q, i, n)
             t == f[i - 1]
  <2>2. StatsOf(rest, t)
    BY <1>6, <2>1
  <2>3. /\ Sorted(rest) /\ rest # <<>> /\ Head(rest) = q[i]
        /\ Tail(rest) = SubSeq(q, i + 1, n)
    BY <2>1, RestPart
  <2> HIDE DEF rest, t
  <2>4. StatsOf(Tail(rest), RemoveStatistic(t, Head(rest)))
    BY <2>2, <2>3, StatsRemove
  <2>5. f[i] = RemoveStatistic(t, Head(rest))
    BY <1>3, <1>4, <2>3 DEF t
  <2>6. StatsOf(SubSeq(q, i + 1, n), f[i])
    BY <2>3, <2>4, <2>5
  <2> QED BY <2>1, <2>6
<1> HIDE DEF S
<1>7. \A i \in 0 .. m : i \in S
  BY <1>1, <1>5, <1>6, UpTo
<1>8. StatsOf(SubSeq(q, m + 1, n), f[m])
  BY <1>1, <1>7 DEF S
<1>9. data = SubSeq(q, 1, m)
  BY <1>1 DEF data
<1> QED BY <1>4, <1>8, <1>9

(* Neither loop touches an invalid cache.                                  *)
LEMMA InvalidStays ==
  ASSUME NEW data, Len(data) \in Nat
  PROVE  /\ AppendStatistics(InvalidStatistics, data) = InvalidStatistics
         /\ RemoveStatistics(InvalidStatistics, data) = InvalidStatistics
         /\ InvalidStatistics.valid = FALSE
<1> DEFINE none == InvalidStatistics
           n == Len(data)
<1>1. none.valid = FALSE
  BY DEF InvalidStatistics, ResetStatistics
<1>2. \A p : AppendStatistic(none, p) = none /\ RemoveStatistic(none, p) = none
  <2> HIDE DEF none
  <2> QED BY <1>1 DEF AppendStatistic, RemoveStatistic
<1> HIDE DEF none
<1>3. AppendStatistics(none, data) = none
  <2>1. PICK f : /\ f[0] = none /\ f[n] = AppendStatistics(none, data)
                 /\ \A i \in 1 .. n : f[i] = AppendStatistic(f[i - 1], data[i])
    BY AppendsAre
  <2> DEFINE S == {i \in 0 .. n : f[i] = none}
  <2>2. 0 \in S /\ \A i \in 1 .. n : i - 1 \in S => i \in S
    BY <1>2, <2>1
  <2> HIDE DEF S
  <2>3. \A i \in 0 .. n : i \in S
    BY <2>2, UpTo
  <2> QED BY <2>1, <2>3 DEF S
<1>4. RemoveStatistics(none, data) = none
  <2>1. PICK f : /\ f[0] = none /\ f[n] = RemoveStatistics(none, data)
                 /\ \A i \in 1 .. n : f[i] = RemoveStatistic(f[i - 1], data[i])
    BY RemovesAre
  <2> DEFINE S == {i \in 0 .. n : f[i] = none}
  <2>2. 0 \in S /\ \A i \in 1 .. n : i - 1 \in S => i \in S
    BY <1>2, <2>1
  <2> HIDE DEF S
  <2>3. \A i \in 0 .. n : i \in S
    BY <2>2, UpTo
  <2> QED BY <2>1, <2>3 DEF S
<1> QED BY <1>1, <1>3, <1>4 DEF none

-----------------------------------------------------------------------------
(***************************************************************************)
(* The statistics of a window.                                             *)
(***************************************************************************)
(* A cache is invalid or, without late points, that of the active points.  *)
StatsOK(w) ==
  \/ w.statistics = InvalidStatistics
  \/ DOMAIN w.late = {} /\ StatsOf(ActivePoints(w), w.statistics)

(* The sum of the live points in time order is that of the vector.         *)
LEMMA SortedIsMap ==
  ASSUME NEW q, Sorted(q)
  PROVE  InTimeOrder(LastWins(q)) = q
<1> DEFINE f == LastWins(q)
           r == InTimeOrder(f)
           n == Len(q)
           m == Len(r)
<1>1. q \in Seq(Points) /\ n \in Nat /\ (\A i \in 1 .. n : q[i].time \in Int)
      /\ \A i \in 1 .. n : q[i] \in Points
  BY VectorTimes DEF Sorted
<1>0. \A x \in Points, y \in Points : x.time = y.time /\ x.value = y.value => x = y
  BY DEF Points
<1>2. Sorted(r) /\ LastWins(r) = f /\ TimesOf(r) = TimesOf(q)
  BY <1>1, LastWinsIs, InTimeOrderIs
<1> HIDE DEF r
<1>3. r \in Seq(Points) /\ m \in Nat /\ (\A i \in 1 .. m : r[i].time \in Int)
      /\ \A i \in 1 .. m : r[i] \in Points
  BY <1>2, VectorTimes DEF Sorted
<1>4. PointsOf(r) \subseteq PointsOf(q)
  <2> SUFFICES ASSUME NEW i \in 1 .. m PROVE r[i] \in PointsOf(q)
    BY DEF PointsOf
  <2>1. r[i].time \in TimesOf(q) /\ f[r[i].time] = r[i].value
    BY <1>2, SortedMap
  <2>2. PICK j \in 1 .. n : q[j].time = r[i].time /\ f[r[i].time] = q[j].value
    BY <1>1, <2>1, LastWinsIs
  <2>3. q[j] = r[i]
    BY <1>0, <1>1, <1>3, <2>1, <2>2
  <2> QED BY <2>3 DEF PointsOf
<1>5. PointsOf(q) \subseteq PointsOf(r)
  <2> SUFFICES ASSUME NEW i \in 1 .. n PROVE q[i] \in PointsOf(r)
    BY DEF PointsOf
  <2>1. q[i].time \in TimesOf(r) /\ f[q[i].time] = q[i].value
    BY <1>2, SortedMap
  <2>2. PICK j \in 1 .. m : r[j].time = q[i].time /\ f[q[i].time] = r[j].value
    BY <1>2, <1>3, <2>1, LastWinsIs
  <2>3. r[j] = q[i]
    BY <1>0, <1>1, <1>3, <2>1, <2>2
  <2> QED BY <2>3 DEF PointsOf
<1>6. \A i \in 1 .. n : \A j \in 1 .. n : i < j => q[i].time < q[j].time
  BY DEF Sorted
<1>7. \A i \in 1 .. m : \A j \in 1 .. m : i < j => r[i].time < r[j].time
  BY <1>2 DEF Sorted
<1> DEFINE l == IF m <= n THEN m ELSE n
           S == {i \in 0 .. l : \A j \in 1 .. i : r[j] = q[j]}
<1>8. l \in Nat /\ l <= m /\ l <= n /\ (l = m \/ l = n)
  BY <1>1, <1>3
<1> HIDE DEF l
<1>9. 0 \in S
  BY <1>8
<1>10. ASSUME NEW k \in 1 .. l, k - 1 \in S
       PROVE  k \in S
  <2>1. /\ k \in 1 .. n /\ k \in 1 .. m /\ k \in 0 .. l
        /\ \A j \in 1 .. (k - 1) : r[j] = q[j]
    BY <1>1, <1>3, <1>8, <1>10
  <2>2. PICK a \in 1 .. n : q[a] = r[k]
    BY <1>4, <2>1 DEF PointsOf
  <2>3. PICK b \in 1 .. m : r[b] = q[k]
    BY <1>5, <2>1 DEF PointsOf
  <2>4. ~(a < k)
    <3> SUFFICES ASSUME a < k PROVE FALSE
      OBVIOUS
    <3>1. a \in 1 .. (k - 1) /\ a \in 1 .. m
      BY <1>8, <2>1
    <3>2. r[a] = q[a] /\ r[a].time < r[k].time
      BY <1>7, <2>1, <3>1
    <3> QED BY <1>3, <2>1, <2>2, <3>2
  <2>5. ~(b < k)
    <3> SUFFICES ASSUME b < k PROVE FALSE
      OBVIOUS
    <3>1. b \in 1 .. (k - 1) /\ b \in 1 .. n
      BY <1>8, <2>1
    <3>2. r[b] = q[b] /\ q[b].time < q[k].time
      BY <1>6, <2>1, <3>1
    <3> QED BY <1>1, <2>1, <2>3, <3>2
  <2>6. q[k].time <= r[k].time /\ r[k].time <= q[k].time
    <3>1. k = a \/ k < a
      BY <2>1, <2>4
    <3>2. k = b \/ k < b
      BY <2>1, <2>5
    <3>3. k < a => q[k].time < q[a].time
      BY <1>6, <2>1
    <3>4. k < b => r[k].time < r[b].time
      BY <1>7, <2>1
    <3> QED BY <1>1, <1>3, <2>1, <2>2, <2>3, <3>1, <3>2, <3>3, <3>4
  <2>7. q[a].time = q[k].time
    BY <1>1, <1>3, <2>1, <2>2, <2>6
  <2>8. a = k
    <3>1. a < k \/ a = k \/ k < a
      BY <2>1
    <3>2. ~(k < a)
      <4>1. k < a => q[k].time < q[a].time
        BY <1>6, <2>1
      <4> QED BY <1>1, <2>1, <2>7, <4>1
    <3> QED BY <2>4, <3>1, <3>2
  <2>9. \A j \in 1 .. k : j = k \/ j \in 1 .. (k - 1)
    BY <2>1
  <2> QED BY <2>1, <2>2, <2>8, <2>9
<1> HIDE DEF S
<1>11. \A i \in 0 .. l : i \in S
  BY <1>8, <1>9, <1>10, UpTo
<1>12. \A j \in 1 .. l : r[j] = q[j]
  BY <1>8, <1>11 DEF S
<1>13. m = n
  <2>1. CASE l = m /\ m < n
    <3>1. n \in 1 .. n /\ m + 1 \in 1 .. n
      BY <1>1, <1>3, <2>1
    <3>2. PICK b \in 1 .. m : r[b] = q[m + 1]
      BY <1>5, <3>1 DEF PointsOf
    <3>3. b \in 1 .. n /\ b < m + 1 /\ r[b] = q[b]
      BY <1>1, <1>3, <1>12, <2>1
    <3>4. q[b].time < q[m + 1].time
      BY <1>6, <3>1, <3>3
    <3> QED BY <1>1, <3>1, <3>2, <3>3, <3>4
  <2>2. CASE l = n /\ n < m
    <3>1. m \in 1 .. m /\ n + 1 \in 1 .. m
      BY <1>1, <1>3, <2>2
    <3>2. PICK b \in 1 .. n : q[b] = r[n + 1]
      BY <1>4, <3>1 DEF PointsOf
    <3>3. b \in 1 .. m /\ b < n + 1 /\ r[b] = q[b]
      BY <1>1, <1>3, <1>12, <2>2
    <3>4. r[b].time < r[n + 1].time
      BY <1>7, <3>1, <3>3
    <3> QED BY <1>3, <3>1, <3>2, <3>3, <3>4
  <2> QED BY <1>1, <1>3, <1>8, <2>1, <2>2
<1>14. r = q
  BY <1>1, <1>3, <1>8, <1>12, <1>13, SeqEqual
<1> QED BY <1>14 DEF r

(* A cache in closed form is what a scan of the live points finds.         *)
LEMMA StatsTrue ==
  ASSUME NEW w, WindowOK(w), StatsOK(w)
  PROVE  StatisticsTrue(w)
<1> DEFINE live == Live(w)
           numeric == {t \in DOMAIN live : live[t] # NonNumeric}
           values == {live[t] : t \in numeric}
           s == w.statistics
           q == ActivePoints(w)
           P == PointsOf(q)
           N == Numbers(P)
<1>1. SUFFICES ASSUME s.valid
               PROVE  /\ DOMAIN w.late = {}
                      /\ s.count = Cardinality(numeric)
                      /\ s.nonNumeric = Cardinality(DOMAIN live \ numeric)
                      /\ s.sum = Total(InTimeOrder(live))
                      /\ IF numeric = {} THEN s.minimum = <<>> /\ s.maximum = <<>>
                         ELSE /\ Head(s.minimum).value = Least(values)
                              /\ Head(s.maximum).value = Greatest(values)
  BY DEF StatisticsTrue
<1>2. s # InvalidStatistics
  <2>1. InvalidStatistics.valid = FALSE
    BY DEF InvalidStatistics, ResetStatistics
  <2> QED BY <1>1, <2>1
<1>3. DOMAIN w.late = {} /\ StatsOf(q, s)
  BY <1>2 DEF StatsOK
<1>4. /\ Sorted(q) /\ q \in Seq(Points) /\ live = LastWins(q) /\ IsMap(live)
      /\ DOMAIN live = TimesOf(q) /\ DOMAIN q = 1 .. Len(q)
  BY <1>3, ActiveIs, LiveVector, VectorTimes DEF WindowOK, Sorted
<1>5. /\ s.count = Cardinality(N) /\ s.nonNumeric = Cardinality(P \ N)
      /\ s.sum = Total(q)
      /\ Holds(s.minimum, Lows(N)) /\ Holds(s.maximum, Highs(N))
  BY <1>3 DEF StatsOf
<1>6. InTimeOrder(live) = q
  BY <1>4, SortedIsMap
<1> HIDE DEF live, q, s
<1>7. \A x \in P : x.time \in DOMAIN live /\ live[x.time] = x.value
  BY <1>4, SortedMap DEF PointsOf
<1>8. \A t \in DOMAIN live : \E x \in P : x.time = t
  BY <1>4 DEF PointsOf, TimesOf
<1>9. \A x, y \in P : x.time = y.time => x = y
  BY <1>4, SortedMap DEF PointsOf
<1>10. IsFiniteSet(P) /\ IsFiniteSet(N) /\ IsFiniteSet(P \ N) /\ N \subseteq P
       /\ \A x \in P : x.value \in Values
  <2>1. IsFiniteSet(P) /\ \A x \in P : x.value \in Values
    BY <1>4, PointsAre
  <2>2. N \subseteq P /\ (P \ N) \subseteq P
    BY DEF Numbers
  <2> QED BY <2>1, <2>2, FS_Subset
<1>11. Cardinality(numeric) = Cardinality(N)
  <2> DEFINE f == [x \in N |-> x.time]
  <2>1. \A x \in N : x.time \in numeric
    BY <1>7, <1>10 DEF Numbers
  <2>2. \A t \in numeric : \E x \in N : x.time = t
    BY <1>7, <1>8 DEF Numbers
  <2>3. f \in Bijection(N, numeric)
    <3>1. f \in [N -> numeric]
      BY <2>1
    <3>2. f \in Surjection(N, numeric)
      BY <2>2, <3>1 DEF Surjection
    <3>3. f \in Injection(N, numeric)
      BY <1>9, <1>10, <3>1 DEF Injection, IsInjective
    <3> QED BY <3>2, <3>3 DEF Bijection
  <2> HIDE DEF f, N, numeric
  <2>4. ExistsBijection(N, numeric)
    BY <2>3 DEF ExistsBijection
  <2> QED BY <1>10, <2>4, FS_Bijection
<1>12. Cardinality(DOMAIN live \ numeric) = Cardinality(P \ N)
  <2> DEFINE f == [x \in P \ N |-> x.time]
             rest == DOMAIN live \ numeric
             M == P \ N
  <2>1. \A x \in M : x.time \in rest
    BY <1>7 DEF Numbers
  <2>2. \A t \in rest : \E x \in M : x.time = t
    BY <1>7, <1>8 DEF Numbers
  <2>3. f \in Bijection(M, rest)
    <3>1. f \in [M -> rest]
      BY <2>1
    <3>2. f \in Surjection(M, rest)
      BY <2>2, <3>1 DEF Surjection
    <3>3. f \in Injection(M, rest)
      BY <1>9, <3>1 DEF Injection, IsInjective
    <3> QED BY <3>2, <3>3 DEF Bijection
  <2>4. IsFiniteSet(M)
    BY <1>10
  <2> HIDE DEF f, M, rest
  <2>5. Cardinality(rest) = Cardinality(M)
    <3>1. ExistsBijection(M, rest)
      BY <2>3 DEF ExistsBijection
    <3> QED BY <2>4, <3>1, FS_Bijection
  <2> QED BY <2>5 DEF M, rest
<1>13. \A v : v \in values <=> \E x \in N : v = x.value
  <2>1. ASSUME NEW v \in values
        PROVE  \E x \in N : v = x.value
    <3>1. PICK t \in numeric : v = live[t]
      OBVIOUS
    <3>2. PICK x \in P : x.time = t
      BY <1>8
    <3> QED BY <1>7, <3>1, <3>2 DEF Numbers
  <2>2. ASSUME NEW x \in N
        PROVE  x.value \in values
    <3>1. x.time \in numeric /\ live[x.time] = x.value
      BY <1>7, <1>10 DEF Numbers
    <3> QED BY <3>1
  <2> QED BY <2>1, <2>2
<1>14. ASSUME numeric = {}
       PROVE  s.minimum = <<>> /\ s.maximum = <<>>
  <2>1. N = {}
    BY <1>7, <1>14 DEF Numbers
  <2>2. Lows({}) = {} /\ Highs({}) = {}
    BY DEF Lows, Highs
  <2>3. ASSUME NEW d, Holds(d, {})
        PROVE  d = <<>>
    <3>1. d \in Seq(Points) /\ Len(d) \in Nat
      BY <2>3, VectorTimes DEF Holds, Sorted
    <3>2. ~(1 \in 1 .. Len(d))
      BY <2>3 DEF Holds, PointsOf
    <3>3. Len(d) = 0
      BY <3>1, <3>2
    <3> QED BY <3>1, <3>3, EmptySeq
  <2> QED BY <1>5, <2>1, <2>2, <2>3
<1>15. ASSUME numeric # {}
       PROVE  /\ Head(s.minimum).value = Least(values)
              /\ Head(s.maximum).value = Greatest(values)
  <2>1. PICK y \in N : TRUE
    <3>1. PICK t \in numeric : TRUE
      BY <1>15
    <3>2. PICK x \in P : x.time = t
      BY <1>8
    <3> QED BY <1>7, <3>1, <3>2 DEF Numbers
  <2> DEFINE low == Head(s.minimum)
             high == Head(s.maximum)
  <2>2. low \in N /\ \A x \in N : low.value <= x.value
    <3> DEFINE d == s.minimum
    <3>1. Holds(d, Lows(N))
      BY <1>5
    <3> HIDE DEF d
    <3>2. \A x \in N : Head(d) \in N /\ Head(d).value <= x.value
      BY <1>4, <3>1, LowestFirst
    <3> QED BY <2>1, <3>2 DEF d
  <2>3. high \in N /\ \A x \in N : high.value >= x.value
    <3> DEFINE d == s.maximum
    <3>1. Holds(d, Highs(N))
      BY <1>5
    <3> HIDE DEF d
    <3>2. \A x \in N : Head(d) \in N /\ Head(d).value >= x.value
      BY <1>4, <3>1, HighestFirst
    <3> QED BY <2>1, <3>2 DEF d
  <2>4. \A x \in N : x.value \in Int
    BY <1>10 DEF Numbers, Values
  <2> HIDE DEF low, high, values, N
  <2>5. /\ low.value \in values /\ \A v \in values : low.value <= v /\ v \in Int
        /\ high.value \in values /\ \A v \in values : high.value >= v
    BY <1>13, <2>2, <2>3, <2>4
  <2>6. Least(values) = low.value
    <3>1. Least(values) \in values /\ \A v \in values : Least(values) <= v
      BY <2>5 DEF Least
    <3> QED BY <2>5, <3>1
  <2>7. Greatest(values) = high.value
    <3>1. Greatest(values) \in values /\ \A v \in values : Greatest(values) >= v
      BY <2>5 DEF Greatest
    <3> QED BY <2>5, <3>1
  <2> QED BY <2>6, <2>7 DEF low, high
<1> HIDE DEF numeric, values, N, P
<1> QED BY <1>3, <1>5, <1>6, <1>11, <1>12, <1>14, <1>15

(* A merge, a flush and a kept late point leave an invalid cache.          *)
LEMMA MergeStats ==
  ASSUME NEW w, WindowOK(w), NEW f
  PROVE  MergePoints(w, f).statistics = InvalidStatistics
<1> DEFINE v == [w EXCEPT !.statistics = InvalidStatistics]
           c == Compact(v)
           merged == InTimeOrder(Over(f, LastWins(c.points)))
           m == MergePoints(w, f)
<1>1. WindowOK(v) /\ v.statistics = InvalidStatistics
  BY StatisticsApart DEF WindowOK, WindowShape
<1>2. m = IF DOMAIN f = {} THEN c
          ELSE [c EXCEPT !.points = merged, !.latest = Last(merged).time]
  BY DEF MergePoints
<1> HIDE DEF v
<1>3. WindowOK(c) /\ c.statistics = InvalidStatistics
  BY <1>1, CompactIs
<1> HIDE DEF c, merged, m
<1>4. m.statistics = InvalidStatistics
  BY <1>2, <1>3 DEF WindowOK, WindowShape
<1> QED BY <1>4 DEF m

LEMMA FlushStats ==
  ASSUME NEW w, WindowOK(w), DOMAIN w.late # {}
  PROVE  FlushLate(w).statistics = InvalidStatistics
<1> DEFINE v == [w EXCEPT !.late = <<>>]
<1>1. FlushLate(w) = MergePoints(v, w.late)
  BY DEF FlushLate
<1>2. WindowOK(v)
  <2>1. /\ v.points = w.points /\ v.activeBegin = w.activeBegin
        /\ v.late = <<>> /\ v.latest = w.latest
        /\ v = [points |-> v.points, activeBegin |-> v.activeBegin, late |-> v.late,
                latest |-> v.latest, statistics |-> v.statistics]
    BY DEF WindowOK, WindowShape
  <2> HIDE DEF v
  <2> QED BY <2>1, NoPoints DEF WindowOK, WindowShape, Bounded
<1> HIDE DEF v
<1> QED BY <1>1, <1>2, MergeStats

LEMMA KeepStats ==
  ASSUME NEW w, WindowOK(w), NEW data \in Seq(Points), TimesOf(data) # {}
  PROVE  StatsOK(KeepLate(w, data))
<1> DEFINE f == LastWins(data)
           l == Over(f, w.late)
           newest == Greatest(DOMAIN f)
           n == IF w.latest = NoTime \/ newest > w.latest THEN newest ELSE w.latest
           v == [w EXCEPT !.statistics = InvalidStatistics, !.late = l, !.latest = n]
           k == KeepLate(w, data)
<1>1. k = IF Cardinality(DOMAIN v.late) >= FlushThreshold THEN FlushLate(v) ELSE v
  BY DEF KeepLate
<1>2. /\ IsMap(f) /\ DOMAIN f = TimesOf(data) /\ IsMap(w.late)
  BY LastWinsIs DEF WindowOK, WindowShape
<1>3. DOMAIN l # {}
  BY <1>2, OverIs
<1>4. newest \in Int /\ \A t \in DOMAIN f : t \in Int /\ newest >= t
  <2> DEFINE D == DOMAIN f
  <2>1. IsFiniteSet(D) /\ D # {} /\ D \subseteq Int
    BY <1>2 DEF IsMap, TimeSet
  <2> HIDE DEF D
  <2>2. Greatest(D) \in D /\ \A t \in D : Greatest(D) >= t
    BY <2>1, GreatestIs
  <2> QED BY <2>1, <2>2 DEF D
<1> HIDE DEF k
<1>5. k.statistics = InvalidStatistics
  <2>1. v.statistics = InvalidStatistics /\ v.late = l
    BY DEF WindowOK, WindowShape
  <2>2. CASE k = v
    BY <2>1, <2>2
  <2>3. CASE k = FlushLate(v)
    <3>1. WindowOK(v)
      <4>1. /\ w.latest \in Int \cup {NoTime} /\ Sorted(w.points)
            /\ \A t \in TimesOf(w.points) \cup DOMAIN w.late :
                 w.latest # NoTime /\ t <= w.latest /\ t \in Int
        BY <1>2, VectorTimes DEF WindowOK, WindowShape, Bounded, IsMap, TimeSet, Sorted
      <4>2. IsMap(l) /\ DOMAIN l = (DOMAIN f) \cup DOMAIN w.late
        BY <1>2, OverIs
      <4> HIDE DEF l, f, newest
      <4>3. /\ n \in Int /\ n # NoTime /\ newest <= n
            /\ w.latest # NoTime => w.latest <= n
        BY <1>4, <4>1, SequenceWindowAssumption
      <4>4. \A t \in TimesOf(w.points) \cup DOMAIN l : n # NoTime /\ t <= n
        BY <1>4, <4>1, <4>2, <4>3
      <4> HIDE DEF n
      <4>5. v = [points |-> w.points, activeBegin |-> w.activeBegin, late |-> l,
                 latest |-> n, statistics |-> InvalidStatistics]
        <5>1. w = [points |-> w.points, activeBegin |-> w.activeBegin,
                   late |-> w.late, latest |-> w.latest,
                   statistics |-> w.statistics]
          BY DEF WindowOK, WindowShape
        <5>2. v = [w EXCEPT !.statistics = InvalidStatistics, !.late = l,
                            !.latest = n]
          OBVIOUS
        <5> HIDE DEF v
        <5> QED BY <5>1, <5>2
      <4> HIDE DEF v
      <4> QED BY <4>1, <4>2, <4>3, <4>4, <4>5 DEF WindowOK, WindowShape, Bounded
    <3>2. DOMAIN v.late # {}
      BY <1>3, <2>1
    <3> HIDE DEF v
    <3> QED BY <2>3, <3>1, <3>2, FlushStats
  <2> HIDE DEF v
  <2> QED BY <1>1, <2>2, <2>3
<1> QED BY <1>5 DEF StatsOK, k

(* The window of a replacement, and a rebuilt one, have exact statistics.  *)
LEMMA RebuildStats ==
  ASSUME NEW w, WindowOK(w)
  PROVE  StatsOK(RebuildStatistics(w))
<1> DEFINE f == FlushLate(w)
           q == ActivePoints(f)
           s == AppendStatistics(ResetStatistics, q)
           r == [f EXCEPT !.statistics = s]
<1>1. WindowOK(f) /\ DOMAIN f.late = {}
  BY FlushIs
<1>2. RebuildStatistics(w) = r
  BY DEF RebuildStatistics
<1> HIDE DEF f
<1>3. Sorted(q) /\ q \in Seq(Points)
  BY <1>1, ActiveIs DEF WindowOK, Sorted
<1>4. StatsOf(q, s)
  <2>1. <<>> \o q = q /\ <<>> \in Seq(Points)
    BY <1>3, ConcatEmptySeq
  <2> HIDE DEF q
  <2>2. StatsOf(<<>> \o q, AppendStatistics(ResetStatistics, q))
    BY <1>3, <2>1, NoStatistics, StatsAppends
  <2> QED BY <2>1, <2>2 DEF s
<1>5. ActivePoints(r) = q /\ r.late = f.late
  BY <1>1, StatisticsApart
<1>6. r.statistics = s
  BY <1>1 DEF WindowOK, WindowShape
<1> HIDE DEF r, s, q
<1> QED BY <1>1, <1>2, <1>4, <1>5, <1>6 DEF StatsOK

LEMMA ReplaceStats ==
  ASSUME NEW data \in Seq(Points)
  PROVE  StatsOK(ReplaceWindow(data))
<1> DEFINE q == InTimeOrder(LastWins(data))
           s == AppendStatistics(ResetStatistics, q)
           w == ReplaceWindow(data)
<1>1. Sorted(q) /\ q \in Seq(Points)
  BY LastWinsIs, InTimeOrderIs DEF Sorted
<1>2. /\ w.points = q /\ w.activeBegin = 0 /\ w.late = <<>> /\ w.statistics = s
  BY DEF ReplaceWindow
<1>3. WindowOK(w)
  BY ReplaceIs
<1>4. StatsOf(q, s)
  <2>1. <<>> \o q = q /\ <<>> \in Seq(Points)
    BY <1>1, ConcatEmptySeq
  <2> HIDE DEF q
  <2>2. StatsOf(<<>> \o q, AppendStatistics(ResetStatistics, q))
    BY <1>1, <2>1, NoStatistics, StatsAppends
  <2> QED BY <2>1, <2>2 DEF s
<1> HIDE DEF q, s, w
<1>5. ActivePoints(w) = q /\ DOMAIN w.late = {}
  BY <1>2, <1>3, AllActive, NoPoints DEF WindowOK
<1> QED BY <1>2, <1>4, <1>5 DEF StatsOK, w

(* Appends keep a valid cache exact: they are behind every point.          *)
LEMMA AppendStats ==
  ASSUME NEW w, WindowOK(w), StatsOK(w), NEW data \in Seq(Points), data # <<>>,
         AppendOnly(w, data)
  PROVE  StatsOK(AppendPoints(w, data))
<1> DEFINE a == ActivePoints(w)
           s == AppendStatistics(w.statistics, data)
           v == AppendPoints(w, data)
<1>1. WindowOK(v)
  BY AppendIs
<1>2. /\ v.points = w.points \o data /\ v.activeBegin = w.activeBegin
      /\ v.late = w.late /\ v.statistics = s
  BY DEF AppendPoints, WindowOK, WindowShape
<1>3. /\ w.points \in Seq(Points) /\ w.activeBegin \in 0 .. Len(w.points)
      /\ a \in Seq(Points) /\ Len(data) \in Nat
  BY ActiveIs, LenProperties DEF WindowOK, WindowShape, Sorted
<1> HIDE DEF v
<1>4. ActivePoints(v) = a \o data
  BY <1>2, <1>3, ActiveAppend DEF ActivePoints
<1>5. Sorted(a \o data)
  BY <1>1, <1>4, ActiveIs DEF WindowOK
<1> HIDE DEF a
<1>6. CASE w.statistics = InvalidStatistics
  BY <1>2, <1>3, <1>6, InvalidStays DEF StatsOK, v
<1>7. CASE DOMAIN w.late = {} /\ StatsOf(a, w.statistics)
  <2> DEFINE t == w.statistics
  <2>1. StatsOf(a, t)
    BY <1>7
  <2> HIDE DEF t
  <2>2. StatsOf(a \o data, AppendStatistics(t, data))
    BY <1>3, <1>5, <2>1, StatsAppends
  <2> QED BY <1>2, <1>4, <1>7, <2>2 DEF StatsOK, v, t
<1> QED BY <1>6, <1>7 DEF StatsOK, a

LEMMA InsertStats ==
  ASSUME NEW w, WindowOK(w), StatsOK(w), NEW data \in Seq(Points), data # <<>>
  PROVE  StatsOK(InsertPoints(w, data))
<1>1. CASE AppendOnly(w, data)
  BY <1>1, AppendStats DEF InsertPoints
<1>2. CASE ~AppendOnly(w, data) /\ IsEmptyWindow(w)
  <2>1. InsertPoints(w, data) = MergePoints(w, LastWins(data))
    BY <1>2 DEF InsertPoints
  <2> QED BY <2>1, MergeStats DEF StatsOK
<1>3. CASE ~AppendOnly(w, data) /\ ~IsEmptyWindow(w)
  <2>1. InsertPoints(w, data) = KeepLate(w, data)
    BY <1>3 DEF InsertPoints
  <2>2. TimesOf(data) # {}
    <3>1. Len(data) \in Nat /\ Len(data) # 0 /\ DOMAIN data = 1 .. Len(data)
      BY VectorTimes
    <3>2. 1 \in DOMAIN data
      BY <3>1
    <3> QED BY <3>2 DEF TimesOf
  <2> QED BY <2>1, <2>2, KeepStats
<1> QED BY <1>1, <1>2, <1>3

(* An eviction from the left edge keeps a valid cache exact; one of late   *)
(* points is only met with an invalid cache.                               *)
LEMMA PruneStats ==
  ASSUME NEW w, WindowOK(w), StatsOK(w), NEW start \in Int
  PROVE  StatsOK(PruneWindow(w, start))
<1> DEFINE a == ActivePoints(w)
           lb == LowerBound(a, start)
           expired == SubSeq(a, 1, lb)
           fresh == {t \in DOMAIN w.late : t >= start}
           left == RemoveStatistics(w.statistics, expired)
           s == IF fresh = DOMAIN w.late THEN left ELSE InvalidStatistics
           b == w.activeBegin + Len(expired)
           l == Restrict(w.late, fresh)
           v == [w EXCEPT !.activeBegin = b, !.late = l, !.statistics = s]
<1>1. PruneWindow(w, start) =
        IF v.activeBegin >= CompactThreshold /\ v.activeBegin * 2 >= Len(v.points)
        THEN Compact(v) ELSE v
  BY DEF PruneWindow
<1>2. /\ Sorted(a) /\ Len(a) = Len(w.points) - w.activeBegin
      /\ \A i \in 1 .. Len(a) : a[i] = w.points[w.activeBegin + i]
  BY ActiveIs DEF WindowOK
<1>3. /\ lb \in 0 .. Len(a) /\ Len(w.points) \in Nat /\ Len(a) \in Nat
      /\ w.activeBegin \in 0 .. Len(w.points) /\ Sorted(w.points)
      /\ w.points \in Seq(Points) /\ a \in Seq(Points)
      /\ IsMap(w.late)
  BY <1>2, BoundsAre, VectorTimes DEF WindowOK, WindowShape, Sorted
<1>4. Len(expired) = lb
  <2>1. 0 \in 0 .. Len(a) /\ 0 <= lb /\ 0 + 1 = 1 /\ lb - 0 = lb
    BY <1>3
  <2> HIDE DEF a, lb
  <2>2. Len(SubSeq(a, 0 + 1, lb)) = lb - 0
    BY <1>2, <1>3, <2>1, PartOf
  <2> QED BY <2>1, <2>2
<1>5. IsMap(l) /\ DOMAIN l = fresh
  BY <1>3, RestrictIs
<1> HIDE DEF a, lb, expired, left, l
<1>6. v = [points |-> w.points, activeBegin |-> b, late |-> l, latest |-> w.latest,
           statistics |-> s]
  <2>1. w = [points |-> w.points, activeBegin |-> w.activeBegin, late |-> w.late,
             latest |-> w.latest, statistics |-> w.statistics]
    BY DEF WindowOK, WindowShape
  <2>2. v = [w EXCEPT !.activeBegin = b, !.late = l, !.statistics = s]
    OBVIOUS
  <2> HIDE DEF v, b, s
  <2> QED BY <2>1, <2>2
<1>7. b \in 0 .. Len(w.points) /\ b = w.activeBegin + lb
  BY <1>2, <1>3, <1>4
<1> HIDE DEF v, b, s
<1>8. WindowOK(v)
  BY <1>3, <1>5, <1>6, <1>7 DEF WindowOK, WindowShape, Bounded
<1>9. ActivePoints(v) = SubSeq(a, lb + 1, Len(a))
  <2> DEFINE n == Len(w.points)
             x == SubSeq(w.points, b + 1, n)
             y == SubSeq(a, lb + 1, Len(a))
  <2>1. n \in 0 .. n /\ b <= n /\ lb <= Len(a) /\ Len(a) \in 0 .. Len(a)
    BY <1>3, <1>7
  <2>2. Sorted(x) /\ Len(x) = n - b /\ \A i \in 1 .. Len(x) : x[i] = w.points[b + i]
    BY <1>3, <1>7, <2>1, PartOf
  <2>3. Sorted(y) /\ Len(y) = Len(a) - lb /\ \A i \in 1 .. Len(y) : y[i] = a[lb + i]
    <3> DEFINE m == Len(a)
    <3>1. m \in 0 .. Len(a) /\ lb \in 0 .. Len(a) /\ lb <= m /\ Sorted(a)
      BY <1>2, <1>3, <2>1
    <3>2. y = SubSeq(a, lb + 1, m)
      OBVIOUS
    <3> HIDE DEF m, y
    <3>3. Sorted(y) /\ Len(y) = m - lb /\ \A i \in 1 .. Len(y) : y[i] = a[lb + i]
      BY <3>1, <3>2, PartOf
    <3> QED BY <3>3 DEF m
  <2> HIDE DEF x, y
  <2>4. Len(x) = Len(y)
    BY <1>2, <1>3, <1>7, <2>2, <2>3, SMTT(20)
  <2>5. \A i \in 1 .. Len(x) : x[i] = y[i]
    <3> SUFFICES ASSUME NEW i \in 1 .. Len(x) PROVE x[i] = y[i]
      OBVIOUS
    <3>1. lb + i \in 1 .. Len(a) /\ w.activeBegin + (lb + i) = b + i
      BY <1>3, <1>7, <2>3, <2>4
    <3> QED BY <1>2, <2>2, <2>3, <2>4, <3>1
  <2>6. x = y
    BY <2>2, <2>3, <2>4, <2>5, SeqEqual DEF Sorted
  <2> QED BY <1>6, <2>6 DEF x, y, ActivePoints
<1>10. StatsOK(v)
  <2>1. CASE fresh # DOMAIN w.late
    BY <1>6, <2>1 DEF StatsOK, s
  <2>2. CASE fresh = DOMAIN w.late /\ w.statistics = InvalidStatistics
    <3>1. Len(expired) \in Nat
      BY <1>3, <1>4
    <3>2. left = InvalidStatistics
      BY <2>2, <3>1, InvalidStays DEF left
    <3> QED BY <1>6, <2>2, <3>2 DEF StatsOK, s
  <2>3. CASE /\ fresh = DOMAIN w.late /\ DOMAIN w.late = {}
             /\ StatsOf(a, w.statistics)
    <3> DEFINE t == w.statistics
    <3>1. StatsOf(a, t)
      BY <2>3
    <3> HIDE DEF t
    <3>2. StatsOf(SubSeq(a, lb + 1, Len(a)), RemoveStatistics(t, SubSeq(a, 1, lb)))
      BY <1>2, <1>3, <3>1, StatsRemoves
    <3>3. v.statistics = RemoveStatistics(t, SubSeq(a, 1, lb))
      BY <1>6, <2>3 DEF s, left, expired, t
    <3> QED BY <1>5, <1>6, <1>9, <2>3, <3>2, <3>3 DEF StatsOK
  <2>4. fresh # DOMAIN w.late => DOMAIN w.late # {}
    OBVIOUS
  <2>5. DOMAIN w.late = {} => fresh = DOMAIN w.late
    OBVIOUS
  <2> QED BY <2>1, <2>2, <2>3, <2>5 DEF StatsOK, a
<1>11. StatsOK(Compact(v))
  BY <1>8, <1>10, CompactIs DEF StatsOK
<1> QED BY <1>1, <1>10, <1>11

LEMMA PatchStats ==
  ASSUME NEW w, WindowOK(w), NEW start \in Int, NEW end \in Int, start <= end,
         NEW data \in Seq(Points)
  PROVE  StatsOK(PatchWindow(w, start, end, data))
<1> DEFINE f == FlushLate(w)
           c == Compact(f)
           q == c.points
           left == SubSeq(q, 1, LowerBound(q, start))
                     \o SubSeq(q, UpperBound(q, end) + 1, Len(q))
           v == [c EXCEPT !.points = left]
<1>1. WindowOK(f)
  BY FlushIs
<1>2. PatchWindow(w, start, end, data) = MergePoints(v, LastWins(data))
  BY DEF PatchWindow
<1> HIDE DEF f
<1>3. WindowOK(c) /\ c.activeBegin = 0
  BY <1>1, CompactIs
<1> HIDE DEF c
<1>4. /\ Sorted(left) /\ TimesOf(left) = TimesOf(q) \ (start .. end)
      /\ Len(left) \in Nat
  <2>1. Sorted(q)
    BY <1>3 DEF WindowOK, WindowShape
  <2> HIDE DEF q
  <2>2. Sorted(left) /\ TimesOf(left) = TimesOf(q) \ (start .. end)
    BY <2>1, OutsideIs
  <2> HIDE DEF left
  <2> QED BY <2>2, VectorTimes DEF Sorted
<1> HIDE DEF left
<1>5. /\ v.points = left /\ v.activeBegin = 0 /\ v.late = c.late /\ v.latest = c.latest
      /\ v = [points |-> v.points, activeBegin |-> v.activeBegin, late |-> v.late,
              latest |-> v.latest, statistics |-> v.statistics]
  BY <1>3 DEF WindowOK, WindowShape
<1> HIDE DEF v
<1>6. WindowOK(v)
  BY <1>3, <1>4, <1>5 DEF WindowOK, WindowShape, Bounded
<1> QED BY <1>2, <1>6, MergeStats DEF StatsOK

StatsInv == \A s \in SequenceIds : StatsOK(window[s])

(* One window is replaced by another one.                                  *)
LEMMA OneWindow ==
  ASSUME WindowInv, StatsInv, NEW s \in SequenceIds, NEW after, StatsOK(after),
         window' = [window EXCEPT ![s] = after]
  PROVE  StatsInv'
<1>1. window = [q \in SequenceIds |-> window[q]]
  BY DEF WindowInv
<1>2. \A q \in SequenceIds : window'[q] = IF q = s THEN after ELSE window[q]
  BY <1>1
<1>3. \A q \in SequenceIds : StatsOK(window'[q])
  BY <1>2 DEF StatsInv
<1> QED BY <1>3 DEF StatsInv

LEMMA StatsNext ==
  ASSUME WindowInv, StatsInv, [Next]_vars
  PROVE  StatsInv'
<1>1. \A s \in SequenceIds : WindowOK(window[s]) /\ StatsOK(window[s])
  BY DEF WindowInv, StatsInv
<1>2. ASSUME UNCHANGED window
      PROVE  StatsInv'
  BY <1>2 DEF StatsInv
<1>3. ASSUME NEW c \in Callers, CallerStep(c)
      PROVE  StatsInv'
  <2>1. CASE Insert(c)
    <3>1. PICK s \in call[c].inserting :
            LET data == IncomingFor(call[c].batch, s)
                after == InsertPoints(window[s], data)
            IN /\ s \in SequenceIds /\ data \in Seq(Points) /\ data # <<>>
               /\ window' = [window EXCEPT ![s] = after]
      BY <2>1, InsertStep
    <3> DEFINE data == IncomingFor(call[c].batch, s)
               after == InsertPoints(window[s], data)
    <3>2. window' = [window EXCEPT ![s] = after] /\ data \in Seq(Points) /\ data # <<>>
      BY <3>1
    <3> HIDE DEF data
    <3>3. StatsOK(after)
      BY <1>1, <3>1, <3>2, InsertStats
    <3> HIDE DEF after
    <3> QED BY <3>1, <3>2, <3>3, OneWindow
  <2>2. CASE Prune(c)
    <3>1. PICK s \in call[c].pruning :
            LET after == PruneWindow(window[s], call[c].start)
            IN /\ s \in SequenceIds /\ call[c].start \in Int
               /\ window' = [window EXCEPT ![s] = after]
      BY <2>2, PruneStep
    <3> DEFINE after == PruneWindow(window[s], call[c].start)
    <3>2. window' = [window EXCEPT ![s] = after]
      BY <3>1
    <3>3. StatsOK(after)
      BY <1>1, <3>1, PruneStats
    <3> HIDE DEF after
    <3> QED BY <3>1, <3>2, <3>3, OneWindow
  <2>3. CASE ReplaceDerived(c)
    <3>1. PICK s \in DerivedIds, data \in DerivedBatches :
            window' = [window EXCEPT ![s] = ReplaceWindow(data)]
      BY <2>3 DEF ReplaceDerived
    <3>2. s \in SequenceIds /\ StatsOK(ReplaceWindow(data))
      BY WindowServiceAssumption, BatchAssumption, ReplaceStats
    <3> QED BY <3>1, <3>2, OneWindow
  <2>4. CASE PatchDerived(c)
    <3>1. PICK s \in DerivedIds, range \in Patches, data \in DerivedBatches :
            window' = [window EXCEPT
                         ![s] = PatchWindow(@, range[1], range[2], data)]
      BY <2>4 DEF PatchDerived
    <3> DEFINE start == range[1]
               end == range[2]
               after == PatchWindow(window[s], start, end, data)
    <3>2. /\ s \in SequenceIds /\ start \in Int /\ end \in Int /\ start <= end
          /\ data \in Seq(Points)
      BY WindowServiceAssumption, BatchAssumption
    <3>3. window' = [window EXCEPT ![s] = after]
      BY <3>1
    <3> HIDE DEF start, end
    <3>4. StatsOK(after)
      BY <1>1, <3>2, PatchStats
    <3> HIDE DEF after
    <3> QED BY <3>2, <3>3, <3>4, OneWindow
  <2>5. CASE Begin(c) \/ Return(c) \/ ReplacedDerived(c) \/ ConfigureWindowSize(c)
    <3>1. UNCHANGED window
      BY <2>5 DEF Begin, Return, ReplacedDerived, ConfigureWindowSize
    <3> QED BY <1>2, <3>1
  <2> QED BY <1>3, <2>1, <2>2, <2>3, <2>4, <2>5 DEF CallerStep
<1>4. CASE QueryStatistics
  <2>1. PICK s \in known : window' = [window EXCEPT ![s] = RebuildStatistics(@)]
    BY <1>4 DEF QueryStatistics
  <2> DEFINE after == RebuildStatistics(window[s])
  <2>2. s \in SequenceIds
    BY DEF WindowInv
  <2>3. StatsOK(after)
    BY <1>1, <2>2, RebuildStats
  <2>4. window' = [window EXCEPT ![s] = after]
    BY <2>1
  <2> HIDE DEF after
  <2> QED BY <2>2, <2>3, <2>4, OneWindow
<1>5. CASE UNCHANGED vars
  BY <1>2, <1>5 DEF vars
<1> QED BY <1>3, <1>4, <1>5 DEF Next

LEMMA StatsInvariant ==
  Spec => []StatsInv
<1>1. Init => StatsInv
  <2>1. ActivePoints(EmptyWindow) = <<>>
    <3>1. EmptyWindow.points = <<>> /\ EmptyWindow.activeBegin = 0
      BY DEF EmptyWindow
    <3> QED BY <3>1, EmptyIs, AllActive DEF WindowOK
  <2>2. DOMAIN EmptyWindow.late = {} /\ EmptyWindow.statistics = ResetStatistics
    BY NoPoints DEF EmptyWindow
  <2>3. StatsOK(EmptyWindow)
    BY <2>1, <2>2, NoStatistics DEF StatsOK
  <2> QED BY <2>3 DEF Init, StatsInv
<1>2. WindowInv /\ StatsInv /\ [Next]_vars => StatsInv'
  BY StatsNext
<1>3. Spec => []WindowInv
  BY WindowInvariant
<1> QED BY <1>1, <1>2, <1>3, PTL DEF Spec

(* No reader gets wrong statistics: whatever updates, corrections,         *)
(* evictions and patches a window went through, a cache that says it is    *)
(* valid has the counts, the sum and the extremes of the live points.      *)
THEOREM StatisticsAreExact ==
  Spec => []StatisticsExact
<1>1. WindowInv /\ StatsInv => StatisticsExact
  BY StatsTrue DEF WindowInv, StatsInv, StatisticsExact
<1> QED BY <1>1, WindowInvariant, StatsInvariant, PTL
-----------------------------------------------------------------------------
(***************************************************************************)
(* The type invariant.                                                     *)
(***************************************************************************)
(* A call works on sequences the service has, and vouches for its own.     *)
KnownInv ==
  \A c \in Callers :
    /\ call[c].inserting \subseteq known /\ call[c].pruning \subseteq known
    /\ call[c].safe \subseteq SequencesOf(call[c].batch)

LEMMA IdleKnows ==
  Idle.inserting = {} /\ Idle.pruning = {} /\ Idle.safe = {}
BY DEF Idle

LEMMA PruneAllKnows ==
  ASSUME WindowInv, KnownInv, NEW c \in Callers, NEW n, PruneAll(c, n),
         UNCHANGED known
  PROVE  KnownInv'
<1>1. /\ call'[c] = IF watermark = NoTime THEN Idle
                    ELSE [Idle EXCEPT !.pc = "pruning",
                                      !.start = WindowStart(watermark, n),
                                      !.pruning = known]
      /\ \A d \in Callers : d # c => call'[d] = call[d]
  BY DEF PruneAll, WindowInv
<1>2. /\ call'[c].inserting = {} /\ call'[c].safe = {}
      /\ call'[c].pruning \subseteq known
  BY <1>1, IdleKnows DEF Idle
<1>3. \A d \in Callers : d # c => call'[d] = call[d]
  BY <1>1
<1> QED BY <1>2, <1>3 DEF KnownInv

LEMMA KnownNext ==
  ASSUME WindowInv, KnownInv, [Next]_vars
  PROVE  KnownInv'
<1>1. ASSUME UNCHANGED call, known \subseteq known'
      PROVE  KnownInv'
  BY <1>1 DEF KnownInv
<1>2. ASSUME NEW c \in Callers, CallerStep(c)
      PROVE  KnownInv'
  <2>1. CASE Begin(c)
    <3>1. PICK batch, n, mark, next :
            /\ known' = known \cup SequencesOf(batch)
            /\ call' = [call EXCEPT
                          ![c] = [Idle EXCEPT
                                    !.pc = "inserting",
                                    !.batch = batch,
                                    !.start = WindowStart(mark, n),
                                    !.inserting = SequencesOf(batch),
                                    !.pruning = known',
                                    !.generation = next]]
      BY <2>1 DEF Begin
    <3>2. /\ call'[c].inserting = SequencesOf(batch) /\ call'[c].pruning = known'
          /\ call'[c].safe = {}
      BY <3>1 DEF WindowInv, Idle
    <3>3. \A d \in Callers : d # c => call'[d] = call[d]
      BY <3>1 DEF WindowInv
    <3> QED BY <3>1, <3>2, <3>3 DEF KnownInv
  <2>2. CASE Insert(c)
    <3>1. PICK s \in call[c].inserting :
            /\ call'[c].inserting = call[c].inserting \ {s}
            /\ call'[c].pruning = call[c].pruning
            /\ call'[c].batch = call[c].batch
            /\ call'[c].safe \subseteq call[c].safe \cup {s}
      <4>1. PICK s \in call[c].inserting :
              LET data == IncomingFor(call[c].batch, s)
                  after == InsertPoints(window[s], data)
                  rest == call[c].inserting \ {s}
              IN call' = [call EXCEPT
                   ![c].inserting = rest,
                   ![c].pc = IF rest = {} THEN "pruning" ELSE "inserting",
                   ![c].safe = IF AppendOnly(window[s], data)
                               THEN @ \cup {s} ELSE @,
                   ![c].touched = @ \cup ({s} \X ChangedTimes(s, after))]
        BY <2>2 DEF Insert
      <4> DEFINE safe == IF AppendOnly(window[s], IncomingFor(call[c].batch, s))
                         THEN call[c].safe \cup {s} ELSE call[c].safe
                 pc == IF call[c].inserting \ {s} = {} THEN "pruning"
                       ELSE "inserting"
                 touched == call[c].touched
                   \cup ({s} \X ChangedTimes(s, InsertPoints(window[s],
                                         IncomingFor(call[c].batch, s))))
      <4>2. call'[c] = [call[c] EXCEPT !.inserting = call[c].inserting \ {s},
                          !.pc = pc, !.safe = safe, !.touched = touched]
        BY <4>1 DEF WindowInv
      <4>3. safe \subseteq call[c].safe \cup {s}
        OBVIOUS
      <4> HIDE DEF safe, pc, touched
      <4>4. call[c] \in Calls
        BY DEF WindowInv
      <4> QED BY <4>2, <4>3, <4>4 DEF Calls
    <3>2. call[c].inserting \subseteq SequencesOf(call[c].batch)
      BY DEF WindowInv, CallShape
    <3>3. known' = known /\ \A d \in Callers : d # c => call'[d] = call[d]
      BY <2>2 DEF Insert, metadataVars, WindowInv
    <3> QED BY <3>1, <3>2, <3>3 DEF KnownInv
  <2>3. CASE Prune(c)
    <3>1. PICK s \in call[c].pruning :
            /\ call'[c].pruning = call[c].pruning \ {s}
            /\ call'[c].inserting = call[c].inserting
            /\ call'[c].batch = call[c].batch /\ call'[c].safe = call[c].safe
      <4>1. PICK s \in call[c].pruning :
              LET after == PruneWindow(window[s], call[c].start)
              IN call' = [call EXCEPT
                   ![c].pruning = @ \ {s},
                   ![c].evicted = IF Evicts(window[s], call[c].start)
                                  THEN @ \cup {s} ELSE @,
                   ![c].touched = @ \cup ({s} \X ChangedTimes(s, after))]
        BY <2>3 DEF Prune
      <4>2. call[c] \in Calls
        BY DEF WindowInv
      <4> QED BY <4>1, <4>2 DEF WindowInv, Calls
    <3>2. known' = known /\ \A d \in Callers : d # c => call'[d] = call[d]
      BY <2>3 DEF Prune, metadataVars, WindowInv
    <3> QED BY <3>1, <3>2 DEF KnownInv
  <2>4. CASE Return(c)
    <3>1. /\ known' = known /\ call'[c] = Idle
          /\ \A d \in Callers : d # c => call'[d] = call[d]
      BY <2>4 DEF Return, metadataVars, WindowInv
    <3> QED BY <3>1, IdleKnows DEF KnownInv
  <2>5. CASE ReplaceDerived(c)
    <3>1. known \subseteq known'
      BY <2>5 DEF ReplaceDerived
    <3>2. call' = [call EXCEPT ![c].pc = "replaced"]
      BY <2>5 DEF ReplaceDerived
    <3>3. \A d \in Callers : /\ call'[d].inserting = call[d].inserting
                             /\ call'[d].pruning = call[d].pruning
                             /\ call'[d].safe = call[d].safe
                             /\ call'[d].batch = call[d].batch
      BY <3>2 DEF WindowInv, Calls
    <3> QED BY <3>1, <3>3 DEF KnownInv
  <2>6. CASE PatchDerived(c)
    <3>1. known \subseteq known' /\ UNCHANGED call
      BY <2>6 DEF PatchDerived
    <3> QED BY <1>1, <3>1
  <2>7. CASE ReplacedDerived(c)
    <3>1. PruneAll(c, size) /\ UNCHANGED known
      BY <2>7 DEF ReplacedDerived, metadataVars
    <3> QED BY <3>1, PruneAllKnows
  <2>8. CASE ConfigureWindowSize(c)
    <3>1. UNCHANGED known /\ \E n \in Sizes : PruneAll(c, n)
      BY <2>8 DEF ConfigureWindowSize
    <3> QED BY <3>1, PruneAllKnows
  <2> QED BY <1>2, <2>1, <2>2, <2>3, <2>4, <2>5, <2>6, <2>7, <2>8 DEF CallerStep
<1>3. CASE QueryStatistics \/ UNCHANGED vars
  <2>1. UNCHANGED call /\ known \subseteq known'
    BY <1>3 DEF QueryStatistics, vars, metadataVars
  <2> QED BY <1>1, <2>1
<1> QED BY <1>2, <1>3 DEF Next

(* A cache is a cache, whatever it holds: its counts are natural numbers.  *)
LEMMA CacheIs ==
  ASSUME NEW w, WindowOK(w), StatsOK(w)
  PROVE  /\ w.statistics.valid \in BOOLEAN
         /\ w.statistics.count \in Nat /\ w.statistics.nonNumeric \in Nat
<1>1. CASE w.statistics = InvalidStatistics
  BY <1>1 DEF InvalidStatistics, ResetStatistics
<1>2. CASE StatsOf(ActivePoints(w), w.statistics)
  <2> DEFINE q == ActivePoints(w)
             P == PointsOf(q)
             s == w.statistics
  <2>1. Sorted(q)
    BY ActiveIs DEF WindowOK
  <2> HIDE DEF q
  <2>2. IsFiniteSet(P)
    BY <2>1, PointsAre DEF Sorted
  <2>3. /\ s.valid = TRUE
        /\ s.count = Cardinality(Numbers(P))
        /\ s.nonNumeric = Cardinality(P \ Numbers(P))
    BY <1>2 DEF StatsOf, q
  <2>4. Numbers(P) \subseteq P /\ (P \ Numbers(P)) \subseteq P
    BY DEF Numbers
  <2>5. IsFiniteSet(Numbers(P)) /\ IsFiniteSet(P \ Numbers(P))
    BY <2>2, <2>4, FS_Subset
  <2> QED BY <2>3, <2>5, FS_CardinalityType
<1>3. w.statistics = InvalidStatistics \/ StatsOf(ActivePoints(w), w.statistics)
  BY DEF StatsOK
<1> QED BY <1>1, <1>2, <1>3

(* Every window stays a window: its vector strictly ascending in time with *)
(* the lazy edge inside it, its late points and its latest time in order,  *)
(* its counts natural numbers; and every call works on sequences the       *)
(* service has and vouches only for sequences it brought points of.        *)
THEOREM WindowTypes ==
  Spec => []TypeOK
<1>1. Init => KnownInv
  BY IdleKnows DEF Init, KnownInv
<1>2. WindowInv /\ KnownInv /\ [Next]_vars => KnownInv'
  BY KnownNext
<1>3. WindowInv /\ StatsInv /\ KnownInv => TypeOK
  <2> SUFFICES ASSUME WindowInv, StatsInv, KnownInv PROVE TypeOK
    OBVIOUS
  <2>1. ASSUME NEW s \in SequenceIds
        PROVE  IsWindow(window[s]) /\ WindowOrdered(window[s])
    <3>1. WindowOK(window[s]) /\ StatsOK(window[s])
      BY DEF WindowInv, StatsInv
    <3>2. /\ window[s].points \in Seq(Points)
          /\ window[s].latest \in Int \cup {NoTime}
          /\ DOMAIN window[s].late \subseteq Int
      BY <3>1 DEF WindowOK, WindowShape, Sorted, IsMap, TimeSet
    <3> QED BY <3>1, <3>2, CacheIs, OrderedIs DEF IsWindow
  <2>2. ASSUME NEW c \in Callers
        PROVE  /\ call[c].pc \in {"idle", "inserting", "pruning", "replaced"}
               /\ call[c].inserting \cup call[c].pruning \subseteq known
               /\ call[c].safe \subseteq SequencesOf(call[c].batch)
    <3>1. call[c] \in Calls
      BY DEF WindowInv
    <3> QED BY <3>1 DEF Calls, KnownInv
  <2> QED BY <2>1, <2>2 DEF TypeOK, WindowInv
<1>4. Spec => []WindowInv
  BY WindowInvariant
<1>5. Spec => []StatsInv
  BY StatsInvariant
<1> QED BY <1>1, <1>2, <1>3, <1>4, <1>5, PTL DEF Spec
=============================================================================
