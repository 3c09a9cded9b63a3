-------------------------- MODULE AlignedCheckProofs --------------------------
(***************************************************************************)
(* Proofs about AlignedCheck for any rules, batches, windows and requests: *)
(* an incremental check of one sequence finds the violations that a check  *)
(* of all points finds, and the ranged alignment gives the samples of the  *)
(* full one.                                                               *)
(***************************************************************************)
EXTENDS AlignedCheck, FiniteSetTheorems, TLAPS

-----------------------------------------------------------------------------
(***************************************************************************)
(* Finite sets of times.                                                   *)
(***************************************************************************)
(* A finite set of times has a first and a last one: the times from one on *)
(* become fewer with every later one, and not for ever.                    *)
LEMMA HasGreatest ==
  ASSUME NEW S, IsFiniteSet(S), S # {}, S \subseteq Int
  PROVE  \E x \in S : \A y \in S : x >= y
<1> DEFINE U(x) == {y \in S : y >= x}
           T == {U(x) : x \in S}
<1>1. T \subseteq FiniteSubsetsOf(S) /\ T # {}
  <2>1. \A x \in S : U(x) \in SUBSET S /\ IsFiniteSet(U(x))
    BY FS_Subset
  <2>2. \A V \in T : V \in FiniteSubsetsOf(S)
    BY <2>1 DEF FiniteSubsetsOf
  <2>3. T # {}
    OBVIOUS
  <2> HIDE DEF T
  <2> QED BY <2>2, <2>3
<1>2. PICK V \in T : \A W \in T : <<W, V>> \notin StrictSubsetOrdering(S)
  BY <1>1, FS_StrictSubsetOrderingWellFounded, WFMin
<1>3. PICK x \in S : V = U(x)
  BY <1>2
<1>4. ASSUME NEW y \in S, ~(x >= y)
      PROVE  FALSE
  <2>1. x \in Int /\ y \in Int /\ y > x
    BY <1>4
  <2>2. \A z \in S : z \in Int /\ (z >= y => z >= x) /\ x >= x /\ ~(x >= y)
    BY <2>1
  <2>3. <<U(y), U(x)>> \in StrictSubsetOrdering(S)
    <3>1. U(y) \subseteq U(x)
      BY <2>2, Zenon
    <3>2. x \in U(x) /\ x \notin U(y)
      BY <2>2, Zenon
    <3>3. U(x) \subseteq S /\ U(y) \subseteq S
      OBVIOUS
    <3> HIDE DEF U
    <3> QED BY <3>1, <3>2, <3>3 DEF StrictSubsetOrdering
  <2> QED BY <1>2, <1>3, <2>3
<1> QED BY <1>4

LEMMA HasLeast ==
  ASSUME NEW S, IsFiniteSet(S), S # {}, S \subseteq Int
  PROVE  \E x \in S : \A y \in S : x <= y
<1> DEFINE U(x) == {y \in S : y <= x}
           T == {U(x) : x \in S}
<1>1. T \subseteq FiniteSubsetsOf(S) /\ T # {}
  <2>1. \A x \in S : U(x) \in SUBSET S /\ IsFiniteSet(U(x))
    BY FS_Subset
  <2>2. \A V \in T : V \in FiniteSubsetsOf(S)
    BY <2>1 DEF FiniteSubsetsOf
  <2>3. T # {}
    OBVIOUS
  <2> HIDE DEF T
  <2> QED BY <2>2, <2>3
<1>2. PICK V \in T : \A W \in T : <<W, V>> \notin StrictSubsetOrdering(S)
  BY <1>1, FS_StrictSubsetOrderingWellFounded, WFMin
<1>3. PICK x \in S : V = U(x)
  BY <1>2
<1>4. ASSUME NEW y \in S, ~(x <= y)
      PROVE  FALSE
  <2>1. x \in Int /\ y \in Int /\ y < x
    BY <1>4
  <2>2. \A z \in S : z \in Int /\ (z <= y => z <= x) /\ x <= x /\ ~(x <= y)
    BY <2>1
  <2>3. <<U(y), U(x)>> \in StrictSubsetOrdering(S)
    <3>1. U(y) \subseteq U(x)
      BY <2>2, Zenon
    <3>2. x \in U(x) /\ x \notin U(y)
      BY <2>2, Zenon
    <3>3. U(x) \subseteq S /\ U(y) \subseteq S
      OBVIOUS
    <3> HIDE DEF U
    <3> QED BY <3>1, <3>2, <3>3 DEF StrictSubsetOrdering
  <2> QED BY <1>2, <1>3, <2>3
<1> QED BY <1>4

LEMMA MaxIs ==
  ASSUME NEW S, IsFiniteSet(S), S # {}, S \subseteq Int
  PROVE  Max(S) \in S /\ \A y \in S : Max(S) >= y
BY HasGreatest DEF Max

LEMMA MinIs ==
  ASSUME NEW S, IsFiniteSet(S), S # {}, S \subseteq Int
  PROVE  Min(S) \in S /\ \A y \in S : Min(S) <= y
BY HasLeast DEF Min

TimeSet(T) == IsFiniteSet(T) /\ T \subseteq Int

(* What holds at 0 and passes from a number to the next holds up to n.     *)
LEMMA UpTo ==
  ASSUME NEW n \in Nat, NEW S, 0 \in S,
         \A i \in 1 .. n : i - 1 \in S => i \in S
  PROVE  \A i \in 0 .. n : i \in S
<1> DEFINE D == {i \in 0 .. n : i \notin S}
<1> SUFFICES ASSUME D # {} PROVE FALSE
  OBVIOUS
<1>1. IsFiniteSet(D) /\ D \subseteq Int
  <2>1. IsFiniteSet(0 .. n) /\ D \subseteq 0 .. n
    BY FS_Interval
  <2> QED BY <2>1, FS_Subset
<1>2. PICK m \in D : \A i \in D : m <= i
  BY <1>1, HasLeast
<1>3. m \in 1 .. n /\ m - 1 \in 0 .. n /\ ~(m <= m - 1)
  BY <1>2
<1>4. m - 1 \in S
  BY <1>2, <1>3
<1> QED BY <1>2, <1>3, <1>4

-----------------------------------------------------------------------------
(***************************************************************************)
(* The k-th sample from a time on.                                         *)
(***************************************************************************)
(* The times from t up to but not including u.                             *)
Span(T, t, u) == {v \in T : t <= v /\ v < u}

LEMMA SpanIs ==
  ASSUME NEW T, TimeSet(T), NEW t \in Int, NEW u \in Int
  PROVE  /\ IsFiniteSet(Span(T, t, u)) /\ Cardinality(Span(T, t, u)) \in Nat
         /\ Span(T, t, u) \subseteq T
<1>1. Span(T, t, u) \subseteq T
  BY DEF Span
<1> QED BY <1>1, FS_Subset, FS_CardinalityType DEF TimeSet

(* The rank of a later time is greater.                                    *)
LEMMA SpanGrows ==
  ASSUME NEW T, TimeSet(T), NEW t \in T, NEW u \in T, NEW v \in T, t <= u, u < v
  PROVE  Cardinality(Span(T, t, u)) < Cardinality(Span(T, t, v))
<1> DEFINE A == Span(T, t, u)
           B == Span(T, t, v)
<1>1. t \in Int /\ u \in Int /\ v \in Int /\ \A x \in T : x \in Int
  BY DEF TimeSet
<1>2. IsFiniteSet(A) /\ IsFiniteSet(B) /\ Cardinality(A) \in Nat /\ Cardinality(B) \in Nat
  BY <1>1, SpanIs
<1>0. \A x \in T : x \in Int
  BY DEF TimeSet
<1>3. A \subseteq B /\ u \in B /\ u \notin A
  BY <1>0 DEF Span
<1>4. A \in SUBSET B /\ A # B
  BY <1>3
<1> HIDE DEF A, B
<1>5. Cardinality(A) <= Cardinality(B) /\ Cardinality(A) # Cardinality(B)
  BY <1>2, <1>4, FS_Subset
<1> QED BY <1>2, <1>5 DEF A, B

(* As long as there are k later times, one of them is the k-th.            *)
LEMMA RankExists ==
  ASSUME NEW T, TimeSet(T), NEW t \in T, NEW n \in Nat, HasLater(T, t, n)
  PROVE  \A k \in 0 .. n : \E u \in T : t <= u /\ Cardinality(Span(T, t, u)) = k
<1> DEFINE R == {k \in 0 .. n :
                   \E u \in T : t <= u /\ Cardinality(Span(T, t, u)) = k}
<1>1. t \in Int /\ \A x \in T : x \in Int
  BY DEF TimeSet
<1>0. \A x \in T : x \in Int
  BY DEF TimeSet
<1>2. 0 \in R
  <2>1. Span(T, t, t) = {}
    BY <1>0 DEF Span
  <2>2. Cardinality(Span(T, t, t)) = 0
    BY <2>1, FS_EmptySet
  <2> QED BY <1>1, <2>2
<1>3. ASSUME NEW k \in 1 .. n, k - 1 \in R
      PROVE  k \in R
  <2>1. PICK u \in T : t <= u /\ Cardinality(Span(T, t, u)) = k - 1
    BY <1>3
  <2> DEFINE later == {w \in T : w > u}
  <2>2. u \in Int /\ later \subseteq T
    BY <1>1
  <2>3. IsFiniteSet(later) /\ later \subseteq Int
    BY <1>1, <2>2, FS_Subset DEF TimeSet
  <2>4. Span(T, t, u) \cup {u} \subseteq T /\ u \notin Span(T, t, u) /\ t \in Span(T, t, u) \cup {u}
    BY <1>1, <2>1, <2>2 DEF Span
  <2>5. IsFiniteSet(Span(T, t, u)) /\ Cardinality(Span(T, t, u)) \in Nat
    BY <1>1, <2>2, SpanIs
  <2> DEFINE upto == Span(T, t, u) \cup {u}
             after == upto \ {t}
  <2>6. IsFiniteSet(upto) /\ Cardinality(upto) = k
    BY <2>1, <2>4, <2>5, FS_AddElement
  <2>7. IsFiniteSet(after) /\ Cardinality(after) = k - 1
    BY <2>4, <2>6, FS_RemoveElement
  <2>8. later # {}
    <3> SUFFICES ASSUME later = {} PROVE FALSE
      OBVIOUS
    <3>1. \A w \in T : w <= u
      BY <1>1, <2>2
    <3>2. {w \in T : w > t} = after
      BY <1>0, <2>1, <3>1 DEF Span
    <3> QED BY <2>7, <3>2 DEF HasLater
  <2> DEFINE w == Min(later)
  <2>9. w \in T /\ w > u /\ \A x \in T : x > u => w <= x
    <3> HIDE DEF w
    <3>1. w \in later /\ \A y \in later : w <= y
      BY <2>3, <2>8, MinIs DEF w
    <3> QED BY <3>1
  <2> HIDE DEF w
  <2>10. Span(T, t, w) = upto
    BY <1>0, <2>1, <2>9 DEF Span
  <2>11. t <= w
    BY <1>1, <2>1, <2>2, <2>9
  <2> QED BY <2>6, <2>9, <2>10, <2>11
<1> HIDE DEF R
<1>4. \A k \in 0 .. n : k \in R
  BY <1>2, <1>3, UpTo
<1> QED BY <1>4 DEF R

(* The k-th time from t on is the one of which k are before it.            *)
LEMMA LaterIs ==
  ASSUME NEW T, TimeSet(T), NEW t \in T, NEW u \in T, t <= u
  PROVE  Later(T, t, Cardinality(Span(T, t, u))) = u
<1> DEFINE k == Cardinality(Span(T, t, u))
           Fits(x) == x >= t /\ Cardinality(Span(T, t, x)) = k
<1>1. t \in Int /\ u \in Int /\ \A x \in T : x \in Int
  BY DEF TimeSet
<1>2. Fits(u)
  BY <1>1
<1>3. ASSUME NEW x \in T, Fits(x)
      PROVE  x = u
  <2>1. x \in Int /\ t <= x /\ Cardinality(Span(T, t, x)) = k /\ k \in Nat
    BY <1>1, <1>3, SpanIs
  <2>2. ~(x < u)
    BY <1>1, <2>1, SpanGrows
  <2>3. ~(u < x)
    BY <1>1, <2>1, SpanGrows
  <2> QED BY <1>1, <2>1, <2>2, <2>3
<1>4. Later(T, t, k) = CHOOSE x \in T : Fits(x)
  BY DEF Later, Span
<1> QED BY <1>2, <1>3, <1>4

LEMMA LaterExists ==
  ASSUME NEW T, TimeSet(T), NEW t \in T, NEW n \in Nat, HasLater(T, t, n),
         NEW k \in 0 .. n
  PROVE  /\ Later(T, t, k) \in T /\ t <= Later(T, t, k)
         /\ Cardinality(Span(T, t, Later(T, t, k))) = k
<1>1. PICK u \in T : t <= u /\ Cardinality(Span(T, t, u)) = k
  BY RankExists
<1>2. Later(T, t, k) = u
  BY <1>1, LaterIs
<1> QED BY <1>1, <1>2
-----------------------------------------------------------------------------
(***************************************************************************)
(* What the query returns of a sequence: the range and its context.        *)
(***************************************************************************)
Slice(T, start, end, n) ==
  {t \in T : start <= t /\ t < end + 1}
    \cup (LastBefore(T, start, n) \cup FirstFrom(T, end + 1, n))

LEMMA SliceIs ==
  ASSUME NEW T, TimeSet(T), NEW start, NEW end, NEW n
  PROVE  /\ Slice(T, start, end, n) \subseteq T
         /\ TimeSet(Slice(T, start, end, n))
<1>1. Slice(T, start, end, n) \subseteq T
  BY DEF Slice, LastBefore, FirstFrom
<1> QED BY <1>1, FS_Subset DEF TimeSet

(* From one of its times on it has no gap before the end of the context.   *)
LEMMA SliceClosed ==
  ASSUME NEW T, TimeSet(T), NEW start \in Int, NEW end \in Int, NEW m \in Nat,
         NEW t \in Slice(T, start, end, m + 1), t <= end,
         NEW u \in T, t <= u, Cardinality(Span(T, t, u)) <= m,
         NEW v \in T, t <= v, v <= u
  PROVE  v \in Slice(T, start, end, m + 1)
<1>1. t \in T /\ \A x \in T : x \in Int
  BY SliceIs DEF TimeSet
<1>2. t \in Int /\ u \in Int /\ v \in Int
  BY <1>1
<1>3. CASE v < start
  <2>1. t < start
    BY <1>2, <1>3
  <2>2. t \in LastBefore(T, start, m + 1)
    <3>1. ~(start <= t) /\ ~(t >= end + 1)
      BY <1>2, <2>1
    <3> QED BY <3>1 DEF Slice, FirstFrom
  <2> DEFINE A == {x \in {y \in T : y < start} : x >= v}
             B == {x \in {y \in T : y < start} : x >= t}
  <2>3. Cardinality(B) <= m + 1
    BY <2>2 DEF LastBefore
  <2>4. IsFiniteSet(B) /\ IsFiniteSet(A) /\ A \in SUBSET B
    <3>1. B \subseteq T /\ A \subseteq T
      OBVIOUS
    <3>2. A \subseteq B
      BY <1>1
    <3> QED BY <3>1, <3>2, FS_Subset DEF TimeSet
  <2> HIDE DEF B
  <2>5. Cardinality(A) <= m + 1
    <3> HIDE DEF A
    <3>1. Cardinality(A) <= Cardinality(B) /\ Cardinality(A) \in Nat /\ Cardinality(B) \in Nat
      BY <2>4, FS_Subset, FS_CardinalityType
    <3> QED BY <2>3, <3>1
  <2>6. v \in LastBefore(T, start, m + 1)
    BY <1>3, <2>5 DEF LastBefore
  <2> QED BY <2>6 DEF Slice
<1>4. CASE start <= v /\ v < end + 1
  BY <1>4 DEF Slice
<1>5. CASE v >= end + 1
  <2> DEFINE A == {x \in {y \in T : y >= end + 1} : x <= v}
             B == Span(T, t, u)
  <2>1. IsFiniteSet(B) /\ Cardinality(B) \in Nat
    BY <1>2, SpanIs
  <2>0. Cardinality(B) <= m
    OBVIOUS
  <2>2. IsFiniteSet(B \cup {u}) /\ Cardinality(B \cup {u}) <= m + 1
        /\ Cardinality(B \cup {u}) \in Nat
    <3> HIDE DEF B
    <3>1. IsFiniteSet(B \cup {u})
          /\ Cardinality(B \cup {u}) \in {Cardinality(B), Cardinality(B) + 1}
      BY <2>1, FS_AddElement
    <3> QED BY <2>0, <2>1, <3>1
  <2>3. A \in SUBSET (B \cup {u})
    <3>1. ASSUME NEW x \in A PROVE x \in B \cup {u}
      <4>1. x \in T /\ x >= end + 1 /\ x <= v
        OBVIOUS
      <4>2. x \in Int
        BY <1>1, <4>1
      <4>3. t <= x /\ (x < u \/ x = u)
        BY <1>2, <4>1, <4>2
      <4> QED BY <4>1, <4>3 DEF Span
    <3> QED BY <3>1
  <2> HIDE DEF B
  <2>4. Cardinality(A) <= m + 1
    <3> HIDE DEF A
    <3>1. Cardinality(A) <= Cardinality(B \cup {u}) /\ IsFiniteSet(A)
      BY <2>2, <2>3, FS_Subset
    <3>2. Cardinality(A) \in Nat
      BY <3>1, FS_CardinalityType
    <3> QED BY <2>2, <3>1, <3>2
  <2>5. v \in FirstFrom(T, end + 1, m + 1)
    BY <1>5, <2>4 DEF FirstFrom
  <2> QED BY <2>5 DEF Slice
<1> QED BY <1>2, <1>3, <1>4, <1>5

(* So offsets find the same times in it as among all times.                *)
LEMMA SliceLater ==
  ASSUME NEW T, TimeSet(T), NEW start \in Int, NEW end \in Int, NEW m \in Nat,
         NEW D, D = Slice(T, start, end, m + 1), NEW t \in D, t <= end
  PROVE  /\ HasLater(D, t, m) <=> HasLater(T, t, m)
         /\ HasLater(T, t, m) =>
              \A k \in 0 .. m : Later(D, t, k) = Later(T, t, k)
                                /\ Later(D, t, k) \in D
<1>1. D \subseteq T /\ TimeSet(D) /\ t \in T
  BY SliceIs
<1>2. \A x \in T : x \in Int
  BY DEF TimeSet
<1> DEFINE A == {x \in D : x > t}
           B == {x \in T : x > t}
<1>3. IsFiniteSet(A) /\ Cardinality(A) \in Nat /\ IsFiniteSet(B) /\ Cardinality(B) \in Nat
  <2>1. A \subseteq D /\ B \subseteq T
    OBVIOUS
  <2> QED BY <1>1, <2>1, FS_Subset, FS_CardinalityType DEF TimeSet
<1>4. HasLater(D, t, m) => HasLater(T, t, m)
  <2>1. A \in SUBSET B
    BY <1>1
  <2>2. (HasLater(D, t, m) <=> Cardinality(A) >= m)
        /\ (HasLater(T, t, m) <=> Cardinality(B) >= m)
    BY DEF HasLater
  <2> HIDE DEF A, B
  <2>3. Cardinality(A) <= Cardinality(B)
    BY <1>3, <2>1, FS_Subset
  <2> QED BY <1>3, <2>2, <2>3
<1>5. ASSUME HasLater(T, t, m), NEW k \in 0 .. m
      PROVE  LET u == Later(T, t, k) IN
             /\ Later(D, t, k) = u /\ u \in D /\ t <= u
             /\ Span(D, t, u) = Span(T, t, u)
             /\ Cardinality(Span(T, t, u)) = k
  <2> DEFINE u == Later(T, t, k)
  <2>1. u \in T /\ t <= u /\ Cardinality(Span(T, t, u)) = k
    BY <1>1, <1>5, LaterExists
  <2> HIDE DEF u
  <2>2. \A v \in T : t <= v /\ v <= u => v \in D
    <3>1. Cardinality(Span(T, t, u)) <= m
      BY <2>1
    <3> QED BY <2>1, <3>1, SliceClosed
  <2>3. u \in D
    BY <1>2, <2>1, <2>2
  <2>4. Span(D, t, u) = Span(T, t, u)
    <3>1. \A v \in T : v < u => v <= u
      BY <1>2, <2>1
    <3> QED BY <1>1, <2>2, <3>1 DEF Span
  <2>5. Later(D, t, k) = u
    BY <1>1, <2>1, <2>3, <2>4, LaterIs
  <2> QED BY <2>1, <2>3, <2>4, <2>5 DEF u
<1>6. ASSUME HasLater(T, t, m) PROVE HasLater(D, t, m)
  <2> DEFINE u == Later(T, t, m)
             C == Span(T, t, u)
  <2>1. u \in D /\ t <= u /\ Span(D, t, u) = C /\ Cardinality(C) = m
    BY <1>5, <1>6
  <2> HIDE DEF u
  <2>2. t \in Int /\ u \in Int
    BY <1>1, <1>2, <2>1
  <2>3. IsFiniteSet(C)
    BY <2>2, SpanIs
  <2>4. (C \cup {u}) \ {t} \subseteq A
    <3>1. ASSUME NEW x \in (C \cup {u}) \ {t} PROVE x \in A
      <4>1. x \in D /\ x # t /\ (t <= x)
        BY <2>1 DEF Span
      <4>2. x \in Int
        BY <1>1, <1>2, <4>1
      <4> QED BY <2>2, <4>1, <4>2
    <3> QED BY <3>1
  <2>5. u \notin C
    BY <2>2 DEF Span
  <2>6. t \in C \cup {u}
    <3>1. t < u \/ t = u
      BY <2>1, <2>2
    <3>2. t <= t
      BY <2>2
    <3> QED BY <1>1, <3>1, <3>2 DEF Span
  <2> HIDE DEF C
  <2>7. Cardinality(C \cup {u}) = m + 1 /\ IsFiniteSet(C \cup {u})
    BY <2>1, <2>3, <2>5, FS_AddElement
  <2> DEFINE E == (C \cup {u}) \ {t}
  <2>8. Cardinality(E) = m
    <3> DEFINE G == C \cup {u}
    <3>1. Cardinality(G) = m + 1 /\ IsFiniteSet(G) /\ t \in G
      BY <2>6, <2>7
    <3> HIDE DEF G
    <3>2. Cardinality(G \ {t}) = m
      BY <3>1, FS_RemoveElement
    <3> QED BY <3>2 DEF G
  <2>9. E \in SUBSET A
    BY <2>4
  <2>10. HasLater(D, t, m) <=> Cardinality(A) >= m
    BY DEF HasLater
  <2> HIDE DEF E, A
  <2>11. Cardinality(E) <= Cardinality(A)
    BY <1>3, <2>9, FS_Subset
  <2> QED BY <1>3, <2>8, <2>10, <2>11
<1> QED BY <1>4, <1>5, <1>6
-----------------------------------------------------------------------------
(***************************************************************************)
(* A rule of one sequence.                                                 *)
(***************************************************************************)
LEMMA RuleIs ==
  ASSUME NEW r \in Rules
  PROVE  /\ Len(r.terms) \in Nat \ {0} /\ DOMAIN r.terms = 1 .. Len(r.terms)
         /\ MaxOffset(r) \in Nat
         /\ \A i \in DOMAIN r.terms : /\ r.terms[i].offset \in 0 .. MaxOffset(r)
                                      /\ r.terms[i].sequence \in SequencesOf(r)
         /\ SequencesOf(r) \subseteq SequenceIds /\ SequencesOf(r) # {}
         /\ IsFiniteSet(SequencesOf(r))
<1> DEFINE q == r.terms
           n == Len(q)
           f == [i \in 1 .. n |-> q[i].sequence]
<1>1. /\ q \in Seq([sequence : SequenceIds, offset : Nat]) /\ q # <<>>
      /\ \A i, j \in DOMAIN q : i <= j => q[i].offset <= q[j].offset
  BY CheckAssumption
<1> HIDE DEF q
<1>2. n \in Nat /\ n # 0 /\ DOMAIN q = 1 .. n
  BY <1>1
<1>3. \A i \in 1 .. n : q[i].sequence \in SequenceIds /\ q[i].offset \in Nat
  <2> DEFINE S == [sequence : SequenceIds, offset : Nat]
  <2>1. q \in Seq(S)
    BY <1>1
  <2>2. \A x \in S : x.sequence \in SequenceIds /\ x.offset \in Nat
    OBVIOUS
  <2> HIDE DEF S
  <2>3. \A i \in 1 .. n : q[i] \in S
    BY <2>1
  <2> QED BY <2>2, <2>3
<1>4. MaxOffset(r) = q[n].offset /\ SequencesOf(r) = {q[i].sequence : i \in 1 .. n}
  BY <1>2 DEF MaxOffset, SequencesOf, q
<1>5. \A i \in 1 .. n : q[i].offset <= q[n].offset
  BY <1>1, <1>2
<1>6. f \in Surjection(1 .. n, SequencesOf(r))
  BY <1>4 DEF Surjection
<1>7. IsFiniteSet(SequencesOf(r))
  <2>1. IsFiniteSet(1 .. n)
    BY <1>2, FS_Interval
  <2> HIDE DEF f
  <2> QED BY <1>6, <2>1, FS_Surjection
<1>8. 1 \in 1 .. n /\ n \in 1 .. n
  BY <1>2
<1> HIDE DEF n, f
<1>9. SequencesOf(r) \subseteq SequenceIds /\ SequencesOf(r) # {}
  BY <1>3, <1>4, <1>8
<1>10. \A i \in 1 .. n : q[i].offset \in 0 .. q[n].offset
  BY <1>3, <1>5, <1>8
<1> QED BY <1>2, <1>3, <1>4, <1>7, <1>8, <1>9, <1>10 DEF q, n

LEMMA SingleIs ==
  ASSUME NEW r \in Rules, Single(r)
  PROVE  SequencesOf(r) = {Only(r)} /\ Only(r) \in SequenceIds
<1>1. PICK s : SequencesOf(r) = {s}
  BY RuleIs, FS_Singleton DEF Single
<1>2. Only(r) \in SequencesOf(r)
  BY <1>1 DEF Only
<1> QED BY <1>1, <1>2, RuleIs

(* The points of one sequence as samples.                                  *)
Column(f, s, T) == [t \in T |-> [q \in {s} |-> f[t]]]

(* An anchor that both see is judged alike on the slice and on all points. *)
LEMMA SameVerdict ==
  ASSUME NEW r \in Rules, NEW s, SequencesOf(r) = {s},
         NEW f, Series(f), NEW start \in Int, NEW end \in Int,
         NEW D, D = Slice(DOMAIN f, start, end, MaxOffset(r) + 1),
         NEW t \in D, t <= end, HasLater(DOMAIN f, t, MaxOffset(r))
  PROVE  LET part == Column(f, s, D)
             whole == Column(f, s, DOMAIN f)
         IN /\ Unresolved(r, part, t) = Unresolved(r, whole, t)
            /\ Total(r, part, t) = Total(r, whole, t)
<1> DEFINE part == Column(f, s, D)
           whole == Column(f, s, DOMAIN f)
           m == MaxOffset(r)
           T == DOMAIN f
<1>1. TimeSet(T) /\ m \in Nat
  BY RuleIs DEF Series, TimeSet
<1>2. D \subseteq T
  BY <1>1, SliceIs
<1>3. \A k \in 0 .. m : Later(D, t, k) = Later(T, t, k) /\ Later(D, t, k) \in D
  BY <1>1, SliceLater
<1>4. DOMAIN part = D /\ DOMAIN whole = T
  BY DEF Column
<1>5. \A u \in D : part[u] = whole[u]
  BY <1>2 DEF Column
<1>6. \A i \in DOMAIN r.terms : r.terms[i].offset \in 0 .. m
  BY RuleIs
<1>7. ASSUME NEW i \in DOMAIN r.terms
      PROVE  Value(part, t, r.terms[i]) = Value(whole, t, r.terms[i])
  <2> DEFINE k == r.terms[i].offset
             u == Later(D, t, k)
  <2>1. u = Later(T, t, k) /\ u \in D
    BY <1>3, <1>6
  <2>2. part[u] = whole[u]
    BY <1>5, <2>1
  <2> HIDE DEF u
  <2>3. Value(part, t, r.terms[i]) = part[u][r.terms[i].sequence]
    BY <1>4 DEF Value, u
  <2>4. Value(whole, t, r.terms[i]) = whole[u][r.terms[i].sequence]
    BY <1>4, <2>1 DEF Value
  <2> QED BY <2>2, <2>3, <2>4
<1> HIDE DEF part, whole
<1>8. Unresolved(r, part, t) = Unresolved(r, whole, t)
  BY <1>7 DEF Unresolved
<1>9. Total(r, part, t) = Total(r, whole, t)
  <2>1. [i \in DOMAIN r.terms |-> Value(part, t, r.terms[i])]
          = [i \in DOMAIN r.terms |-> Value(whole, t, r.terms[i])]
    BY <1>7
  <2> QED BY <2>1 DEF Total
<1> QED BY <1>8, <1>9 DEF part, whole

(* The anchors at which all points violate a rule of one sequence.         *)
Wrong(r, f, s) ==
  {t \in DOMAIN f :
     /\ HasLater(DOMAIN f, t, MaxOffset(r))
     /\ Unresolved(r, Column(f, s, DOMAIN f), t) = {}
     /\ Total(r, Column(f, s, DOMAIN f), t) > r.bound}

(* What a check that does not fail reports.                                *)
LEMMA CheckedIs ==
  ASSUME NEW r, NEW asked, asked # NoRange, NEW content,
         Checked(r, asked, content).status = "ok"
  PROVE  Checked(r, asked, content).violations =
           {t \in DOMAIN content :
              /\ HasLater(DOMAIN content, t, MaxOffset(r))
              /\ Anchored(r, asked, DOMAIN content) <= t /\ t <= asked.end
              /\ Unresolved(r, content, t) = {}
              /\ Total(r, content, t) > r.bound}
<1>1. Failure.status # "ok"
  BY DEF Failure
<1> QED BY <1>1 DEF Checked

LEMMA SingleExact ==
  ASSUME NEW r \in Rules, Single(r), NEW s, SequencesOf(r) = {s},
         NEW f, Series(f), NEW asked, asked # NoRange,
         asked.start \in Int, asked.end \in Int, asked.start <= asked.end,
         NEW D, D = Slice(DOMAIN f, asked.start, asked.end, MaxOffset(r) + 1),
         NEW result, result = Checked(r, asked, Column(f, s, D)),
         result.status = "ok"
  PROVE  /\ \A t \in Wrong(r, f, s) :
              t <= asked.end /\ Later(DOMAIN f, t, MaxOffset(r)) >= asked.start
                => t \in result.violations
         /\ result.violations \subseteq Wrong(r, f, s)
<1> DEFINE part == Column(f, s, D)
           whole == Column(f, s, DOMAIN f)
           m == MaxOffset(r)
           T == DOMAIN f
           start == asked.start
           end == asked.end
           V == result.violations
<1>1. TimeSet(T) /\ m \in Nat /\ D \subseteq T /\ TimeSet(D)
  BY RuleIs, SliceIs DEF Series, TimeSet
<1>2. \A x \in T : x \in Int
  BY <1>1 DEF TimeSet
<1>3. DOMAIN part = D
  BY DEF Column
<1>4. V = {t \in D : /\ HasLater(D, t, m)
                     /\ Anchored(r, asked, D) <= t /\ t <= end
                     /\ Unresolved(r, part, t) = {}
                     /\ Total(r, part, t) > r.bound}
  <2> HIDE DEF part
  <2>1. result = Checked(r, asked, part)
    BY DEF part
  <2> QED BY <1>3, <2>1, CheckedIs
<1>5. Wrong(r, f, s) = {t \in T : /\ HasLater(T, t, m)
                                  /\ Unresolved(r, whole, t) = {}
                                  /\ Total(r, whole, t) > r.bound}
  BY DEF Wrong
<1>6. ASSUME NEW t \in D, t <= end, HasLater(T, t, m)
      PROVE  /\ HasLater(D, t, m)
             /\ Unresolved(r, part, t) = Unresolved(r, whole, t)
             /\ Total(r, part, t) = Total(r, whole, t)
  BY <1>1, <1>6, SameVerdict, SliceLater
<1>7. ASSUME NEW t \in D, t <= end, HasLater(D, t, m)
      PROVE  HasLater(T, t, m)
  BY <1>1, <1>7, SliceLater
<1> HIDE DEF part, whole
<1>8. V \subseteq Wrong(r, f, s)
  BY <1>1, <1>4, <1>5, <1>6, <1>7
<1>9. ASSUME NEW t \in Wrong(r, f, s), t <= end, Later(T, t, m) >= start
      PROVE  t \in V
  <2>1. t \in T /\ HasLater(T, t, m)
    BY <1>5
  <2> DEFINE u == Later(T, t, m)
             B == LastBefore(D, start, m)
             A == {start} \cup B
  <2>2. u \in T /\ t <= u /\ Cardinality(Span(T, t, u)) = m /\ start <= u
    BY <1>1, <1>2, <1>9, <2>1, LaterExists
  <2> HIDE DEF u
  <2>3. t \in Int /\ u \in Int
    BY <1>2, <2>1, <2>2
  <2>4. ASSUME t < start, NEW S, S \subseteq T
        PROVE  Cardinality({v \in {w \in S : w < start} : v >= t}) <= m
    <3> DEFINE C == {v \in {w \in S : w < start} : v >= t}
               E == Span(T, t, u)
    <3>1. ASSUME NEW v \in C PROVE v \in E
      <4>1. v \in T /\ v < start /\ t <= v
        BY <1>2, <2>3, <2>4
      <4>2. v \in Int
        BY <1>2, <4>1
      <4>3. v < u
        BY <2>2, <2>3, <4>1, <4>2
      <4> QED BY <4>1, <4>3 DEF Span
    <3>2. C \in SUBSET E /\ IsFiniteSet(E)
      BY <1>1, <2>3, <3>1, SpanIs
    <3> HIDE DEF C, E
    <3>3. Cardinality(C) <= Cardinality(E)
      BY <3>2, FS_Subset
    <3>4. Cardinality(E) = m
      BY <2>2 DEF E
    <3> QED BY <3>3, <3>4 DEF C
  <2>5. t \in D
    <3>1. CASE t >= start
      <4>1. start <= t /\ t < end + 1
        BY <1>9, <2>3, <3>1
      <4> QED BY <2>1, <4>1 DEF Slice
    <3>2. CASE t < start
      <4>1. Cardinality({v \in {w \in T : w < start} : v >= t}) <= m
        BY <2>4, <3>2
      <4> DEFINE C == {v \in {w \in T : w < start} : v >= t}
      <4>2. C \subseteq T
        OBVIOUS
      <4>3. IsFiniteSet(C)
        BY <1>1, <4>2, FS_Subset DEF TimeSet
      <4>4. Cardinality(C) <= m
        BY <4>1
      <4> HIDE DEF C
      <4>5. Cardinality(C) <= m + 1
        BY <1>1, <4>3, <4>4, FS_CardinalityType
      <4>6. t \in LastBefore(T, start, m + 1)
        BY <2>1, <3>2, <4>5 DEF LastBefore, C
      <4> QED BY <4>6 DEF Slice
    <3> QED BY <2>3, <3>1, <3>2
  <2>6. Anchored(r, asked, D) <= t
    <3>1. Anchored(r, asked, D) = Min(A)
      BY DEF Anchored
    <3>2. IsFiniteSet(A) /\ A \subseteq Int /\ A # {}
      <4>1. B \subseteq D
        BY DEF LastBefore
      <4>2. IsFiniteSet(B) /\ B \subseteq Int
        BY <1>1, <4>1, FS_Subset DEF TimeSet
      <4> HIDE DEF B
      <4> QED BY <4>2, FS_Singleton, FS_Union
    <3>3. Min(A) \in A /\ \A y \in A : Min(A) <= y
      BY <3>2, MinIs
    <3>4. CASE t >= start
      <4> HIDE DEF B
      <4>1. start \in A
        OBVIOUS
      <4> HIDE DEF A
      <4>2. Min(A) <= start /\ Min(A) \in Int
        BY <3>2, <3>3, <4>1
      <4> QED BY <2>3, <3>1, <3>4, <4>2
    <3>5. CASE t < start
      <4>1. Cardinality({v \in {w \in D : w < start} : v >= t}) <= m
        BY <1>1, <2>4, <3>5
      <4>2. t \in B
        BY <2>5, <3>5, <4>1 DEF LastBefore
      <4>3. t \in A
        BY <4>2
      <4> HIDE DEF A
      <4> QED BY <3>1, <3>3, <4>3
    <3> QED BY <2>3, <3>4, <3>5
  <2> QED BY <1>4, <1>5, <1>6, <1>9, <2>1, <2>5, <2>6
<1> QED BY <1>8, <1>9
-----------------------------------------------------------------------------
(***************************************************************************)
(* The invariant: every result is that of what the service holds.          *)
(***************************************************************************)
(* Values are numbers or known not to be.                                  *)
Numbers(f) == Range(f) \subseteq Int \cup {NotNumeric}

WindowPart ==
  /\ rule \in Rules
  /\ live = [s \in SequenceIds |-> live[s]]
  /\ \A s \in SequenceIds : Series(live[s]) /\ Numbers(live[s])
  /\ watermark \in Int \cup {NoTime}

RangePart ==
  range # NoRange =>
    range.start \in Int /\ range.end \in Int /\ range.start <= range.end

Samples ==
  IF Single(rule) THEN Sampled(PointsOf(data, Only(rule)))
  ELSE IF range = NoRange THEN Aligned(data)
  ELSE Ranged(data, range, MaxOffset(rule))

CheckPart ==
  /\ phase \in {"updated", "queried", "aligned", "checked"} => watermark \in Int
  /\ phase \in {"queried", "aligned", "checked"} => data = Queried
  /\ phase = "aligned" => Checkable /\ aligned = Samples
  /\ phase = "checked" /\ outcome.status = "ok" =>
       /\ Checkable /\ aligned = Samples
       /\ aligned.ok /\ DOMAIN aligned.samples # {}
       /\ outcome = Checked(rule, range, aligned.samples)

RequestPart ==
  /\ phase \in {"requested", "answered"} => data \in Windows /\ range \in Requests
  /\ phase = "answered" => aligned = Ranged(data, range, range.prefix)

CheckInv == WindowPart /\ RangePart /\ CheckPart /\ RequestPart

(* All times of some sequences of a batch.                                 *)
LEMMA BatchTimes ==
  ASSUME NEW batch \in Batches, NEW S, S \subseteq DOMAIN batch, S # {}
  PROVE  LET times == UNION {DOMAIN batch[s] : s \in S} IN
         IsFiniteSet(times) /\ times # {} /\ times \subseteq Int
<1> DEFINE f == [s \in S |-> DOMAIN batch[s]]
           U == {DOMAIN batch[s] : s \in S}
<1>1. /\ IsFiniteSet(DOMAIN batch)
      /\ \A s \in DOMAIN batch : /\ DOMAIN batch[s] # {} /\ IsFiniteSet(DOMAIN batch[s])
                                 /\ DOMAIN batch[s] \subseteq Int
  BY CheckAssumption DEF Series
<1>2. IsFiniteSet(S) /\ f \in Surjection(S, U)
  BY <1>1, FS_Subset DEF Surjection
<1>3. \A T \in U : IsFiniteSet(T) /\ T # {} /\ T \subseteq Int
  BY <1>1
<1>4. U # {}
  OBVIOUS
<1> HIDE DEF f, U
<1>5. IsFiniteSet(U)
  BY <1>2, FS_Surjection
<1>6. IsFiniteSet(UNION U)
  BY <1>3, <1>5, FS_UNION
<1>7. UNION U # {} /\ UNION U \subseteq Int
  BY <1>3, <1>4
<1> QED BY <1>6, <1>7 DEF U

LEMMA FromIs ==
  ASSUME NEW f, Series(f), Numbers(f), NEW t
  PROVE  Series(From(f, t)) /\ Numbers(From(f, t))
<1> DEFINE T == {u \in DOMAIN f : u >= t}
<1>1. From(f, t) = [u \in T |-> f[u]]
  BY DEF From, Restrict
<1>2. T \subseteq DOMAIN f
  OBVIOUS
<1>3. IsFiniteSet(T) /\ T \subseteq Int
  BY <1>2, FS_Subset DEF Series
<1>4. Numbers(From(f, t))
  BY <1>1, <1>2 DEF Numbers, Range
<1> HIDE DEF T
<1> QED BY <1>1, <1>3, <1>4 DEF Series

LEMMA OverIs ==
  ASSUME NEW f, NEW g, Series(f), Series(g), Numbers(f), Numbers(g)
  PROVE  Series(Over(f, g)) /\ Numbers(Over(f, g))
<1>1. DOMAIN Over(f, g) = DOMAIN f \cup DOMAIN g
      /\ Over(f, g) = [t \in DOMAIN Over(f, g) |-> Over(f, g)[t]]
  BY DEF Over
<1>2. IsFiniteSet(DOMAIN f \cup DOMAIN g) /\ DOMAIN f \cup DOMAIN g \subseteq Int
  BY FS_Union DEF Series
<1>3. Numbers(Over(f, g))
  <2>1. \A t \in DOMAIN Over(f, g) :
          \/ t \in DOMAIN f /\ Over(f, g)[t] = f[t]
          \/ t \in DOMAIN g /\ Over(f, g)[t] = g[t]
    BY DEF Over
  <2> QED BY <2>1 DEF Numbers, Range
<1> QED BY <1>1, <1>2, <1>3 DEF Series

(* What the window keeps, and from when.                                   *)
LEMMA IngestIs ==
  ASSUME WindowPart, Ingest
  PROVE  WindowPart' /\ RangePart' /\ watermark' \in Int
<1> DEFINE
  Ingested(batch, mark) ==
    LET incoming == DOMAIN batch
        start == mark - Size
        full == [s \in SequenceIds |-> IF s \in incoming
                                       THEN Over(batch[s], live[s]) ELSE live[s]]
        evicted == {s \in SequenceIds : \E t \in DOMAIN full[s] : t < start}
        safe == {s \in incoming : \/ latest[s] = NoTime
                                  \/ Min(DOMAIN batch[s]) > latest[s]}
        changed == (incoming \cup evicted) \cap SequencesOf(rule)
    IN /\ watermark' = mark
       /\ live' = [s \in SequenceIds |-> From(full[s], start)]
       /\ range' = IF changed # {} /\ changed \subseteq safe
                   THEN RangeOf(batch, changed, evicted, start) ELSE NoRange
<1>0. PICK batch \in Batches : \E mark \in Marks(batch) : Ingested(batch, mark)
  BY DEF Ingest
<1>1. PICK mark \in Marks(batch) : Ingested(batch, mark)
  BY <1>0
<1> DEFINE incoming == DOMAIN batch
           times == UNION {DOMAIN batch[s] : s \in incoming}
           start == mark - Size
           full == [s \in SequenceIds |-> IF s \in incoming
                                          THEN Over(batch[s], live[s]) ELSE live[s]]
           evicted == {s \in SequenceIds : \E t \in DOMAIN full[s] : t < start}
           safe == {s \in incoming : \/ latest[s] = NoTime
                                     \/ Min(DOMAIN batch[s]) > latest[s]}
           changed == (incoming \cup evicted) \cap SequencesOf(rule)
<1>2. /\ incoming # {} /\ incoming \subseteq SequenceIds
      /\ \A s \in incoming : Series(batch[s]) /\ Numbers(batch[s])
      /\ Size \in Nat
  BY CheckAssumption DEF Numbers
<1>3. IsFiniteSet(times) /\ times # {} /\ times \subseteq Int
  BY <1>2, BatchTimes
<1>4. mark \in Int
  <2>1. CASE watermark = NoTime
    BY <1>3, <2>1 DEF Marks
  <2>2. CASE watermark # NoTime
    <3> DEFINE S == {watermark} \cup times
    <3>1. mark = Max(S) /\ watermark \in Int
      BY <2>2 DEF Marks, WindowPart
    <3> HIDE DEF times
    <3>2. IsFiniteSet(S) /\ S # {} /\ S \subseteq Int
      BY <1>3, <3>1, FS_Singleton, FS_Union
    <3> HIDE DEF S
    <3> QED BY <3>1, <3>2, MaxIs
  <2> QED BY <2>1, <2>2
<1>5. start \in Int
  BY <1>2, <1>4
<1>6. /\ watermark' = mark
      /\ live' = [s \in SequenceIds |-> From(full[s], start)]
      /\ range' = IF changed # {} /\ changed \subseteq safe
                  THEN RangeOf(batch, changed, evicted, start) ELSE NoRange
  BY <1>1 DEF Ingested
<1>7. WindowPart'
  <2>1. \A s \in SequenceIds : Series(full[s]) /\ Numbers(full[s])
    BY <1>2, OverIs DEF WindowPart
  <2> HIDE DEF full, start
  <2>2. \A s \in SequenceIds : live'[s] = From(full[s], start)
    BY <1>6
  <2>3. \A s \in SequenceIds : Series(live'[s]) /\ Numbers(live'[s])
    BY <2>1, <2>2, FromIs
  <2>4. rule' = rule /\ live' = [s \in SequenceIds |-> live'[s]]
    BY <1>6 DEF Ingest
  <2>5. (\A s \in SequenceIds : Series(live[s]) /\ Numbers(live[s]))'
    BY <2>3 DEF Series, Numbers
  <2> QED BY <1>4, <1>6, <2>4, <2>5 DEF WindowPart
<1>8. RangePart'
  <2> SUFFICES ASSUME changed # {}, changed \subseteq safe
               PROVE  /\ range'.start \in Int /\ range'.end \in Int
                      /\ range'.start <= range'.end
    BY <1>6 DEF RangePart
  <2> DEFINE mine == UNION {DOMAIN batch[s] : s \in changed}
             from == mine \cup (IF changed \cap evicted # {} THEN {start} ELSE {})
  <2>1. changed \subseteq incoming
    OBVIOUS
  <2> HIDE DEF changed
  <2>2. IsFiniteSet(mine) /\ mine # {} /\ mine \subseteq Int
    BY <2>1, BatchTimes
  <2>3. range' = [start |-> Min(from), end |-> Max(mine)]
    BY <1>6 DEF RangeOf
  <2> HIDE DEF mine, start, evicted
  <2>4. IsFiniteSet(from) /\ from # {} /\ from \subseteq Int
    <3>1. IsFiniteSet(mine \cup {start}) /\ mine \cup {start} \subseteq Int
      BY <1>5, <2>2, FS_AddElement
    <3> QED BY <2>2, <3>1
  <2>5. mine \subseteq from
    OBVIOUS
  <2>6. PICK x : x \in mine
    BY <2>2
  <2> HIDE DEF from
  <2>7. Min(from) \in from /\ Min(from) <= x
    BY <2>4, <2>5, <2>6, MinIs
  <2>8. Max(mine) \in mine /\ Max(mine) >= x
    BY <2>2, <2>6, MaxIs
  <2>9. Min(from) \in Int /\ Max(mine) \in Int /\ x \in Int
    BY <2>2, <2>4, <2>6, <2>7, <2>8
  <2> QED BY <2>3, <2>7, <2>8, <2>9
<1>9. watermark' \in Int
  <2> QED BY <1>4, <1>6
<1> QED BY <1>7, <1>8, <1>9

LEMMA CheckInit ==
  Init => CheckInv
<1> SUFFICES ASSUME Init PROVE CheckInv
  OBVIOUS
<1>1. Series(<<>>) /\ Numbers(<<>>)
  BY FS_EmptySet DEF Series, Numbers, Range
<1>2. WindowPart
  <2>1. live = [s \in SequenceIds |-> <<>>]
    BY DEF Init
  <2> QED BY <1>1, <2>1 DEF Init, WindowPart
<1> QED BY <1>2 DEF Init, CheckInv, RangePart, CheckPart, RequestPart

(* A step that keeps the rule, the window and the range.                   *)
LEMMA CheckStays ==
  ASSUME WindowPart, RangePart, UNCHANGED <<rule, windowVars, range>>
  PROVE  WindowPart' /\ RangePart'
BY DEF WindowPart, RangePart, windowVars

LEMMA QueriedStays ==
  ASSUME UNCHANGED <<rule, windowVars, range>>
  PROVE  Queried' = Queried
<1>1. rule' = rule /\ live' = live /\ watermark' = watermark /\ range' = range
  BY DEF windowVars
<1> QED BY <1>1 DEF Queried

LEMMA CheckNext ==
  ASSUME CheckInv, [Next]_vars
  PROVE  CheckInv'
<1> USE DEF CheckInv
<1>1. CASE Ingest
  <2>1. phase' \in {"idle", "updated"}
    BY <1>1 DEF Ingest
  <2> QED BY <1>1, <2>1, IngestIs DEF CheckPart, RequestPart
<1>2. CASE Query
  <2>1. phase = "updated" /\ phase' = "queried" /\ data' = Queried
        /\ UNCHANGED <<rule, windowVars, range, aligned, outcome>>
    BY <1>2 DEF Query
  <2>2. (data = Queried)'
    BY <2>1 DEF Queried, windowVars
  <2>0. watermark' = watermark
    BY <2>1 DEF windowVars
  <2> QED BY <2>0, <2>1, <2>2, CheckStays DEF CheckPart, RequestPart
<1>3. CASE Skip
  <2>1. /\ phase = "queried" /\ phase' = "checked" /\ outcome'.status = "skipped"
        /\ UNCHANGED <<rule, windowVars, range, data, aligned>>
    BY <1>3 DEF Skip, Skipped
  <2>2. (data = Queried)'
    BY <2>1, QueriedStays DEF CheckPart
  <2>0. watermark' = watermark
    BY <2>1 DEF windowVars
  <2> QED BY <2>0, <2>1, <2>2, CheckStays DEF CheckPart, RequestPart
<1>4. CASE Align \/ TakePoints
  <2>1. /\ phase = "queried" /\ phase' = "aligned" /\ Checkable
        /\ UNCHANGED <<rule, windowVars, range, data, outcome>>
    BY <1>4 DEF Align, TakePoints
  <2>2. (data = Queried)'
    BY <2>1, QueriedStays DEF CheckPart
  <2>3. Checkable'
    BY <2>1 DEF Checkable, Complete, Distinct
  <2>4. aligned' = Samples
    BY <1>4 DEF Align, TakePoints, Samples
  <2>5. (aligned = Samples)'
    BY <2>1, <2>4 DEF Samples
  <2>0. watermark' = watermark
    BY <2>1 DEF windowVars
  <2> QED BY <2>0, <2>1, <2>2, <2>3, <2>5, CheckStays DEF CheckPart, RequestPart
<1>5. CASE Check
  <2>1. /\ phase = "aligned" /\ phase' = "checked"
        /\ UNCHANGED <<rule, windowVars, range, data, aligned>>
        /\ outcome' = IF ~aligned.ok \/ DOMAIN aligned.samples = {} THEN Failure
                      ELSE Checked(rule, range, aligned.samples)
    BY <1>5 DEF Check
  <2>2. (data = Queried)'
    BY <2>1, QueriedStays DEF CheckPart
  <2>3. Checkable /\ aligned = Samples
    BY <2>1 DEF CheckPart
  <2>4. Checkable' /\ (aligned = Samples)'
    BY <2>1, <2>3 DEF Checkable, Complete, Distinct, Samples
  <2>5. outcome'.status = "ok" =>
          /\ aligned.ok /\ DOMAIN aligned.samples # {}
          /\ outcome' = Checked(rule, range, aligned.samples)
    BY <2>1 DEF Failure
  <2>6. (outcome.status = "ok" =>
          /\ aligned.ok /\ DOMAIN aligned.samples # {}
          /\ outcome = Checked(rule, range, aligned.samples))'
    BY <2>1, <2>5
  <2>7. watermark' \in Int
    BY <2>1 DEF CheckPart, windowVars
  <2> QED BY <2>1, <2>2, <2>4, <2>6, <2>7, CheckStays DEF CheckPart, RequestPart
<1>6. CASE Finish
  <2>1. phase' = "idle" /\ range' = NoRange /\ UNCHANGED <<rule, windowVars>>
    BY <1>6 DEF Finish
  <2> QED BY <2>1 DEF WindowPart, RangePart, CheckPart, RequestPart, windowVars
<1>7. CASE Request
  <2>1. /\ phase' = "requested" /\ data' \in Windows /\ range' \in Requests
        /\ UNCHANGED <<rule, windowVars>>
    BY <1>7 DEF Request
  <2>2. /\ range'.start \in Int /\ range'.end \in Int
        /\ range'.start <= range'.end
    BY <2>1, CheckAssumption
  <2> QED BY <2>1, <2>2 DEF WindowPart, RangePart, CheckPart, RequestPart, windowVars
<1>8. CASE Answer
  <2>1. /\ phase = "requested" /\ phase' = "answered"
        /\ aligned' = Ranged(data, range, range.prefix)
        /\ UNCHANGED <<rule, windowVars, range, data, outcome>>
    BY <1>8 DEF Answer
  <2> QED BY <2>1, CheckStays DEF CheckPart, RequestPart
<1>9. CASE UNCHANGED vars
  <2>1. UNCHANGED <<rule, windowVars, phase, range, data, aligned, outcome>>
    BY <1>9 DEF vars
  <2>2. Queried' = Queried /\ Checkable' = Checkable /\ Samples' = Samples
    BY <2>1, QueriedStays DEF Checkable, Complete, Distinct, Samples
  <2>0. watermark' = watermark
    BY <2>1 DEF windowVars
  <2>3. CheckPart'
    BY <2>0, <2>1, <2>2 DEF CheckPart
  <2> QED BY <2>1, <2>3, CheckStays DEF RequestPart
<1> QED BY <1>1, <1>2, <1>3, <1>4, <1>5, <1>6, <1>7, <1>8, <1>9 DEF Next

LEMMA CheckInvariant ==
  Spec => []CheckInv
BY CheckInit, CheckNext, PTL DEF Spec

(* The query of an incremental check brings the slice of a sequence.       *)
LEMMA QueriedIs ==
  ASSUME range # NoRange, NEW s \in SequencesOf(rule), s \in DOMAIN Queried.points
  PROVE  Queried.points[s] =
           Restrict(live[s], Slice(DOMAIN live[s], range.start, range.end,
                                   MaxOffset(rule) + 1))
BY DEF Queried, Slice

(* An incremental check of a rule of one sequence finds every violation    *)
(* that a point of its range has a part in, also at anchors before the     *)
(* range, and none that a check of all points would not find: the context  *)
(* that is queried suffices whatever the offsets are.                      *)
THEOREM OffsetsAreFound ==
  Spec => []OffsetsFound
<1>1. CheckInv => OffsetsFound
  <2> SUFFICES ASSUME CheckInv, phase = "checked", outcome.status = "ok",
                      Single(rule), range # NoRange
               PROVE  LET times == DOMAIN live[Only(rule)]
                          touched == {t \in Violating(times) :
                                        /\ t <= range.end
                                        /\ Later(times, t, MaxOffset(rule)) >= range.start}
                      IN touched \subseteq outcome.violations
                           /\ outcome.violations \subseteq Violating(times)
    BY DEF OffsetsFound, Checking
  <2> DEFINE s == Only(rule)
             f == live[s]
             D == Slice(DOMAIN f, range.start, range.end, MaxOffset(rule) + 1)
  <2>1. rule \in Rules /\ SequencesOf(rule) = {s} /\ s \in SequenceIds /\ Series(f)
    BY SingleIs DEF CheckInv, WindowPart
  <2>2. range.start \in Int /\ range.end \in Int /\ range.start <= range.end
    BY DEF CheckInv, RangePart
  <2>3. /\ data = Queried /\ s \in DOMAIN data.points
        /\ aligned = Sampled(PointsOf(data, s))
        /\ outcome = Checked(rule, range, aligned.samples)
    BY <2>1 DEF CheckInv, CheckPart, Samples, Checkable, Complete
  <2>4. data.points[s] = Restrict(f, D)
    BY <2>1, <2>3, QueriedIs
  <2>5. DOMAIN data.points[s] = D /\ \A t \in D : data.points[s][t] = f[t]
    BY <2>4 DEF Restrict
  <2>6. aligned.samples = Column(f, s, D)
    BY <2>3, <2>5 DEF Sampled, PointsOf, Column
  <2>7. Violating(DOMAIN f) = Wrong(rule, f, s)
    <3>1. [t \in DOMAIN f |-> [q \in SequencesOf(rule) |-> live[q][t]]]
            = Column(f, s, DOMAIN f)
      BY <2>1 DEF Column
    <3> QED BY <3>1 DEF Violating, Wrong
  <2> HIDE DEF f, s, D
  <2>8. /\ \A t \in Wrong(rule, f, s) :
             t <= range.end /\ Later(DOMAIN f, t, MaxOffset(rule)) >= range.start
               => t \in outcome.violations
        /\ outcome.violations \subseteq Wrong(rule, f, s)
    <3>1. outcome = Checked(rule, range, Column(f, s, D)) /\ outcome.status = "ok"
      BY <2>3, <2>6
    <3> QED BY <2>1, <2>2, <3>1, SingleExact DEF D
  <2> QED BY <2>7, <2>8 DEF f, s
<1> QED BY <1>1, CheckInvariant, PTL
-----------------------------------------------------------------------------
(***************************************************************************)
(* Buckets: the integers d apart.                                          *)
(***************************************************************************)
LEMMA DivIs ==
  ASSUME NEW a \in Int, NEW d \in Int, d > 0
  PROVE  a \div d \in Int /\ d * (a \div d) <= a /\ a < d * (a \div d) + d
OBVIOUS

LEMMA DivUnique ==
  ASSUME NEW a \in Int, NEW d \in Int, d > 0, NEW q \in Int,
         d * q <= a, a < d * q + d
  PROVE  a \div d = q
BY DivIs

LEMMA TimesOrder ==
  ASSUME NEW x \in Int, NEW y \in Int, NEW d \in Int, d > 0
  PROVE  /\ x <= y => d * x <= d * y
         /\ d * x < d * y + d => x <= y
<1>1. ASSUME d * x < d * y + d, x > y PROVE FALSE
  <2>1. x - (y + 1) >= 0
    BY <1>1
  <2>2. d * (x - (y + 1)) >= 0
    BY <2>1
  <2> QED BY <1>1, <2>2
<1> QED BY <1>1

(* The bucket of a time, and the order of buckets.                         *)
LEMMA BucketIs ==
  ASSUME NEW start \in Int, NEW d \in Int, d > 0, NEW t \in Int, NEW b \in Int
  PROVE  /\ (t - start) \div d \in Int
         /\ (b <= (t - start) \div d) <=> (start + b * d <= t)
         /\ ((t - start) \div d < b) <=> (t < start + b * d)
         /\ ((t - start) \div d = b)
              <=> (start + b * d <= t /\ t < start + (b + 1) * d)
<1> DEFINE a == t - start
           q == a \div d
<1>1. a \in Int
  OBVIOUS
<1> HIDE DEF a
<1>2. q \in Int /\ d * q <= a /\ a < d * q + d
  BY <1>1, DivIs
<1> HIDE DEF q
<1>3. (b <= q) <=> (d * b <= a)
  <2>1. ASSUME b <= q PROVE d * b <= a
    <3>1. d * b <= d * q
      BY <1>2, <2>1, TimesOrder
    <3> QED BY <1>1, <1>2, <3>1
  <2>2. ASSUME d * b <= a PROVE b <= q
    <3>1. d * b < d * q + d
      BY <1>1, <1>2, <2>2
    <3> QED BY <1>2, <3>1, TimesOrder
  <2> QED BY <2>1, <2>2
<1>4. (b + 1 <= q) <=> (d * (b + 1) <= a)
  <2>1. ASSUME b + 1 <= q PROVE d * (b + 1) <= a
    <3>1. d * (b + 1) <= d * q
      BY <1>2, <2>1, TimesOrder
    <3> QED BY <1>1, <1>2, <3>1
  <2>2. ASSUME d * (b + 1) <= a PROVE b + 1 <= q
    <3>1. d * (b + 1) < d * q + d
      BY <1>1, <1>2, <2>2
    <3> QED BY <1>2, <3>1, TimesOrder
  <2> QED BY <2>1, <2>2
<1>5. d * b = b * d /\ d * (b + 1) = (b + 1) * d
  OBVIOUS
<1>6. /\ (d * b <= a) <=> (start + b * d <= t)
      /\ (d * (b + 1) <= a) <=> (start + (b + 1) * d <= t)
  BY <1>5 DEF a
<1>7. /\ (b <= q) <=> (start + b * d <= t)
      /\ (b + 1 <= q) <=> (start + (b + 1) * d <= t)
  BY <1>3, <1>4, <1>6
<1>8. start + b * d \in Int /\ start + (b + 1) * d \in Int
  OBVIOUS
<1> QED BY <1>2, <1>7, <1>8 DEF q, a

LEMMA EdgeBucket ==
  ASSUME NEW start \in Int, NEW d \in Int, d > 0, NEW b \in Int
  PROVE  (start + b * d - start) \div d = b
<1>1. start + b * d \in Int /\ start + b * d < start + (b + 1) * d
  OBVIOUS
<1> QED BY <1>1, BucketIs

(* Buckets is how many buckets begin before the end.                       *)
LEMMA BucketsAre ==
  ASSUME NEW w, w.start \in Int, w.end \in Int, w.start <= w.end,
         NEW d \in Int, d > 0
  PROVE  /\ Buckets(w, d) \in Nat
         /\ \A b \in Int : (b < Buckets(w, d)) <=> (w.start + b * d < w.end)
<1> DEFINE a == w.end - w.start + d - 1
           n == a \div d
<1>1. a \in Int /\ a >= 0
  OBVIOUS
<1>2. n = Buckets(w, d)
  BY DEF Buckets
<1>3. n \in Int /\ d * n <= a /\ a < d * n + d
  <2> HIDE DEF a
  <2> QED BY <1>1, DivIs
<1>4. n >= 0
  <2> HIDE DEF a
  <2>1. d * 0 < d * n + d
    BY <1>1, <1>3
  <2> QED BY <1>3, <2>1, TimesOrder
<1>5. ASSUME NEW b \in Int PROVE (b < n) <=> (w.start + b * d < w.end)
  <2> HIDE DEF n
  <2>1. ASSUME b < n PROVE w.start + b * d < w.end
    <3>1. d * (b + 1) <= d * n
      BY <1>3, <2>1, TimesOrder
    <3>2. d * (b + 1) = b * d + d
      OBVIOUS
    <3> QED BY <1>3, <3>1, <3>2
  <2>2. ASSUME ~(b < n) PROVE ~(w.start + b * d < w.end)
    <3>1. d * n <= d * b
      BY <1>3, <2>2, TimesOrder
    <3>2. d * b = b * d
      OBVIOUS
    <3> QED BY <1>3, <3>1, <3>2
  <2> QED BY <2>1, <2>2
<1> QED BY <1>2, <1>3, <1>4, <1>5

LEMMA MaxUnique ==
  ASSUME NEW S, NEW x \in S, \A y \in S : y \in Int, \A y \in S : y <= x
  PROVE  Max(S) = x
<1>1. ASSUME NEW z \in S, \A y \in S : z >= y PROVE z = x
  BY <1>1
<1> QED BY <1>1 DEF Max

LEMMA MinUnique ==
  ASSUME NEW S, NEW x \in S, \A y \in S : y \in Int, \A y \in S : x <= y
  PROVE  Min(S) = x
<1>1. ASSUME NEW z \in S, \A y \in S : z <= y PROVE z = x
  BY <1>1
<1> QED BY <1>1 DEF Min

LEMMA MaxOfTwo ==
  ASSUME NEW x \in Int, NEW y \in Int
  PROVE  Max({x, y}) = IF x >= y THEN x ELSE y
<1>1. CASE x >= y
  BY <1>1, MaxUnique
<1>2. CASE ~(x >= y)
  BY <1>2, MaxUnique
<1> QED BY <1>1, <1>2

(* The least distance is one.                                              *)
LEMMA IntervalIs ==
  ASSUME NEW points, \A s \in DOMAIN points : Series(points[s]), Gaps(points) # {}
  PROVE  /\ Interval(points) \in Int /\ Interval(points) > 0
         /\ Interval(points) \in Gaps(points)
         /\ \A g \in Gaps(points) : Interval(points) <= g
<1> DEFINE G == Gaps(points)
<1>1. \A g \in G : g \in Nat /\ g > 0
  <2> SUFFICES ASSUME NEW s \in DOMAIN points, NEW g \in GapsOf(DOMAIN points[s])
               PROVE  g \in Nat /\ g > 0
    BY DEF Gaps
  <2>1. PICK p \in (DOMAIN points[s]) \X (DOMAIN points[s]) : p[1] < p[2] /\ g = p[2] - p[1]
    BY DEF GapsOf
  <2>2. p[1] \in Int /\ p[2] \in Int
    BY <2>1 DEF Series
  <2> QED BY <2>1, <2>2
<1> HIDE DEF G
<1>2. PICK x : x \in G
  BY DEF G
<1>3. x \in Nat
  BY <1>1, <1>2
<1> DEFINE H == {g \in G : g <= x}
<1>4. H \subseteq 0 .. x
  BY <1>1, <1>3
<1>5. IsFiniteSet(H) /\ H \subseteq Int /\ H # {}
  <2>1. IsFiniteSet(0 .. x)
    BY <1>3, FS_Interval
  <2>2. IsFiniteSet(H)
    BY <1>4, <2>1, FS_Subset
  <2>3. x \in H
    BY <1>2, <1>3
  <2> QED BY <1>4, <2>2, <2>3
<1> DEFINE m == Min(H)
<1>6. m \in H /\ \A y \in H : m <= y
  BY <1>5, MinIs
<1>7. m \in G /\ m \in Int /\ m > 0
  <2> HIDE DEF m
  <2> QED BY <1>1, <1>6
<1>8. \A y \in G : m <= y
  <2> HIDE DEF m
  <2>1. m <= x
    BY <1>6
  <2> QED BY <1>1, <1>3, <1>6, <1>7, <2>1
<1>9. Interval(points) = m
  <2> HIDE DEF m
  <2>0. \A y \in G : y \in Int
    BY <1>1
  <2>1. Min(G) = m
    BY <2>0, <1>7, <1>8, MinUnique
  <2> QED BY <2>1 DEF Interval, G
<1> QED BY <1>7, <1>8, <1>9 DEF G

-----------------------------------------------------------------------------
(***************************************************************************)
(* The full alignment.                                                     *)
(***************************************************************************)
Assembled(w) ==
  /\ w.start \in Int /\ w.end \in Int /\ w.start <= w.end
  /\ \A s \in DOMAIN w.points : Series(w.points[s])

PointsIn(w, d, s, b) ==
  {t \in DOMAIN w.points[s] : /\ Edge(w, d, b) <= t /\ t < Edge(w, d, b + 1)
                              /\ t < w.end}

(* Buckets with points, and what is aggregated in them.                    *)
LEMMA BucketedIs ==
  ASSUME NEW w, Assembled(w), NEW d \in Int, d > 0, NEW s \in DOMAIN w.points
  PROVE  /\ DOMAIN Bucketed(w, d, s)
              = {b \in 0 .. Buckets(w, d) - 1 : PointsIn(w, d, s, b) # {}}
         /\ \A b \in DOMAIN Bucketed(w, d, s) :
              Bucketed(w, d, s)[b]
                = Aggregated(KindOf[s], Restrict(w.points[s], PointsIn(w, d, s, b)))
<1> DEFINE BucketOf(t) == (t - w.start) \div d
           times == {t \in DOMAIN w.points[s] : w.start <= t /\ t < w.end}
           bs == {BucketOf(t) : t \in times}
           At(b) == {t \in times : BucketOf(t) = b}
<1>1. Bucketed(w, d, s)
        = [b \in bs |-> Aggregated(KindOf[s], Restrict(w.points[s], At(b)))]
  BY DEF Bucketed
<1>2. \A t \in DOMAIN w.points[s] : t \in Int
  BY DEF Assembled, Series
<1>3. w.start \in Int /\ w.end \in Int /\ w.start <= w.end
  BY DEF Assembled
<1>4. Buckets(w, d) \in Int
      /\ \A b \in Int : (b < Buckets(w, d)) <=> (w.start + b * d < w.end)
  BY <1>3, BucketsAre
<1>5. \A t \in times : BucketOf(t) \in 0 .. Buckets(w, d) - 1
  <2> SUFFICES ASSUME NEW t \in times PROVE BucketOf(t) \in 0 .. Buckets(w, d) - 1
    OBVIOUS
  <2>1. t \in Int /\ w.start <= t /\ t < w.end
    BY <1>2
  <2> DEFINE b == BucketOf(t)
  <2>2. b \in Int /\ w.start + b * d <= t
    BY <1>3, <2>1, BucketIs
  <2>3. 0 <= b
    <3>1. w.start + 0 * d <= t
      BY <1>3, <2>1
    <3>2. 0 \in Int
      OBVIOUS
    <3> QED BY <1>3, <2>1, <3>1, <3>2, BucketIs
  <2> HIDE DEF b
  <2>4. w.start + b * d < w.end
    <3>1. b * d \in Int
      BY <2>2
    <3> QED BY <1>3, <2>1, <2>2, <3>1
  <2>5. b < Buckets(w, d)
    BY <1>4, <2>2, <2>4
  <2>6. b \in 0 .. Buckets(w, d) - 1
    BY <1>4, <2>2, <2>3, <2>5
  <2> QED BY <2>6 DEF b
<1>6. \A b \in 0 .. Buckets(w, d) - 1 : At(b) = PointsIn(w, d, s, b)
  <2> SUFFICES ASSUME NEW b \in 0 .. Buckets(w, d) - 1, NEW t \in DOMAIN w.points[s]
               PROVE  (w.start <= t /\ t < w.end /\ BucketOf(t) = b)
                        <=> (Edge(w, d, b) <= t /\ t < Edge(w, d, b + 1) /\ t < w.end)
    BY DEF PointsIn
  <2>1. t \in Int /\ b \in Int /\ b >= 0
    BY <1>2, <1>4
  <2>2. (BucketOf(t) = b) <=> (w.start + b * d <= t /\ t < w.start + (b + 1) * d)
    BY <1>3, <2>1, BucketIs
  <2>3. w.start <= w.start + b * d
    <3>1. b * d >= 0
      BY <2>1
    <3> QED BY <1>3, <2>1, <3>1
  <2>4. w.start + b * d \in Int
    BY <1>3, <2>1
  <2> HIDE DEF BucketOf
  <2> QED BY <1>3, <2>1, <2>2, <2>3, <2>4 DEF Edge
<1>7. bs = {b \in 0 .. Buckets(w, d) - 1 : PointsIn(w, d, s, b) # {}}
  <2>1. bs = {b \in 0 .. Buckets(w, d) - 1 : At(b) # {}}
    <3> HIDE DEF BucketOf, times
    <3> QED BY <1>5
  <2> HIDE DEF bs, At
  <2> QED BY <1>6, <2>1
<1> HIDE DEF bs, At
<1> QED BY <1>1, <1>6, <1>7

(* They are finitely many.                                                 *)
LEMMA BucketedFinite ==
  ASSUME NEW w, Assembled(w), NEW d \in Int, d > 0, NEW s \in DOMAIN w.points
  PROVE  TimeSet(DOMAIN Bucketed(w, d, s))
<1>1. DOMAIN Bucketed(w, d, s) \subseteq 0 .. Buckets(w, d) - 1
  BY BucketedIs
<1>2. Buckets(w, d) \in Nat
  BY BucketsAre DEF Assembled
<1>3. IsFiniteSet(0 .. Buckets(w, d) - 1) /\ 0 .. Buckets(w, d) - 1 \subseteq Int
  BY <1>2, FS_Interval
<1> HIDE DEF Bucketed
<1> QED BY <1>1, <1>3, FS_Subset DEF TimeSet

(* What a window has instead of the value of a bucket without points.      *)
Sample(w, d, b) ==
  [s \in DOMAIN w.points |-> Filled(KindOf[s], Bucketed(w, d, s), b)]
Computed(w, d) ==
  /\ DOMAIN w.points # {}
  /\ \A s \in DOMAIN w.points : Failed \notin Range(Bucketed(w, d, s))
  /\ \A b \in 0 .. Buckets(w, d) - 1 : Failed \notin Range(Sample(w, d, b))

(* The alignment is Ok if no sequence lacks a number, and then every       *)
(* bucket has a sample.                                                    *)
LEMMA AlignedByIs ==
  ASSUME NEW w, Assembled(w), NEW d \in Int, d > 0
  PROVE  /\ AlignedBy(w, d).ok <=> Computed(w, d)
         /\ AlignedBy(w, d).ok =>
              /\ DOMAIN AlignedBy(w, d).samples
                   = {Edge(w, d, b) : b \in 0 .. Buckets(w, d) - 1}
              /\ \A b \in 0 .. Buckets(w, d) - 1 :
                   AlignedBy(w, d).samples[Edge(w, d, b)] = Sample(w, d, b)
         /\ AlignedBy(w, d) = Sampled(AlignedBy(w, d).samples) \/ ~AlignedBy(w, d).ok
<1> DEFINE ids == DOMAIN w.points
           bs == 0 .. Buckets(w, d) - 1
           values == [s \in ids |-> Bucketed(w, d, s)]
           edges == {w.start + b * d : b \in bs}
           Row(t) == [s \in ids |-> Filled(KindOf[s], values[s], (t - w.start) \div d)]
           samples == [t \in edges |-> Row(t)]
           bad == \/ ids = {} \/ \E s \in ids : Failed \in Range(values[s])
                  \/ \E t \in DOMAIN samples : Failed \in Range(samples[t])
<1>1. AlignedBy(w, d) = IF bad THEN Refused ELSE Sampled(samples)
  BY DEF AlignedBy
<1>2. AlignedBy(w, d).ok <=> ~bad
  <2> HIDE DEF bad, samples
  <2> QED BY <1>1 DEF Refused, Sampled
<1>3. ~bad => AlignedBy(w, d).samples = samples
  <2> HIDE DEF bad, samples
  <2> QED BY <1>1 DEF Sampled
<1>4. edges = {Edge(w, d, b) : b \in bs}
  BY DEF Edge
<1>5. \A b \in bs : Row(Edge(w, d, b)) = Sample(w, d, b)
  <2> SUFFICES ASSUME NEW b \in bs PROVE Row(Edge(w, d, b)) = Sample(w, d, b)
    OBVIOUS
  <2>1. b \in Int /\ w.start \in Int
    BY BucketsAre DEF Assembled
  <2>2. (Edge(w, d, b) - w.start) \div d = b
    BY <2>1, EdgeBucket DEF Edge
  <2> QED BY <2>2 DEF Sample
<1>6. bad <=> ~Computed(w, d)
  <2> DEFINE A == \E s \in ids : Failed \in Range(values[s])
             B == \E t \in DOMAIN samples : Failed \in Range(samples[t])
  <2>1. A <=> \E s \in ids : Failed \in Range(Bucketed(w, d, s))
    OBVIOUS
  <2>2. B <=> \E b \in bs : Failed \in Range(Sample(w, d, b))
    <3>1. B <=> \E t \in edges : Failed \in Range(Row(t))
      <4> HIDE DEF Row, edges
      <4> QED OBVIOUS
    <3>2. (\E t \in edges : Failed \in Range(Row(t)))
            <=> \E b \in bs : Failed \in Range(Row(Edge(w, d, b)))
      <4> HIDE DEF Row, edges, bs
      <4> QED BY <1>4
    <3> HIDE DEF B, Row, edges, bs
    <3> QED BY <1>5, <3>1, <3>2
  <2>3. bad <=> (ids = {} \/ A \/ B)
    OBVIOUS
  <2> HIDE DEF A, B, bad
  <2> QED BY <2>1, <2>2, <2>3 DEF Computed
<1>7. ~bad =>
        /\ DOMAIN AlignedBy(w, d).samples = {Edge(w, d, b) : b \in bs}
        /\ \A b \in bs : AlignedBy(w, d).samples[Edge(w, d, b)] = Sample(w, d, b)
  <2>1. DOMAIN samples = edges /\ \A t \in edges : samples[t] = Row(t)
    OBVIOUS
  <2> HIDE DEF bad, samples, edges, Row, bs
  <2> QED BY <1>3, <1>4, <1>5, <2>1
<1>8. AlignedBy(w, d) = Sampled(AlignedBy(w, d).samples) \/ bad
  <2> HIDE DEF bad, samples
  <2> QED BY <1>1, <1>3
<1> HIDE DEF bad
<1> QED BY <1>2, <1>6, <1>7, <1>8

-----------------------------------------------------------------------------
(***************************************************************************)
(* A part of a window: its buckets from the f-th one on, before the h-th.  *)
(***************************************************************************)
PartEnd(w, d, h) == IF h < Buckets(w, d) THEN Edge(w, d, h) ELSE w.end
PartTimes(w, d, f, h, s) ==
  {t \in DOMAIN w.points[s] : Edge(w, d, f) <= t /\ t < PartEnd(w, d, h)}
Part(w, d, f, h) ==
  [start |-> Edge(w, d, f), end |-> PartEnd(w, d, h),
   points |-> [s \in DOMAIN w.points |->
                 Restrict(w.points[s], PartTimes(w, d, f, h, s))]]

LEMMA EdgeOrder ==
  ASSUME NEW w, Assembled(w), NEW d \in Int, d > 0, NEW b \in Int, NEW c \in Int
  PROVE  /\ Edge(w, d, b) \in Int
         /\ b <= c <=> Edge(w, d, b) <= Edge(w, d, c)
         /\ b < c <=> Edge(w, d, b) < Edge(w, d, c)
<1>1. w.start \in Int
  BY DEF Assembled
<1>2. b * d \in Int /\ c * d \in Int /\ b * d = d * b /\ c * d = d * c
  OBVIOUS
<1>3. (b <= c <=> d * b <= d * c) /\ (b < c <=> d * b < d * c)
  <2>1. b <= c => d * b <= d * c
    BY TimesOrder
  <2>2. c <= b => d * c <= d * b
    BY TimesOrder
  <2>3. d * b <= d * c => b <= c
    BY <1>2, TimesOrder
  <2>4. d * c <= d * b => c <= b
    BY <1>2, TimesOrder
  <2> QED BY <1>2, <2>1, <2>2, <2>3, <2>4
<1> QED BY <1>1, <1>2, <1>3 DEF Edge

LEMMA EdgesBefore ==
  ASSUME NEW w, Assembled(w), NEW d \in Int, d > 0
  PROVE  /\ Buckets(w, d) \in Nat
         /\ \A b \in Int : (b < Buckets(w, d)) <=> (Edge(w, d, b) < w.end)
BY BucketsAre DEF Assembled, Edge

LEMMA PartIs ==
  ASSUME NEW w, Assembled(w), NEW d \in Int, d > 0,
         NEW f \in Int, NEW h \in Int, 0 <= f, f < h, h <= Buckets(w, d)
  PROVE  LET p == Part(w, d, f, h)
         IN /\ Assembled(p) /\ DOMAIN p.points = DOMAIN w.points
            /\ \A b \in Int : Edge(p, d, b) = Edge(w, d, b + f)
            /\ Buckets(p, d) = h - f
<1> DEFINE p == Part(w, d, f, h)
           n == Buckets(w, d)
<1>0. p.start = Edge(w, d, f) /\ p.end = PartEnd(w, d, h)
      /\ DOMAIN p.points = DOMAIN w.points
      /\ \A s \in DOMAIN w.points :
           p.points[s] = Restrict(w.points[s], PartTimes(w, d, f, h, s))
  BY DEF Part
<1> HIDE DEF p, n
<1>1. w.start \in Int /\ w.end \in Int
  BY DEF Assembled
<1>2. n \in Nat /\ \A b \in Int : (b < n) <=> (Edge(w, d, b) < w.end)
  BY EdgesBefore DEF n
<1>3. p.start \in Int /\ p.end \in Int /\ p.start <= p.end
  <2>1. Edge(w, d, f) \in Int /\ Edge(w, d, h) \in Int
        /\ Edge(w, d, f) < Edge(w, d, h)
    BY EdgeOrder
  <2>2. Edge(w, d, f) < w.end
    BY <1>2 DEF n
  <2> QED BY <1>0, <1>1, <2>1, <2>2 DEF PartEnd
<1>4. \A s \in DOMAIN p.points : Series(p.points[s])
  <2> SUFFICES ASSUME NEW s \in DOMAIN w.points PROVE Series(p.points[s])
    BY <1>0
  <2> DEFINE T == PartTimes(w, d, f, h, s)
  <2>1. T \subseteq DOMAIN w.points[s]
    BY DEF PartTimes
  <2>2. T \subseteq Int /\ IsFiniteSet(T)
    BY <2>1, FS_Subset DEF Assembled, Series
  <2>3. p.points[s] = [t \in T |-> w.points[s][t]]
    BY <1>0 DEF Restrict
  <2> HIDE DEF T
  <2> QED BY <2>2, <2>3 DEF Series
<1>5. Assembled(p)
  BY <1>3, <1>4 DEF Assembled
<1>6. ASSUME NEW b \in Int PROVE Edge(p, d, b) = Edge(w, d, b + f)
  <2>1. (b + f) * d = b * d + f * d /\ b * d \in Int /\ f * d \in Int
    OBVIOUS
  <2> QED BY <1>0, <1>1, <2>1 DEF Edge
<1>7. ASSUME NEW b \in Int PROVE (b < Buckets(p, d)) <=> (b < h - f)
  <2> DEFINE c == b + f
  <2>1. (b < Buckets(p, d)) <=> (Edge(w, d, c) < p.end)
    BY <1>5, <1>6, EdgesBefore
  <2>2. c \in Int /\ (b < h - f <=> c < h)
    OBVIOUS
  <2> HIDE DEF c
  <2>3. CASE h < n
    <3>1. p.end = Edge(w, d, h)
      BY <1>0, <2>3 DEF PartEnd, n
    <3>2. (c < h) <=> (Edge(w, d, c) < Edge(w, d, h))
      BY <2>2, EdgeOrder
    <3> QED BY <2>1, <2>2, <3>1, <3>2
  <2>4. CASE ~(h < n)
    <3>1. p.end = w.end /\ h = n
      BY <1>0, <1>2, <2>4 DEF PartEnd, n
    <3> QED BY <1>2, <2>1, <2>2, <3>1
  <2> QED BY <2>3, <2>4
<1>8. Buckets(p, d) = h - f
  <2>1. Buckets(p, d) \in Int /\ h - f \in Int
    BY <1>5, EdgesBefore
  <2>2. ~(Buckets(p, d) < h - f) /\ ~(h - f < Buckets(p, d))
    BY <1>7, <2>1
  <2> QED BY <2>1, <2>2
<1> QED BY <1>0, <1>5, <1>6, <1>8 DEF p

(* Its buckets have the points that they have in the whole window.         *)
LEMMA PartPoints ==
  ASSUME NEW w, Assembled(w), NEW d \in Int, d > 0,
         NEW f \in Int, NEW h \in Int, 0 <= f, f < h, h <= Buckets(w, d),
         NEW s \in DOMAIN w.points, NEW b \in Int, 0 <= b, b < h - f
  PROVE  LET p == Part(w, d, f, h)
         IN /\ PointsIn(p, d, s, b) = PointsIn(w, d, s, b + f)
            /\ Restrict(p.points[s], PointsIn(p, d, s, b))
                 = Restrict(w.points[s], PointsIn(w, d, s, b + f))
<1> DEFINE p == Part(w, d, f, h)
           c == b + f
           T == PartTimes(w, d, f, h, s)
<1>0. p.end = PartEnd(w, d, h) /\ p.points[s] = [t \in T |-> w.points[s][t]]
  BY DEF Part, Restrict
<1>1. c \in Int /\ f <= c /\ c < h /\ c + 1 <= h /\ b + 1 + f = c + 1
  OBVIOUS
<1>2. Edge(p, d, b) = Edge(w, d, c) /\ Edge(p, d, b + 1) = Edge(w, d, c + 1)
  <2>1. \A x \in Int : Edge(p, d, x) = Edge(w, d, x + f)
    BY PartIs
  <2>2. b \in Int /\ b + 1 \in Int
    OBVIOUS
  <2> HIDE DEF p
  <2>3. Edge(p, d, b) = Edge(w, d, b + f) /\ Edge(p, d, b + 1) = Edge(w, d, b + 1 + f)
    BY <2>1, <2>2
  <2> QED BY <1>1, <2>3
<1> HIDE DEF p, c
<1>3. Edge(w, d, f) <= Edge(w, d, c) /\ Edge(w, d, c + 1) <= Edge(w, d, h)
      /\ Edge(w, d, f) \in Int /\ Edge(w, d, c) \in Int
      /\ Edge(w, d, c + 1) \in Int /\ Edge(w, d, h) \in Int
  <2>1. c + 1 \in Int
    BY <1>1
  <2> QED BY <1>1, <2>1, EdgeOrder
<1>4. w.end \in Int /\ \A t \in DOMAIN w.points[s] : t \in Int
  BY DEF Assembled, Series
<1>5. h < Buckets(w, d) => Edge(w, d, h) < w.end
  BY EdgesBefore
<1>6. PointsIn(p, d, s, b) = PointsIn(w, d, s, c)
  <2>1. PointsIn(p, d, s, b)
          = {t \in T : Edge(w, d, c) <= t /\ t < Edge(w, d, c + 1)
                       /\ t < PartEnd(w, d, h)}
    <3>1. DOMAIN p.points[s] = T
      BY <1>0
    <3> HIDE DEF T
    <3> QED BY <1>0, <1>2, <3>1 DEF PointsIn
  <2>2. ASSUME NEW t \in DOMAIN w.points[s],
               Edge(w, d, c) <= t, t < Edge(w, d, c + 1)
        PROVE  /\ Edge(w, d, f) <= t
               /\ t < PartEnd(w, d, h) <=> t < w.end
    <3>1. t \in Int
      BY <1>4
    <3> QED BY <1>3, <1>4, <1>5, <2>2, <3>1 DEF PartEnd
  <2> QED BY <2>1, <2>2 DEF PointsIn, PartTimes
<1>7. PointsIn(w, d, s, c) \subseteq T
  <2>1. PointsIn(p, d, s, b) \subseteq DOMAIN p.points[s]
    BY DEF PointsIn
  <2>2. DOMAIN p.points[s] = T
    BY <1>0
  <2> QED BY <1>6, <2>1, <2>2
<1>8. Restrict(p.points[s], PointsIn(w, d, s, c))
        = Restrict(w.points[s], PointsIn(w, d, s, c))
  <2> DEFINE S == PointsIn(w, d, s, c)
             g == p.points[s]
  <2>1. \A t \in S : g[t] = w.points[s][t]
    BY <1>0, <1>7
  <2> HIDE DEF S, g
  <2>2. Restrict(g, S) = Restrict(w.points[s], S)
    BY <2>1 DEF Restrict
  <2> QED BY <2>2 DEF S, g
<1> QED BY <1>6, <1>8 DEF p, c

(* And so the values, counted from the f-th bucket.                        *)
LEMMA PartBuckets ==
  ASSUME NEW w, Assembled(w), NEW d \in Int, d > 0,
         NEW f \in Int, NEW h \in Int, 0 <= f, f < h, h <= Buckets(w, d),
         NEW s \in DOMAIN w.points
  PROVE  LET V == Bucketed(w, d, s)
             P == Bucketed(Part(w, d, f, h), d, s)
         IN /\ DOMAIN P = {b \in 0 .. h - f - 1 : b + f \in DOMAIN V}
            /\ \A b \in DOMAIN P : P[b] = V[b + f]
<1> DEFINE p == Part(w, d, f, h)
           V == Bucketed(w, d, s)
           P == Bucketed(p, d, s)
           n == Buckets(w, d)
<1>1. Assembled(p) /\ DOMAIN p.points = DOMAIN w.points /\ Buckets(p, d) = h - f
  BY PartIs
<1>2. n \in Nat
  BY EdgesBefore
<1>3. /\ DOMAIN V = {b \in 0 .. n - 1 : PointsIn(w, d, s, b) # {}}
      /\ \A b \in DOMAIN V :
           V[b] = Aggregated(KindOf[s], Restrict(w.points[s], PointsIn(w, d, s, b)))
  BY BucketedIs
<1>4. /\ DOMAIN P = {b \in 0 .. Buckets(p, d) - 1 : PointsIn(p, d, s, b) # {}}
      /\ \A b \in DOMAIN P :
           P[b] = Aggregated(KindOf[s], Restrict(p.points[s], PointsIn(p, d, s, b)))
  BY <1>1, BucketedIs
<1>5. \A b \in 0 .. h - f - 1 :
        /\ PointsIn(p, d, s, b) = PointsIn(w, d, s, b + f)
        /\ Restrict(p.points[s], PointsIn(p, d, s, b))
             = Restrict(w.points[s], PointsIn(w, d, s, b + f))
  <2> SUFFICES ASSUME NEW b \in 0 .. h - f - 1
               PROVE  /\ PointsIn(p, d, s, b) = PointsIn(w, d, s, b + f)
                      /\ Restrict(p.points[s], PointsIn(p, d, s, b))
                           = Restrict(w.points[s], PointsIn(w, d, s, b + f))
    OBVIOUS
  <2>1. b \in Int /\ 0 <= b /\ b < h - f
    OBVIOUS
  <2> QED BY <2>1, PartPoints
<1>6. \A b \in 0 .. h - f - 1 : b + f \in 0 .. n - 1
  BY <1>2
<1> HIDE DEF p, V, P, n
<1>7. DOMAIN P = {b \in 0 .. h - f - 1 : PointsIn(p, d, s, b) # {}}
  BY <1>1, <1>4
<1>8. DOMAIN P = {b \in 0 .. h - f - 1 : b + f \in DOMAIN V}
  BY <1>3, <1>5, <1>6, <1>7
<1>9. ASSUME NEW b \in DOMAIN P PROVE P[b] = V[b + f]
  <2>1. b \in 0 .. h - f - 1 /\ b + f \in DOMAIN V
    BY <1>8
  <2> QED BY <1>3, <1>4, <1>5, <2>1
<1> QED BY <1>8, <1>9 DEF p, V, P

-----------------------------------------------------------------------------
(***************************************************************************)
(* Filling from a part of the values: those of the buckets from f on and   *)
(* before h, counted from f.                                               *)
(***************************************************************************)
Shifted(V, P, f, h) ==
  /\ TimeSet(DOMAIN V)
  /\ DOMAIN P = {b \in 0 .. h - f - 1 : b + f \in DOMAIN V}
  /\ \A b \in DOMAIN P : P[b] = V[b + f]

(* The nearest value before a bucket is the same if it is in the part.     *)
LEMMA ShiftedBefore ==
  ASSUME NEW V, NEW P, NEW f \in Int, NEW h \in Int, Shifted(V, P, f, h),
         NEW b \in Int, f <= b, b < h,
         Before(V, b) # {} => \E c \in Before(V, b) : f <= c
  PROVE  /\ Before(P, b - f) = {} <=> Before(V, b) = {}
         /\ Before(V, b) # {} =>
              /\ Max(Before(V, b)) \in Int
              /\ Max(Before(P, b - f)) = Max(Before(V, b)) - f
              /\ P[Max(Before(P, b - f))] = V[Max(Before(V, b))]
<1> DEFINE A == Before(V, b)
           B == Before(P, b - f)
<1>1. A = {c \in DOMAIN V : c < b} /\ B = {c \in DOMAIN P : c < b - f}
  BY DEF Before
<1>2. \A c \in DOMAIN V : c \in Int
  BY DEF Shifted, TimeSet
<1>3. \A c \in DOMAIN P : c \in 0 .. h - f - 1 /\ c + f \in DOMAIN V /\ P[c] = V[c + f]
  BY DEF Shifted
<1>4. \A c \in B : c \in Int /\ c + f \in A
  BY <1>1, <1>3
<1>5. \A c \in A : c \in Int /\ (f <= c => c - f \in B)
  <2> SUFFICES ASSUME NEW c \in A PROVE c \in Int /\ (f <= c => c - f \in B)
    OBVIOUS
  <2>1. c \in Int /\ c < b /\ c \in DOMAIN V
    BY <1>1, <1>2
  <2>2. ASSUME f <= c PROVE c - f \in B
    <3>1. c - f \in 0 .. h - f - 1 /\ c - f + f = c /\ c - f < b - f
      BY <2>1, <2>2
    <3>2. c - f \in DOMAIN P
      BY <2>1, <3>1 DEF Shifted
    <3> QED BY <1>1, <3>1, <3>2
  <2> QED BY <2>1, <2>2
<1>6. A # {} => \E c \in A : f <= c
  OBVIOUS
<1>7. IsFiniteSet(A) /\ A \subseteq Int
  <2>1. A \subseteq DOMAIN V
    BY <1>1
  <2> HIDE DEF A
  <2> QED BY <1>5, <2>1, FS_Subset DEF Shifted, TimeSet
<1>8. B = {} <=> A = {}
  <2> HIDE DEF A, B
  <2> QED BY <1>4, <1>5, <1>6
<1>9. ASSUME A # {}
      PROVE  Max(A) \in Int /\ Max(B) = Max(A) - f /\ P[Max(B)] = V[Max(A)]
  <2> DEFINE m == Max(A)
  <2>1. m \in A /\ \A c \in A : m >= c
    <3> HIDE DEF A
    <3> QED BY <1>7, <1>9, MaxIs
  <2> HIDE DEF A, B, m
  <2>2. m \in Int /\ f <= m
    <3>1. PICK c \in A : f <= c
      BY <1>6, <1>9
    <3> QED BY <1>5, <2>1, <3>1
  <2> DEFINE k == m - f
  <2>3. k \in B /\ k + f = m /\ k \in Int
    BY <1>5, <2>1, <2>2
  <2>4. \A c \in B : c <= k
    <3> SUFFICES ASSUME NEW c \in B PROVE c <= k
      OBVIOUS
    <3>1. c \in Int /\ m >= c + f
      BY <1>4, <2>1
    <3> QED BY <2>2, <3>1
  <2>5. \A c \in B : c \in Int
    BY <1>4
  <2> HIDE DEF k
  <2>6. Max(B) = k
    BY <2>3, <2>4, <2>5, MaxUnique
  <2>7. P[k] = V[m]
    <3>1. k \in DOMAIN P
      BY <1>1, <2>3 DEF B
    <3> QED BY <1>3, <2>3, <3>1
  <2> QED BY <2>2, <2>6, <2>7 DEF m, k
<1> HIDE DEF A, B
<1>10. (A = {} <=> Before(V, b) = {}) /\ (B = {} <=> Before(P, b - f) = {})
  BY DEF A, B
<1> QED BY <1>8, <1>9 DEF A, B

LEMMA ShiftedAfter ==
  ASSUME NEW V, NEW P, NEW f \in Int, NEW h \in Int, Shifted(V, P, f, h),
         NEW b \in Int, f <= b, b < h,
         After(V, b) # {} => \E c \in After(V, b) : c < h
  PROVE  /\ After(P, b - f) = {} <=> After(V, b) = {}
         /\ After(V, b) # {} =>
              /\ Min(After(V, b)) \in Int
              /\ Min(After(P, b - f)) = Min(After(V, b)) - f
              /\ P[Min(After(P, b - f))] = V[Min(After(V, b))]
<1> DEFINE A == After(V, b)
           B == After(P, b - f)
<1>1. A = {c \in DOMAIN V : c > b} /\ B = {c \in DOMAIN P : c > b - f}
  BY DEF After
<1>2. \A c \in DOMAIN V : c \in Int
  BY DEF Shifted, TimeSet
<1>3. \A c \in DOMAIN P : c \in 0 .. h - f - 1 /\ c + f \in DOMAIN V /\ P[c] = V[c + f]
  BY DEF Shifted
<1>4. \A c \in B : c \in Int /\ c + f \in A
  BY <1>1, <1>3
<1>5. \A c \in A : c \in Int /\ (c < h => c - f \in B)
  <2> SUFFICES ASSUME NEW c \in A PROVE c \in Int /\ (c < h => c - f \in B)
    OBVIOUS
  <2>1. c \in Int /\ c > b /\ c \in DOMAIN V
    BY <1>1, <1>2
  <2>2. ASSUME c < h PROVE c - f \in B
    <3>1. c - f \in 0 .. h - f - 1 /\ c - f + f = c /\ c - f > b - f
      BY <2>1, <2>2
    <3>2. c - f \in DOMAIN P
      BY <2>1, <3>1 DEF Shifted
    <3> QED BY <1>1, <3>1, <3>2
  <2> QED BY <2>1, <2>2
<1>6. A # {} => \E c \in A : c < h
  OBVIOUS
<1>7. IsFiniteSet(A) /\ A \subseteq Int
  <2>1. A \subseteq DOMAIN V
    BY <1>1
  <2> HIDE DEF A
  <2> QED BY <1>5, <2>1, FS_Subset DEF Shifted, TimeSet
<1>8. B = {} <=> A = {}
  <2> HIDE DEF A, B
  <2> QED BY <1>4, <1>5, <1>6
<1>9. ASSUME A # {}
      PROVE  Min(A) \in Int /\ Min(B) = Min(A) - f /\ P[Min(B)] = V[Min(A)]
  <2> DEFINE m == Min(A)
  <2>1. m \in A /\ \A c \in A : m <= c
    <3> HIDE DEF A
    <3> QED BY <1>7, <1>9, MinIs
  <2> HIDE DEF A, B, m
  <2>2. m \in Int /\ m < h
    <3>1. PICK c \in A : c < h
      BY <1>6, <1>9
    <3> QED BY <1>5, <2>1, <3>1
  <2> DEFINE k == m - f
  <2>3. k \in B /\ k + f = m /\ k \in Int
    BY <1>5, <2>1, <2>2
  <2>4. \A c \in B : k <= c
    <3> SUFFICES ASSUME NEW c \in B PROVE k <= c
      OBVIOUS
    <3>1. c \in Int /\ m <= c + f
      BY <1>4, <2>1
    <3> QED BY <2>2, <3>1
  <2>5. \A c \in B : c \in Int
    BY <1>4
  <2> HIDE DEF k
  <2>6. Min(B) = k
    BY <2>3, <2>4, <2>5, MinUnique
  <2>7. P[k] = V[m]
    <3>1. k \in DOMAIN P
      BY <1>1, <2>3 DEF B
    <3> QED BY <1>3, <2>3, <3>1
  <2> QED BY <2>2, <2>6, <2>7 DEF m, k
<1> HIDE DEF A, B
<1> QED BY <1>8, <1>9 DEF A, B

(* What fills a bucket is the same if the nearest values on both sides are *)
(* in the part.                                                            *)
LEMMA FilledShifted ==
  ASSUME NEW V, NEW P, NEW f \in Int, NEW h \in Int, Shifted(V, P, f, h),
         NEW b \in Int, f <= b, b < h, NEW kind,
         \/ b \in DOMAIN V
         \/ /\ Before(V, b) # {} => \E c \in Before(V, b) : f <= c
            /\ After(V, b) # {} => \E c \in After(V, b) : c < h
  PROVE  Filled(kind, P, b - f) = Filled(kind, V, b)
<1> DEFINE k == b - f
<1>1. k \in Int /\ k + f = b /\ k \in 0 .. h - f - 1
  OBVIOUS
<1>2. k \in DOMAIN P <=> b \in DOMAIN V
  BY <1>1 DEF Shifted
<1>3. CASE b \in DOMAIN V
  <2>1. k \in DOMAIN P /\ P[k] = V[b]
    BY <1>1, <1>2, <1>3 DEF Shifted
  <2> HIDE DEF k
  <2>2. Filled(kind, P, k) = P[k] /\ Filled(kind, V, b) = V[b]
    BY <1>3, <2>1 DEF Filled
  <2> QED BY <2>1, <2>2 DEF k
<1>4. CASE b \notin DOMAIN V
  <2>1. /\ Before(P, k) = {} <=> Before(V, b) = {}
        /\ Before(V, b) # {} =>
              /\ Max(Before(V, b)) \in Int
              /\ Max(Before(P, k)) = Max(Before(V, b)) - f
              /\ P[Max(Before(P, k))] = V[Max(Before(V, b))]
    BY <1>4, ShiftedBefore
  <2>2. /\ After(P, k) = {} <=> After(V, b) = {}
        /\ After(V, b) # {} =>
              /\ Min(After(V, b)) \in Int
              /\ Min(After(P, k)) = Min(After(V, b)) - f
              /\ P[Min(After(P, k))] = V[Min(After(V, b))]
    BY <1>4, ShiftedAfter
  <2> DEFINE x == Max(Before(V, b))
             y == Min(After(V, b))
             u == Max(Before(P, k))
             v == Min(After(P, k))
             be == Before(V, b) = {}
             af == After(V, b) = {}
             be2 == Before(P, k) = {}
             af2 == After(P, k) = {}
  <2>3. ~be => x \in Int /\ u = x - f /\ P[u] = V[x]
    BY <2>1
  <2>4. ~af => y \in Int /\ v = y - f /\ P[v] = V[y]
    BY <2>2
  <2>0. (be2 <=> be) /\ (af2 <=> af)
    BY <2>1, <2>2
  <2>5. Nearest(V, b) = IF be THEN IF af THEN Missing ELSE V[y]
                        ELSE IF af \/ b - x <= y - b THEN V[x] ELSE V[y]
    BY DEF Nearest
  <2>6. Nearest(P, k) = IF be2 THEN IF af2 THEN Missing ELSE P[v]
                        ELSE IF af2 \/ k - u <= v - k THEN P[u] ELSE P[v]
    BY DEF Nearest
  <2>7. Between(V, b) = IF NotNumeric \in {V[x], V[y]} THEN Failed
                        ELSE V[x] + ((V[y] - V[x]) * (b - x)) \div (y - x)
    BY DEF Between
  <2>8. Between(P, k) = IF NotNumeric \in {P[u], P[v]} THEN Failed
                        ELSE P[u] + ((P[v] - P[u]) * (k - u)) \div (v - u)
    BY DEF Between
  <2>9. Filled(kind, V, b) = IF kind = "discrete" THEN IF be THEN Missing ELSE V[x]
                             ELSE IF kind = "continuous" /\ ~be /\ ~af
                             THEN Between(V, b) ELSE Nearest(V, b)
    BY <1>4 DEF Filled
  <2>10. Filled(kind, P, k) = IF kind = "discrete" THEN IF be2 THEN Missing ELSE P[u]
                              ELSE IF kind = "continuous" /\ ~be2 /\ ~af2
                              THEN Between(P, k) ELSE Nearest(P, k)
    BY <1>2, <1>4 DEF Filled
  <2> HIDE DEF x, y, u, v, be, af, be2, af2
  <2>11. ~be /\ ~af => k - u = b - x /\ v - k = y - b /\ v - u = y - x
    BY <2>3, <2>4
  <2> HIDE DEF k
  <2>12. Nearest(P, k) = Nearest(V, b)
    BY <2>0, <2>3, <2>4, <2>5, <2>6, <2>11
  <2>13. ~be /\ ~af => Between(P, k) = Between(V, b)
    BY <2>3, <2>4, <2>7, <2>8, <2>11
  <2>14. Filled(kind, P, k) = Filled(kind, V, b)
    BY <2>0, <2>3, <2>9, <2>10, <2>12, <2>13
  <2> QED BY <2>14 DEF k
<1> QED BY <1>3, <1>4

(* With no value on one side a bucket is filled with a value or nothing.   *)
LEMMA FilledOutside ==
  ASSUME NEW P, TimeSet(DOMAIN P), NEW b \in Int, NEW kind,
         Before(P, b) = {} \/ After(P, b) = {}
  PROVE  Filled(kind, P, b) \in Range(P) \cup {Missing}
<1> DEFINE x == Max(Before(P, b))
           y == Min(After(P, b))
<1>1. Before(P, b) # {} => P[x] \in Range(P)
  <2>1. Before(P, b) \subseteq DOMAIN P
    BY DEF Before
  <2>2. IsFiniteSet(Before(P, b)) /\ Before(P, b) \subseteq Int
    BY <2>1, FS_Subset DEF TimeSet
  <2>3. Before(P, b) # {} => x \in DOMAIN P
    BY <2>1, <2>2, MaxIs
  <2> QED BY <2>3 DEF Range
<1>2. After(P, b) # {} => P[y] \in Range(P)
  <2>1. After(P, b) \subseteq DOMAIN P
    BY DEF After
  <2>2. IsFiniteSet(After(P, b)) /\ After(P, b) \subseteq Int
    BY <2>1, FS_Subset DEF TimeSet
  <2>3. After(P, b) # {} => y \in DOMAIN P
    BY <2>1, <2>2, MinIs
  <2> QED BY <2>3 DEF Range
<1>3. Nearest(P, b) \in Range(P) \cup {Missing}
  BY <1>1, <1>2 DEF Nearest
<1>4. b \in DOMAIN P => P[b] \in Range(P)
  BY DEF Range
<1> QED BY <1>1, <1>3, <1>4 DEF Filled

-----------------------------------------------------------------------------
(***************************************************************************)
(* The buckets of a range.                                                 *)
(***************************************************************************)
LEMMA BucketHas ==
  ASSUME NEW w, Assembled(w), NEW d \in Int, d > 0,
         NEW t \in Int, w.start <= t, t < w.end
  PROVE  LET b == (t - w.start) \div d
         IN /\ b \in 0 .. Buckets(w, d) - 1
            /\ Edge(w, d, b) <= t /\ t < Edge(w, d, b + 1)
<1> DEFINE b == (t - w.start) \div d
<1>0. w.start \in Int /\ w.end \in Int
  BY DEF Assembled
<1>1. b \in Int
  BY <1>0, BucketIs
<1>2. w.start + b * d <= t /\ t < w.start + (b + 1) * d
  BY <1>0, <1>1, BucketIs
<1>3. 0 <= b
  <2>1. w.start + 0 * d <= t /\ 0 \in Int
    BY <1>0
  <2> QED BY <1>0, <2>1, BucketIs
<1> HIDE DEF b
<1>4. Edge(w, d, b) <= t /\ t < Edge(w, d, b + 1)
  BY <1>2 DEF Edge
<1>5. Edge(w, d, b) \in Int
  BY <1>1, EdgeOrder
<1>6. Edge(w, d, b) < w.end
  BY <1>0, <1>4, <1>5
<1>7. Buckets(w, d) \in Nat /\ b < Buckets(w, d)
  BY <1>1, <1>6, EdgesBefore
<1>8. b \in 0 .. Buckets(w, d) - 1
  BY <1>1, <1>3, <1>7
<1> QED BY <1>4, <1>8 DEF b

LEMMA IndexIs ==
  ASSUME NEW w, Assembled(w), NEW d \in Int, d > 0, w.start < w.end,
         NEW t \in Int
  PROVE  /\ IndexOf(w, d, t) \in 0 .. Buckets(w, d) - 1
         /\ w.start <= t /\ t < w.end => Edge(w, d, IndexOf(w, d, t)) <= t
<1>0. w.start \in Int /\ w.end \in Int
  BY DEF Assembled
<1>1. Buckets(w, d) \in Nat /\ 0 < Buckets(w, d)
  <2>1. Edge(w, d, 0) = w.start /\ 0 \in Int
    BY <1>0 DEF Edge
  <2> QED BY <2>1, EdgesBefore
<1>2. CASE t <= w.start
  <2>1. IndexOf(w, d, t) = 0
    BY <1>2 DEF IndexOf
  <2>2. Edge(w, d, 0) = w.start
    BY <1>0 DEF Edge
  <2> QED BY <1>0, <1>1, <2>1, <2>2
<1>3. CASE w.start < t /\ t < w.end
  <2>1. IndexOf(w, d, t) = (t - w.start) \div d
    BY <1>0, <1>3 DEF IndexOf
  <2> QED BY <1>0, <1>3, <2>1, BucketHas
<1>4. CASE t >= w.end
  <2>1. IndexOf(w, d, t) = Buckets(w, d) - 1
    BY <1>0, <1>4 DEF IndexOf
  <2> QED BY <1>0, <1>1, <1>4, <2>1
<1> QED BY <1>0, <1>2, <1>3, <1>4

LEMMA IndexOrder ==
  ASSUME NEW w, Assembled(w), NEW d \in Int, d > 0, w.start < w.end,
         NEW t \in Int, NEW u \in Int, t <= u
  PROVE  IndexOf(w, d, t) <= IndexOf(w, d, u)
<1>0. w.start \in Int /\ w.end \in Int /\ Buckets(w, d) \in Nat
  BY EdgesBefore DEF Assembled
<1>1. IndexOf(w, d, t) \in 0 .. Buckets(w, d) - 1
      /\ IndexOf(w, d, u) \in 0 .. Buckets(w, d) - 1
  BY IndexIs
<1>2. CASE t <= w.start
  <2>1. IndexOf(w, d, t) = 0
    BY <1>2 DEF IndexOf
  <2> QED BY <1>0, <1>1, <2>1
<1>3. CASE w.start < t /\ u < w.end
  <2> DEFINE b == (t - w.start) \div d
             c == (u - w.start) \div d
  <2>1. IndexOf(w, d, t) = b /\ IndexOf(w, d, u) = c
    BY <1>0, <1>3 DEF IndexOf
  <2>0. w.start <= t /\ t < w.end /\ w.start <= u /\ u < w.end
    BY <1>0, <1>3
  <2>2. /\ b \in Int /\ Edge(w, d, b) <= t
        /\ c \in Int /\ u < Edge(w, d, c + 1)
    <3>1. b \in 0 .. Buckets(w, d) - 1 /\ Edge(w, d, b) <= t
      BY <2>0, BucketHas
    <3>2. c \in 0 .. Buckets(w, d) - 1 /\ u < Edge(w, d, c + 1)
      BY <2>0, BucketHas
    <3> HIDE DEF b, c
    <3> QED BY <1>0, <3>1, <3>2
  <2> HIDE DEF b, c
  <2>3. Edge(w, d, b) \in Int /\ Edge(w, d, c + 1) \in Int /\ c + 1 \in Int
    BY <2>2, EdgeOrder
  <2>4. Edge(w, d, b) < Edge(w, d, c + 1)
    BY <2>2, <2>3
  <2>5. b < c + 1
    BY <2>2, <2>3, <2>4, EdgeOrder
  <2> QED BY <2>1, <2>2, <2>5
<1>4. CASE u >= w.end
  <2>1. IndexOf(w, d, u) = Buckets(w, d) - 1 \/ u <= w.start
    BY <1>0, <1>4 DEF IndexOf
  <2> QED BY <1>0, <1>1, <1>2, <1>4, <2>1
<1> QED BY <1>0, <1>2, <1>3, <1>4

(* The target reaches from the prefix to the end of the range.             *)
LEMMA TargetIs ==
  ASSUME NEW w, Assembled(w), NEW d \in Int, d > 0, d = Interval(w.points),
         w.start < w.end, NEW asked, asked.start \in Int, asked.end \in Int,
         asked.start <= asked.end, NEW prefix \in Nat
  PROVE  LET target == Target(w, asked, prefix)
             i == IndexOf(w, d, asked.start)
             j == IndexOf(w, d, asked.end)
         IN /\ target.first \in Int /\ target.last \in Int
            /\ 0 <= target.first /\ target.first <= i /\ i <= j /\ j = target.last
            /\ target.last < Buckets(w, d)
            /\ target.first = Max({i - prefix, 0})
<1> DEFINE i == IndexOf(w, d, asked.start)
           j == IndexOf(w, d, asked.end)
<1>1. i \in 0 .. Buckets(w, d) - 1 /\ j \in 0 .. Buckets(w, d) - 1 /\ i <= j
  BY IndexIs, IndexOrder
<1>2. Target(w, asked, prefix) = [first |-> Max({i - prefix, 0}), last |-> Max({i, j})]
  BY DEF Target
<1>3. Buckets(w, d) \in Nat
  BY EdgesBefore
<1> HIDE DEF i, j
<1>4. Max({i - prefix, 0}) = IF i - prefix >= 0 THEN i - prefix ELSE 0
  <2>1. i - prefix \in Int /\ 0 \in Int
    BY <1>1
  <2> QED BY <2>1, MaxOfTwo
<1>5. Max({i, j}) = IF i >= j THEN i ELSE j
  <2>1. i \in Int /\ j \in Int
    BY <1>1
  <2> QED BY <2>1, MaxOfTwo
<1>6. /\ Max({i - prefix, 0}) \in Int /\ 0 <= Max({i - prefix, 0})
      /\ Max({i - prefix, 0}) <= i /\ Max({i, j}) = j
  BY <1>1, <1>4, <1>5
<1> QED BY <1>1, <1>2, <1>3, <1>6 DEF i, j

(* One bucket more on each side.                                           *)
From1(first) == IF first = 0 THEN 0 ELSE first - 1
To2(last, n) == IF last + 2 < n THEN last + 2 ELSE n

LEMMA LocalIs ==
  ASSUME NEW w, Assembled(w), NEW d \in Int, d > 0, d = Interval(w.points),
         NEW target, target.first \in Int, target.last \in Int,
         0 <= target.first, target.first <= target.last,
         target.last < Buckets(w, d)
  PROVE  LET f == From1(target.first)
             h == To2(target.last, Buckets(w, d))
         IN /\ Local(w, target) = Part(w, d, f, h)
            /\ f \in Int /\ 0 <= f /\ f <= target.first /\ target.first <= f + 1
            /\ h \in Int /\ target.last < h /\ h <= target.last + 2
            /\ f < h /\ h <= Buckets(w, d)
<1> DEFINE f == From1(target.first)
           n == Buckets(w, d)
           h == To2(target.last, n)
           last == target.last + 1
<1>0. n \in Nat
  BY EdgesBefore
<1>1. /\ f \in Int /\ 0 <= f /\ f <= target.first /\ target.first <= f + 1
      /\ h \in Int /\ target.last < h /\ h <= target.last + 2
      /\ f < h /\ h <= n
  <2> HIDE DEF n
  <2> QED BY <1>0 DEF From1, To2, n
<1>2. Max({target.first - 1, 0}) = f
  <2>1. target.first - 1 \in Int /\ 0 \in Int
    OBVIOUS
  <2>2. Max({target.first - 1, 0})
          = IF target.first - 1 >= 0 THEN target.first - 1 ELSE 0
    BY <2>1, MaxOfTwo
  <2> QED BY <2>2 DEF From1
<1> DEFINE start == Edge(w, d, f)
           end == IF last + 1 < n THEN Edge(w, d, last + 1) ELSE w.end
           Times(s) == {t \in DOMAIN w.points[s] : start <= t /\ t < end}
<1>3. Local(w, target)
        = [start |-> start, end |-> end,
           points |-> [s \in DOMAIN w.points |-> Restrict(w.points[s], Times(s))]]
  BY <1>2 DEF Local
<1>4. end = PartEnd(w, d, h)
  <2> HIDE DEF n
  <2>1. last + 1 = target.last + 2
    OBVIOUS
  <2>2. CASE target.last + 2 < n
    <3>1. h = target.last + 2
      BY <2>2 DEF To2
    <3> QED BY <2>1, <2>2, <3>1 DEF PartEnd, n
  <2>3. CASE ~(target.last + 2 < n)
    <3>1. h = n /\ ~(n < n)
      BY <1>0, <2>3 DEF To2
    <3> QED BY <2>1, <2>3, <3>1 DEF PartEnd, n
  <2> QED BY <2>2, <2>3
<1>5. \A s \in DOMAIN w.points : Times(s) = PartTimes(w, d, f, h, s)
  <2> HIDE DEF end, f, h
  <2> QED BY <1>4 DEF PartTimes
<1> HIDE DEF end, f, h, n
<1>6. Local(w, target) = Part(w, d, f, h)
  <2>1. Part(w, d, f, h)
          = [start |-> start, end |-> end,
             points |-> [s \in DOMAIN w.points |-> Restrict(w.points[s], Times(s))]]
    BY <1>4, <1>5 DEF Part
  <2> QED BY <1>3, <2>1
<1> QED BY <1>1, <1>6 DEF f, h, n

HasValues(w, d, s) ==
  DOMAIN Bucketed(w, d, s)
    = {b \in 0 .. Buckets(w, d) - 1 : PointsIn(w, d, s, b) # {}}
LEMMA ValuesAre ==
  ASSUME NEW w, Assembled(w), NEW d \in Int, d > 0
  PROVE  \A s \in DOMAIN w.points : HasValues(w, d, s)
BY BucketedIs DEF HasValues

(* A part with points in a boundary bucket of the target, or beside it,    *)
(* has what fills the buckets of the target.                               *)
LEMMA ContextIs ==
  ASSUME NEW w, Assembled(w), NEW d \in Int, d > 0, d \in {Interval(w.points)},
         NEW target, target.first \in Int, target.last \in Int,
         0 <= target.first, target.first <= target.last,
         target.last < Buckets(w, d),
         NEW f \in Int, NEW h \in Int, f = From1(target.first),
         h = To2(target.last, Buckets(w, d)),
         NEW s \in DOMAIN w.points,
         ~LacksContext(w, target, PartTimes(w, d, f, h, s)),
         NEW b \in Int, target.first <= b, b <= target.last
  PROVE  LET V == Bucketed(w, d, s)
         IN \/ b \in DOMAIN V
            \/ /\ Before(V, b) # {} => \E c \in Before(V, b) : f <= c
               /\ After(V, b) # {} => \E c \in After(V, b) : c < h
<1> DEFINE V == Bucketed(w, d, s)
           n == Buckets(w, d)
           T == PartTimes(w, d, f, h, s)
           first == target.first
           last == target.last
<1>00. d = Interval(w.points)
  OBVIOUS
<1>0. n \in Nat /\ w.start \in Int /\ w.end \in Int
  BY EdgesBefore DEF Assembled
<1>1. /\ 0 <= f /\ f <= first /\ first <= f + 1
      /\ last < h /\ h <= last + 2 /\ h <= n
  BY <1>00, LocalIs
<1>2. DOMAIN V = {c \in 0 .. n - 1 : PointsIn(w, d, s, c) # {}}
  BY ValuesAre DEF HasValues
<1>3. ASSUME NEW t \in T
      PROVE  \E c \in DOMAIN V : /\ c \in Int /\ f <= c /\ c < h
                                 /\ Edge(w, d, c) <= t /\ t < Edge(w, d, c + 1)
  <2>1. t \in DOMAIN w.points[s] /\ Edge(w, d, f) <= t /\ t < PartEnd(w, d, h)
    BY DEF PartTimes
  <2>2. t \in Int
    BY <2>1 DEF Assembled, Series
  <2>3. Edge(w, d, f) \in Int /\ Edge(w, d, h) \in Int /\ w.start <= Edge(w, d, f)
    <3>1. f * d >= 0
      BY <1>1
    <3>2. Edge(w, d, f) \in Int /\ Edge(w, d, h) \in Int
      BY EdgeOrder
    <3> QED BY <1>0, <3>1, <3>2 DEF Edge
  <2>4. t < w.end
    <3>1. h < n => Edge(w, d, h) < w.end
      BY EdgesBefore
    <3> QED BY <1>0, <2>1, <2>2, <2>3, <3>1 DEF PartEnd
  <2> DEFINE c == (t - w.start) \div d
  <2>5. c \in 0 .. n - 1 /\ Edge(w, d, c) <= t /\ t < Edge(w, d, c + 1)
    <3>1. w.start <= t
      BY <1>0, <2>1, <2>2, <2>3
    <3> QED BY <2>2, <2>4, <3>1, BucketHas
  <2> HIDE DEF c, n, V
  <2>6. c \in Int /\ c + 1 \in Int
    BY <1>0, <2>5
  <2>7. Edge(w, d, c) \in Int /\ Edge(w, d, c + 1) \in Int
    BY <2>6, EdgeOrder
  <2>8. f <= c
    <3>1. Edge(w, d, f) < Edge(w, d, c + 1)
      BY <2>1, <2>2, <2>3, <2>5, <2>7
    <3>2. f < c + 1
      BY <2>6, <3>1, EdgeOrder
    <3> QED BY <2>6, <3>2
  <2>9. c < h
    <3>1. CASE h < n
      <4>1. Edge(w, d, c) < Edge(w, d, h)
        BY <2>1, <2>2, <2>3, <2>5, <2>7, <3>1 DEF PartEnd, n
      <4> QED BY <2>6, <4>1, EdgeOrder
    <3>2. CASE ~(h < n)
      BY <1>0, <1>1, <2>5, <3>2
    <3> QED BY <3>1, <3>2
  <2>10. c \in DOMAIN V
    <3>1. t \in PointsIn(w, d, s, c)
      BY <2>1, <2>4, <2>5 DEF PointsIn
    <3> QED BY <1>2, <2>5, <3>1
  <2> QED BY <2>5, <2>6, <2>8, <2>9, <2>10
<1>4. \/ first = 0
      \/ \E c \in DOMAIN V : c \in Int /\ f <= c /\ c <= first
  <2> SUFFICES ASSUME first # 0
               PROVE  \E c \in DOMAIN V : c \in Int /\ f <= c /\ c <= first
    OBVIOUS
  <2>1. PICK t \in T : ~(t >= Edge(w, d, first + 1))
    <3>1. ~(\A t \in T : t >= Edge(w, d, first + 1))
      BY <1>00 DEF LacksContext
    <3> HIDE DEF T
    <3> QED BY <3>1
  <2>2. PICK c \in DOMAIN V : /\ c \in Int /\ f <= c /\ c < h
                              /\ Edge(w, d, c) <= t /\ t < Edge(w, d, c + 1)
    BY <1>3
  <2>3. t \in Int
    BY DEF PartTimes, Assembled, Series
  <2>4. Edge(w, d, c) \in Int /\ Edge(w, d, first + 1) \in Int
    BY <2>2, EdgeOrder
  <2>5. Edge(w, d, c) < Edge(w, d, first + 1)
    BY <2>1, <2>2, <2>3, <2>4
  <2>6. c < first + 1
    <3>1. first + 1 \in Int
      OBVIOUS
    <3> QED BY <2>2, <2>5, <3>1, EdgeOrder
  <2> QED BY <2>2, <2>6
<1>5. \/ h = n
      \/ \E c \in DOMAIN V : c \in Int /\ last <= c /\ c < h
  <2>1. CASE last + 1 < n
    <3>1. PICK t \in T : ~(t < Edge(w, d, last))
      <4>1. ~(\A t \in T : t < Edge(w, d, last))
        BY <1>00, <2>1 DEF LacksContext
      <4> HIDE DEF T
      <4> QED BY <4>1
    <3>2. PICK c \in DOMAIN V : /\ c \in Int /\ f <= c /\ c < h
                                /\ Edge(w, d, c) <= t /\ t < Edge(w, d, c + 1)
      BY <1>3
    <3>3. t \in Int
      BY DEF PartTimes, Assembled, Series
    <3>4. Edge(w, d, c + 1) \in Int /\ Edge(w, d, last) \in Int /\ c + 1 \in Int
      BY <3>2, EdgeOrder
    <3>5. Edge(w, d, last) < Edge(w, d, c + 1)
      BY <3>1, <3>2, <3>3, <3>4
    <3>6. last < c + 1
      BY <3>4, <3>5, EdgeOrder
    <3> QED BY <3>2, <3>6
  <2>2. CASE ~(last + 1 < n)
    BY <1>0, <1>1, <2>2
  <2> QED BY <2>1, <2>2
<1>6. \A c \in DOMAIN V : c \in Int /\ 0 <= c /\ c < n
  BY <1>0, <1>2
<1>7. /\ Before(V, b) = {c \in DOMAIN V : c < b}
      /\ After(V, b) = {c \in DOMAIN V : c > b}
  BY DEF Before, After
<1> HIDE DEF V, n, T, first, last
<1>8. target.first = first /\ target.last = last
  BY DEF first, last
<1> SUFFICES ASSUME b \notin DOMAIN V
             PROVE  /\ Before(V, b) # {} => \E c \in Before(V, b) : f <= c
                    /\ After(V, b) # {} => \E c \in After(V, b) : c < h
  BY DEF V
<1>9. Before(V, b) # {} => \E c \in Before(V, b) : f <= c
  <2>1. CASE first = 0
    <3>1. f = 0
      BY <1>8, <2>1 DEF From1
    <3> QED BY <1>6, <1>7, <3>1
  <2>2. CASE \E c \in DOMAIN V : c \in Int /\ f <= c /\ c <= first
    <3>1. PICK c \in DOMAIN V : c \in Int /\ f <= c /\ c <= first
      BY <2>2
    <3>2. c < b
      BY <1>8, <3>1
    <3> QED BY <1>7, <3>1, <3>2
  <2> QED BY <1>4, <2>1, <2>2
<1>10. After(V, b) # {} => \E c \in After(V, b) : c < h
  <2>1. CASE h = n
    BY <1>6, <1>7, <2>1
  <2>2. CASE \E c \in DOMAIN V : c \in Int /\ last <= c /\ c < h
    <3>1. PICK c \in DOMAIN V : c \in Int /\ last <= c /\ c < h
      BY <2>2
    <3>2. c > b
      BY <1>8, <3>1
    <3> QED BY <1>7, <3>1, <3>2
  <2> QED BY <1>5, <2>1, <2>2
<1> QED BY <1>9, <1>10

(* Then aligning the part gives the samples of the target that aligning    *)
(* the whole window gives.                                                 *)
LEMMA LocalExact ==
  ASSUME NEW w, Assembled(w), NEW d \in Int, d > 0, d \in {Interval(w.points)},
         NEW target, target.first \in Int, target.last \in Int,
         0 <= target.first, target.first <= target.last,
         target.last < Buckets(w, d), AlignedBy(w, d).ok,
         \A s \in DOMAIN w.points :
           ~LacksContext(w, target, DOMAIN Local(w, target).points[s])
  PROVE  LET local == AlignedBy(Local(w, target), d)
         IN /\ local.ok
            /\ \A b \in target.first .. target.last :
                 /\ Edge(w, d, b) \in DOMAIN local.samples
                 /\ local.samples[Edge(w, d, b)] = Sample(w, d, b)
<1> DEFINE first == target.first
           last == target.last
           n == Buckets(w, d)
           f == From1(first)
           h == To2(last, n)
           p == Part(w, d, f, h)
           ids == DOMAIN w.points
           V(s) == Bucketed(w, d, s)
           P(s) == Bucketed(p, d, s)
<1>00. d = Interval(w.points)
  OBVIOUS
<1>1. /\ Local(w, target) = p
      /\ f \in Int /\ 0 <= f /\ f <= first /\ first <= f + 1
      /\ h \in Int /\ last < h /\ h <= last + 2
      /\ f < h /\ h <= n
  BY <1>00, LocalIs
<1>2. /\ Assembled(p) /\ DOMAIN p.points = ids /\ Buckets(p, d) = h - f
      /\ \A b \in Int : Edge(p, d, b) = Edge(w, d, b + f)
  BY <1>1, PartIs
<1>3. \A s \in ids : DOMAIN p.points[s] = PartTimes(w, d, f, h, s)
  BY DEF Part, Restrict
<1>4. \A s \in ids : Shifted(V(s), P(s), f, h)
  <2> SUFFICES ASSUME NEW s \in ids PROVE Shifted(V(s), P(s), f, h)
    OBVIOUS
  <2>1. TimeSet(DOMAIN V(s))
    BY BucketedFinite
  <2>2. /\ DOMAIN P(s) = {b \in 0 .. h - f - 1 : b + f \in DOMAIN V(s)}
        /\ \A b \in DOMAIN P(s) : P(s)[b] = V(s)[b + f]
    <3> HIDE DEF f, h
    <3> QED BY <1>1, PartBuckets, ZenonT(60)
  <2> QED BY <2>1, <2>2 DEF Shifted
<1>5. \A s \in ids, b \in first .. last :
        Filled(KindOf[s], P(s), b - f) = Filled(KindOf[s], V(s), b)
  <2> SUFFICES ASSUME NEW s \in ids, NEW b \in first .. last
               PROVE  Filled(KindOf[s], P(s), b - f) = Filled(KindOf[s], V(s), b)
    OBVIOUS
  <2>1. b \in Int /\ first <= b /\ b <= last /\ f <= b /\ b < h
    BY <1>1
  <2>2. ~LacksContext(w, target, PartTimes(w, d, f, h, s))
    <3>1. DOMAIN Local(w, target).points[s] = PartTimes(w, d, f, h, s)
      BY <1>1, <1>3
    <3>2. ~LacksContext(w, target, DOMAIN Local(w, target).points[s])
      OBVIOUS
    <3> QED BY <3>1, <3>2
  <2>3. \/ b \in DOMAIN V(s)
        \/ /\ Before(V(s), b) # {} => \E c \in Before(V(s), b) : f <= c
           /\ After(V(s), b) # {} => \E c \in After(V(s), b) : c < h
    BY <1>1, <2>1, <2>2, ContextIs
  <2>4. Shifted(V(s), P(s), f, h)
    BY <1>4
  <2> DEFINE Vs == V(s)
             Ps == P(s)
             kind == KindOf[s]
  <2> HIDE DEF Vs, Ps, kind
  <2>5. \/ b \in DOMAIN Vs
        \/ /\ Before(Vs, b) # {} => \E c \in Before(Vs, b) : f <= c
           /\ After(Vs, b) # {} => \E c \in After(Vs, b) : c < h
    BY <2>3 DEF Vs
  <2>6. Shifted(Vs, Ps, f, h)
    BY <2>4 DEF Vs, Ps
  <2> HIDE DEF f, h, first, last, n
  <2>7. Filled(kind, Ps, b - f) = Filled(kind, Vs, b)
    BY <1>1, <2>1, <2>5, <2>6, FilledShifted
  <2> QED BY <2>7 DEF Vs, Ps, kind
<1>6. Computed(w, d)
  BY AlignedByIs
<1>7. \A s \in ids : Failed \notin Range(V(s))
  BY <1>6 DEF Computed
<1>8. \A s \in ids, b \in 0 .. n - 1 : Filled(KindOf[s], V(s), b) # Failed
  <2> SUFFICES ASSUME NEW s \in ids, NEW b \in 0 .. n - 1
               PROVE  Filled(KindOf[s], V(s), b) # Failed
    OBVIOUS
  <2>1. Failed \notin Range(Sample(w, d, b))
    BY <1>6 DEF Computed
  <2>2. Filled(KindOf[s], V(s), b) \in Range(Sample(w, d, b))
    BY DEF Range, Sample
  <2> QED BY <2>1, <2>2
<1> HIDE DEF p
<1>9. \A s \in ids : Failed \notin Range(P(s))
  <2> SUFFICES ASSUME NEW s \in ids PROVE Failed \notin Range(P(s))
    OBVIOUS
  <2>1. \A b \in DOMAIN P(s) : b + f \in DOMAIN V(s) /\ P(s)[b] = V(s)[b + f]
    BY <1>4 DEF Shifted
  <2>2. Failed \notin Range(V(s))
    BY <1>7
  <2> HIDE DEF P, V
  <2> QED BY <2>1, <2>2 DEF Range
<1>10. ASSUME NEW s \in ids, NEW b \in 0 .. h - f - 1
       PROVE  Filled(KindOf[s], P(s), b) # Failed
  <2> DEFINE c == b + f
  <2>1. c \in Int /\ c - f = b /\ b \in Int /\ f <= c /\ c < h
    BY <1>1
  <2>2. CASE first <= c /\ c <= last
    <3> HIDE DEF c, P, V, f
    <3>1. Filled(KindOf[s], P(s), c - f) = Filled(KindOf[s], V(s), c)
      BY <1>5, <2>1, <2>2
    <3>2. c \in 0 .. n - 1
      <4>1. n \in Nat
        BY EdgesBefore
      <4> HIDE DEF n, h, first, last
      <4> QED BY <1>1, <2>1, <2>2, <4>1
    <3>3. Filled(KindOf[s], V(s), c) # Failed
      BY <1>8, <3>2
    <3> QED BY <2>1, <3>1, <3>3
  <2>3. CASE ~(first <= c /\ c <= last)
    <3>1. \A x \in DOMAIN P(s) : x \in 0 .. h - f - 1
      BY <1>4 DEF Shifted
    <3>2. b = 0 \/ b = h - f - 1
      <4> HIDE DEF f, h, n
      <4> QED BY <1>1, <2>1, <2>3
    <3>3. Before(P(s), b) = {} \/ After(P(s), b) = {}
      <4> HIDE DEF P, f, h, n
      <4>1. CASE b = 0
        BY <3>1, <4>1 DEF Before
      <4>2. CASE b = h - f - 1
        <5>1. \A x \in DOMAIN P(s) : x \in Int /\ ~(x > b)
          BY <1>1, <3>1, <4>2
        <5> QED BY <5>1 DEF After
      <4> QED BY <3>2, <4>1, <4>2
    <3>4. TimeSet(DOMAIN P(s))
      BY <1>2, BucketedFinite
    <3> HIDE DEF P
    <3>5. Filled(KindOf[s], P(s), b) \in Range(P(s)) \cup {Missing}
      BY <2>1, <3>3, <3>4, FilledOutside
    <3> QED BY <1>9, <3>5, AlignmentAssumption
  <2> QED BY <2>2, <2>3
<1>11. Computed(p, d)
  <2>1. ids # {}
    BY <1>6 DEF Computed
  <2>2. \A b \in 0 .. Buckets(p, d) - 1 : Failed \notin Range(Sample(p, d, b))
    <3> SUFFICES ASSUME NEW b \in 0 .. h - f - 1,
                        Failed \in Range(Sample(p, d, b))
                 PROVE  FALSE
      BY <1>2
    <3>1. PICK s \in DOMAIN Sample(p, d, b) : Sample(p, d, b)[s] = Failed
      BY DEF Range
    <3>2. s \in ids /\ Sample(p, d, b)[s] = Filled(KindOf[s], P(s), b)
      BY <1>2 DEF Sample
    <3> QED BY <1>10, <3>1, <3>2
  <2> QED BY <1>2, <1>9, <2>1, <2>2 DEF Computed
<1> DEFINE local == AlignedBy(p, d)
<1>12. /\ local.ok
       /\ DOMAIN local.samples = {Edge(p, d, b) : b \in 0 .. h - f - 1}
       /\ \A b \in 0 .. h - f - 1 :
            local.samples[Edge(p, d, b)] = Sample(p, d, b)
  <2>1. local.ok
    BY <1>2, <1>11, AlignedByIs
  <2>2. /\ DOMAIN local.samples = {Edge(p, d, b) : b \in 0 .. Buckets(p, d) - 1}
        /\ \A b \in 0 .. Buckets(p, d) - 1 :
            local.samples[Edge(p, d, b)] = Sample(p, d, b)
    BY <1>2, <2>1, AlignedByIs
  <2> HIDE DEF local
  <2> QED BY <1>2, <2>1, <2>2
<1>13. ASSUME NEW b \in first .. last
       PROVE  /\ Edge(w, d, b) \in DOMAIN local.samples
              /\ local.samples[Edge(w, d, b)] = Sample(w, d, b)
  <2> DEFINE k == b - f
  <2>1. k \in 0 .. h - f - 1 /\ k \in Int /\ k + f = b
    <3> HIDE DEF f, h, n
    <3> QED BY <1>1
  <2>2. \A s \in ids : Filled(KindOf[s], P(s), k) = Filled(KindOf[s], V(s), b)
    BY <1>5
  <2>3. Sample(p, d, k) = Sample(w, d, b)
    <3> HIDE DEF k
    <3> QED BY <1>2, <2>2 DEF Sample
  <2> HIDE DEF k, local
  <2>4. Edge(p, d, k) = Edge(w, d, b)
    BY <1>2, <2>1
  <2>5. Edge(p, d, k) \in DOMAIN local.samples
        /\ local.samples[Edge(p, d, k)] = Sample(p, d, k)
    BY <1>12, <2>1
  <2> QED BY <2>3, <2>4, <2>5
<1>14. AlignedBy(Local(w, target), d) = local
  BY <1>1
<1> HIDE DEF local
<1> QED BY <1>12, <1>13, <1>14

(* As many buckets before the i-th as the prefix asks for are among as     *)
(* many sample times before it.                                            *)
LEMMA PrefixKept ==
  ASSUME NEW w, Assembled(w), NEW d \in Int, d > 0,
         NEW i \in Int, NEW prefix \in Nat, i < Buckets(w, d),
         NEW b \in Int, 0 <= b, b < i, i - prefix <= b
  PROVE  Edge(w, d, b) \in LastBefore({Edge(w, d, c) : c \in 0 .. Buckets(w, d) - 1},
                                      Edge(w, d, i), prefix)
<1> DEFINE bs == 0 .. Buckets(w, d) - 1
           T == {Edge(w, d, c) : c \in bs}
           before == {u \in T : u < Edge(w, d, i)}
           A == {v \in before : v >= Edge(w, d, b)}
           C == b .. i - 1
           g == [c \in C |-> Edge(w, d, c)]
<1>0. Buckets(w, d) \in Nat
  BY EdgesBefore
<1>1. \A c \in Int : /\ Edge(w, d, c) \in Int
                     /\ c < i <=> Edge(w, d, c) < Edge(w, d, i)
                     /\ b <= c <=> Edge(w, d, b) <= Edge(w, d, c)
  BY EdgeOrder
<1>2. \A c \in bs : c \in Int
  BY <1>0
<1>3. C \subseteq bs
  BY <1>0
<1>4. \A c \in bs : Edge(w, d, c) \in A <=> c \in C
  <2> SUFFICES ASSUME NEW c \in bs PROVE Edge(w, d, c) \in A <=> c \in C
    OBVIOUS
  <2>1. c \in Int
    BY <1>2
  <2>2. Edge(w, d, c) \in Int /\ Edge(w, d, b) \in Int
    BY <1>1, <2>1
  <2>3. Edge(w, d, c) \in T
    OBVIOUS
  <2>4. Edge(w, d, c) \in A <=> (Edge(w, d, c) < Edge(w, d, i)
                                 /\ Edge(w, d, c) >= Edge(w, d, b))
    <3> HIDE DEF T
    <3> QED BY <2>3
  <2>5. c \in C <=> (c < i /\ b <= c)
    BY <2>1
  <2> HIDE DEF A, C
  <2> QED BY <1>1, <2>1, <2>2, <2>4, <2>5
<1>5. g \in Surjection(C, A)
  <2>1. \A v \in A : \E c \in bs : v = Edge(w, d, c)
    OBVIOUS
  <2> HIDE DEF A, C, bs
  <2>2. \A c \in C : g[c] = Edge(w, d, c) /\ g[c] \in A
    BY <1>3, <1>4
  <2>3. \A v \in A : \E c \in C : g[c] = v
    BY <1>4, <2>1
  <2>4. g \in [C -> A]
    BY <2>2
  <2> QED BY <2>3, <2>4 DEF Surjection
<1>6. IsFiniteSet(C) /\ Cardinality(C) = i - b
  <2>1. i - 1 \in Int /\ ~(b > i - 1) /\ i - 1 - b + 1 = i - b
    OBVIOUS
  <2> QED BY <2>1, FS_Interval
<1>7. IsFiniteSet(A) /\ Cardinality(A) <= i - b
  <2> HIDE DEF A, C, g
  <2> QED BY <1>5, <1>6, FS_Surjection
<1>8. Cardinality(A) <= prefix
  <2>1. Cardinality(A) \in Nat
    <3> HIDE DEF A
    <3> QED BY <1>7, FS_CardinalityType
  <2> HIDE DEF A
  <2> QED BY <1>7, <2>1
<1>9. Edge(w, d, b) \in before
  <2>1. b \in bs
    BY <1>0
  <2>2. Edge(w, d, b) < Edge(w, d, i)
    BY <1>1
  <2> HIDE DEF bs
  <2> QED BY <2>1, <2>2
<1>10. LastBefore(T, Edge(w, d, i), prefix)
         = {u \in before : Cardinality({v \in before : v >= u}) <= prefix}
  BY DEF LastBefore
<1> HIDE DEF before, T
<1> QED BY <1>8, <1>9, <1>10 DEF T

(* What the ranged alignment of a window promises.                         *)
AgreesWith(got, full) ==
  /\ got.ok
  /\ \A t \in DOMAIN got.samples :
       t \in DOMAIN full.samples /\ got.samples[t] = full.samples[t]
Covers(got, w, d, asked, prefix) ==
  LET first == IndexOf(w, d, asked.start)
  IN /\ \A t \in Int : /\ asked.start <= t /\ t <= asked.end
                       /\ w.start <= t /\ t < w.end
                       => Edge(w, d, IndexOf(w, d, t)) \in DOMAIN got.samples
     /\ \A b \in Max({first - prefix, 0}) .. first :
          Edge(w, d, b) \in DOMAIN got.samples

LEMMA CroppedIs ==
  ASSUME NEW w, Assembled(w), NEW d \in Int, d > 0, d = Interval(w.points),
         w.start < w.end, NEW asked, asked.start \in Int, asked.end \in Int,
         asked.start <= asked.end, NEW prefix \in Nat, AlignedBy(w, d).ok
  PROVE  LET got == Cropped(AlignedBy(w, d), asked, prefix)
         IN /\ AgreesWith(got, AlignedBy(w, d))
            /\ asked.start = Edge(w, d, IndexOf(w, d, asked.start))
                 => Covers(got, w, d, asked, prefix)
<1> DEFINE full == AlignedBy(w, d)
           times == DOMAIN full.samples
           last == LastBefore(times, asked.start, prefix)
           inside == {t \in times : asked.start <= t /\ t <= asked.end}
           got == Cropped(full, asked, prefix)
           n == Buckets(w, d)
           i == IndexOf(w, d, asked.start)
<1>1. got = Sampled(Restrict(full.samples, last \cup inside))
  BY DEF Cropped
<1>2. last \cup inside \subseteq times
  BY DEF LastBefore
<1>3. got.ok /\ DOMAIN got.samples = last \cup inside
      /\ \A t \in last \cup inside : got.samples[t] = full.samples[t]
  <2> HIDE DEF full, last, inside, got
  <2> QED BY <1>1 DEF Sampled, Restrict
<1>4. AgreesWith(got, full)
  <2> HIDE DEF full, last, inside, got
  <2> QED BY <1>2, <1>3 DEF AgreesWith
<1>5. times = {Edge(w, d, c) : c \in 0 .. n - 1}
  BY AlignedByIs
<1>6. n \in Nat /\ i \in 0 .. n - 1
  BY EdgesBefore, IndexIs
<1>7. ASSUME asked.start = Edge(w, d, i),
             NEW t \in Int, asked.start <= t, t <= asked.end, w.start <= t, t < w.end
      PROVE  Edge(w, d, IndexOf(w, d, t)) \in DOMAIN got.samples
  <2> DEFINE j == IndexOf(w, d, t)
  <2>1. j \in 0 .. n - 1 /\ Edge(w, d, j) <= t /\ i <= j
    BY <1>7, IndexIs, IndexOrder
  <2> HIDE DEF i, j, got, n
  <2>2. j \in Int /\ i \in Int
    BY <1>6, <2>1
  <2>3. Edge(w, d, i) <= Edge(w, d, j) /\ Edge(w, d, j) \in Int
    BY <2>1, <2>2, EdgeOrder
  <2>4. Edge(w, d, j) \in times
    BY <1>5, <2>1
  <2>5. asked.start <= Edge(w, d, j) /\ Edge(w, d, j) <= asked.end
    BY <1>7, <2>1, <2>3
  <2> HIDE DEF times, last
  <2>6. Edge(w, d, j) \in inside
    BY <2>4, <2>5
  <2> QED BY <1>3, <2>6 DEF j
<1>8. ASSUME asked.start = Edge(w, d, i), NEW b \in Max({i - prefix, 0}) .. i
      PROVE  Edge(w, d, b) \in DOMAIN got.samples
  <2> HIDE DEF i, n, got
  <2>1. Max({i - prefix, 0}) = IF i - prefix >= 0 THEN i - prefix ELSE 0
    <3>1. i - prefix \in Int /\ 0 \in Int
      BY <1>6
    <3> QED BY <3>1, MaxOfTwo
  <2>2. b \in Int /\ 0 <= b /\ b <= i /\ i - prefix <= b /\ i \in Int /\ i < n
    BY <1>6, <1>8, <2>1
  <2>3. CASE b = i
    <3>1. Edge(w, d, i) \in times
      BY <1>5, <1>6
    <3> HIDE DEF times, last
    <3>2. Edge(w, d, i) \in inside
      BY <1>8, <3>1
    <3> QED BY <1>3, <2>3, <3>2
  <2>4. CASE b < i
    <3>1. Edge(w, d, b)
            \in LastBefore({Edge(w, d, c) : c \in 0 .. n - 1}, Edge(w, d, i), prefix)
      BY <2>2, <2>4, PrefixKept DEF n
    <3> HIDE DEF times
    <3>2. Edge(w, d, b) \in last
      BY <1>5, <1>8, <3>1
    <3> HIDE DEF last, inside
    <3> QED BY <1>3, <3>2
  <2> QED BY <2>2, <2>3, <2>4
<1> HIDE DEF got
<1>9. asked.start = Edge(w, d, i) => Covers(got, w, d, asked, prefix)
  BY <1>7, <1>8 DEF Covers
<1> QED BY <1>4, <1>9 DEF got

LEMMA RangedIs ==
  ASSUME NEW w, Assembled(w), NEW asked, asked.start \in Int, asked.end \in Int,
         asked.start <= asked.end, NEW prefix \in Nat,
         Aligned(w).ok, DOMAIN Aligned(w).samples # {}
  PROVE  LET d == Interval(w.points)
             got == Ranged(w, asked, prefix)
         IN /\ AgreesWith(got, Aligned(w))
            /\ asked.start = Edge(w, d, IndexOf(w, d, asked.start))
                 => Covers(got, w, d, asked, prefix)
<1> DEFINE d == Interval(w.points)
           full == AlignedBy(w, d)
           target == Target(w, asked, prefix)
           local == Local(w, target)
           aligned0 == AlignedBy(local, d)
           edges == {Edge(w, d, b) : b \in target.first .. target.last}
           lacks == \E s \in DOMAIN w.points :
                      LacksContext(w, target, DOMAIN local.points[s])
           got == Ranged(w, asked, prefix)
           n == Buckets(w, d)
<1>1. Gaps(w.points) # {} /\ Aligned(w) = full
  BY DEF Aligned, Refused
<1>2. d \in Int /\ d > 0
  BY <1>1, IntervalIs DEF Assembled
<1>3. full.ok /\ DOMAIN full.samples # {}
  BY <1>1
<1>4. w.start < w.end
  <2>1. DOMAIN full.samples = {Edge(w, d, b) : b \in 0 .. n - 1}
    BY <1>2, <1>3, AlignedByIs
  <2>2. n \in Nat /\ \A b \in Int : (b < n) <=> (Edge(w, d, b) < w.end)
    BY <1>2, EdgesBefore
  <2>3. 0 < n
    <3> HIDE DEF full, n, d
    <3> QED BY <1>3, <2>1, <2>2
  <2>4. Edge(w, d, 0) = w.start
    <3> HIDE DEF d
    <3> QED BY <1>2 DEF Edge, Assembled
  <2> HIDE DEF n, d
  <2> QED BY <2>2, <2>3, <2>4
<1>5. got = IF lacks THEN Cropped(full, asked, prefix)
            ELSE IF aligned0.ok THEN Sampled(Restrict(aligned0.samples, edges))
            ELSE aligned0
  <2>1. w.start # w.end
    BY <1>4 DEF Assembled
  <2> QED BY <1>1, <2>1 DEF Ranged
<1>6. CASE lacks
  <2>1. got = Cropped(full, asked, prefix)
    BY <1>5, <1>6
  <2> HIDE DEF d, got, lacks
  <2>2. /\ AgreesWith(Cropped(full, asked, prefix), full)
        /\ asked.start = Edge(w, d, IndexOf(w, d, asked.start))
             => Covers(Cropped(full, asked, prefix), w, d, asked, prefix)
    <3>1. d = Interval(w.points)
      BY DEF d
    <3> QED BY <1>2, <1>3, <1>4, <3>1, CroppedIs
  <2>3. /\ AgreesWith(got, Aligned(w))
        /\ asked.start = Edge(w, d, IndexOf(w, d, asked.start))
             => Covers(got, w, d, asked, prefix)
    <3> HIDE DEF full
    <3> QED BY <1>1, <2>1, <2>2
  <2> QED BY <2>3 DEF d, got
<1>7. CASE ~lacks
  <2> DEFINE i == IndexOf(w, d, asked.start)
             first == target.first
             last == target.last
  <2>1. /\ first \in Int /\ last \in Int
        /\ 0 <= first /\ first <= i /\ i <= IndexOf(w, d, asked.end)
        /\ IndexOf(w, d, asked.end) = last
        /\ last < n /\ first = Max({i - prefix, 0})
    BY <1>2, <1>4, TargetIs
  <2>0. i \in 0 .. n - 1 /\ n \in Nat
    BY <1>2, <1>4, IndexIs, EdgesBefore
  <2>2. /\ aligned0.ok
        /\ \A b \in first .. last :
             /\ Edge(w, d, b) \in DOMAIN aligned0.samples
             /\ aligned0.samples[Edge(w, d, b)] = Sample(w, d, b)
    <3>1. d \in {Interval(w.points)}
      OBVIOUS
    <3>2. \A s \in DOMAIN w.points : ~LacksContext(w, target, DOMAIN local.points[s])
      BY <1>7
    <3>3. first <= last
      <4> HIDE DEF first, last, i, n
      <4> QED BY <2>0, <2>1
    <3> HIDE DEF d
    <3> QED BY <1>2, <1>3, <2>1, <3>1, <3>2, <3>3, LocalExact
  <2>3. /\ DOMAIN full.samples = {Edge(w, d, b) : b \in 0 .. n - 1}
        /\ \A b \in 0 .. n - 1 : full.samples[Edge(w, d, b)] = Sample(w, d, b)
    BY <1>2, <1>3, AlignedByIs
  <2>4. got = Sampled(Restrict(aligned0.samples, edges))
    BY <1>5, <1>7, <2>2
  <2>5. got.ok /\ DOMAIN got.samples = edges
        /\ \A t \in edges : got.samples[t] = aligned0.samples[t]
    <3> HIDE DEF got, aligned0, edges
    <3> QED BY <2>4 DEF Sampled, Restrict
  <2>6. edges = {Edge(w, d, b) : b \in first .. last}
    OBVIOUS
  <2>7. \A b \in first .. last : b \in 0 .. n - 1
    <3> HIDE DEF first, last, n, i
    <3> QED BY <2>0, <2>1
  <2> HIDE DEF got, aligned0, edges, full, first, last, n, i, d
  <2>8. AgreesWith(got, full)
    <3>1. ASSUME NEW t \in edges
          PROVE  t \in DOMAIN full.samples /\ got.samples[t] = full.samples[t]
      <4>1. PICK b \in first .. last : t = Edge(w, d, b)
        BY <2>6
      <4>2. b \in 0 .. n - 1
        BY <2>7
      <4>3. t \in DOMAIN full.samples
        BY <2>3, <4>1, <4>2
      <4>4. full.samples[t] = Sample(w, d, b) /\ got.samples[t] = Sample(w, d, b)
        BY <2>2, <2>3, <2>5, <4>1, <4>2
      <4> QED BY <4>3, <4>4
    <3> QED BY <2>5, <3>1 DEF AgreesWith
  <2>9. ASSUME NEW t \in Int, asked.start <= t, t <= asked.end
        PROVE  Edge(w, d, IndexOf(w, d, t)) \in DOMAIN got.samples
    <3>1. /\ i <= IndexOf(w, d, t) /\ IndexOf(w, d, t) <= IndexOf(w, d, asked.end)
          /\ IndexOf(w, d, t) \in 0 .. n - 1
      BY <1>2, <1>4, <2>9, IndexOrder, IndexIs DEF i, n
    <3>2. IndexOf(w, d, t) \in first .. last
      BY <2>0, <2>1, <3>1
    <3> QED BY <2>5, <2>6, <3>2
  <2>10. \A b \in Max({i - prefix, 0}) .. i : Edge(w, d, b) \in DOMAIN got.samples
    <3>1. \A b \in Max({i - prefix, 0}) .. i : b \in first .. last
      BY <2>0, <2>1
    <3> QED BY <2>5, <2>6, <3>1
  <2>11. Covers(got, w, d, asked, prefix)
    BY <2>9, <2>10 DEF Covers, i
  <2> QED BY <1>1, <2>8, <2>11 DEF got, d
<1> QED BY <1>6, <1>7

(* Whether it looks at a few buckets only or falls back to the whole       *)
(* window, the ranged alignment gives the samples that the full one gives, *)
(* and of a range that begins at the edge of a bucket all of the range and *)
(* of its prefix: whatever the windows, the ranges and the kinds.          *)
THEOREM RangedIsExact == Spec => []RangedExact
<1>1. CheckInv => RangedExact
  <2> SUFFICES ASSUME CheckInv, phase = "answered", Aligned(data).ok,
                      DOMAIN Aligned(data).samples # {}
               PROVE  LET full == Aligned(data)
                          interval == Interval(data.points)
                          first == IndexOf(data, interval, range.start)
                      IN /\ aligned.ok
                         /\ \A t \in DOMAIN aligned.samples :
                              t \in DOMAIN full.samples
                                /\ aligned.samples[t] = full.samples[t]
                         /\ range.start = Edge(data, interval, first) =>
                              /\ RangedAffected
                              /\ \A b \in Max({0, first - range.prefix}) .. first :
                                   Edge(data, interval, b) \in DOMAIN aligned.samples
    BY DEF RangedExact
  <2> DEFINE full == Aligned(data)
             d == Interval(data.points)
             first == IndexOf(data, d, range.start)
  <2>1. data \in Windows /\ range \in Requests
        /\ aligned = Ranged(data, range, range.prefix)
    BY DEF CheckInv, RequestPart
  <2>2. Assembled(data)
    BY <2>1, CheckAssumption DEF Assembled
  <2>3. /\ range.start \in Int /\ range.end \in Int /\ range.start <= range.end
        /\ range.prefix \in Nat
    BY <2>1, CheckAssumption
  <2>4. /\ AgreesWith(aligned, full)
        /\ range.start = Edge(data, d, first)
             => Covers(aligned, data, d, range, range.prefix)
    BY <2>1, <2>2, <2>3, RangedIs
  <2> HIDE DEF full, d
  <2>5. ASSUME range.start = Edge(data, d, first)
        PROVE  /\ RangedAffected
               /\ \A b \in Max({0, first - range.prefix}) .. first :
                    Edge(data, d, b) \in DOMAIN aligned.samples
    <3>1. Covers(aligned, data, d, range, range.prefix)
      BY <2>4, <2>5
    <3>2. RangedAffected
      <4> SUFFICES ASSUME NEW t \in (range.start .. range.end)
                                       \cap (data.start .. data.end - 1)
                   PROVE  Edge(data, d, IndexOf(data, d, t)) \in DOMAIN aligned.samples
        BY DEF RangedAffected, d
      <4>1. t \in Int /\ range.start <= t /\ t <= range.end
            /\ data.start <= t /\ t < data.end
        BY <2>2, <2>3 DEF Assembled
      <4> QED BY <3>1, <4>1 DEF Covers
    <3>3. {0, first - range.prefix} = {first - range.prefix, 0}
      OBVIOUS
    <3>4. \A b \in Max({0, first - range.prefix}) .. first :
            Edge(data, d, b) \in DOMAIN aligned.samples
      BY <3>1, <3>3 DEF Covers
    <3> QED BY <3>2, <3>4
  <2>6. /\ aligned.ok
        /\ \A t \in DOMAIN aligned.samples :
             t \in DOMAIN full.samples /\ aligned.samples[t] = full.samples[t]
    BY <2>4 DEF AgreesWith
  <2> QED BY <2>5, <2>6 DEF full, d
<1> QED BY <1>1, CheckInvariant, PTL

-----------------------------------------------------------------------------
(***************************************************************************)
(* Sums.                                                                   *)
(***************************************************************************)
(* Sum adds value after value.                                             *)
Whole(v, n) == Len(v) = n /\ \A i \in 1 .. n : v[i] \in Int
Adds(f, v, n) ==
  /\ f[0] = 0 /\ f[n] = Sum(v)
  /\ \A i \in 1 .. n : f[i] = f[i - 1] + v[i]
  /\ \A i \in 0 .. n : f[i] \in Int

LEMMA SumIs ==
  ASSUME NEW n \in Nat, NEW v, Whole(v, n)
  PROVE  \E f : Adds(f, v, n)
<1> DEFINE Runs(f, m) == f = [i \in 0 .. m |-> IF i = 0 THEN 0 ELSE f[i - 1] + v[i]]
           S == {m \in 0 .. n : \E f : Runs(f, m)}
<1>1. 0 \in S
  <2>1. Runs([i \in 0 .. 0 |-> 0], 0)
    OBVIOUS
  <2>2. \E f : Runs(f, 0)
    BY <2>1
  <2> HIDE DEF Runs
  <2> QED BY <2>2
<1>2. ASSUME NEW m \in 1 .. n, m - 1 \in S
      PROVE  m \in S
  <2>1. PICK f : Runs(f, m - 1)
    BY <1>2
  <2> DEFINE last == f[m - 1] + v[m]
             g == [i \in 0 .. m |-> IF i = m THEN last ELSE f[i]]
             h == [i \in 0 .. m |-> IF i = 0 THEN 0 ELSE g[i - 1] + v[i]]
  <2>2. \A i \in 0 .. m : i = m \/ i \in 0 .. (m - 1)
    OBVIOUS
  <2>3. \A i \in 0 .. (m - 1) : f[i] = (IF i = 0 THEN 0 ELSE f[i - 1] + v[i])
    BY <2>1
  <2>4. g[m] = last /\ \A i \in 0 .. (m - 1) : g[i] = f[i]
    OBVIOUS
  <2> HIDE DEF last, g
  <2>5. h[m] = g[m]
    BY <2>4 DEF last
  <2>6. \A i \in 0 .. (m - 1) : h[i] = g[i]
    <3> SUFFICES ASSUME NEW i \in 0 .. (m - 1) PROVE h[i] = g[i]
      OBVIOUS
    <3>1. CASE i = 0
      BY <2>3, <2>4, <3>1
    <3>2. CASE i # 0
      <4>1. i - 1 \in 0 .. (m - 1) /\ i \in 0 .. m
        BY <3>2
      <4> QED BY <2>3, <2>4, <3>2, <4>1
    <3> QED BY <3>1, <3>2
  <2>7. g = [i \in 0 .. m |-> g[i]] /\ h = [i \in 0 .. m |-> h[i]]
    BY DEF g
  <2>8. \A i \in 0 .. m : g[i] = h[i]
    BY <2>2, <2>5, <2>6
  <2> HIDE DEF h
  <2>9. g = h
    BY <2>7, <2>8
  <2>10. Runs(g, m)
    BY <2>9 DEF h
  <2> QED BY <2>10
<1> HIDE DEF S
<1>3. \A m \in 0 .. n : m \in S
  BY <1>1, <1>2, UpTo
<1>0. Len(v) = n /\ n \in 0 .. n /\ \A i \in 1 .. n : v[i] \in Int
  BY DEF Whole
<1>4. \E f : Runs(f, n)
  BY <1>0, <1>3 DEF S
<1>5. PICK r : Runs(r, n) /\ Sum(v) = r[n]
  BY <1>0, <1>4 DEF Sum
<1>6. \A i \in 0 .. n : r[i] = (IF i = 0 THEN 0 ELSE r[i - 1] + v[i])
  BY <1>5
<1>7. r[0] = 0 /\ \A i \in 1 .. n : r[i] = r[i - 1] + v[i]
  BY <1>6
<1>8. \A i \in 0 .. n : r[i] \in Int
  <2> DEFINE I == {i \in 0 .. n : r[i] \in Int}
  <2>1. 0 \in I
    BY <1>7
  <2>2. ASSUME NEW m \in 1 .. n, m - 1 \in I PROVE m \in I
    BY <1>0, <1>7, <2>2
  <2> HIDE DEF I
  <2>3. \A i \in 0 .. n : i \in I
    BY <2>1, <2>2, UpTo
  <2> QED BY <2>3 DEF I
<1>9. r[n] = Sum(v)
  BY <1>5
<1>10. Adds(r, v, n)
  BY <1>7, <1>8, <1>9 DEF Adds
<1> QED BY <1>10

(* What is weighted between two values, each rounded down, does not exceed *)
(* in sum what is weighted between the sums.                               *)
Blends(u, l, r, n, x, y) ==
  /\ Len(u) = n /\ Len(l) = n /\ Len(r) = n
  /\ \A i \in 1 .. n : /\ u[i] \in Int /\ l[i] \in Int /\ r[i] \in Int
                        /\ y * u[i] <= (y - x) * l[i] + x * r[i]

LEMMA SumBlends ==
  ASSUME NEW n \in Nat, NEW x \in Nat, NEW y \in Nat, x <= y,
         NEW u, NEW l, NEW r, Blends(u, l, r, n, x, y)
  PROVE  /\ Sum(u) \in Int /\ Sum(l) \in Int /\ Sum(r) \in Int
         /\ y * Sum(u) <= (y - x) * Sum(l) + x * Sum(r)
<1>0. Whole(u, n) /\ Whole(l, n) /\ Whole(r, n)
  BY DEF Whole, Blends
<1>9. PICK f, g, h : Adds(f, u, n) /\ Adds(g, l, n) /\ Adds(h, r, n)
  BY <1>0, SumIs
<1>1. /\ f[0] = 0 /\ f[n] = Sum(u)
      /\ \A i \in 1 .. n : f[i] = f[i - 1] + u[i]
      /\ \A i \in 0 .. n : f[i] \in Int
  BY <1>9 DEF Adds
<1>2. /\ g[0] = 0 /\ g[n] = Sum(l)
      /\ \A i \in 1 .. n : g[i] = g[i - 1] + l[i]
      /\ \A i \in 0 .. n : g[i] \in Int
  BY <1>9 DEF Adds
<1>3. /\ h[0] = 0 /\ h[n] = Sum(r)
      /\ \A i \in 1 .. n : h[i] = h[i - 1] + r[i]
      /\ \A i \in 0 .. n : h[i] \in Int
  BY <1>9 DEF Adds
<1> DEFINE I == {i \in 0 .. n : y * f[i] <= (y - x) * g[i] + x * h[i]}
<1>4. 0 \in I
  <2>1. f[0] = 0 /\ g[0] = 0 /\ h[0] = 0
    BY <1>1, <1>2, <1>3
  <2>2. y * 0 <= (y - x) * 0 + x * 0 /\ 0 \in 0 .. n
    OBVIOUS
  <2> QED BY <2>1, <2>2
<1>5. ASSUME NEW m \in 1 .. n, m - 1 \in I PROVE m \in I
  <2>1. m - 1 \in 0 .. n /\ m \in 0 .. n
    OBVIOUS
  <2> DEFINE a == f[m - 1]
             b == g[m - 1]
             c == h[m - 1]
  <2>2. a \in Int /\ b \in Int /\ c \in Int
    BY <1>1, <1>2, <1>3, <2>1
  <2>3. y * a <= (y - x) * b + x * c
    BY <1>5
  <2>4. f[m] = a + u[m] /\ g[m] = b + l[m] /\ h[m] = c + r[m]
    BY <1>1, <1>2, <1>3
  <2>5. u[m] \in Int /\ l[m] \in Int /\ r[m] \in Int
        /\ y * u[m] <= (y - x) * l[m] + x * r[m]
    BY DEF Blends
  <2> HIDE DEF a, b, c
  <2>6. /\ y * (a + u[m]) = y * a + y * u[m]
        /\ (y - x) * (b + l[m]) = (y - x) * b + (y - x) * l[m]
        /\ x * (c + r[m]) = x * c + x * r[m]
    BY <2>2, <2>5
  <2>7. y * f[m] <= (y - x) * g[m] + x * h[m]
    <3> DEFINE a1 == y * a
               a2 == y * u[m]
               b1 == (y - x) * b
               b2 == (y - x) * l[m]
               c1 == x * c
               c2 == x * r[m]
    <3>1. a1 \in Int /\ a2 \in Int /\ b1 \in Int /\ b2 \in Int /\ c1 \in Int /\ c2 \in Int
      BY <2>2, <2>5
    <3>2. y * f[m] = a1 + a2 /\ (y - x) * g[m] = b1 + b2 /\ x * h[m] = c1 + c2
      BY <2>4, <2>6
    <3>3. a1 <= b1 + c1 /\ a2 <= b2 + c2
      BY <2>3, <2>5
    <3> HIDE DEF a1, a2, b1, b2, c1, c2
    <3> QED BY <3>1, <3>2, <3>3
  <2> QED BY <2>1, <2>7
<1> HIDE DEF I
<1>6. \A i \in 0 .. n : i \in I
  BY <1>4, <1>5, UpTo
<1>7. n \in 0 .. n
  OBVIOUS
<1>8. y * f[n] <= (y - x) * g[n] + x * h[n]
  BY <1>6, <1>7 DEF I
<1> QED BY <1>1, <1>2, <1>3, <1>7, <1>8

(* So it exceeds no bound that both sums keep.                             *)
LEMMA BlendBounded ==
  ASSUME NEW n \in Nat, NEW x \in Nat, NEW y \in Nat, x <= y, 0 < y,
         NEW u, NEW l, NEW r, Blends(u, l, r, n, x, y),
         NEW bound \in Int, Sum(l) <= bound, Sum(r) <= bound
  PROVE  Sum(u) <= bound
<1> DEFINE a == Sum(u)
           b == Sum(l)
           c == Sum(r)
<1>1. a \in Int /\ b \in Int /\ c \in Int /\ y * a <= (y - x) * b + x * c
  BY SumBlends
<1>2. b <= bound /\ c <= bound
  OBVIOUS
<1> HIDE DEF a, b, c
<1>3. (y - x) * b <= (y - x) * bound
  <2>1. (y - x) * (bound - b) >= 0
    <3>1. y - x \in Nat /\ bound - b \in Nat
      BY <1>1, <1>2
    <3> DEFINE p == y - x
               q == bound - b
    <3> HIDE DEF p, q
    <3>2. p \in Nat /\ q \in Nat
      BY <3>1 DEF p, q
    <3>3. p * q >= 0
      BY <3>2
    <3> QED BY <3>3 DEF p, q
  <2> QED BY <1>1, <2>1
<1>4. x * c <= x * bound
  <2>1. x * (bound - c) >= 0
    BY <1>1, <1>2
  <2> QED BY <1>1, <2>1
<1>5. (y - x) * bound + x * bound = y * bound
  OBVIOUS
<1>6. y * a <= y * bound
  <2> DEFINE p == y * a
             q == (y - x) * b
             s == x * c
             p1 == y * bound
             q1 == (y - x) * bound
             s1 == x * bound
  <2>1. p \in Int /\ q \in Int /\ s \in Int /\ p1 \in Int /\ q1 \in Int /\ s1 \in Int
    BY <1>1
  <2>2. p <= q + s /\ q <= q1 /\ s <= s1 /\ q1 + s1 = p1
    BY <1>1, <1>3, <1>4, <1>5
  <2> HIDE DEF p, q, s, p1, q1, s1
  <2>3. p <= p1
    BY <2>1, <2>2
  <2> QED BY <2>3 DEF p, p1
<1>7. a <= bound
  <2>1. y * a < y * bound + y
    BY <1>1, <1>6
  <2> QED BY <1>1, <2>1, TimesOrder
<1> QED BY <1>7 DEF a

(* Interpolation, rounded down.                                            *)
LEMMA Interpolates ==
  ASSUME NEW l \in Int, NEW r \in Int, NEW x \in Nat, NEW y \in Nat, 0 < y
  PROVE  LET u == l + ((r - l) * x) \div y
         IN u \in Int /\ y * u <= (y - x) * l + x * r
<1> DEFINE a == (r - l) * x
           q == a \div y
<1>1. a \in Int
  OBVIOUS
<1>2. a = x * r - x * l
  OBVIOUS
<1> HIDE DEF a
<1>3. q \in Int /\ y * q <= a
  BY <1>1, DivIs
<1> HIDE DEF q
<1>4. y * (l + q) = y * l + y * q /\ (y - x) * l = y * l - x * l
  BY <1>3
<1>5. y * (l + q) <= (y - x) * l + x * r
  BY <1>2, <1>3, <1>4
<1> QED BY <1>3, <1>5 DEF q, a

-----------------------------------------------------------------------------
(***************************************************************************)
(* Sequences sampled together.                                             *)
(***************************************************************************)
(* The sum of one value, however it is folded.                             *)
LEMMA FoldOne ==
  ASSUME NEW f, NEW t, DOMAIN f = {t}, f[t] \in Int
  PROVE  FoldFunction(+, 0, f) = f[t]
<1> DEFINE S == SUBSET {t}
           Is(g) == g = [s \in S |-> IF s = {} THEN 0
                                     ELSE LET x == CHOOSE x \in s : TRUE
                                          IN  f[x] + g[s \ {x}]]
           h == CHOOSE g : Is(g)
           sum == FoldFunction(+, 0, f)
           g0 == [s \in S |-> IF s = {} THEN 0 ELSE f[t]]
<1>1. sum = h[{t}]
  BY DEF FoldFunction, FoldFunctionOnSet, MapThenFoldSet
<1>2. \A s \in S : s # {} => s = {t} /\ s \ {t} = {} /\ (CHOOSE x \in s : TRUE) = t
  OBVIOUS
<1>3. {} \in S /\ {t} \in S
  OBVIOUS
<1>4. Is(g0)
  <2>1. \A s \in S : g0[s] = IF s = {} THEN 0
                             ELSE LET x == CHOOSE x \in s : TRUE
                                  IN  f[x] + g0[s \ {x}]
    <3> SUFFICES ASSUME NEW s \in S, s # {}
                 PROVE  f[t] = f[t] + g0[{}]
      BY <1>2, <1>3
    <3> QED BY <1>3
  <2> QED BY <2>1
<1>5. Is(h)
  BY <1>4
<1>6. h[{t}] = f[t] + h[{}] /\ h[{}] = 0
  <2> HIDE DEF h
  <2>1. \A s \in S : h[s] = IF s = {} THEN 0
                             ELSE LET x == CHOOSE x \in s : TRUE
                                  IN  f[x] + h[s \ {x}]
    BY <1>5
  <2>2. h[{}] = 0
    BY <1>3, <2>1
  <2>3. h[{t}] = f[t] + h[{t} \ {t}]
    BY <1>2, <1>3, <2>1
  <2> QED BY <2>2, <2>3
<1>7. sum = f[t]
  <2> HIDE DEF h, sum
  <2> QED BY <1>1, <1>6
<1> QED BY <1>7

(* One number is aggregated to itself.                                     *)
LEMMA AggregatedOne ==
  ASSUME NEW kind, NEW f, NEW t \in Int, DOMAIN f = {t}, f[t] \in Int
  PROVE  Aggregated(kind, f) = f[t]
<1> DEFINE sum == FoldFunction(+, 0, f)
<1>1. Min({t}) = t /\ Max({t}) = t
  BY MinUnique, MaxUnique
<1>2. NotNumeric \notin Range(f)
  BY AlignmentAssumption DEF Range
<1>3. Cardinality({t}) = 1
  BY FS_Singleton
<1>4. sum = f[t]
  BY FoldOne
<1>5. f[t] \div 1 = f[t]
  OBVIOUS
<1>6. Aggregated(kind, f) = IF kind = "unspecified" THEN f[Min({t})]
                            ELSE IF kind = "discrete" THEN f[Max({t})]
                            ELSE IF NotNumeric \in Range(f) THEN Failed
                            ELSE sum \div Cardinality({t})
  BY DEF Aggregated
<1> HIDE DEF sum
<1> QED BY <1>1, <1>2, <1>3, <1>4, <1>5, <1>6

(* Points at least an interval apart are in buckets of their own.          *)
LEMMA OnePoint ==
  ASSUME NEW w, Assembled(w), Gaps(w.points) # {}, NEW d, d \in {Interval(w.points)},
         NEW s \in DOMAIN w.points, NEW b \in Int,
         NEW t \in PointsIn(w, d, s, b), NEW u \in PointsIn(w, d, s, b)
  PROVE  t = u
<1>0. /\ d \in Int /\ d > 0 /\ \A g \in Gaps(w.points) : d <= g
  BY IntervalIs DEF Assembled
<1>1. ASSUME NEW x \in PointsIn(w, d, s, b), NEW y \in PointsIn(w, d, s, b)
      PROVE  ~(x < y)
  <2> SUFFICES ASSUME x < y PROVE FALSE
    OBVIOUS
  <2>1. /\ x \in DOMAIN w.points[s] /\ Edge(w, d, b) <= x
        /\ y \in DOMAIN w.points[s] /\ y < Edge(w, d, b + 1)
    BY DEF PointsIn
  <2>2. x \in Int /\ y \in Int /\ w.start \in Int
    BY <2>1 DEF Assembled, Series
  <2>3. y - x \in GapsOf(DOMAIN w.points[s])
    <3>1. <<x, y>> \in (DOMAIN w.points[s]) \X (DOMAIN w.points[s])
      BY <2>1
    <3>2. <<x, y>>[1] = x /\ <<x, y>>[2] = y
      OBVIOUS
    <3> QED BY <3>1, <3>2 DEF GapsOf
  <2>4. y - x \in Gaps(w.points)
    BY <2>3 DEF Gaps
  <2>5. Edge(w, d, b + 1) = Edge(w, d, b) + d /\ Edge(w, d, b) \in Int
    <3>1. (b + 1) * d = b * d + d /\ b * d \in Int
      BY <1>0
    <3> QED BY <1>0, <2>2, <3>1 DEF Edge
  <2>6. d <= y - x
    BY <1>0, <2>4
  <2> QED BY <1>0, <2>1, <2>2, <2>5, <2>6
<1>2. t \in Int /\ u \in Int
  BY DEF PointsIn, Assembled, Series
<1>3. ~(t < u) /\ ~(u < t)
  BY <1>1
<1> QED BY <1>2, <1>3

(* In the window all sequences have the same times, and numbers there and  *)
(* around it.                                                              *)
Within(w, s) == {t \in DOMAIN w.points[s] : w.start <= t /\ t < w.end}
Together(w) ==
  /\ \A s, q \in DOMAIN w.points : /\ Within(w, s) = Within(w, q)
                                   /\ KindOf[s] = KindOf[q]
  /\ \A s \in DOMAIN w.points : \A t \in DOMAIN w.points[s] : w.points[s][t] \in Int

At(w, d, b, t) == Edge(w, d, b) <= t /\ t < Edge(w, d, b + 1)

(* A bucket has the values of one time, of every sequence.                 *)
LEMMA TogetherBucket ==
  ASSUME NEW w, Assembled(w), Gaps(w.points) # {}, Together(w),
         NEW d, d \in {Interval(w.points)}, NEW s \in DOMAIN w.points,
         NEW b \in 0 .. Buckets(w, d) - 1, NEW t \in Within(w, s), At(w, d, b, t),
         NEW q \in DOMAIN w.points
  PROVE  /\ b \in DOMAIN Bucketed(w, d, q)
         /\ t \in Within(w, q)
         /\ Bucketed(w, d, q)[b] = w.points[q][t]
<1>0. d \in Int /\ d > 0
  BY IntervalIs DEF Assembled
<1>1. t \in Within(w, q)
  BY DEF Together
<1>2. t \in DOMAIN w.points[q] /\ t \in Int /\ t < w.end /\ w.points[q][t] \in Int
  BY <1>1 DEF Within, Together, Assembled, Series
<1>3. b \in Int
  BY <1>0, EdgesBefore
<1>4. t \in PointsIn(w, d, q, b)
  BY <1>2 DEF PointsIn, At
<1>5. PointsIn(w, d, q, b) = {t}
  <2>1. \A u \in PointsIn(w, d, q, b) : u = t
    BY <1>3, <1>4, OnePoint
  <2> QED BY <1>4, <2>1
<1>6. b \in DOMAIN Bucketed(w, d, q)
      /\ Bucketed(w, d, q)[b]
           = Aggregated(KindOf[q], Restrict(w.points[q], PointsIn(w, d, q, b)))
  BY <1>0, <1>4, BucketedIs, ZenonT(30)
<1> DEFINE f == Restrict(w.points[q], {t})
           kind == KindOf[q]
<1>7. DOMAIN f = {t} /\ f[t] = w.points[q][t]
  BY DEF Restrict
<1>8. Bucketed(w, d, q)[b] = Aggregated(kind, f)
  BY <1>5, <1>6
<1> HIDE DEF f, kind
<1>9. Aggregated(kind, f) = f[t]
  BY <1>2, <1>7, AggregatedOne
<1> QED BY <1>1, <1>6, <1>7, <1>8, <1>9

LEMMA TogetherTime ==
  ASSUME NEW w, Assembled(w), Gaps(w.points) # {},
         NEW d, d \in {Interval(w.points)}, NEW s \in DOMAIN w.points,
         NEW b \in DOMAIN Bucketed(w, d, s)
  PROVE  /\ b \in 0 .. Buckets(w, d) - 1
         /\ \E t \in Within(w, s) : At(w, d, b, t)
<1>0. d \in Int /\ d > 0
  BY IntervalIs DEF Assembled
<1>1. b \in 0 .. Buckets(w, d) - 1 /\ PointsIn(w, d, s, b) # {}
  <2>1. HasValues(w, d, s)
    BY <1>0, ValuesAre
  <2> QED BY <2>1 DEF HasValues
<1>2. PICK t \in PointsIn(w, d, s, b) : TRUE
  BY <1>1
<1>3. t \in DOMAIN w.points[s] /\ At(w, d, b, t) /\ t < w.end
  BY DEF PointsIn, At
<1>4. b \in Int /\ 0 <= b /\ w.start \in Int /\ t \in Int
  <2>1. Buckets(w, d) \in Nat
    BY <1>0, EdgesBefore
  <2>2. w.start \in Int /\ t \in Int
    BY <1>3 DEF Assembled, Series
  <2> QED BY <1>1, <2>1, <2>2
<1>5. Edge(w, d, b) \in Int /\ w.start <= Edge(w, d, b)
  <2>1. b * d >= 0
    BY <1>0, <1>4
  <2>2. b * d \in Int
    BY <1>0, <1>4
  <2> QED BY <1>4, <2>1, <2>2 DEF Edge
<1>6. w.start <= t
  BY <1>3, <1>4, <1>5 DEF At
<1> QED BY <1>1, <1>3, <1>6 DEF Within

(* A bucket of all sequences is filled with nothing, with the values of    *)
(* one bucket, or between those of two.                                    *)
Blend(l, r, x, y) == l + ((r - l) * x) \div y

LEMMA FilledTogether ==
  ASSUME NEW V, NEW B, TimeSet(B), NEW kind, NEW b \in Int,
         \A s \in DOMAIN V : DOMAIN V[s] = B /\ \A c \in B : V[s][c] \in Int
  PROVE  \/ \A s \in DOMAIN V : Filled(kind, V[s], b) = Missing
         \/ \E c \in B : \A s \in DOMAIN V : Filled(kind, V[s], b) = V[s][c]
         \/ \E l, r \in B : /\ l < b /\ b < r
                            /\ \A s \in DOMAIN V :
                                 Filled(kind, V[s], b) = Blend(V[s][l], V[s][r], b - l, r - l)
<1> DEFINE before == {c \in B : c < b}
           after == {c \in B : c > b}
           x == Max(before)
           y == Min(after)
<1>1. \A s \in DOMAIN V : Before(V[s], b) = before /\ After(V[s], b) = after
  BY DEF Before, After
<1>2. before # {} => x \in B /\ x \in Int /\ x < b
  <2>1. before \subseteq B
    OBVIOUS
  <2>2. IsFiniteSet(before) /\ before \subseteq Int
    BY <2>1, FS_Subset DEF TimeSet
  <2>3. before # {} => x \in before
    <3> HIDE DEF before
    <3> QED BY <2>2, MaxIs
  <2> HIDE DEF x
  <2> QED BY <2>2, <2>3
<1>3. after # {} => y \in B /\ y \in Int /\ b < y
  <2>1. after \subseteq B
    OBVIOUS
  <2>2. IsFiniteSet(after) /\ after \subseteq Int
    BY <2>1, FS_Subset DEF TimeSet
  <2>3. after # {} => y \in after
    <3> HIDE DEF after
    <3> QED BY <2>2, MinIs
  <2> HIDE DEF y
  <2> QED BY <2>2, <2>3
<1>4. \A s \in DOMAIN V :
        Nearest(V[s], b) = IF before = {}
                           THEN IF after = {} THEN Missing ELSE V[s][y]
                           ELSE IF after = {} \/ b - x <= y - b
                                THEN V[s][x] ELSE V[s][y]
  BY <1>1 DEF Nearest
<1>5. before # {} /\ after # {} =>
        \A s \in DOMAIN V : Between(V[s], b) = Blend(V[s][x], V[s][y], b - x, y - x)
  <2> SUFFICES ASSUME before # {}, after # {}, NEW s \in DOMAIN V
               PROVE  Between(V[s], b) = Blend(V[s][x], V[s][y], b - x, y - x)
    OBVIOUS
  <2>1. V[s][x] \in Int /\ V[s][y] \in Int
    BY <1>2, <1>3
  <2>2. Max(Before(V[s], b)) = x /\ Min(After(V[s], b)) = y
    BY <1>1
  <2> HIDE DEF x, y, before, after
  <2>3. NotNumeric \notin {V[s][x], V[s][y]}
    BY <2>1, AlignmentAssumption
  <2> QED BY <2>2, <2>3 DEF Between, Blend
<1>6. \A s \in DOMAIN V :
        Filled(kind, V[s], b)
          = IF b \in B THEN V[s][b]
            ELSE IF kind = "discrete"
            THEN IF before = {} THEN Missing ELSE V[s][x]
            ELSE IF kind = "continuous" /\ before # {} /\ after # {}
            THEN Between(V[s], b)
            ELSE Nearest(V[s], b)
  BY <1>1 DEF Filled
<1> HIDE DEF x, y, before, after
<1>7. CASE b \in B
  BY <1>6, <1>7
<1>8. CASE b \notin B /\ kind = "discrete"
  <2>1. CASE before = {}
    BY <1>6, <1>8, <2>1
  <2>2. CASE before # {}
    BY <1>2, <1>6, <1>8, <2>2
  <2> QED BY <2>1, <2>2
<1>9. CASE b \notin B /\ kind # "discrete"
  <2>1. CASE kind = "continuous" /\ before # {} /\ after # {}
    <3>1. \A s \in DOMAIN V :
            Filled(kind, V[s], b) = Blend(V[s][x], V[s][y], b - x, y - x)
      BY <1>5, <1>6, <1>9, <2>1
    <3>2. x \in B /\ y \in B /\ x < b /\ b < y
      BY <1>2, <1>3, <2>1
    <3> QED BY <3>1, <3>2
  <2>2. CASE ~(kind = "continuous" /\ before # {} /\ after # {})
    <3>1. \A s \in DOMAIN V : Filled(kind, V[s], b) = Nearest(V[s], b)
      BY <1>6, <1>9, <2>2
    <3>2. CASE before = {} /\ after = {}
      BY <1>4, <3>1, <3>2
    <3>3. CASE before = {} /\ after # {}
      <4>1. \A s \in DOMAIN V : Filled(kind, V[s], b) = V[s][y]
        BY <1>4, <3>1, <3>3
      <4> QED BY <1>3, <3>3, <4>1
    <3>4. CASE before # {}
      <4>1. CASE after = {} \/ b - x <= y - b
        <5>1. \A s \in DOMAIN V : Filled(kind, V[s], b) = V[s][x]
          BY <1>4, <3>1, <3>4, <4>1
        <5> QED BY <1>2, <3>4, <5>1
      <4>2. CASE ~(after = {} \/ b - x <= y - b)
        <5>1. \A s \in DOMAIN V : Filled(kind, V[s], b) = V[s][y]
          BY <1>4, <3>1, <3>4, <4>2
        <5> QED BY <1>3, <4>2, <5>1
      <4> QED BY <4>1, <4>2
    <3> QED BY <3>2, <3>3, <3>4
  <2> QED BY <2>1, <2>2
<1> QED BY <1>7, <1>8, <1>9

(* The same, of the samples of sequences sampled together.                 *)
Snapshot(w, t) == [s \in DOMAIN w.points |-> w.points[s][t]]
Times(w) == UNION {Within(w, s) : s \in DOMAIN w.points}
Drawn(w, row) ==
  \/ \A s \in DOMAIN w.points : row[s] = Missing
  \/ \E t \in Times(w) : row = Snapshot(w, t)
  \/ \E t, u \in Times(w) : \E x, y \in Nat :
       /\ x <= y /\ 0 < y
       /\ \A s \in DOMAIN w.points :
            row[s] = Blend(w.points[s][t], w.points[s][u], x, y)

LEMMA TogetherSample ==
  ASSUME NEW w, Assembled(w), Gaps(w.points) # {}, Together(w),
         DOMAIN w.points # {}, NEW d, d \in {Interval(w.points)},
         NEW b \in 0 .. Buckets(w, d) - 1
  PROVE  Drawn(w, Sample(w, d, b))
<1> DEFINE ids == DOMAIN w.points
           V == [s \in ids |-> Bucketed(w, d, s)]
           row == Sample(w, d, b)
<1>0. d \in Int /\ d > 0
  BY IntervalIs DEF Assembled
<1>1. PICK p : p \in ids
  OBVIOUS
<1> DEFINE B == DOMAIN V[p]
           kind == KindOf[p]
<1>2. ASSUME NEW c \in B
      PROVE  \E t \in Times(w) : \A s \in ids : c \in DOMAIN V[s] /\ V[s][c] = w.points[s][t]
  <2>1. c \in DOMAIN Bucketed(w, d, p)
    BY <1>1
  <2>2. c \in 0 .. Buckets(w, d) - 1
    BY <1>1, <2>1, TogetherTime
  <2>3. PICK t \in Within(w, p) : At(w, d, c, t)
    BY <1>1, <2>1, TogetherTime
  <2>4. t \in Times(w)
    BY <1>1 DEF Times
  <2>5. \A s \in ids : /\ c \in DOMAIN Bucketed(w, d, s)
                       /\ Bucketed(w, d, s)[c] = w.points[s][t]
    BY <1>1, <2>2, <2>3, TogetherBucket
  <2> QED BY <2>4, <2>5
<1>3. ASSUME NEW s \in ids, NEW c \in DOMAIN V[s]
      PROVE  c \in B
  <2>1. c \in DOMAIN Bucketed(w, d, s)
    OBVIOUS
  <2>2. c \in 0 .. Buckets(w, d) - 1
    BY <2>1, TogetherTime
  <2>3. PICK t \in Within(w, s) : At(w, d, c, t)
    BY <2>1, TogetherTime
  <2>4. c \in DOMAIN Bucketed(w, d, p)
    BY <1>1, <2>2, <2>3, TogetherBucket
  <2> QED BY <1>1, <2>4
<1>4. TimeSet(B)
  BY <1>0, <1>1, BucketedFinite
<1>5. \A t \in Times(w), s \in ids : w.points[s][t] \in Int
  BY DEF Times, Within, Together
<1>6. \A s \in ids : KindOf[s] = kind
  BY <1>1 DEF Together
<1>7. \A s \in ids : row[s] = Filled(kind, V[s], b)
  BY <1>6 DEF Sample
<1>8. b \in Int
  BY <1>0, EdgesBefore
<1>9. DOMAIN V = ids /\ row = [s \in ids |-> row[s]]
  BY DEF Sample
<1> HIDE DEF V, B, kind, row
<1>10. \A s \in DOMAIN V : DOMAIN V[s] = B /\ \A c \in B : V[s][c] \in Int
  <2> SUFFICES ASSUME NEW s \in ids
               PROVE  DOMAIN V[s] = B /\ \A c \in B : V[s][c] \in Int
    BY <1>9
  <2>1. \A c \in B : c \in DOMAIN V[s] /\ V[s][c] \in Int
    BY <1>2, <1>5
  <2>2. \A c \in DOMAIN V[s] : c \in B
    BY <1>3
  <2>3. DOMAIN V[s] = B
    BY <2>1, <2>2
  <2> QED BY <2>1, <2>3
<1>11. \/ \A s \in DOMAIN V : Filled(kind, V[s], b) = Missing
       \/ \E c \in B : \A s \in DOMAIN V : Filled(kind, V[s], b) = V[s][c]
       \/ \E l, r \in B : /\ l < b /\ b < r
                          /\ \A s \in DOMAIN V :
                               Filled(kind, V[s], b) = Blend(V[s][l], V[s][r], b - l, r - l)
  BY <1>4, <1>8, <1>10, FilledTogether
<1>12. CASE \A s \in DOMAIN V : Filled(kind, V[s], b) = Missing
  BY <1>7, <1>9, <1>12 DEF row, Drawn
<1>13. CASE \E c \in B : \A s \in DOMAIN V : Filled(kind, V[s], b) = V[s][c]
  <2>1. PICK c \in B : \A s \in DOMAIN V : Filled(kind, V[s], b) = V[s][c]
    BY <1>13
  <2>2. PICK t \in Times(w) : \A s \in ids : V[s][c] = w.points[s][t]
    BY <1>2
  <2>3. \A s \in ids : row[s] = w.points[s][t]
    BY <1>7, <1>9, <2>1, <2>2
  <2>4. row = Snapshot(w, t)
    BY <1>9, <2>3 DEF Snapshot
  <2> QED BY <2>4 DEF row, Drawn
<1>14. CASE \E l, r \in B : /\ l < b /\ b < r
                            /\ \A s \in DOMAIN V :
                                 Filled(kind, V[s], b) = Blend(V[s][l], V[s][r], b - l, r - l)
  <2>1. PICK l, r \in B : /\ l < b /\ b < r
                          /\ \A s \in DOMAIN V :
                               Filled(kind, V[s], b) = Blend(V[s][l], V[s][r], b - l, r - l)
    BY <1>14
  <2>2. PICK t \in Times(w) : \A s \in ids : V[s][l] = w.points[s][t]
    BY <1>2
  <2>3. PICK u \in Times(w) : \A s \in ids : V[s][r] = w.points[s][u]
    BY <1>2
  <2>4. b - l \in Nat /\ r - l \in Nat /\ b - l <= r - l /\ 0 < r - l
    BY <1>4, <1>8, <2>1 DEF TimeSet
  <2>5. \A s \in ids : row[s] = Blend(w.points[s][t], w.points[s][u], b - l, r - l)
    BY <1>7, <1>9, <2>1, <2>2, <2>3
  <2> DEFINE x == b - l
             y == r - l
  <2>6. x \in Nat /\ y \in Nat /\ x <= y /\ 0 < y
        /\ \A s \in ids : row[s] = Blend(w.points[s][t], w.points[s][u], x, y)
    BY <2>4, <2>5
  <2> HIDE DEF x, y
  <2> QED BY <2>6 DEF row, Drawn
<1> QED BY <1>11, <1>12, <1>13, <1>14

(* No sequence lacks a number.                                             *)
LEMMA TogetherComputed ==
  ASSUME NEW w, Assembled(w), Gaps(w.points) # {}, Together(w),
         DOMAIN w.points # {}, NEW d, d \in {Interval(w.points)}
  PROVE  Computed(w, d)
<1>1. \A t \in Times(w), s \in DOMAIN w.points : w.points[s][t] \in Int
  BY DEF Times, Within, Together
<1>2. ASSUME NEW s \in DOMAIN w.points, NEW b \in DOMAIN Bucketed(w, d, s)
      PROVE  Bucketed(w, d, s)[b] # Failed
  <2>1. b \in 0 .. Buckets(w, d) - 1
    BY TogetherTime
  <2>2. PICK t \in Within(w, s) : At(w, d, b, t)
    BY TogetherTime
  <2>3. Bucketed(w, d, s)[b] = w.points[s][t]
    BY <2>1, <2>2, TogetherBucket
  <2>4. t \in Times(w)
    BY DEF Times
  <2> QED BY <1>1, <2>3, <2>4, AlignmentAssumption
<1>3. ASSUME NEW b \in 0 .. Buckets(w, d) - 1, NEW s \in DOMAIN w.points
      PROVE  Sample(w, d, b)[s] # Failed
  <2> DEFINE row == Sample(w, d, b)
  <2>1. Drawn(w, row)
    BY TogetherSample
  <2> HIDE DEF row
  <2>2. CASE \A q \in DOMAIN w.points : row[q] = Missing
    BY <2>2, AlignmentAssumption DEF row
  <2>3. CASE \E t \in Times(w) : row = Snapshot(w, t)
    <3>1. row[s] \in Int
      BY <1>1, <2>3 DEF Snapshot
    <3> QED BY <3>1, AlignmentAssumption DEF row
  <2>4. CASE \E t, u \in Times(w) : \E x, y \in Nat :
               /\ x <= y /\ 0 < y
               /\ \A q \in DOMAIN w.points :
                    row[q] = Blend(w.points[q][t], w.points[q][u], x, y)
    <3>1. PICK t, u \in Times(w), x, y \in Nat :
               /\ x <= y /\ 0 < y
               /\ \A q \in DOMAIN w.points :
                    row[q] = Blend(w.points[q][t], w.points[q][u], x, y)
      BY <2>4
    <3>2. w.points[s][t] \in Int /\ w.points[s][u] \in Int
      BY <1>1
    <3>3. row[s] \in Int
      BY <3>1, <3>2, Interpolates DEF Blend
    <3> QED BY <3>3, AlignmentAssumption DEF row
  <2> QED BY <2>1, <2>2, <2>3, <2>4 DEF Drawn
<1>4. \A s \in DOMAIN w.points : Failed \notin Range(Bucketed(w, d, s))
  BY <1>2 DEF Range
<1>5. \A b \in 0 .. Buckets(w, d) - 1 : Failed \notin Range(Sample(w, d, b))
  <2>1. \A b \in 0 .. Buckets(w, d) - 1 : DOMAIN Sample(w, d, b) = DOMAIN w.points
    BY DEF Sample
  <2> QED BY <1>3, <2>1 DEF Range
<1> QED BY <1>4, <1>5 DEF Computed

(* A bucket with points has the values of their time.                      *)
LEMMA SampleAt ==
  ASSUME NEW w, Assembled(w), Gaps(w.points) # {}, Together(w),
         NEW d, d \in {Interval(w.points)},
         NEW b \in 0 .. Buckets(w, d) - 1, NEW t \in Times(w), At(w, d, b, t)
  PROVE  Sample(w, d, b) = Snapshot(w, t)
<1>1. PICK p \in DOMAIN w.points : t \in Within(w, p)
  BY DEF Times
<1>2. ASSUME NEW s \in DOMAIN w.points
      PROVE  Filled(KindOf[s], Bucketed(w, d, s), b) = w.points[s][t]
  <2> DEFINE V == Bucketed(w, d, s)
             kind == KindOf[s]
  <2>1. b \in DOMAIN V /\ V[b] = w.points[s][t]
    BY <1>1, TogetherBucket
  <2> HIDE DEF V, kind
  <2>2. Filled(kind, V, b) = w.points[s][t]
    BY <2>1 DEF Filled
  <2> QED BY <2>2 DEF V, kind
<1> QED BY <1>2 DEF Sample, Snapshot

-----------------------------------------------------------------------------
(***************************************************************************)
(* A rule without offsets.                                                 *)
(***************************************************************************)
RowValues(r, row) == [i \in DOMAIN r.terms |-> row[r.terms[i].sequence]]
RowOpen(r, row) ==
  {i \in DOMAIN r.terms : row[r.terms[i].sequence] \in {Missing, NotNumeric}}
Exceeds(r, row) == RowOpen(r, row) = {} /\ Sum(RowValues(r, row)) > r.bound

LEMMA LaterSelf ==
  ASSUME NEW T, TimeSet(T), NEW t \in T
  PROVE  Later(T, t, 0) = t /\ HasLater(T, t, 0)
<1>1. t \in Int
  BY DEF TimeSet
<1>2. Span(T, t, t) = {}
  <2>1. \A v \in T : ~(t <= v /\ v < t)
    BY <1>1 DEF TimeSet
  <2> QED BY <2>1 DEF Span
<1>3. Cardinality(Span(T, t, t)) = 0
  BY <1>2, FS_EmptySet
<1>4. Later(T, t, 0) = t
  BY <1>1, <1>3, LaterIs
<1> DEFINE U == {u \in T : u > t}
<1>5. IsFiniteSet(U)
  BY FS_Subset DEF TimeSet
<1> HIDE DEF U
<1>6. Cardinality(U) >= 0
  BY <1>5, FS_CardinalityType
<1> QED BY <1>4, <1>6 DEF HasLater, U

LEMMA RowIs ==
  ASSUME NEW r \in Rules, MaxOffset(r) = 0, NEW content, TimeSet(DOMAIN content),
         NEW t \in DOMAIN content
  PROVE  /\ HasLater(DOMAIN content, t, MaxOffset(r))
         /\ (Unresolved(r, content, t) = {} /\ Total(r, content, t) > r.bound)
              <=> Exceeds(r, content[t])
<1>1. Later(DOMAIN content, t, 0) = t /\ HasLater(DOMAIN content, t, 0)
  BY LaterSelf
<1>2. \A i \in DOMAIN r.terms : r.terms[i].offset = 0
  BY RuleIs
<1>3. \A i \in DOMAIN r.terms :
        Value(content, t, r.terms[i]) = content[t][r.terms[i].sequence]
  BY <1>1, <1>2 DEF Value
<1>4. Unresolved(r, content, t) = RowOpen(r, content[t])
  BY <1>3 DEF Unresolved, RowOpen
<1>5. [i \in DOMAIN r.terms |-> Value(content, t, r.terms[i])] = RowValues(r, content[t])
  BY <1>3 DEF RowValues
<1>6. Total(r, content, t) = Sum(RowValues(r, content[t]))
  BY <1>5 DEF Total
<1> QED BY <1>1, <1>4, <1>6 DEF Exceeds

LEMMA RowLength ==
  ASSUME NEW r \in Rules, NEW row
  PROVE  /\ Len(r.terms) \in Nat /\ DOMAIN r.terms = 1 .. Len(r.terms)
         /\ Len(RowValues(r, row)) = Len(r.terms)
         /\ \A i \in 1 .. Len(r.terms) :
              RowValues(r, row)[i] = row[r.terms[i].sequence]
<1> DEFINE n == Len(r.terms)
<1>1. n \in Nat /\ DOMAIN r.terms = 1 .. n
  BY RuleIs
<1> HIDE DEF n
<1>2. RowValues(r, row) = [i \in 1 .. n |-> row[r.terms[i].sequence]]
  BY <1>1 DEF RowValues
<1>3. Len([i \in 1 .. n |-> row[r.terms[i].sequence]]) = n
  BY <1>1
<1> QED BY <1>1, <1>2, <1>3 DEF n

(* What is filled in exceeds the bound only if what it is filled from does.*)
LEMMA DrawnExceeds ==
  ASSUME NEW r \in Rules, NEW w, Together(w), DOMAIN w.points = SequencesOf(r),
         NEW row, Drawn(w, row), Exceeds(r, row)
  PROVE  \E t \in Times(w) : Exceeds(r, Snapshot(w, t))
<1> DEFINE n == Len(r.terms)
<1>0. n \in Nat \ {0} /\ DOMAIN r.terms = 1 .. n
      /\ \A i \in 1 .. n : r.terms[i].sequence \in DOMAIN w.points
  BY RuleIs
<1>1. \A t \in Times(w), s \in DOMAIN w.points : w.points[s][t] \in Int
  BY DEF Times, Within, Together
<1>2. \A t \in Times(w), s \in DOMAIN w.points : Snapshot(w, t)[s] = w.points[s][t]
  BY DEF Snapshot
<1>3. \A t \in Times(w) : RowOpen(r, Snapshot(w, t)) = {}
  BY <1>0, <1>1, <1>2, AlignmentAssumption DEF RowOpen
<1>4. RowOpen(r, row) = {} /\ Sum(RowValues(r, row)) > r.bound /\ r.bound \in Int
  BY CheckAssumption DEF Exceeds
<1>5. CASE \A s \in DOMAIN w.points : row[s] = Missing
  <2>1. 1 \in 1 .. n
    BY <1>0
  <2>2. row[r.terms[1].sequence] = Missing
    BY <1>0, <1>5, <2>1
  <2>3. 1 \in RowOpen(r, row)
    BY <1>0, <2>1, <2>2 DEF RowOpen
  <2> QED BY <1>4, <2>3
<1>6. CASE \E t \in Times(w) : row = Snapshot(w, t)
  BY <1>6
<1>7. CASE \E t, u \in Times(w) : \E x, y \in Nat :
             /\ x <= y /\ 0 < y
             /\ \A s \in DOMAIN w.points :
                  row[s] = Blend(w.points[s][t], w.points[s][u], x, y)
  <2>1. PICK t, u \in Times(w), x, y \in Nat :
             /\ x <= y /\ 0 < y
             /\ \A s \in DOMAIN w.points :
                  row[s] = Blend(w.points[s][t], w.points[s][u], x, y)
    BY <1>7
  <2> DEFINE R == RowValues(r, row)
             L == RowValues(r, Snapshot(w, t))
             U == RowValues(r, Snapshot(w, u))
  <2>2. Len(R) = n /\ Len(L) = n /\ Len(U) = n
    BY RowLength
  <2>3. ASSUME NEW i \in 1 .. n
        PROVE  /\ R[i] \in Int /\ L[i] \in Int /\ U[i] \in Int
               /\ y * R[i] <= (y - x) * L[i] + x * U[i]
    <3> DEFINE s == r.terms[i].sequence
               l == w.points[s][t]
               v == w.points[s][u]
    <3>1. s \in DOMAIN w.points
      BY <1>0
    <3>2. R[i] = row[s] /\ L[i] = Snapshot(w, t)[s] /\ U[i] = Snapshot(w, u)[s]
      BY RowLength
    <3>3. L[i] = l /\ U[i] = v /\ l \in Int /\ v \in Int
      BY <1>1, <1>2, <3>1, <3>2
    <3>4. R[i] = Blend(l, v, x, y)
      BY <2>1, <3>1, <3>2
    <3> HIDE DEF R, L, U, l, v
    <3>5. Blend(l, v, x, y) \in Int /\ y * Blend(l, v, x, y) <= (y - x) * l + x * v
      BY <2>1, <3>3, Interpolates DEF Blend
    <3> QED BY <3>3, <3>4, <3>5
  <2>9. Blends(R, L, U, n, x, y)
    BY <2>2, <2>3 DEF Blends
  <2> HIDE DEF R, L, U, n
  <2>4. Sum(L) \in Int /\ Sum(U) \in Int /\ Sum(R) \in Int
    BY <1>0, <2>1, <2>9, SumBlends
  <2>5. ~(Sum(L) <= r.bound /\ Sum(U) <= r.bound)
    <3> SUFFICES ASSUME Sum(L) <= r.bound, Sum(U) <= r.bound PROVE FALSE
      OBVIOUS
    <3>1. Sum(R) <= r.bound
      BY <1>0, <1>4, <2>1, <2>9, BlendBounded
    <3> QED BY <1>4, <2>4, <3>1 DEF R
  <2>6. Sum(L) > r.bound \/ Sum(U) > r.bound
    BY <1>4, <2>4, <2>5
  <2> QED BY <1>3, <2>6 DEF Exceeds, L, U
<1> QED BY <1>5, <1>6, <1>7 DEF Drawn

-----------------------------------------------------------------------------
(***************************************************************************)
(* What a check of sequences sampled together finds.                       *)
(***************************************************************************)
(* Of every sequence the query brings what lies in the range.              *)
LEMMA QueriedHolds ==
  ASSUME WindowPart, RangePart, watermark \in Int, data = Queried, Complete
  PROVE  /\ data.start \in Int /\ data.end \in Int /\ data.start <= data.end
         /\ range # NoRange => data.start = range.start /\ data.end = range.end + 1
                               /\ data.start < data.end
         /\ DOMAIN data.points = SequencesOf(rule)
         /\ \A s \in SequencesOf(rule) :
              \E C \in SUBSET (DOMAIN live[s]) :
                /\ data.points[s] = Restrict(live[s], C)
                /\ TimesIn(s) \subseteq C
<1> DEFINE context == MaxOffset(rule) + 1
           bounds == IF range = NoRange
                     THEN [start |-> watermark + 1 - Size, end |-> watermark + 1]
                     ELSE [start |-> range.start, end |-> range.end + 1]
           Chosen(times) ==
             {t \in times : bounds.start <= t /\ t < bounds.end}
               \cup (IF range = NoRange THEN {}
                     ELSE LastBefore(times, bounds.start, context)
                            \cup FirstFrom(times, bounds.end, context))
           found == {s \in SequencesOf(rule) : Chosen(DOMAIN live[s]) # {}}
<1>1. data = [start |-> bounds.start, end |-> bounds.end,
              points |-> [s \in found |-> Restrict(live[s], Chosen(DOMAIN live[s]))]]
  BY DEF Queried
<1>2. \A times : /\ Chosen(times) \subseteq times
                 /\ {t \in times : bounds.start <= t /\ t < bounds.end} \subseteq Chosen(times)
  BY DEF LastBefore, FirstFrom
<1>3. bounds.start \in Int /\ bounds.end \in Int /\ bounds.start <= bounds.end
  BY CheckAssumption DEF RangePart
<1>4. range # NoRange => /\ bounds.start = range.start /\ bounds.end = range.end + 1
                         /\ bounds.start < bounds.end
  BY DEF RangePart
<1> HIDE DEF bounds, Chosen
<1>5. data.start = bounds.start /\ data.end = bounds.end /\ DOMAIN data.points = found
      /\ \A s \in found : data.points[s] = Restrict(live[s], Chosen(DOMAIN live[s]))
  <2> HIDE DEF found
  <2> QED BY <1>1
<1>6. found = SequencesOf(rule)
  BY <1>5 DEF Complete
<1> HIDE DEF found
<1>7. ASSUME NEW s \in SequencesOf(rule)
      PROVE  \E C \in SUBSET (DOMAIN live[s]) :
                /\ data.points[s] = Restrict(live[s], C)
                /\ TimesIn(s) \subseteq C
  <2> DEFINE C == Chosen(DOMAIN live[s])
  <2>1. data.points[s] = Restrict(live[s], C)
    BY <1>5, <1>6
  <2>2. C \subseteq DOMAIN live[s] /\ TimesIn(s) \subseteq C
    BY <1>2, <1>5 DEF TimesIn
  <2> HIDE DEF C
  <2> QED BY <2>1, <2>2
<1> QED BY <1>3, <1>4, <1>5, <1>6, <1>7

(* So sequences that are sampled together are queried together.            *)
LEMMA QueriedTogether ==
  ASSUME WindowPart, RangePart, watermark \in Int, data = Queried, Complete,
         Simultaneous
  PROVE  /\ Assembled(data) /\ Together(data)
         /\ DOMAIN data.points = SequencesOf(rule) /\ SequencesOf(rule) # {}
         /\ \A s \in SequencesOf(rule) : Within(data, s) = TimesIn(s)
         /\ \A s \in SequencesOf(rule), t \in Times(data) :
              t \in DOMAIN live[s] /\ data.points[s][t] = live[s][t]
         /\ TimeSet(Times(data))
         /\ Times(data) = UNION {TimesIn(s) : s \in SequencesOf(rule)}
<1> DEFINE ids == SequencesOf(rule)
<1>1. /\ data.start \in Int /\ data.end \in Int /\ data.start <= data.end
      /\ DOMAIN data.points = ids
      /\ \A s \in ids :
           \E C \in SUBSET (DOMAIN live[s]) :
             /\ data.points[s] = Restrict(live[s], C)
             /\ TimesIn(s) \subseteq C
  BY QueriedHolds
<1>2. ids # {} /\ ids \subseteq SequenceIds
  BY RuleIs DEF WindowPart
<1>3. \A s \in ids : Series(live[s]) /\ Numbers(live[s])
  BY <1>2 DEF WindowPart
<1>4. \A s \in ids : NotNumeric \notin Range(live[s])
  BY DEF Simultaneous
<1> HIDE DEF ids
<1>5. ASSUME NEW s \in ids
      PROVE  /\ Series(data.points[s])
             /\ DOMAIN data.points[s] \subseteq DOMAIN live[s]
             /\ Within(data, s) = TimesIn(s)
             /\ \A t \in DOMAIN data.points[s] :
                  data.points[s][t] = live[s][t] /\ data.points[s][t] \in Int
  <2>1. PICK C \in SUBSET (DOMAIN live[s]) :
          data.points[s] = Restrict(live[s], C) /\ TimesIn(s) \subseteq C
    BY <1>1
  <2>2. /\ DOMAIN data.points[s] = C
        /\ \A t \in C : data.points[s][t] = live[s][t]
    BY <2>1 DEF Restrict
  <2>0. C \subseteq DOMAIN live[s] /\ Series(live[s])
    BY <1>3
  <2>3. IsFiniteSet(C) /\ C \subseteq Int
    <3>1. IsFiniteSet(DOMAIN live[s]) /\ DOMAIN live[s] \subseteq Int
      BY <2>0 DEF Series
    <3> DEFINE D == DOMAIN live[s]
    <3>2. IsFiniteSet(D) /\ D \subseteq Int /\ C \in SUBSET D
      BY <3>1
    <3> HIDE DEF D
    <3>3. IsFiniteSet(C)
      BY <3>2, FS_Subset
    <3> QED BY <3>2, <3>3
  <2>4. Series(data.points[s])
    <3>1. data.points[s] = [t \in C |-> live[s][t]]
      BY <2>1 DEF Restrict
    <3> DEFINE f == data.points[s]
    <3>2. f = [t \in DOMAIN f |-> f[t]] /\ DOMAIN f = C
      BY <3>1
    <3> HIDE DEF f
    <3>3. Series(f)
      BY <2>3, <3>2 DEF Series
    <3> QED BY <3>3 DEF f
  <2>5. \A t \in C : live[s][t] \in Int
    BY <1>3, <1>4 DEF Numbers, Range
  <2>6. Within(data, s) = TimesIn(s)
    BY <2>1, <2>2 DEF Within, TimesIn
  <2> QED BY <2>2, <2>4, <2>5, <2>6
<1>6. Assembled(data)
  BY <1>1, <1>5 DEF Assembled
<1>7. Together(data)
  <2>1. \A s, q \in ids : TimesIn(s) = TimesIn(q) /\ KindOf[s] = KindOf[q]
    BY DEF Simultaneous, ids
  <2> QED BY <1>1, <1>5, <2>1 DEF Together
<1>8. PICK p : p \in ids
  BY <1>2 DEF ids
<1>9. Times(data) = Within(data, p) /\ \A s \in ids : Within(data, s) = Within(data, p)
  <2>1. \A s \in ids : Within(data, s) = Within(data, p)
    BY <1>1, <1>7, <1>8 DEF Together
  <2> QED BY <1>1, <1>8, <2>1 DEF Times
<1>10. \A s \in ids, t \in Times(data) : t \in DOMAIN live[s] /\ data.points[s][t] = live[s][t]
  <2> SUFFICES ASSUME NEW s \in ids, NEW t \in Times(data)
               PROVE  t \in DOMAIN live[s] /\ data.points[s][t] = live[s][t]
    OBVIOUS
  <2>1. t \in DOMAIN data.points[s]
    BY <1>9 DEF Within
  <2> QED BY <1>5, <2>1
<1>11. TimeSet(Times(data))
  <2>1. Within(data, p) \subseteq DOMAIN data.points[p]
    BY DEF Within
  <2> QED BY <1>5, <1>8, <1>9, <2>1, FS_Subset, ZenonT(30) DEF Series, TimeSet
<1>12. Times(data) = UNION {TimesIn(s) : s \in ids}
  <2>1. \A s \in ids : TimesIn(s) = Times(data)
    BY <1>5, <1>9
  <2> QED BY <1>8, <2>1
<1> QED BY <1>1, <1>2, <1>5, <1>6, <1>7, <1>10, <1>11, <1>12 DEF ids

(* What of the range is aligned: samples of buckets, those of all its      *)
(* times among them.                                                       *)
LEMMA SamplesAre ==
  ASSUME WindowPart, RangePart, watermark \in Int, data = Queried, Complete,
         Simultaneous, ~Single(rule), MaxOffset(rule) = 0,
         aligned = Samples, aligned.ok,
         NEW d, d \in {Interval(data.points)}
  PROVE  /\ Gaps(data.points) # {} /\ d \in Int /\ d > 0
         /\ \A a \in DOMAIN aligned.samples :
              \E b \in 0 .. Buckets(data, d) - 1 :
                a = Edge(data, d, b) /\ aligned.samples[a] = Sample(data, d, b)
         /\ TimeSet(DOMAIN aligned.samples)
         /\ \A t \in Times(data) :
              \E b \in 0 .. Buckets(data, d) - 1 :
                /\ At(data, d, b, t) /\ Edge(data, d, b) \in DOMAIN aligned.samples
                /\ aligned.samples[Edge(data, d, b)] = Sample(data, d, b)
                /\ Edge(data, d, b) >= data.start
<1> DEFINE n == Buckets(data, d)
           full == AlignedBy(data, d)
<1>0. /\ Assembled(data) /\ Together(data)
      /\ DOMAIN data.points # {}
      /\ TimeSet(Times(data))
  BY QueriedTogether
<1>1. Gaps(data.points) # {}
  <2>1. aligned = IF range = NoRange THEN Aligned(data)
                  ELSE Ranged(data, range, MaxOffset(rule))
    BY DEF Samples
  <2> SUFFICES ASSUME Gaps(data.points) = {} PROVE FALSE
    OBVIOUS
  <2>2. Aligned(data) = Refused
    BY DEF Aligned
  <2>3. Ranged(data, range, MaxOffset(rule)) = Refused
    BY DEF Ranged
  <2>4. aligned = Refused
    BY <2>1, <2>2, <2>3
  <2> QED BY <2>4 DEF Refused
<1>2. d \in Int /\ d > 0
  BY <1>0, <1>1, IntervalIs DEF Assembled
<1>3. Aligned(data) = full
  BY <1>1 DEF Aligned
<1>4. full.ok
  BY <1>0, <1>1, <1>2, TogetherComputed, AlignedByIs
<1>5. /\ DOMAIN full.samples = {Edge(data, d, b) : b \in 0 .. n - 1}
      /\ \A b \in 0 .. n - 1 : full.samples[Edge(data, d, b)] = Sample(data, d, b)
  BY <1>0, <1>2, <1>4, AlignedByIs
<1>6. n \in Nat
  BY <1>0, <1>2, EdgesBefore
<1>7. \A t \in Times(data) : t \in Int /\ data.start <= t /\ t < data.end
  BY <1>0 DEF Times, Within, TimeSet
<1>8. \A t \in Times(data) :
        \E b \in 0 .. n - 1 : /\ b = (t - data.start) \div d
                              /\ At(data, d, b, t) /\ Edge(data, d, b) \in Int
                              /\ Edge(data, d, b) >= data.start
  <2> SUFFICES ASSUME NEW t \in Times(data)
               PROVE  \E b \in 0 .. n - 1 : /\ b = (t - data.start) \div d
                                            /\ At(data, d, b, t) /\ Edge(data, d, b) \in Int
                                            /\ Edge(data, d, b) >= data.start
    OBVIOUS
  <2> DEFINE b == (t - data.start) \div d
  <2>1. b \in 0 .. n - 1 /\ Edge(data, d, b) <= t /\ t < Edge(data, d, b + 1)
    BY <1>0, <1>2, <1>7, BucketHas
  <2> HIDE DEF b, n
  <2>2. b \in Int /\ 0 <= b /\ data.start \in Int
    BY <1>0, <1>6, <2>1 DEF Assembled
  <2>3. b * d >= 0 /\ b * d \in Int
    BY <1>2, <2>2
  <2>4. Edge(data, d, b) \in Int /\ Edge(data, d, b) >= data.start
    BY <2>2, <2>3 DEF Edge
  <2> QED BY <2>1, <2>4 DEF At, b
<1> HIDE DEF n, full
<1>9. /\ \A a \in DOMAIN aligned.samples :
           a \in DOMAIN full.samples /\ aligned.samples[a] = full.samples[a]
      /\ \A t \in Times(data), b \in 0 .. n - 1 :
           b = (t - data.start) \div d => Edge(data, d, b) \in DOMAIN aligned.samples
  <2>1. CASE range = NoRange
    <3>1. aligned = full
      BY <1>3, <2>1 DEF Samples
    <3> QED BY <1>5, <3>1
  <2>2. CASE range # NoRange
    <3>1. /\ data.start = range.start /\ data.end = range.end + 1
          /\ data.start < data.end
      BY <2>2, QueriedHolds
    <3>2. /\ range.start \in Int /\ range.end \in Int /\ range.start <= range.end
      BY <2>2 DEF RangePart
    <3>3. aligned = Ranged(data, range, 0)
      BY <2>2 DEF Samples
    <3>4. data.start \in Int /\ data.end \in Int
      BY <1>0 DEF Assembled
    <3>5. DOMAIN full.samples # {}
      <4>1. Edge(data, d, 0) = data.start
        BY <1>2, <3>4 DEF Edge
      <4>2. 0 < n
        BY <1>0, <1>2, <3>1, <4>1, EdgesBefore DEF n
      <4>3. Edge(data, d, 0) \in DOMAIN full.samples
        BY <1>5, <1>6, <4>2
      <4> QED BY <4>3
    <3>6. /\ AgreesWith(aligned, full)
          /\ range.start = Edge(data, d, IndexOf(data, d, range.start))
               => Covers(aligned, data, d, range, 0)
      <4>0. d = Interval(data.points) /\ 0 \in Nat
        OBVIOUS
      <4> DEFINE got == Ranged(data, range, 0)
                 e == Interval(data.points)
      <4>1. /\ AgreesWith(got, Aligned(data))
            /\ range.start = Edge(data, e, IndexOf(data, e, range.start))
                 => Covers(got, data, e, range, 0)
        BY <1>0, <1>3, <1>4, <3>2, <3>5, <4>0, RangedIs
      <4> HIDE DEF got, e
      <4>2. aligned = got /\ e = d
        BY <3>3 DEF got, e
      <4> QED BY <1>3, <4>1, <4>2
    <3>7. range.start = Edge(data, d, IndexOf(data, d, range.start))
      <4>1. IndexOf(data, d, range.start) = 0
        BY <3>1, <3>4 DEF IndexOf
      <4> QED BY <1>2, <3>1, <3>4, <4>1 DEF Edge
    <3>8. ASSUME NEW t \in Times(data), NEW b \in 0 .. n - 1, b = (t - data.start) \div d
          PROVE  Edge(data, d, b) \in DOMAIN aligned.samples
      <4>1. t \in Int /\ data.start <= t /\ t < data.end
        BY <1>7
      <4>2. range.start <= t /\ t <= range.end
        BY <3>1, <3>2, <4>1
      <4>3. IndexOf(data, d, t) = b
        <5>1. CASE t <= data.start
          <6>1. t = data.start /\ t - data.start = 0
            BY <3>4, <4>1, <5>1
          <6>2. b = 0
            BY <1>2, <3>8, <6>1
          <6> QED BY <5>1, <6>2 DEF IndexOf
        <5>2. CASE ~(t <= data.start)
          BY <3>8, <4>1, <5>2 DEF IndexOf
        <5> QED BY <5>1, <5>2
      <4>4. Edge(data, d, IndexOf(data, d, t)) \in DOMAIN aligned.samples
        BY <3>6, <3>7, <4>1, <4>2 DEF Covers
      <4> QED BY <4>3, <4>4
    <3>9. \A a \in DOMAIN aligned.samples :
            a \in DOMAIN full.samples /\ aligned.samples[a] = full.samples[a]
      BY <3>6 DEF AgreesWith
    <3> QED BY <3>8, <3>9
  <2> QED BY <2>1, <2>2
<1>10. \A a \in DOMAIN aligned.samples :
         \E b \in 0 .. n - 1 :
           a = Edge(data, d, b) /\ aligned.samples[a] = Sample(data, d, b)
  <2> SUFFICES ASSUME NEW a \in DOMAIN aligned.samples
               PROVE  \E b \in 0 .. n - 1 :
                        a = Edge(data, d, b) /\ aligned.samples[a] = Sample(data, d, b)
    OBVIOUS
  <2>1. a \in DOMAIN full.samples /\ aligned.samples[a] = full.samples[a]
    BY <1>9
  <2>2. PICK b \in 0 .. n - 1 : a = Edge(data, d, b)
    BY <1>5, <2>1
  <2> QED BY <1>5, <2>1, <2>2
<1>11. TimeSet(DOMAIN aligned.samples)
  <2> DEFINE g == [b \in 0 .. n - 1 |-> Edge(data, d, b)]
             E == {Edge(data, d, b) : b \in 0 .. n - 1}
  <2>1. g \in Surjection(0 .. n - 1, E)
    BY DEF Surjection
  <2>2. IsFiniteSet(0 .. n - 1)
    BY <1>6, FS_Interval
  <2>3. E \subseteq Int
    <3>1. \A b \in 0 .. n - 1 : Edge(data, d, b) \in Int
      BY <1>0, <1>2, EdgeOrder
    <3> QED BY <3>1
  <2>4. DOMAIN aligned.samples \subseteq E
    BY <1>10
  <2> HIDE DEF E, g
  <2>5. IsFiniteSet(E)
    BY <2>1, <2>2, FS_Surjection
  <2> QED BY <2>3, <2>4, <2>5, FS_Subset DEF TimeSet
<1>12. \A t \in Times(data) :
         \E b \in 0 .. n - 1 :
           /\ At(data, d, b, t) /\ Edge(data, d, b) \in DOMAIN aligned.samples
           /\ aligned.samples[Edge(data, d, b)] = Sample(data, d, b)
           /\ Edge(data, d, b) >= data.start
  <2> SUFFICES ASSUME NEW t \in Times(data)
               PROVE  \E b \in 0 .. n - 1 :
                 /\ At(data, d, b, t) /\ Edge(data, d, b) \in DOMAIN aligned.samples
                 /\ aligned.samples[Edge(data, d, b)] = Sample(data, d, b)
                 /\ Edge(data, d, b) >= data.start
    OBVIOUS
  <2>1. PICK b \in 0 .. n - 1 : /\ b = (t - data.start) \div d
                                /\ At(data, d, b, t) /\ Edge(data, d, b) >= data.start
    BY <1>8
  <2>2. Edge(data, d, b) \in DOMAIN aligned.samples
    BY <1>9, <2>1
  <2>3. aligned.samples[Edge(data, d, b)] = Sample(data, d, b)
    BY <1>5, <1>9, <2>2
  <2> QED BY <2>1, <2>2, <2>3
<1> QED BY <1>1, <1>2, <1>10, <1>11, <1>12 DEF n

(* What a check of a rule over several sequences reports.                  *)
LEMMA FoundIs ==
  ASSUME NEW r, ~Single(r), NEW asked, NEW content,
         Checked(r, asked, content).status = "ok"
  PROVE  Checked(r, asked, content).violations =
           {t \in DOMAIN content :
              /\ HasLater(DOMAIN content, t, MaxOffset(r))
              /\ asked # NoRange => asked.start <= t /\ t <= asked.end
              /\ Unresolved(r, content, t) = {}
              /\ Total(r, content, t) > r.bound}
<1>1. Failure.status # "ok"
  BY DEF Failure
<1>2. Anchored(r, asked, DOMAIN content) = asked.start
  BY DEF Anchored
<1> QED BY <1>1, <1>2 DEF Checked

(* Without offsets, those are the rows that exceed the bound.              *)
LEMMA FoundRows ==
  ASSUME NEW r \in Rules, ~Single(r), MaxOffset(r) = 0, NEW asked, NEW content,
         TimeSet(DOMAIN content), Checked(r, asked, content).status = "ok"
  PROVE  \A t : t \in Checked(r, asked, content).violations
                  <=> /\ t \in DOMAIN content
                      /\ asked # NoRange => asked.start <= t /\ t <= asked.end
                      /\ Exceeds(r, content[t])
<1> DEFINE V == Checked(r, asked, content).violations
<1>1. V = {t \in DOMAIN content :
             /\ HasLater(DOMAIN content, t, MaxOffset(r))
             /\ asked # NoRange => asked.start <= t /\ t <= asked.end
             /\ Unresolved(r, content, t) = {}
             /\ Total(r, content, t) > r.bound}
  BY FoundIs
<1>2. \A t \in DOMAIN content :
        /\ HasLater(DOMAIN content, t, MaxOffset(r))
        /\ (Unresolved(r, content, t) = {} /\ Total(r, content, t) > r.bound)
             <=> Exceeds(r, content[t])
  BY RowIs
<1> HIDE DEF V
<1>3. \A t : t \in V <=> /\ t \in DOMAIN content
                         /\ asked # NoRange => asked.start <= t /\ t <= asked.end
                         /\ Exceeds(r, content[t])
  <2> SUFFICES ASSUME NEW t
               PROVE  (t \in V) <=> /\ t \in DOMAIN content
                                    /\ asked # NoRange => asked.start <= t /\ t <= asked.end
                                    /\ Exceeds(r, content[t])
    OBVIOUS
  <2>1. CASE t \notin DOMAIN content
    BY <1>1, <2>1
  <2>2. CASE t \in DOMAIN content
    <3>1. (t \in V) <=> /\ HasLater(DOMAIN content, t, MaxOffset(r))
                        /\ asked # NoRange => asked.start <= t /\ t <= asked.end
                        /\ Unresolved(r, content, t) = {}
                        /\ Total(r, content, t) > r.bound
      BY <1>1, <2>2
    <3> QED BY <1>2, <2>2, <3>1
  <2> QED BY <2>1, <2>2
<1> QED BY <1>3 DEF V

LEMMA ViolatingRows ==
  ASSUME WindowPart, MaxOffset(rule) = 0, TimeSet(Times(data)),
         DOMAIN data.points = SequencesOf(rule),
         \A s \in SequencesOf(rule), t \in Times(data) : data.points[s][t] = live[s][t]
  PROVE  \A t : t \in Violating(Times(data))
                  <=> t \in Times(data) /\ Exceeds(rule, Snapshot(data, t))
<1> DEFINE T == Times(data)
           content == [t \in T |-> [s \in SequencesOf(rule) |-> live[s][t]]]
           V == Violating(T)
<1>1. V = {t \in T : /\ HasLater(T, t, MaxOffset(rule))
                     /\ Unresolved(rule, content, t) = {}
                     /\ Total(rule, content, t) > rule.bound}
  BY DEF Violating
<1>2. \A t \in T : content[t] = Snapshot(data, t)
  BY DEF Snapshot
<1>3. DOMAIN content = T /\ rule \in Rules
  BY DEF WindowPart
<1> HIDE DEF content, T, V
<1>4. ASSUME NEW t \in T
      PROVE  /\ HasLater(T, t, MaxOffset(rule))
             /\ (Unresolved(rule, content, t) = {} /\ Total(rule, content, t) > rule.bound)
                  <=> Exceeds(rule, content[t])
  <2>1. TimeSet(DOMAIN content) /\ t \in DOMAIN content
    BY <1>3 DEF T
  <2> QED BY <1>3, <2>1, RowIs
<1>5. \A t : (t \in V) <=> (t \in T /\ Exceeds(rule, Snapshot(data, t)))
  BY <1>1, <1>2, <1>4
<1> QED BY <1>5 DEF V, T

(* Of a rule without offsets over sequences sampled together, a check      *)
(* finds every violation, as one of the bucket that its time lies in, and  *)
(* samples filled in between make no violation where there is none:        *)
(* whatever the rules, the batches and the size of the window.             *)
THEOREM SimultaneousIsExact == Spec => []SimultaneousExact
<1>1. CheckInv => SimultaneousExact
  <2> SUFFICES ASSUME CheckInv, phase = "checked", outcome.status = "ok",
                      ~Single(rule), MaxOffset(rule) = 0, Simultaneous
               PROVE  LET violating == Violating(UNION {TimesIn(s) : s \in SequencesOf(rule)})
                      IN /\ \A t \in violating :
                              \E a \in outcome.violations :
                                a <= t /\ t - a < Interval(data.points)
                         /\ outcome.violations # {} => violating # {}
    BY DEF SimultaneousExact, Checking
  <2> DEFINE T == UNION {TimesIn(s) : s \in SequencesOf(rule)}
             violating == Violating(T)
             V == outcome.violations
             content == aligned.samples
             d == Interval(data.points)
             n == Buckets(data, d)
  <2>1. /\ WindowPart /\ RangePart /\ watermark \in Int /\ data = Queried
        /\ Checkable /\ aligned = Samples /\ aligned.ok
        /\ outcome = Checked(rule, range, content)
    BY DEF CheckInv, CheckPart
  <2>2. Complete
    BY <2>1 DEF Checkable
  <2>3. /\ Assembled(data) /\ Together(data)
        /\ DOMAIN data.points = SequencesOf(rule) /\ SequencesOf(rule) # {}
        /\ \A s \in SequencesOf(rule), t \in Times(data) : data.points[s][t] = live[s][t]
        /\ TimeSet(Times(data))
        /\ Times(data) = T
    BY <2>1, <2>2, QueriedTogether
  <2>4. \A t : t \in violating <=> t \in Times(data) /\ Exceeds(rule, Snapshot(data, t))
    BY <2>1, <2>3, ViolatingRows
  <2>5. /\ Gaps(data.points) # {} /\ d \in Int /\ d > 0
        /\ \A a \in DOMAIN content :
             \E b \in 0 .. n - 1 : a = Edge(data, d, b) /\ content[a] = Sample(data, d, b)
        /\ TimeSet(DOMAIN content)
        /\ \A t \in Times(data) :
             \E b \in 0 .. n - 1 :
               /\ At(data, d, b, t) /\ Edge(data, d, b) \in DOMAIN content
               /\ content[Edge(data, d, b)] = Sample(data, d, b)
               /\ Edge(data, d, b) >= data.start
    <3> DEFINE e == d
    <3>1. e \in {Interval(data.points)}
      OBVIOUS
    <3> HIDE DEF e
    <3>2. /\ Gaps(data.points) # {} /\ e \in Int /\ e > 0
          /\ \A a \in DOMAIN aligned.samples :
               \E b \in 0 .. Buckets(data, e) - 1 :
                 a = Edge(data, e, b) /\ aligned.samples[a] = Sample(data, e, b)
          /\ TimeSet(DOMAIN aligned.samples)
          /\ \A t \in Times(data) :
               \E b \in 0 .. Buckets(data, e) - 1 :
                 /\ At(data, e, b, t) /\ Edge(data, e, b) \in DOMAIN aligned.samples
                 /\ aligned.samples[Edge(data, e, b)] = Sample(data, e, b)
                 /\ Edge(data, e, b) >= data.start
      BY <2>1, <2>2, <3>1, SamplesAre
    <3> QED BY <3>2 DEF e
  <2>6. rule \in Rules
    BY <2>1 DEF WindowPart
  <2>7. \A t : t \in V <=> /\ t \in DOMAIN content
                           /\ range # NoRange => range.start <= t /\ t <= range.end
                           /\ Exceeds(rule, content[t])
    <3>1. Checked(rule, range, content).status = "ok"
      BY <2>1
    <3> HIDE DEF content
    <3>2. \A t : t \in Checked(rule, range, content).violations
                   <=> /\ t \in DOMAIN content
                       /\ range # NoRange => range.start <= t /\ t <= range.end
                       /\ Exceeds(rule, content[t])
      BY <2>5, <2>6, <3>1, FoundRows
    <3> QED BY <2>1, <3>2
  <2> DEFINE D == {Interval(data.points)}
  <2>8. d \in D
    OBVIOUS
  <2> HIDE DEF d, T, violating, V, content, n
  <2>9. ASSUME NEW t \in violating
        PROVE  \E a \in V : a <= t /\ t - a < d
    <3>1. t \in Times(data) /\ Exceeds(rule, Snapshot(data, t))
      BY <2>4
    <3>2. PICK b \in 0 .. n - 1 :
            /\ At(data, d, b, t) /\ Edge(data, d, b) \in DOMAIN content
            /\ content[Edge(data, d, b)] = Sample(data, d, b)
            /\ Edge(data, d, b) >= data.start
      BY <2>5, <3>1
    <3> DEFINE a == Edge(data, d, b)
    <3>3. b \in 0 .. Buckets(data, d) - 1
      BY DEF n
    <3>4. Sample(data, d, b) = Snapshot(data, t)
      BY <2>3, <2>5, <2>8, <3>1, <3>2, <3>3, SampleAt
    <3>5. a \in Int /\ t \in Int /\ a <= t /\ t < Edge(data, d, b + 1)
      BY <2>3, <2>5, <3>1, <3>2 DEF At, TimeSet
    <3>6. Edge(data, d, b + 1) = a + d
      <4>1. b \in Int /\ data.start \in Int
        BY <2>3, <3>3, EdgesBefore, <2>5 DEF Assembled
      <4>2. (b + 1) * d = b * d + d
        BY <2>5, <4>1
      <4>3. b * d \in Int
        BY <2>5, <4>1
      <4> QED BY <2>5, <4>1, <4>2, <4>3 DEF Edge
    <3>7. range # NoRange => range.start <= a /\ a <= range.end
      <4> SUFFICES ASSUME range # NoRange PROVE range.start <= a /\ a <= range.end
        OBVIOUS
      <4>1. data.start = range.start /\ data.end = range.end + 1
        BY <2>1, <2>2, QueriedHolds
      <4>2. range.end \in Int /\ range.start \in Int
        BY <2>1 DEF RangePart
      <4>3. t < data.end
        BY <3>1 DEF Times, Within
      <4> QED BY <3>2, <3>5, <4>1, <4>2, <4>3
    <3>8. Exceeds(rule, content[a]) /\ a \in DOMAIN content
      BY <3>1, <3>2, <3>4
    <3>9. a \in V
      BY <2>7, <3>7, <3>8
    <3> HIDE DEF a
    <3>10. a <= t /\ t - a < d
      BY <2>5, <3>5, <3>6
    <3> QED BY <3>9, <3>10
  <2>10. ASSUME NEW a \in V
         PROVE  violating # {}
    <3>1. a \in DOMAIN content /\ Exceeds(rule, content[a])
      BY <2>7
    <3>2. PICK b \in 0 .. n - 1 : a = Edge(data, d, b) /\ content[a] = Sample(data, d, b)
      BY <2>5, <3>1
    <3> DEFINE row == Sample(data, d, b)
    <3>3. b \in 0 .. Buckets(data, d) - 1
      BY DEF n
    <3>4. Drawn(data, row)
      BY <2>3, <2>5, <2>8, <3>3, TogetherSample
    <3>5. Exceeds(rule, row)
      BY <3>1, <3>2
    <3> HIDE DEF row
    <3>6. \E t \in Times(data) : Exceeds(rule, Snapshot(data, t))
      BY <2>3, <2>6, <3>4, <3>5, DrawnExceeds
    <3> QED BY <2>4, <3>6
  <2> QED BY <2>9, <2>10 DEF d, T, violating, V
<1> QED BY <1>1, CheckInvariant, PTL
=============================================================================
