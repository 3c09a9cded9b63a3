------------------------ MODULE DerivedRefreshProofs ------------------------
(***************************************************************************)
(* Proofs about DerivedRefresh for any callers, formulas, batches and      *)
(* window size: refreshes by range patch every series in the order of the  *)
(* updates; and in a service of one project, while one caller at a time    *)
(* refreshes, no derived point is wrong, and a series is whole as soon as  *)
(* its sources have points at the same times.                              *)
(***************************************************************************)
EXTENDS DerivedRefresh, FiniteSetTheorems, TLAPS

(* The operators below take the points L of all sources, the watermark     *)
(* mark of a project or the record x of a caller as parameters, so that    *)
(* lemmas can speak of them before and after a step.                       *)

TimeSet(S) == IsFiniteSet(S) /\ S \subseteq Int

(* Some source of d, or every one, has a point at t.                       *)
HasPoint(L, d, t) == \E s \in Formula[d] : t \in DOMAIN L[s]
EveryPoint(L, d, t) == \A s \in Formula[d] : t \in DOMAIN L[s]

(* v is the point of d at t that its formula gives on L.                   *)
Right(L, d, t, v) ==
  /\ HasPoint(L, d, t) /\ \A s \in Formula[d] : HasValue(L[s], t)
  /\ v = [s \in Formula[d] |-> ValueAt(L[s], t)]

(* Inside of the window, every source of d has a point at t, and not all   *)
(* of them got it ahead of the watermark (A: at which times each did).     *)
Sampled(L, A, mark, d, t) ==
  /\ mark # NoTime /\ t > mark - Size /\ EveryPoint(L, d, t)
  /\ \E s \in Formula[d] : t \notin A[s]

(* The next time after t at which a source of d has a point is one at      *)
(* which another has none: d may lack a point at t.                        *)
Uneven(L, d, t) ==
  \E u \in Int :
    /\ u > t /\ HasPoint(L, d, u) /\ ~EveryPoint(L, d, u)
    /\ \A w \in Int : HasPoint(L, d, w) => ~(t < w /\ w < u)

InRange(range, t) == range.start <= t /\ t <= range.end

(* A caller that has read nothing yet will patch series d.                 *)
Ranged(x, d) ==
  /\ x.pc = "reading" /\ x.report # NoReport
  /\ ChangedSources(x.report, d) # {} /\ HasRange(x.report, d)

(* A caller has yet to publish what d has at t.                            *)
Mends(x, d, t) ==
  \/ /\ x.pc \in {"locking", "reading"} /\ x.report = NoReport
     /\ ProjectOf[d] = x.project
  \/ /\ x.pc = "reading" /\ x.report # NoReport
     /\ ChangedSources(x.report, d) # {} /\ ~HasRange(x.report, d)
  \/ Ranged(x, d) /\ InRange(RangeFor(x.report, d), t)
  \/ d \in x.full
  \/ /\ d \in DOMAIN x.items
     /\ x.items[d].incremental => InRange(x.items[d], t)

(* No source of d has a point between t and the range of the refresh, whose*)
(* patch will thus begin at t or before.                                   *)
Adjoins(x, L, d, t) ==
  /\ Ranged(x, d) /\ t < RangeFor(x.report, d).start
  /\ \A w \in Int : HasPoint(L, d, w) => ~(t < w /\ w < RangeFor(x.report, d).start)

(* The points that are to be published for d are right, and none that can  *)
(* be told is missing.                                                     *)
ItemRight(item, L, A, mark, d) ==
  /\ \A t \in DOMAIN item.points : Right(L, d, t, item.points[t])
  /\ \A t \in Int :
       /\ Sampled(L, A, mark, d, t)
       /\ item.incremental => InRange(item, t)
       => t \in DOMAIN item.points \/ Uneven(L, d, t)
-----------------------------------------------------------------------------
(***************************************************************************)
(* The invariant: types, that a caller is alone, and what is known of the  *)
(* items under way, of derived points that are there and of those that are *)
(* not, as long as refreshes have not overlapped.                          *)
(***************************************************************************)
WindowOK ==
  /\ generation \in [Projects -> Nat]
  /\ watermark \in [Projects -> Int \cup {NoTime}]
  /\ \A s \in Sources :
       /\ TimeSet(DOMAIN live[s])
       /\ latest[s] \in Int \cup {NoTime}
       /\ \A t \in DOMAIN live[s] :
            /\ latest[s] # NoTime /\ t <= latest[s]
            /\ watermark[ProjectOf[s]] # NoTime
            /\ t <= watermark[ProjectOf[s]] \/ t \in ahead[s]
  /\ DOMAIN derived = Derived
  /\ \A d \in Derived : DOMAIN derived[d] \subseteq Int

PublishedOK ==
  /\ enabled \subseteq Derived
  /\ lastPublished \in Nat
  /\ patched \in [Derived -> Nat]
  /\ \A d \in Derived : patched[d] <= lastPublished

ReportOK(report, p) ==
  \/ report = NoReport
  \/ /\ report.generation \in Nat \ {0}
     /\ report.windowStart \in Int
     /\ report.changed \subseteq Sources \cap InProject(p)
     /\ report.safe \subseteq report.changed
     /\ \A s \in report.safe :
          TimeSet(report.points[s]) /\ report.points[s] # {}

ItemOK(item, report) ==
  /\ item.start \in Int /\ item.end \in Int
  /\ item.incremental \in BOOLEAN /\ (item.incremental => report # NoReport)
  /\ DOMAIN item.points \subseteq Int

CallerOK(x) ==
  /\ x = [pc |-> x.pc, project |-> x.project, report |-> x.report,
          full |-> x.full, items |-> x.items]
  /\ x.pc \in {"idle", "locking", "reading", "readingFull", "publishing"}
  /\ x.pc # "idle" => x.project \in Projects
  /\ x.pc = "locking" => x.report = NoReport
  /\ ReportOK(x.report, x.project)
  /\ x.pc # "readingFull" => x.full = {}
  /\ x.pc \notin {"readingFull", "publishing"} => DOMAIN x.items = {}
  /\ (DOMAIN x.items) \cup x.full \subseteq Derived \cap InProject(x.project)
  /\ (DOMAIN x.items) \cap x.full = {}
  /\ \A d \in DOMAIN x.items : ItemOK(x.items[d], x.report)

ShapeInv ==
  /\ WindowOK /\ PublishedOK
  /\ DOMAIN caller = Callers
  /\ \A c \in Callers : CallerOK(caller[c])

OneProject == \A p, q \in Projects : p = q

AloneInv ==
  /\ \A p \in Projects : lastPublished <= generation[p]
  /\ \A c \in Callers :
       caller[c].pc # "idle" /\ caller[c].report # NoReport =>
         caller[c].report.generation <= generation[caller[c].project]
  /\ ~overlapped =>
       \A c \in Callers : caller[c].pc # "idle" =>
         /\ \A b \in Callers \ {c} : caller[b].pc = "idle"
         /\ caller[c].report # NoReport =>
              caller[c].report.generation = generation[caller[c].project]

ItemsInv ==
  ~overlapped =>
    \A c \in Callers : \A d \in enabled \cap DOMAIN caller[c].items :
      ItemRight(caller[c].items[d], live, ahead, watermark[ProjectOf[d]], d)

SoundInv ==
  ~overlapped =>
    \A d \in enabled : \A t \in DOMAIN derived[d] :
      \/ Right(live, d, t, derived[d][t])
      \/ \E c \in Callers : Mends(caller[c], d, t)

WholeInv ==
  ~overlapped =>
    \A d \in enabled : \A t \in Int :
      Sampled(live, ahead, watermark[ProjectOf[d]], d, t) =>
        \/ t \in DOMAIN derived[d]
        \/ Uneven(live, d, t)
        \/ \E c \in Callers : Mends(caller[c], d, t) \/ Adjoins(caller[c], live, d, t)
-----------------------------------------------------------------------------
(* A finite set of times has a first and a last one: the times from one on *)
(* become fewer with every later one, and not for ever.                    *)
LEMMA HasGreatest ==
  ASSUME NEW S, IsFiniteSet(S), S # {}, S \subseteq Int
  PROVE  \E x \in S : \A y \in S : x >= y
<1> DEFINE U(x) == {y \in S : y >= x}
           T == {U(x) : x \in S}
<1>1. T \subseteq FiniteSubsetsOf(S) /\ T # {}
  <2>1. \A x \in S : U(x) \in SUBSET S /\ IsFiniteSet(U(x))
    BY FS_Subset
  <2>2. \A V \in T : V \in FiniteSubsetsOf(S)
    BY <2>1 DEF FiniteSubsetsOf
  <2>3. T # {}
    OBVIOUS
  <2> HIDE DEF T
  <2> QED BY <2>2, <2>3
<1>2. PICK V \in T : \A W \in T : <<W, V>> \notin StrictSubsetOrdering(S)
  BY <1>1, FS_StrictSubsetOrderingWellFounded, WFMin
<1>3. PICK x \in S : V = U(x)
  BY <1>2
<1>4. ASSUME NEW y \in S, ~(x >= y)
      PROVE  FALSE
  <2>1. x \in Int /\ y \in Int /\ y > x
    BY <1>4
  <2>2. \A z \in S : z \in Int /\ (z >= y => z >= x) /\ x >= x /\ ~(x >= y)
    BY <2>1
  <2>3. <<U(y), U(x)>> \in StrictSubsetOrdering(S)
    <3>1. U(y) \subseteq U(x)
      BY <2>2, Zenon
    <3>2. x \in U(x) /\ x \notin U(y)
      BY <2>2, Zenon
    <3>3. U(x) \subseteq S /\ U(y) \subseteq S
      OBVIOUS
    <3> HIDE DEF U
    <3> QED BY <3>1, <3>2, <3>3 DEF StrictSubsetOrdering
  <2> QED BY <1>2, <1>3, <2>3
<1> QED BY <1>4

LEMMA HasLeast ==
  ASSUME NEW S, IsFiniteSet(S), S # {}, S \subseteq Int
  PROVE  \E x \in S : \A y \in S : x <= y
<1> DEFINE U(x) == {y \in S : y <= x}
           T == {U(x) : x \in S}
<1>1. T \subseteq FiniteSubsetsOf(S) /\ T # {}
  <2>1. \A x \in S : U(x) \in SUBSET S /\ IsFiniteSet(U(x))
    BY FS_Subset
  <2>2. \A V \in T : V \in FiniteSubsetsOf(S)
    BY <2>1 DEF FiniteSubsetsOf
  <2>3. T # {}
    OBVIOUS
  <2> HIDE DEF T
  <2> QED BY <2>2, <2>3
<1>2. PICK V \in T : \A W \in T : <<W, V>> \notin StrictSubsetOrdering(S)
  BY <1>1, FS_StrictSubsetOrderingWellFounded, WFMin
<1>3. PICK x \in S : V = U(x)
  BY <1>2
<1>4. ASSUME NEW y \in S, ~(x <= y)
      PROVE  FALSE
  <2>1. x \in Int /\ y \in Int /\ y < x
    BY <1>4
  <2>2. \A z \in S : z \in Int /\ (z <= y => z <= x) /\ x <= x /\ ~(x <= y)
    BY <2>1
  <2>3. <<U(y), U(x)>> \in StrictSubsetOrdering(S)
    <3>1. U(y) \subseteq U(x)
      BY <2>2, Zenon
    <3>2. x \in U(x) /\ x \notin U(y)
      BY <2>2, Zenon
    <3>3. U(x) \subseteq S /\ U(y) \subseteq S
      OBVIOUS
    <3> HIDE DEF U
    <3> QED BY <3>1, <3>2, <3>3 DEF StrictSubsetOrdering
  <2> QED BY <1>2, <1>3, <2>3
<1> QED BY <1>4

LEMMA Extremes ==
  ASSUME NEW S, IsFiniteSet(S), S # {}, S \subseteq Int
  PROVE  /\ Least(S) \in S /\ \A x \in S : Least(S) <= x
         /\ Greatest(S) \in S /\ \A x \in S : x <= Greatest(S)
<1>1. Least(S) \in S /\ \A x \in S : Least(S) <= x
  BY HasLeast DEF Least
<1>2. Greatest(S) \in S /\ \A x \in S : Greatest(S) >= x
  BY HasGreatest DEF Greatest
<1>3. \A x \in S : Greatest(S) >= x => x <= Greatest(S)
  BY <1>2
<1> QED BY <1>1, <1>2, <1>3

(* The image of a finite set is finite.                                    *)
LEMMA FiniteImage ==
  ASSUME NEW f, NEW S, IsFiniteSet(S)
  PROVE  IsFiniteSet({f[x] : x \in S})
<1> DEFINE g == [x \in S |-> f[x]]
           T == {f[x] : x \in S}
<1>1. g \in Surjection(S, T)
  BY DEF Surjection
<1> HIDE DEF g, T
<1>2. IsFiniteSet(T)
  BY <1>1, FS_Surjection
<1> QED BY <1>2 DEF T

LEMMA ExtremeIs ==
  ASSUME NEW S, S \subseteq Int, NEW x \in S
  PROVE  /\ (\A y \in S : x <= y) => Least(S) = x
         /\ (\A y \in S : y <= x) => Greatest(S) = x
<1>1. ASSUME \A y \in S : x <= y
      PROVE  Least(S) = x
  <2>1. \A z \in S : (\A y \in S : z <= y) => z = x
    BY <1>1
  <2> QED BY <1>1, <2>1 DEF Least
<1>2. ASSUME \A y \in S : y <= x
      PROVE  Greatest(S) = x
  <2>1. x \in S /\ \A y \in S : x >= y
    BY <1>2
  <2>2. \A z \in S : (\A y \in S : z >= y) => z = x
    BY <1>2
  <2> QED BY <2>1, <2>2 DEF Greatest
<1> QED BY <1>1, <1>2
-----------------------------------------------------------------------------
(***************************************************************************)
(* Evaluation.  A query returns a part of a window without gaps, and what  *)
(* a formula gives on such parts is what it gives on the windows.          *)
(***************************************************************************)
Part(g, f) ==
  /\ DOMAIN g \subseteq DOMAIN f
  /\ \A t \in DOMAIN g : g[t] = f[t]
  /\ \A t, u \in DOMAIN g, w \in DOMAIN f : t <= w /\ w <= u => w \in DOMAIN g

LEMMA PartValue ==
  ASSUME NEW f, NEW g, TimeSet(DOMAIN f), Part(g, f), NEW t \in Int, HasValue(g, t)
  PROVE  HasValue(f, t) /\ ValueAt(g, t) = ValueAt(f, t)
<1> DEFINE G == {u \in DOMAIN g : u <= t}
           F == {u \in DOMAIN f : u <= t}
           H == {u \in DOMAIN g : u >= t}
           K == {u \in DOMAIN f : u >= t}
<1>1. DOMAIN g \subseteq DOMAIN f /\ DOMAIN f \subseteq Int
  BY DEF Part, TimeSet
<1>2. HasValue(f, t)
  BY <1>1 DEF HasValue
<1>3. PICK l \in DOMAIN g, r \in DOMAIN g : l <= t /\ t <= r
  BY <1>1 DEF HasValue
<1>4. /\ IsFiniteSet(F) /\ IsFiniteSet(K)
      /\ F \subseteq Int /\ K \subseteq Int /\ F # {} /\ K # {}
  <2>1. IsFiniteSet(F) /\ IsFiniteSet(K)
    BY FS_Subset DEF TimeSet
  <2>2. l \in F /\ r \in K
    BY <1>1, <1>3
  <2> QED BY <1>1, <2>1, <2>2
<1>5. Greatest(F) \in G /\ \A u \in G : u <= Greatest(F)
  <2>1. Greatest(F) \in F /\ \A u \in F : u <= Greatest(F)
    <3> HIDE DEF F
    <3> QED BY <1>4, Extremes
  <2>2. l <= Greatest(F) /\ Greatest(F) <= t /\ Greatest(F) \in DOMAIN f
    BY <1>1, <1>3, <2>1
  <2>3. Greatest(F) <= r
    BY <1>1, <1>3, <2>2
  <2>4. Greatest(F) \in DOMAIN g
    BY <1>3, <2>2, <2>3 DEF Part
  <2> QED BY <1>1, <2>1, <2>2, <2>4
<1>6. Least(K) \in H /\ \A u \in H : Least(K) <= u
  <2>1. Least(K) \in K /\ \A u \in K : Least(K) <= u
    <3> HIDE DEF K
    <3> QED BY <1>4, Extremes
  <2>2. Least(K) <= r /\ t <= Least(K) /\ Least(K) \in DOMAIN f
    BY <1>1, <1>3, <2>1
  <2>3. l <= Least(K)
    BY <1>1, <1>3, <2>2
  <2>4. Least(K) \in DOMAIN g
    BY <1>3, <2>2, <2>3 DEF Part
  <2> QED BY <1>1, <2>1, <2>2, <2>4
<1>7. Greatest(G) = Greatest(F) /\ Least(H) = Least(K)
  <2>1. G \subseteq Int /\ H \subseteq Int
    BY <1>1
  <2> HIDE DEF F, G, H, K
  <2> QED BY <1>5, <1>6, <2>1, ExtremeIs
<1>8. g[Greatest(F)] = f[Greatest(F)] /\ g[Least(K)] = f[Least(K)]
  BY <1>5, <1>6 DEF Part
<1> QED BY <1>2, <1>7, <1>8 DEF ValueAt

(* What evaluateFormula gives on the results D of a query is right, and it *)
(* has a value wherever all sources have points.                           *)
LEMMA EvaluateRight ==
  ASSUME NEW L, NEW D, NEW d \in Derived, NEW T, T \subseteq TimesOf(Formula[d], D),
         \A s \in Formula[d] : TimeSet(DOMAIN L[s]) /\ Part(D[s], L[s])
  PROVE  LET e == Evaluate(Formula[d], D, T) IN
         /\ DOMAIN e \subseteq T /\ T \subseteq Int
         /\ \A t \in DOMAIN e : Right(L, d, t, e[t])
         /\ \A t \in T : EveryPoint(D, d, t) => t \in DOMAIN e
<1> DEFINE e == Evaluate(Formula[d], D, T)
           defined == {t \in T : \A s \in Formula[d] : HasValue(D[s], t)}
<1>1. e = [t \in defined |-> [s \in Formula[d] |-> ValueAt(D[s], t)]]
  BY DEF Evaluate
<1>2. \A t \in T : t \in Int /\ HasPoint(L, d, t)
  BY DEF TimesOf, Part, TimeSet, HasPoint
<1>3. ASSUME NEW t \in DOMAIN e
      PROVE  Right(L, d, t, e[t])
  <2>1. t \in T /\ t \in Int /\ \A s \in Formula[d] : HasValue(D[s], t)
    BY <1>1, <1>2, <1>3
  <2>2. \A s \in Formula[d] : HasValue(L[s], t) /\ ValueAt(D[s], t) = ValueAt(L[s], t)
    BY <2>1, PartValue
  <2>3. e[t] = [s \in Formula[d] |-> ValueAt(D[s], t)]
    BY <1>1, <1>3
  <2>4. e[t] = [s \in Formula[d] |-> ValueAt(L[s], t)]
    BY <2>2, <2>3
  <2> QED BY <1>2, <2>1, <2>2, <2>4 DEF Right
<1>4. ASSUME NEW t \in T, EveryPoint(D, d, t)
      PROVE  t \in DOMAIN e
  BY <1>1, <1>4 DEF EveryPoint, HasValue
<1>5. DOMAIN e \subseteq T
  BY <1>1
<1> HIDE DEF e
<1> QED BY <1>2, <1>3, <1>4, <1>5 DEF e

(* What is pruned, and the queries of a refresh: the default range, and a  *)
(* range with one point of context on each side.                           *)
LEMMA FromPart ==
  ASSUME NEW f, NEW t \in Int, DOMAIN f \subseteq Int
  PROVE  /\ Part(From(f, t), f)
         /\ DOMAIN From(f, t) = {u \in DOMAIN f : u >= t}
         /\ \A u \in DOMAIN From(f, t) : From(f, t)[u] = f[u]
<1>1. From(f, t) = [u \in {u \in DOMAIN f : u >= t} |-> f[u]]
  BY DEF From, Restrict
<1> QED BY <1>1 DEF Part

LEMMA WithinPart ==
  ASSUME NEW f, NEW lo \in Int, NEW hi \in Int, DOMAIN f \subseteq Int
  PROVE  /\ Part(Within(f, lo, hi), f)
         /\ \A u : u \in DOMAIN Within(f, lo, hi)
                   <=> u \in DOMAIN f /\ lo <= u /\ u <= hi
<1>1. Within(f, lo, hi) = [u \in {u \in DOMAIN f : lo <= u /\ u <= hi} |-> f[u]]
  BY DEF Within, Restrict
<1> QED BY <1>1 DEF Part

LEMMA ContextPart ==
  ASSUME NEW f, TimeSet(DOMAIN f), NEW lo \in Int, NEW hi \in Int
  PROVE  LET g == Context(f, lo, hi) IN
         /\ Part(g, f)
         /\ \A t \in DOMAIN f :
              \/ t \in DOMAIN g
              \/ t < lo /\ \E u \in DOMAIN f : t < u /\ u < lo
              \/ t > hi
         /\ \A t \in DOMAIN f, u \in DOMAIN g :
              u <= t /\ t <= hi => t \in DOMAIN g
<1> DEFINE before == {u \in DOMAIN f : u < lo}
           after == {u \in DOMAIN f : u > hi}
           first == IF before = {} THEN lo ELSE Greatest(before)
           last == IF after = {} THEN hi ELSE Least(after)
           g == Context(f, lo, hi)
<1>1. DOMAIN f \subseteq Int
  BY DEF TimeSet
<1>2. /\ IsFiniteSet(before) /\ IsFiniteSet(after)
      /\ before \subseteq Int /\ after \subseteq Int
  BY <1>1, FS_Subset DEF TimeSet
<1>3. /\ first \in Int /\ first <= lo
      /\ \A u \in before : u <= first /\ first \in before
  <2>1. CASE before = {}
    BY <2>1
  <2>2. CASE before # {}
    <3>1. Greatest(before) \in before /\ \A u \in before : u <= Greatest(before)
      <4> HIDE DEF before
      <4> QED BY <1>2, <2>2, Extremes
    <3> QED BY <1>1, <2>2, <3>1
  <2> QED BY <2>1, <2>2
<1>4. last \in Int /\ last >= hi
  <2>1. CASE after = {}
    BY <2>1
  <2>2. CASE after # {}
    <3>1. Least(after) \in after
      <4> HIDE DEF after
      <4> QED BY <1>2, <2>2, Extremes
    <3> QED BY <1>1, <2>2, <3>1
  <2> QED BY <2>1, <2>2
<1>5. g = [u \in {u \in DOMAIN f : first <= u /\ u <= last} |-> f[u]]
  BY DEF Context, Within, Restrict
<1> HIDE DEF first, last, g
<1>6. Part(g, f)
  BY <1>1, <1>3, <1>4, <1>5 DEF Part
<1>7. ASSUME NEW t \in DOMAIN f, t \notin DOMAIN g, ~(t > hi)
      PROVE  t < lo /\ \E u \in DOMAIN f : t < u /\ u < lo
  <2>1. t \in Int /\ ~(first <= t /\ t <= last)
    BY <1>1, <1>5, <1>7
  <2> HIDE DEF before
  <2>5. first \in Int /\ first <= lo /\ last \in Int /\ last >= hi
    BY <1>3, <1>4
  <2>2. t < first
    BY <1>7, <2>1, <2>5
  <2>3. t < lo
    BY <2>1, <2>2, <2>5
  <2> USE DEF before
  <2>4. first \in before
    BY <1>3, <1>7, <2>3
  <2> QED BY <2>2, <2>3, <2>4
<1>8. ASSUME NEW t \in DOMAIN f, NEW u \in DOMAIN g, u <= t, t <= hi
      PROVE  t \in DOMAIN g
  <2>1. u \in DOMAIN f /\ first <= u
    BY <1>5
  <2>2. t \in Int /\ u \in Int /\ first \in Int /\ last \in Int /\ last >= hi
    BY <1>1, <1>3, <1>4, <2>1
  <2>3. first <= t /\ t <= last
    BY <1>8, <2>1, <2>2
  <2> QED BY <1>5, <2>3
<1> QED BY <1>6, <1>7, <1>8 DEF g

(* The next time at which some source of d has a point.                    *)
LEMMA NextPoint ==
  ASSUME NEW L, NEW d \in Derived, \A s \in Sources : TimeSet(DOMAIN L[s]),
         NEW t \in Int, NEW g \in Int, HasPoint(L, d, g), t < g
  PROVE  \E u \in Int : /\ t < u /\ u <= g /\ HasPoint(L, d, u)
                        /\ \A w \in Int : HasPoint(L, d, w) => ~(t < w /\ w < u)
<1> DEFINE dom == [s \in Formula[d] |-> DOMAIN L[s]]
           all == UNION {dom[s] : s \in Formula[d]}
           later == {w \in all : w > t}
<1>1. Formula[d] \subseteq Sources /\ IsFiniteSet(Formula[d])
  BY DerivedRefreshAssumption, FS_Subset DEF Sources
<1>2. IsFiniteSet({dom[s] : s \in Formula[d]})
  <2> HIDE DEF dom
  <2> QED BY <1>1, FiniteImage
<1>3. \A T \in {dom[s] : s \in Formula[d]} : IsFiniteSet(T) /\ T \subseteq Int
  BY <1>1 DEF TimeSet
<1>4. IsFiniteSet(all) /\ all \subseteq Int
  <2> DEFINE D == {dom[s] : s \in Formula[d]}
  <2>1. IsFiniteSet(D) /\ \A T \in D : IsFiniteSet(T) /\ T \subseteq Int
    BY <1>2, <1>3
  <2> HIDE DEF D
  <2>2. IsFiniteSet(UNION D) /\ UNION D \subseteq Int
    BY <2>1, FS_UNION
  <2> QED BY <2>2 DEF D
<1>5. \A w : w \in all <=> HasPoint(L, d, w)
  BY DEF HasPoint
<1> HIDE DEF all
<1>6. IsFiniteSet(later) /\ g \in later /\ later \subseteq Int
  BY <1>4, <1>5, FS_Subset
<1>7. PICK u \in later : \A w \in later : u <= w
  <2> HIDE DEF later
  <2> QED BY <1>6, HasLeast
<1>8. u \in Int /\ t < u /\ u <= g /\ HasPoint(L, d, u)
  BY <1>5, <1>6, <1>7
<1>9. ASSUME NEW w \in Int, HasPoint(L, d, w), t < w, w < u
      PROVE  FALSE
  BY <1>5, <1>7, <1>8, <1>9
<1> QED BY <1>8, <1>9

(* incrementalRangeFor: the range has all new points of the sources of d,  *)
(* and the first instant of the window if one of them has been evicted     *)
(* from.                                                                   *)
LEMMA RangeForBounds ==
  ASSUME NEW report, NEW p, ReportOK(report, p), NEW d \in Derived,
         HasRange(report, d), ChangedSources(report, d) # {}
  PROVE  LET range == RangeFor(report, d) IN
         /\ range.start \in Int /\ range.end \in Int /\ range.start <= range.end
         /\ \A s \in ChangedSources(report, d) : \A t \in report.points[s] :
              InRange(range, t)
         /\ ChangedSources(report, d) \cap report.evicted # {} =>
              range.start <= report.windowStart
<1> DEFINE changed == ChangedSources(report, d)
           sets == {report.points[s] : s \in changed}
           times == UNION sets
           start == IF changed \cap report.evicted # {}
                    THEN {report.windowStart} ELSE {}
           range == RangeFor(report, d)
<1>1. report # NoReport /\ changed \subseteq report.safe
  BY DEF HasRange
<1>2. IsFiniteSet(changed)
  <2>1. Formula[d] \subseteq Sources /\ IsFiniteSet(Formula[d])
    BY DerivedRefreshAssumption, FS_Subset DEF Sources
  <2> QED BY <2>1, FS_Subset DEF ChangedSources
<1>3. \A s \in changed : TimeSet(report.points[s]) /\ report.points[s] # {}
  BY <1>1 DEF ReportOK
<1>4. report.windowStart \in Int
  BY <1>1 DEF ReportOK
<1>5. range = [start |-> Least(times \cup start), end |-> Greatest(times)]
  BY DEF RangeFor
<1> HIDE DEF changed, range
<1>6. IsFiniteSet(sets) /\ \A T \in sets : IsFiniteSet(T) /\ T \subseteq Int
  <2>1. IsFiniteSet(sets)
    BY <1>2, FiniteImage
  <2> QED BY <1>3, <2>1 DEF TimeSet
<1>7. IsFiniteSet(times) /\ times \subseteq Int /\ times # {}
  <2>1. times # {}
    BY <1>3 DEF changed
  <2> HIDE DEF sets
  <2> QED BY <1>6, <2>1, FS_UNION
<1>8. \A s \in changed : report.points[s] \subseteq times
  OBVIOUS
<1> HIDE DEF times
<1>9. /\ IsFiniteSet(times \cup start) /\ times \cup start \subseteq Int
      /\ times \cup start # {}
  <2>1. IsFiniteSet(start)
    BY FS_Singleton, FS_EmptySet
  <2> QED BY <1>4, <1>7, <2>1, FS_Union
<1>10. /\ Least(times \cup start) \in Int
       /\ \A t \in times \cup start : Least(times \cup start) <= t
       /\ Greatest(times) \in times
       /\ \A t \in times : t <= Greatest(times)
  <2>1. Greatest(times) \in times /\ \A t \in times : t <= Greatest(times)
    BY <1>7, Extremes
  <2> DEFINE all == times \cup start
  <2>2. IsFiniteSet(all) /\ all \subseteq Int /\ all # {}
    BY <1>9
  <2> HIDE DEF all
  <2>3. Least(all) \in all /\ \A t \in all : Least(all) <= t
    BY <2>2, Extremes
  <2>4. Least(all) \in Int
    BY <2>2, <2>3
  <2> QED BY <2>1, <2>3, <2>4 DEF all
<1>11. range.start = Least(times \cup start) /\ range.end = Greatest(times)
  BY <1>5
<1>12. ASSUME NEW s \in changed, NEW t \in report.points[s]
       PROVE  InRange(range, t)
  BY <1>8, <1>10, <1>11 DEF InRange
<1>13. changed \cap report.evicted # {} => range.start <= report.windowStart
  BY <1>10, <1>11
<1>14. range.start \in Int /\ range.end \in Int /\ range.start <= range.end
  BY <1>7, <1>10, <1>11
<1> QED BY <1>12, <1>13, <1>14 DEF changed, range

(* The points before a range that its sources were queried with.           *)
Before(D, s, t) == {u \in DOMAIN D[s] : u < t}
Preceding(D, d, t) ==
  UNION {IF Before(D, s, t) = {} THEN {} ELSE {Greatest(Before(D, s, t))}
         : s \in Formula[d]}

LEMMA PrecedingPoints ==
  ASSUME NEW D, NEW d \in Derived, NEW t \in Int,
         \A s \in Formula[d] : TimeSet(DOMAIN D[s])
  PROVE  /\ IsFiniteSet(Preceding(D, d, t)) /\ Preceding(D, d, t) \subseteq Int
         /\ \A x \in Preceding(D, d, t) : \E s \in Formula[d] :
              /\ x \in DOMAIN D[s] /\ x < t
              /\ \A u \in DOMAIN D[s] : u < t => u <= x
         /\ \A s \in Formula[d] : \A u \in DOMAIN D[s] :
              u < t => \E x \in Preceding(D, d, t) : u <= x /\ x \in DOMAIN D[s] /\ x < t
<1> DEFINE f == [s \in Formula[d] |-> IF Before(D, s, t) = {} THEN {}
                                      ELSE {Greatest(Before(D, s, t))}]
           sets == {f[s] : s \in Formula[d]}
<1>1. Preceding(D, d, t) = UNION sets
  BY DEF Preceding
<1>2. ASSUME NEW s \in Formula[d], Before(D, s, t) # {}
      PROVE  /\ f[s] = {Greatest(Before(D, s, t))}
             /\ Greatest(Before(D, s, t)) \in DOMAIN D[s]
             /\ Greatest(Before(D, s, t)) \in Int /\ Greatest(Before(D, s, t)) < t
             /\ \A u \in DOMAIN D[s] : u < t => u <= Greatest(Before(D, s, t))
  <2>1. IsFiniteSet(Before(D, s, t)) /\ Before(D, s, t) \subseteq Int
    BY FS_Subset DEF Before, TimeSet
  <2>2. /\ Greatest(Before(D, s, t)) \in Before(D, s, t)
        /\ \A u \in Before(D, s, t) : u <= Greatest(Before(D, s, t))
    BY <1>2, <2>1, Extremes
  <2>3. f[s] = {Greatest(Before(D, s, t))}
    BY <1>2
  <2> HIDE DEF f
  <2> QED BY <2>1, <2>2, <2>3 DEF Before
<1>3. ASSUME NEW s \in Formula[d], Before(D, s, t) = {}
      PROVE  f[s] = {}
  BY <1>3
<1>4. IsFiniteSet(Formula[d])
  BY DerivedRefreshAssumption, FS_Subset DEF Sources
<1> HIDE DEF f
<1>5. IsFiniteSet(sets)
  BY <1>4, FiniteImage
<1>6. \A T \in sets : IsFiniteSet(T) /\ T \subseteq Int
  <2>1. ASSUME NEW s \in Formula[d]
        PROVE  IsFiniteSet(f[s]) /\ f[s] \subseteq Int
    <3>1. CASE Before(D, s, t) = {}
      BY <1>3, <3>1, FS_EmptySet
    <3>2. CASE Before(D, s, t) # {}
      <4>1. PICK x \in Int : f[s] = {x}
        BY <1>2, <3>2
      <4> QED BY <4>1, FS_Singleton
    <3> QED BY <3>1, <3>2
  <2> QED BY <2>1
<1>7. IsFiniteSet(UNION sets) /\ UNION sets \subseteq Int
  <2> HIDE DEF sets
  <2> QED BY <1>5, <1>6, FS_UNION
<1>8. ASSUME NEW x \in UNION sets
      PROVE  \E s \in Formula[d] : /\ x \in DOMAIN D[s] /\ x < t
                                   /\ \A u \in DOMAIN D[s] : u < t => u <= x
  <2>1. PICK s \in Formula[d] : x \in f[s]
    BY <1>8
  <2>2. Before(D, s, t) # {}
    BY <1>3, <2>1
  <2>3. x = Greatest(Before(D, s, t))
    BY <1>2, <2>1, <2>2
  <2> QED BY <1>2, <2>2, <2>3
<1>9. ASSUME NEW s \in Formula[d], NEW u \in DOMAIN D[s], u < t
      PROVE  \E x \in UNION sets : u <= x /\ x \in DOMAIN D[s] /\ x < t
  <2>1. Before(D, s, t) # {}
    BY <1>9 DEF Before
  <2>2. Greatest(Before(D, s, t)) \in UNION sets
    BY <1>2, <2>1
  <2> QED BY <1>2, <1>9, <2>1, <2>2
<1> QED BY <1>1, <1>7, <1>8, <1>9

(* computeOne by a range: the patch begins no later than the range, and    *)
(* with the last point that is common to all sources if that is the last   *)
(* one before the range.  Its points are right, and it leaves out a time   *)
(* at which all sources have points only where a source that was queried   *)
(* from a later point on has points that another one has not: in           *)
(* particular never inside of the range.                                   *)
LEMMA PatchRight ==
  ASSUME NEW L, \A s \in Sources : TimeSet(DOMAIN L[s]), NEW A, NEW mark,
         NEW report, NEW p, ReportOK(report, p), NEW d \in Derived,
         HasRange(report, d), ChangedSources(report, d) # {},
         NEW lo \in Int, NEW hi \in Int,
         lo <= RangeFor(report, d).start, RangeFor(report, d).end <= hi,
         NEW data, \A s \in Sources : data[s] = Context(L[s], lo, hi)
  PROVE  LET range == RangeFor(report, d)
             item == IncrementalItem(report, d, data)
         IN
         /\ ItemOK(item, report) /\ item.incremental
         /\ item.start <= range.start /\ item.end = range.end
         /\ ItemRight(item, L, A, mark, d)
         /\ \A t \in Int :
              /\ EveryPoint(L, d, t) /\ t < range.start
              /\ \A w \in Int : HasPoint(L, d, w) => ~(t < w /\ w < range.start)
              => item.start <= t
<1> DEFINE range == RangeFor(report, d)
           item == IncrementalItem(report, d, data)
           start == Least({range.start} \cup Preceding(data, d, range.start))
           times == {t \in TimesOf(Formula[d], data) : start <= t /\ t <= range.end}
<1>1. range.start \in Int /\ range.end \in Int /\ range.start <= range.end
  BY RangeForBounds
<1>2. Formula[d] \subseteq Sources /\ Formula[d] # {} /\ report # NoReport
  BY DerivedRefreshAssumption DEF HasRange
<1>3. \A s \in Formula[d] : data[s] = Context(L[s], lo, hi) /\ TimeSet(DOMAIN L[s])
  BY <1>2
<1>4. item = [incremental |-> TRUE, start |-> start, end |-> range.end,
              points |-> Evaluate(Formula[d], data, times)]
  BY DEF IncrementalItem, Preceding, Before
<1> HIDE DEF range, item
<1>5. \A s \in Formula[d] :
        /\ Part(data[s], L[s]) /\ TimeSet(DOMAIN data[s])
        /\ \A t \in DOMAIN L[s] :
             \/ t \in DOMAIN data[s]
             \/ t < lo /\ \E u \in DOMAIN L[s] : t < u /\ u < lo
             \/ t > hi
        /\ \A t \in DOMAIN L[s], u \in DOMAIN data[s] :
             u <= t /\ t <= hi => t \in DOMAIN data[s]
  <2> SUFFICES ASSUME NEW s \in Formula[d]
               PROVE  /\ Part(data[s], L[s]) /\ TimeSet(DOMAIN data[s])
                      /\ \A t \in DOMAIN L[s] :
                           \/ t \in DOMAIN data[s]
                           \/ t < lo /\ \E u \in DOMAIN L[s] : t < u /\ u < lo
                           \/ t > hi
                      /\ \A t \in DOMAIN L[s], u \in DOMAIN data[s] :
                           u <= t /\ t <= hi => t \in DOMAIN data[s]
    OBVIOUS
  <2>2. /\ Part(data[s], L[s])
        /\ \A t \in DOMAIN L[s] :
             \/ t \in DOMAIN data[s]
             \/ t < lo /\ \E u \in DOMAIN L[s] : t < u /\ u < lo
             \/ t > hi
        /\ \A t \in DOMAIN L[s], u \in DOMAIN data[s] :
             u <= t /\ t <= hi => t \in DOMAIN data[s]
    BY <1>3, ContextPart
  <2>3. TimeSet(DOMAIN data[s])
    BY <1>3, <2>2, FS_Subset DEF Part, TimeSet
  <2> QED BY <2>2, <2>3
<1>6. /\ IsFiniteSet(Preceding(data, d, range.start))
      /\ Preceding(data, d, range.start) \subseteq Int
      /\ \A x \in Preceding(data, d, range.start) : \E s \in Formula[d] :
           /\ x \in DOMAIN data[s] /\ x < range.start
           /\ \A u \in DOMAIN data[s] : u < range.start => u <= x
      /\ \A s \in Formula[d] : \A u \in DOMAIN data[s] :
           u < range.start =>
             \E x \in Preceding(data, d, range.start) :
               u <= x /\ x \in DOMAIN data[s] /\ x < range.start
  BY <1>1, <1>5, PrecedingPoints
<1>7. /\ start \in {range.start} \cup Preceding(data, d, range.start)
      /\ start \in Int /\ start <= range.start
      /\ \A x \in Preceding(data, d, range.start) : start <= x
  <2> DEFINE S == {range.start} \cup Preceding(data, d, range.start)
  <2>1. IsFiniteSet(S) /\ S # {} /\ S \subseteq Int
    BY <1>1, <1>6, FS_Singleton, FS_Union
  <2> HIDE DEF S
  <2>2. Least(S) \in S /\ \A x \in S : Least(S) <= x
    BY <2>1, Extremes
  <2> QED BY <2>1, <2>2 DEF S
<1> HIDE DEF start
<1>8. /\ DOMAIN item.points \subseteq times /\ times \subseteq Int
      /\ \A t \in DOMAIN item.points : Right(L, d, t, item.points[t])
      /\ \A t \in times : EveryPoint(data, d, t) => t \in DOMAIN item.points
  <2>1. times \subseteq TimesOf(Formula[d], data)
    OBVIOUS
  <2>2. item.points = Evaluate(Formula[d], data, times)
    BY <1>4
  <2> HIDE DEF times
  <2>3. LET e == Evaluate(Formula[d], data, times) IN
        /\ DOMAIN e \subseteq times /\ times \subseteq Int
        /\ \A t \in DOMAIN e : Right(L, d, t, e[t])
        /\ \A t \in times : EveryPoint(data, d, t) => t \in DOMAIN e
    BY <1>3, <1>5, <2>1, EvaluateRight
  <2> QED BY <2>2, <2>3
<1>9. /\ item.incremental = TRUE /\ item.start = start /\ item.end = range.end
  BY <1>4
<1>10. ItemOK(item, report) /\ item.start <= range.start
  BY <1>1, <1>2, <1>7, <1>8, <1>9 DEF ItemOK
<1>11. ASSUME NEW t \in Int, EveryPoint(L, d, t), InRange(item, t),
              t \notin DOMAIN item.points
       PROVE  Uneven(L, d, t)
  <2>1. start <= t /\ t <= range.end /\ t <= hi
    <3>1. start <= t /\ t <= range.end /\ range.end <= hi
      BY <1>9, <1>11 DEF InRange, range
    <3> QED BY <1>1, <3>1
  <2>2. PICK s \in Formula[d] : t \notin DOMAIN data[s]
    <3>1. SUFFICES ASSUME EveryPoint(data, d, t)
                   PROVE  FALSE
      BY DEF EveryPoint
    <3>2. t \in TimesOf(Formula[d], data)
      BY <1>2, <3>1 DEF EveryPoint, TimesOf
    <3> QED BY <1>8, <1>11, <2>1, <3>1, <3>2
  <2>3. PICK g \in DOMAIN L[s] : t < g /\ g < lo /\ t < lo
    BY <1>5, <1>11, <2>1, <2>2 DEF EveryPoint
  <2>4. g \in Int /\ g < range.start /\ t < range.start /\ HasPoint(L, d, g)
    <3>1. lo <= range.start /\ g \in Int
      BY <1>3, <2>3 DEF range, TimeSet
    <3> QED BY <1>1, <2>3, <3>1 DEF HasPoint
  <2>5. start \in Preceding(data, d, range.start)
    BY <1>1, <1>7, <2>1, <2>4
  <2>6. PICK a \in Formula[d] :
          /\ start \in DOMAIN data[a] /\ start < range.start
          /\ \A u \in DOMAIN data[a] : u < range.start => u <= start
    BY <1>6, <2>5
  <2>7. t \in DOMAIN data[a]
    BY <1>5, <1>11, <2>1, <2>6 DEF EveryPoint
  <2>8. t = start
    BY <1>7, <2>1, <2>4, <2>6, <2>7
  <2>9. ASSUME NEW u \in DOMAIN L[a], t < u, u < range.start
        PROVE  FALSE
    <3>1. u \in Int
      BY <1>3 DEF TimeSet
    <3>2. u <= hi
      BY <1>1, <2>9, <3>1 DEF range
    <3>3. u \in DOMAIN data[a]
      BY <1>5, <2>7, <2>9, <3>1, <3>2
    <3> QED BY <1>7, <2>6, <2>8, <2>9, <3>1, <3>3
  <2>10. PICK u \in Int : /\ t < u /\ u <= g /\ HasPoint(L, d, u)
                          /\ \A w \in Int : HasPoint(L, d, w) => ~(t < w /\ w < u)
    BY <2>3, <2>4, NextPoint
  <2>11. u \notin DOMAIN L[a]
    BY <1>1, <2>4, <2>9, <2>10
  <2> QED BY <2>10, <2>11 DEF Uneven, EveryPoint
<1>12. ItemRight(item, L, A, mark, d)
  BY <1>8, <1>9, <1>11 DEF ItemRight, Sampled
<1>13. ASSUME NEW t \in Int, EveryPoint(L, d, t), t < range.start,
              \A w \in Int : HasPoint(L, d, w) => ~(t < w /\ w < range.start)
       PROVE  start <= t
  <2>1. PICK s \in Formula[d] : t \in DOMAIN L[s]
    BY <1>2, <1>13 DEF EveryPoint
  <2>2. \A u \in DOMAIN L[s] : u \in Int /\ ~(t < u /\ u < range.start)
    BY <1>3, <1>13 DEF HasPoint, TimeSet
  <2>3. t \in DOMAIN data[s]
    <3>1. lo <= range.start /\ range.end <= hi
      BY DEF range
    <3>2. ~(t > hi) /\ \A u \in Int : u < lo => u < range.start
      BY <1>1, <1>13, <3>1
    <3> QED BY <1>5, <2>1, <2>2, <3>2
  <2>4. PICK x \in Preceding(data, d, range.start) :
          t <= x /\ x \in DOMAIN data[s] /\ x < range.start
    BY <1>6, <1>13, <2>3
  <2>5. x \in DOMAIN L[s] /\ start <= x /\ x \in Int
    BY <1>5, <1>6, <1>7, <2>4 DEF Part
  <2>6. ~(t < x)
    BY <2>2, <2>4, <2>5
  <2> QED BY <2>4, <2>5, <2>6
<1>14. item.incremental /\ item.end = range.end
  BY <1>9
<1>15. \A t \in Int :
         /\ EveryPoint(L, d, t) /\ t < range.start
         /\ \A w \in Int : HasPoint(L, d, w) => ~(t < w /\ w < range.start)
         => item.start <= t
  BY <1>9, <1>13
<1> QED BY <1>10, <1>12, <1>14, <1>15 DEF range, item
-----------------------------------------------------------------------------
(***************************************************************************)
(* The update of a window of project p that begins at windowStart of its   *)
(* report.                                                                 *)
(***************************************************************************)
UpdateDone(c, p, report) ==
  /\ caller[c].pc = "idle" /\ p \in Projects
  /\ report.generation = generation[p] + 1 /\ report # NoReport
  /\ ReportOK(report, p)
  /\ caller' = [caller EXCEPT ![c] = [Idle EXCEPT !.pc = "reading", !.project = p,
                                                  !.report = report]]
  /\ generation' = [generation EXCEPT ![p] = @ + 1]
  /\ \A q \in Projects : q # p => watermark'[q] = watermark[q]
  /\ watermark'[p] \in Int /\ watermark'[p] - Size = report.windowStart
  /\ watermark[p] # NoTime => watermark[p] <= watermark'[p]
  /\ \A s \in Sources : ahead[s] \subseteq ahead'[s]
  /\ derived' = [d \in Derived |-> IF d \in InProject(p)
                                   THEN From(derived[d], report.windowStart)
                                   ELSE derived[d]]
  /\ \A s \in Sources : \A t \in DOMAIN live'[s] :
       t \in DOMAIN live[s] \/ (s \in report.changed /\ t \in report.points[s])
  /\ \A s \in report.safe : \A t \in DOMAIN live[s], u \in report.points[s] : t < u
  /\ \A s \in Sources :
       s \notin report.evicted /\ (s \in report.changed => s \in report.safe)
         => Part(live[s], live'[s])
  /\ report.evicted \subseteq report.changed
  /\ overlapped' = Overlaps(c)
  /\ UNCHANGED <<enabled, syncs, lastPublished, fullHolder, published, patched>>

LEMMA UpdateEffect ==
  ASSUME ShapeInv, NEW c \in Callers, Update(c)
  PROVE  /\ WindowOK'
         /\ \E p \in Projects : \E report : UpdateDone(c, p, report)
<1> DEFINE Updated(p, batch, mark) ==
       LET incoming == DOMAIN batch
           start == mark - Size
           full == [s \in Sources |-> IF s \in incoming
                                      THEN Over(batch[s], live[s]) ELSE live[s]]
           mine == InProject(p)
           evicted == {s \in mine \cap Sources :
                         \E t \in DOMAIN full[s] : t < start}
           safe == {s \in incoming :
                      latest[s] = NoTime \/ Least(DOMAIN batch[s]) > latest[s]}
       IN /\ incoming \subseteq mine
          /\ generation[p] < UpdateBound(c)
          /\ generation' = [generation EXCEPT ![p] = @ + 1]
          /\ watermark' = [watermark EXCEPT ![p] = mark]
          /\ ahead' = [s \in Sources |->
                         IF s \notin incoming THEN ahead[s]
                         ELSE ahead[s] \cup {t \in DOMAIN batch[s] : t > mark}]
          /\ live' = [s \in Sources |-> IF s \in mine THEN From(full[s], start)
                                        ELSE live[s]]
          /\ derived' = [d \in Derived |-> IF d \in mine
                                           THEN From(derived[d], start)
                                           ELSE derived[d]]
          /\ latest' = [s \in Sources |->
                          IF s \notin incoming THEN latest[s]
                          ELSE Greatest(DOMAIN batch[s] \cup
                                        ({latest[s]} \ {NoTime}))]
          /\ caller' = [caller EXCEPT
                          ![c] = [Idle EXCEPT
                            !.pc = "reading",
                            !.project = p,
                            !.report = [generation |-> generation[p] + 1,
                                        windowStart |-> start,
                                        changed |-> incoming \cup evicted,
                                        safe |-> safe,
                                        evicted |-> evicted,
                                        points |-> [s \in incoming |->
                                                      DOMAIN batch[s]]]]]
<1>0. PICK p \in Projects, batch \in Batches :
        \E mark \in Marks(p, batch) : Updated(p, batch, mark)
  BY Zenon DEF Update
<1>1. PICK mark \in Marks(p, batch) : Updated(p, batch, mark)
  BY <1>0
<1> DEFINE incoming == DOMAIN batch
           start == mark - Size
           full == [s \in Sources |-> IF s \in incoming
                                      THEN Over(batch[s], live[s]) ELSE live[s]]
           mine == InProject(p)
           evicted == {s \in mine \cap Sources :
                         \E t \in DOMAIN full[s] : t < start}
           safe == {s \in incoming :
                      latest[s] = NoTime \/ Least(DOMAIN batch[s]) > latest[s]}
           report == [generation |-> generation[p] + 1, windowStart |-> start,
                      changed |-> incoming \cup evicted, safe |-> safe,
                      evicted |-> evicted,
                      points |-> [s \in incoming |-> DOMAIN batch[s]]]
<1>2. /\ incoming \subseteq mine /\ caller[c].pc = "idle"
      /\ generation' = [generation EXCEPT ![p] = @ + 1]
      /\ watermark' = [watermark EXCEPT ![p] = mark]
      /\ ahead' = [s \in Sources |->
                     IF s \notin incoming THEN ahead[s]
                     ELSE ahead[s] \cup {t \in DOMAIN batch[s] : t > mark}]
      /\ live' = [s \in Sources |-> IF s \in mine THEN From(full[s], start)
                                    ELSE live[s]]
      /\ derived' = [d \in Derived |-> IF d \in mine THEN From(derived[d], start)
                                       ELSE derived[d]]
      /\ latest' = [s \in Sources |->
                      IF s \notin incoming THEN latest[s]
                      ELSE Greatest(DOMAIN batch[s] \cup ({latest[s]} \ {NoTime}))]
      /\ caller' = [caller EXCEPT ![c] = [Idle EXCEPT !.pc = "reading", !.project = p,
                                                      !.report = report]]
      /\ overlapped' = Overlaps(c)
      /\ UNCHANGED <<enabled, syncs, lastPublished, fullHolder, published, patched>>
  <2>1. /\ caller[c].pc = "idle" /\ overlapped' = Overlaps(c)
        /\ UNCHANGED <<enabled, syncs, lastPublished, fullHolder, published, patched>>
    BY DEF Update
  <2> QED BY <1>1, <2>1, Zenon DEF Updated
<1> HIDE DEF Updated
<1>3. /\ incoming # {} /\ incoming \subseteq Sources
      /\ \A s \in incoming : TimeSet(DOMAIN batch[s]) /\ DOMAIN batch[s] # {}
  BY BatchAssumption DEF TimeSet
<1>4. WindowOK /\ Size \in Nat \ {0} /\ NoTime \notin Int
  BY DerivedRefreshAssumption DEF ShapeInv
<1>5. mark \in Int /\ (watermark[p] # NoTime => watermark[p] <= mark)
  <2>1. CASE watermark[p] = NoTime
    BY <1>3, <2>1 DEF Marks, TimesOf, TimeSet
  <2>2. CASE watermark[p] # NoTime
    <3> DEFINE dom == [s \in incoming |-> DOMAIN batch[s]]
               sets == {dom[s] : s \in incoming}
               all == {watermark[p]} \cup UNION sets
    <3>1. mark = Greatest(all) /\ watermark[p] \in Int
      BY <1>4, <2>2 DEF Marks, TimesOf, WindowOK
    <3>2. IsFiniteSet(incoming)
      BY <1>3, DerivedRefreshAssumption, FS_Subset DEF Sources
    <3>3. \A T \in sets : IsFiniteSet(T) /\ T \subseteq Int
      BY <1>3 DEF TimeSet
    <3> HIDE DEF dom
    <3>4. IsFiniteSet(sets)
      BY <3>2, FiniteImage
    <3> HIDE DEF sets
    <3>5. IsFiniteSet(all) /\ all # {} /\ all \subseteq Int
      BY <3>1, <3>3, <3>4, FS_UNION, FS_Singleton, FS_Union
    <3> HIDE DEF all
    <3>6. Greatest(all) \in all /\ \A t \in all : t <= Greatest(all)
      BY <3>5, Extremes
    <3> QED BY <3>1, <3>5, <3>6 DEF all
  <2> QED BY <2>1, <2>2
<1>6. /\ mark \in Int /\ start \in Int /\ mark # NoTime
      /\ watermark[p] # NoTime => watermark[p] <= mark
  BY <1>4, <1>5
<1>7. \A s \in Sources :
        /\ s \in incoming => DOMAIN full[s] = (DOMAIN batch[s]) \cup (DOMAIN live[s])
        /\ s \notin incoming => full[s] = live[s]
        /\ TimeSet(DOMAIN full[s])
        /\ \A t \in DOMAIN live[s] : 
             (s \in incoming => t \notin DOMAIN batch[s]) => full[s][t] = live[s][t]
  <2> SUFFICES ASSUME NEW s \in Sources
               PROVE  /\ s \in incoming => DOMAIN full[s] = (DOMAIN batch[s]) \cup (DOMAIN live[s])
                      /\ s \notin incoming => full[s] = live[s]
                      /\ TimeSet(DOMAIN full[s])
                      /\ \A t \in DOMAIN live[s] : 
                           (s \in incoming => t \notin DOMAIN batch[s]) =>
                             full[s][t] = live[s][t]
    OBVIOUS
  <2>2. TimeSet(DOMAIN live[s])
    BY <1>4 DEF WindowOK
  <2>3. CASE s \in incoming
    <3>1. full[s] = [x \in (DOMAIN batch[s]) \cup (DOMAIN live[s]) |->
                       IF x \in DOMAIN batch[s] THEN batch[s][x] ELSE live[s][x]]
      BY <2>3 DEF Over
    <3>2. TimeSet((DOMAIN batch[s]) \cup (DOMAIN live[s]))
      BY <1>3, <2>2, <2>3, FS_Union DEF TimeSet
    <3> HIDE DEF full
    <3> QED BY <2>3, <3>1, <3>2
  <2>4. CASE s \notin incoming
    <3>1. full[s] = live[s]
      BY <2>4
    <3> HIDE DEF full
    <3> QED BY <2>2, <2>4, <3>1
  <2> QED BY <2>3, <2>4
<1> HIDE DEF full
<1>8. \A s \in Sources :
        /\ s \in mine => /\ DOMAIN live'[s] = {t \in DOMAIN full[s] : t >= start}
                         /\ \A t \in DOMAIN live'[s] : live'[s][t] = full[s][t]
        /\ s \notin mine => live'[s] = live[s]
  <2> SUFFICES ASSUME NEW s \in Sources
               PROVE  /\ s \in mine => /\ DOMAIN live'[s] = {t \in DOMAIN full[s] : t >= start}
                                       /\ \A t \in DOMAIN live'[s] : live'[s][t] = full[s][t]
                      /\ s \notin mine => live'[s] = live[s]
    OBVIOUS
  <2>2. CASE s \in mine
    <3>1. live'[s] = From(full[s], start) /\ DOMAIN full[s] \subseteq Int
      BY <1>2, <1>7, <2>2 DEF TimeSet
    <3> HIDE DEF mine, start
    <3>2. /\ DOMAIN From(full[s], start) = {u \in DOMAIN full[s] : u >= start}
          /\ \A u \in DOMAIN From(full[s], start) : From(full[s], start)[u] = full[s][u]
      BY <1>6, <3>1, FromPart
    <3> QED BY <2>2, <3>1, <3>2, Zenon
  <2>3. CASE s \notin mine
    BY <1>2, <2>3
  <2> QED BY <2>2, <2>3
<1>9. ReportOK(report, p) /\ report # NoReport
  <2>1. report.generation \in Nat \ {0} /\ report.windowStart \in Int
    BY <1>4, <1>6 DEF WindowOK
  <2>2. report.changed \subseteq Sources \cap InProject(p) /\ report.safe \subseteq report.changed
    BY <1>2, <1>3
  <2>3. \A s \in report.safe : TimeSet(report.points[s]) /\ report.points[s] # {}
    BY <1>3
  <2>4. report # NoReport
    BY <2>1 DEF NoReport
  <2> HIDE DEF report
  <2> QED BY <2>1, <2>2, <2>3, <2>4 DEF ReportOK
<1>10. ASSUME NEW s \in Sources, NEW t \in DOMAIN live'[s]
       PROVE  t \in DOMAIN live[s] \/ (s \in report.changed /\ t \in report.points[s])
  <2>1. s \in mine => t \in DOMAIN full[s]
    BY <1>8, <1>10
  <2> QED BY <1>2, <1>7, <1>8, <1>10, <2>1
<1>11. ASSUME NEW s \in report.safe, NEW t \in DOMAIN live[s], NEW u \in report.points[s]
       PROVE  t < u
  <2>1. s \in incoming /\ s \in Sources /\ u \in DOMAIN batch[s]
        /\ (latest[s] = NoTime \/ Least(DOMAIN batch[s]) > latest[s])
    BY <1>3, <1>11
  <2>2. t \in Int /\ latest[s] # NoTime /\ latest[s] \in Int /\ t <= latest[s]
    BY <1>4, <1>11, <2>1 DEF WindowOK, TimeSet
  <2>3. u \in Int /\ Least(DOMAIN batch[s]) <= u /\ Least(DOMAIN batch[s]) \in Int
    BY <1>3, <2>1, Extremes DEF TimeSet
  <2> QED BY <2>1, <2>2, <2>3
<1>12. ASSUME NEW s \in Sources, s \notin report.evicted,
              s \in report.changed => s \in report.safe
       PROVE  Part(live[s], live'[s])
  <2>1. CASE s \notin mine
    BY <1>8, <2>1 DEF Part
  <2>2. CASE s \in mine
    <3>1. \A t \in DOMAIN full[s] : t \in Int /\ ~(t < start) /\ start \in Int
      BY <1>6, <1>7, <1>12, <2>2 DEF TimeSet
    <3>5. \A t \in DOMAIN full[s] : t >= start
      BY <3>1
    <3>2. DOMAIN live'[s] = DOMAIN full[s] /\ \A t \in DOMAIN full[s] : live'[s][t] = full[s][t]
      <4> HIDE DEF start, mine
      <4> QED BY <1>8, <2>2, <3>5
    <3>3. CASE s \notin incoming
      BY <1>7, <3>2, <3>3 DEF Part
    <3>4. CASE s \in incoming
      <4>1. s \in report.safe /\ report.points[s] = DOMAIN batch[s]
        BY <1>12, <3>4
      <4>2. \A t \in DOMAIN live[s], u \in DOMAIN batch[s] : t < u /\ t \in Int /\ u \in Int
        BY <1>3, <1>4, <1>11, <4>1 DEF WindowOK, TimeSet
      <4>3. \A t \in DOMAIN live[s] : t \notin DOMAIN batch[s]
        BY <4>2
      <4>4. DOMAIN live'[s] = (DOMAIN batch[s]) \cup (DOMAIN live[s])
        BY <1>7, <3>2, <3>4
      <4>5. \A t \in DOMAIN live[s] : live[s][t] = live'[s][t]
        BY <1>7, <3>2, <4>3, <4>4
      <4>6. \A t, u \in DOMAIN live[s], w \in DOMAIN live'[s] :
              t <= w /\ w <= u => w \in DOMAIN live[s]
        <5>1. SUFFICES ASSUME NEW u \in DOMAIN live[s], NEW w \in DOMAIN batch[s], w <= u
                       PROVE  FALSE
          BY <4>4
        <5> QED BY <4>2, <5>1
      <4> QED BY <4>4, <4>5, <4>6 DEF Part
    <3> QED BY <3>3, <3>4
  <2> QED BY <2>1, <2>2
<1>13. /\ \A s \in Sources : ahead[s] \subseteq ahead'[s]
       /\ \A s \in incoming : \A t \in DOMAIN batch[s] : t <= mark \/ t \in ahead'[s]
  <2>1. \A s \in Sources :
          ahead'[s] = IF s \notin incoming THEN ahead[s]
                      ELSE ahead[s] \cup {t \in DOMAIN batch[s] : t > mark}
    BY <1>2
  <2>2. ASSUME NEW s \in incoming, NEW t \in DOMAIN batch[s]
        PROVE  t <= mark \/ t \in ahead'[s]
    <3>1. t \in Int /\ s \in Sources
      BY <1>3 DEF TimeSet
    <3> HIDE DEF incoming
    <3>2. ahead'[s] = ahead[s] \cup {u \in DOMAIN batch[s] : u > mark}
      BY <2>1, <2>2, <3>1
    <3> QED BY <1>6, <2>2, <3>1, <3>2
  <2> QED BY <2>1, <2>2
<1>14. WindowOK'
  <2>1. generation' \in [Projects -> Nat] /\ watermark' \in [Projects -> Int \cup {NoTime}]
    BY <1>2, <1>4, <1>6 DEF WindowOK
  <2>2. ASSUME NEW s \in Sources
        PROVE  /\ TimeSet(DOMAIN live'[s])
               /\ latest'[s] \in Int \cup {NoTime}
               /\ \A t \in DOMAIN live'[s] :
                    /\ latest'[s] # NoTime /\ t <= latest'[s]
                    /\ watermark'[ProjectOf[s]] # NoTime
                    /\ t <= watermark'[ProjectOf[s]] \/ t \in ahead'[s]
    <3>1. TimeSet(DOMAIN live'[s])
      <4>1. DOMAIN live'[s] \subseteq DOMAIN full[s] \/ live'[s] = live[s]
        BY <1>8
      <4>2. TimeSet(DOMAIN full[s]) /\ TimeSet(DOMAIN live[s])
        BY <1>4, <1>7 DEF WindowOK
      <4> QED BY <4>1, <4>2, FS_Subset DEF TimeSet
    <3>2. ProjectOf[s] \in Projects /\ (s \in mine <=> ProjectOf[s] = p)
      BY DerivedRefreshAssumption DEF Sources, InProject
    <3>3. \A t \in DOMAIN live'[s] :
            /\ watermark'[ProjectOf[s]] # NoTime
            /\ t <= watermark'[ProjectOf[s]] \/ t \in ahead'[s]
      <4>1. s \in mine => watermark'[ProjectOf[s]] = mark
        BY <1>2, <1>4, <3>2 DEF WindowOK
      <4>2. s \notin mine => watermark'[ProjectOf[s]] = watermark[ProjectOf[s]]
                             /\ live'[s] = live[s]
        BY <1>2, <1>4, <1>8, <3>2 DEF WindowOK
      <4>3. ASSUME NEW t \in DOMAIN live'[s], t \in DOMAIN live[s]
            PROVE  t <= watermark'[ProjectOf[s]] \/ t \in ahead'[s]
        <5>1. /\ t \in Int /\ watermark[ProjectOf[s]] \in Int
              /\ t <= watermark[ProjectOf[s]] \/ t \in ahead[s]
              /\ ahead[s] \subseteq ahead'[s]
          BY <1>4, <1>13, <3>2, <4>3 DEF WindowOK, TimeSet
        <5>2. watermark[ProjectOf[s]] # NoTime
          BY <1>4, <5>1
        <5>3. watermark'[ProjectOf[s]] \in Int
              /\ watermark[ProjectOf[s]] <= watermark'[ProjectOf[s]]
          BY <1>6, <3>2, <4>1, <4>2, <5>1, <5>2
        <5> QED BY <5>1, <5>3
      <4>4. ASSUME NEW t \in DOMAIN live'[s], t \notin DOMAIN live[s]
            PROVE  t <= watermark'[ProjectOf[s]] \/ t \in ahead'[s]
        <5>1. s \in mine
          BY <4>2, <4>4
        <5>2. s \in incoming /\ t \in DOMAIN batch[s]
          BY <1>7, <1>8, <4>4, <5>1
        <5> QED BY <1>13, <4>1, <5>1, <5>2
      <4> QED BY <1>4, <1>6, <4>1, <4>2, <4>3, <4>4 DEF WindowOK
    <3>4. CASE s \notin incoming
      <4>1. latest'[s] = latest[s] /\ DOMAIN live'[s] \subseteq DOMAIN live[s]
        BY <1>2, <1>7, <1>8, <3>4
      <4> QED BY <1>4, <3>1, <3>3, <4>1 DEF WindowOK
    <3>5. CASE s \in incoming
      <4> DEFINE all == (DOMAIN batch[s]) \cup ({latest[s]} \ {NoTime})
      <4>1. latest'[s] = Greatest(all)
        BY <1>2, <3>5
      <4>2. IsFiniteSet({latest[s]} \ {NoTime}) /\ {latest[s]} \ {NoTime} \subseteq Int
        <5>1. IsFiniteSet({latest[s]}) /\ latest[s] \in Int \cup {NoTime}
          BY <1>4, FS_Singleton DEF WindowOK
        <5> QED BY <5>1, FS_Subset
      <4>3. IsFiniteSet(all) /\ all # {} /\ all \subseteq Int
        BY <1>3, <3>5, <4>2, FS_Union DEF TimeSet
      <4>4. Greatest(all) \in Int /\ \A t \in all : t <= Greatest(all)
        <5> HIDE DEF all
        <5> QED BY <4>3, Extremes
      <4>5. ASSUME NEW t \in DOMAIN live'[s]
            PROVE  t <= latest'[s]
        <5>1. t \in DOMAIN batch[s] \/ t \in DOMAIN live[s]
          BY <1>7, <1>8, <3>5, <4>5
        <5>2. CASE t \in DOMAIN batch[s]
          BY <4>1, <4>4, <5>2
        <5>3. CASE t \in DOMAIN live[s]
          <6>1. t <= latest[s] /\ latest[s] # NoTime /\ latest[s] \in Int /\ t \in Int
            BY <1>4, <5>3 DEF WindowOK, TimeSet
          <6>2. latest[s] <= Greatest(all)
            BY <4>4, <6>1
          <6> QED BY <4>1, <4>4, <6>1, <6>2
        <5> QED BY <5>1, <5>2, <5>3
      <4> QED BY <1>4, <3>1, <3>3, <4>1, <4>4, <4>5
    <3> QED BY <3>4, <3>5
  <2>3. DOMAIN derived' = Derived
    BY <1>2
  <2>4. ASSUME NEW d \in Derived
        PROVE  DOMAIN derived'[d] \subseteq Int
    <3>1. DOMAIN derived[d] \subseteq Int
      BY <1>4 DEF WindowOK
    <3>2. derived'[d] = derived[d] \/ derived'[d] = From(derived[d], start)
      BY <1>2
    <3> HIDE DEF start
    <3> QED BY <1>6, <3>1, <3>2, FromPart
  <2> QED BY <2>1, <2>2, <2>3, <2>4 DEF WindowOK
<1>15. /\ \A q \in Projects : q # p => watermark'[q] = watermark[q]
       /\ watermark'[p] = mark /\ watermark'[p] - Size = report.windowStart
  BY <1>2, <1>4 DEF WindowOK
<1>16. report.evicted \subseteq report.changed /\ report.generation = generation[p] + 1
       /\ report.windowStart = start
  OBVIOUS
<1> HIDE DEF report, start, evicted, safe, incoming
<1>17. UpdateDone(c, p, report)
  BY <1>2, <1>6, <1>9, <1>10, <1>11, <1>12, <1>13, <1>15, <1>16 DEF UpdateDone
<1> QED BY <1>14, <1>17
-----------------------------------------------------------------------------
(***************************************************************************)
(* The steps of a refresh.                                                 *)
(***************************************************************************)
OthersSame(c) == \A b \in Callers \ {c} : caller'[b] = caller[b]

(* A caller that will patch d patches the whole range of d, beginning with *)
(* a point that adjoins it.                                                *)
PatchOf(item, x, L, d) ==
  /\ Ranged(x, d) /\ item.incremental
  /\ item.start <= RangeFor(x.report, d).start /\ item.end = RangeFor(x.report, d).end
  /\ RangeFor(x.report, d).start \in Int /\ RangeFor(x.report, d).end \in Int
  /\ RangeFor(x.report, d).start <= RangeFor(x.report, d).end
  /\ \A t \in Int : EveryPoint(L, d, t) /\ Adjoins(x, L, d, t) => item.start <= t

LEMMA ReadRangeEffect ==
  ASSUME ShapeInv, NEW c \in Callers, ReadRange(c)
  PROVE  LET x == caller[c]
             y == caller'[c]
         IN
         /\ y = [pc |-> "readingFull", project |-> x.project, report |-> x.report,
                 full |-> y.full, items |-> y.items]
         /\ x.pc = "reading" /\ OthersSame(c) /\ DOMAIN caller' = Callers
         /\ (DOMAIN y.items) \cup y.full \subseteq Derived \cap InProject(x.project)
         /\ (DOMAIN y.items) \cap y.full = {}
         /\ \A d \in enabled :
              /\ x.report = NoReport /\ ProjectOf[d] = x.project => d \in y.full
              /\ x.report # NoReport /\ ChangedSources(x.report, d) # {} =>
                   IF HasRange(x.report, d) THEN d \in DOMAIN y.items ELSE d \in y.full
         /\ \A d \in DOMAIN y.items :
              /\ ItemOK(y.items[d], x.report)
              /\ d \in enabled =>
                   /\ PatchOf(y.items[d], x, live, d)
                   /\ ItemRight(y.items[d], live, ahead, watermark[ProjectOf[d]], d)
<1> DEFINE x == caller[c]
           report == caller[c].report
           mine == Derived \cap InProject(caller[c].project)
           affected == IF report = NoReport THEN mine
                       ELSE {d \in mine \cap enabled : ChangedSources(report, d) # {}}
           ranged == {d \in affected : HasRange(report, d)}
           start == Least({RangeFor(report, d).start : d \in ranged})
           end == Greatest({RangeFor(report, d).end : d \in ranged})
           data == [s \in Sources |-> Context(live[s], start, end)]
           patches == [d \in ranged |-> IncrementalItem(report, d, data)]
           cleared == [d \in affected \ enabled |-> FullItem(EmptyMap)]
           full == (affected \cap enabled) \ ranged
           items == Over(patches, cleared)
<1>1. /\ x.pc = "reading"
      /\ caller' = [caller EXCEPT ![c].pc = "readingFull", ![c].full = full,
                                  ![c].items = items]
  BY Zenon DEF ReadRange
<1>2. /\ WindowOK /\ CallerOK(x) /\ enabled \subseteq Derived /\ DOMAIN caller = Callers
  BY DEF ShapeInv, PublishedOK
<1>3. /\ x = [pc |-> x.pc, project |-> x.project, report |-> x.report,
              full |-> x.full, items |-> x.items]
      /\ ReportOK(report, x.project)
  BY <1>2 DEF CallerOK
<1> HIDE DEF full, items
<1>4. /\ caller'[c] = [pc |-> "readingFull", project |-> x.project, report |-> x.report,
                       full |-> full, items |-> items]
      /\ OthersSame(c) /\ DOMAIN caller' = Callers
  BY <1>1, <1>2, <1>3 DEF OthersSame
<1>5. \A d \in ranged : /\ d \in Derived /\ report # NoReport /\ d \in enabled
                        /\ HasRange(report, d) /\ ChangedSources(report, d) # {}
                        /\ ProjectOf[d] = x.project
  BY <1>2 DEF HasRange, InProject
<1>6. \A d \in ranged :
        LET range == RangeFor(report, d) IN
        range.start \in Int /\ range.end \in Int /\ range.start <= range.end
  BY <1>3, <1>5, RangeForBounds
<1>7. DOMAIN items = ranged \cup (affected \ enabled)
  BY DEF items, Over
<1>8. \A d \in ranged : items[d] = IncrementalItem(report, d, data)
  BY DEF items, Over
<1>9. \A d \in (DOMAIN items) \ ranged : items[d] = FullItem(EmptyMap) /\ d \notin enabled
  BY <1>5, <1>7 DEF items, Over
<1>10. ASSUME NEW d \in ranged
       PROVE  /\ ItemOK(items[d], report)
              /\ PatchOf(items[d], x, live, d)
              /\ ItemRight(items[d], live, ahead, watermark[ProjectOf[d]], d)
  <2> DEFINE S == [e \in ranged |-> RangeFor(report, e).start]
             E == [e \in ranged |-> RangeFor(report, e).end]
             starts == {S[e] : e \in ranged}
             ends == {E[e] : e \in ranged}
  <2>1. IsFiniteSet(ranged)
    BY <1>5, DerivedRefreshAssumption, FS_Subset DEF InProject
  <2>2. starts \subseteq Int /\ ends \subseteq Int /\ starts # {} /\ ends # {}
    BY <1>6, <1>10
  <2>3. {RangeFor(report, e).start : e \in ranged} = starts
        /\ {RangeFor(report, e).end : e \in ranged} = ends
    OBVIOUS
  <2>4. RangeFor(report, d).start \in starts /\ RangeFor(report, d).end \in ends
    BY <1>10
  <2> HIDE DEF S, E
  <2>5. IsFiniteSet(starts) /\ IsFiniteSet(ends)
    <3> HIDE DEF ranged
    <3> QED BY <2>1, FiniteImage
  <2>6. /\ start \in Int /\ start <= RangeFor(report, d).start
        /\ end \in Int /\ RangeFor(report, d).end <= end
    <3>1. start = Least(starts) /\ end = Greatest(ends)
      BY <2>3
    <3> HIDE DEF start, end, starts, ends
    <3> QED BY <2>2, <2>4, <2>5, <3>1, Extremes
  <2> HIDE DEF start, end, ranged
  <2>7. \A s \in Sources : TimeSet(DOMAIN live[s])
    BY <1>2 DEF WindowOK
  <2>8. /\ ItemOK(IncrementalItem(report, d, data), report)
        /\ IncrementalItem(report, d, data).incremental
        /\ IncrementalItem(report, d, data).start <= RangeFor(report, d).start
        /\ IncrementalItem(report, d, data).end = RangeFor(report, d).end
        /\ ItemRight(IncrementalItem(report, d, data), live, ahead, watermark[ProjectOf[d]], d)
        /\ \A t \in Int :
             /\ EveryPoint(live, d, t) /\ t < RangeFor(report, d).start
             /\ \A w \in Int : HasPoint(live, d, w) =>
                  ~(t < w /\ w < RangeFor(report, d).start)
             => IncrementalItem(report, d, data).start <= t
    <3>1. /\ d \in Derived /\ HasRange(report, d) /\ ChangedSources(report, d) # {}
          /\ ReportOK(report, x.project)
      BY <1>3, <1>5, <1>10
    <3>2. \A s \in Sources : data[s] = Context(live[s], start, end)
      OBVIOUS
    <3> HIDE DEF x, report, data
    <3>3. ItemOK(IncrementalItem(report, d, data), report)
      BY <2>6, <2>7, <3>1, <3>2, PatchRight, Zenon
    <3>4. IncrementalItem(report, d, data).start <= RangeFor(report, d).start
      BY <2>6, <2>7, <3>1, <3>2, PatchRight, Zenon
    <3>5. ItemRight(IncrementalItem(report, d, data), live, ahead, watermark[ProjectOf[d]], d)
      BY <2>6, <2>7, <3>1, <3>2, PatchRight, Zenon
    <3>6. /\ IncrementalItem(report, d, data).incremental
          /\ IncrementalItem(report, d, data).end = RangeFor(report, d).end
      BY DEF IncrementalItem
    <3>7. ASSUME NEW t \in Int, EveryPoint(live, d, t), t < RangeFor(report, d).start,
                 \A w \in Int : HasPoint(live, d, w) =>
                   ~(t < w /\ w < RangeFor(report, d).start)
          PROVE  IncrementalItem(report, d, data).start <= t
      BY <2>6, <2>7, <3>1, <3>2, <3>7, PatchRight, ZenonT(30)
    <3> QED BY <3>3, <3>4, <3>5, <3>6, <3>7
  <2>9. /\ ItemOK(items[d], report) /\ items[d].incremental
        /\ items[d].start <= RangeFor(report, d).start
        /\ items[d].end = RangeFor(report, d).end
        /\ ItemRight(items[d], live, ahead, watermark[ProjectOf[d]], d)
        /\ \A t \in Int :
             /\ EveryPoint(live, d, t) /\ t < RangeFor(report, d).start
             /\ \A w \in Int : HasPoint(live, d, w) =>
                  ~(t < w /\ w < RangeFor(report, d).start)
             => items[d].start <= t
    BY <1>8, <1>10, <2>8
  <2>10. Ranged(x, d)
    BY <1>1, <1>5, <1>10 DEF Ranged
  <2> QED BY <1>6, <1>10, <2>9, <2>10 DEF PatchOf, Adjoins
<1>11. ASSUME NEW d \in DOMAIN items
       PROVE  /\ ItemOK(items[d], report)
              /\ d \in enabled =>
                   /\ PatchOf(items[d], x, live, d)
                   /\ ItemRight(items[d], live, ahead, watermark[ProjectOf[d]], d)
  <2>1. CASE d \in ranged
    BY <1>10, <2>1
  <2>2. CASE d \notin ranged
    <3>1. items[d] = FullItem(EmptyMap) /\ d \notin enabled
      BY <1>9, <1>11, <2>2
    <3>2. items[d] = [incremental |-> FALSE, start |-> 0, end |-> 0, points |-> <<>>]
      BY <3>1 DEF FullItem, EmptyMap
    <3>3. ItemOK(items[d], report)
      BY <3>2 DEF ItemOK
    <3> QED BY <3>1, <3>3
  <2> QED BY <2>1, <2>2
<1>12. /\ (DOMAIN items) \cup full \subseteq Derived \cap InProject(x.project)
       /\ (DOMAIN items) \cap full = {}
  BY <1>7 DEF full
<1>13. ASSUME NEW d \in enabled
       PROVE  /\ report = NoReport /\ ProjectOf[d] = x.project => d \in full
              /\ report # NoReport /\ ChangedSources(report, d) # {} =>
                   IF HasRange(report, d) THEN d \in DOMAIN items ELSE d \in full
  <2>1. d \in Derived /\ d \in DOMAIN ProjectOf
    BY <1>2, <1>13, DerivedRefreshAssumption
  <2>2. CASE report = NoReport
    <3>1. ProjectOf[d] = x.project => d \in affected
      BY <2>1, <2>2 DEF InProject
    <3>2. d \notin ranged
      BY <2>2 DEF HasRange
    <3> QED BY <1>13, <2>2, <3>1, <3>2 DEF full
  <2>3. CASE report # NoReport /\ ChangedSources(report, d) # {}
    <3>1. ProjectOf[d] = x.project
      <4>1. PICK s \in Formula[d] : s \in report.changed
        BY <2>3 DEF ChangedSources
      <4> QED BY <1>3, <2>1, <2>3, <4>1, DerivedRefreshAssumption DEF ReportOK, InProject
    <3>2. d \in affected
      BY <1>13, <2>1, <2>3, <3>1 DEF InProject
    <3> QED BY <1>7, <1>13, <2>3, <3>2 DEF full
  <2> QED BY <2>2, <2>3
<1> HIDE DEF x, report
<1> QED BY <1>1, <1>4, <1>11, <1>12, <1>13 DEF x, report

(* The query of the default range: what a full refresh computes from it is *)
(* right, and has a point wherever all sources have one, unless all got it *)
(* ahead of the watermark.                                                 *)
LEMMA FullRight ==
  ASSUME NEW L, \A s \in Sources : TimeSet(DOMAIN L[s]), NEW A, NEW mark \in Int,
         NEW d \in Derived, NEW data,
         \A s \in Formula[d] : \A t \in DOMAIN L[s] : t <= mark \/ t \in A[s],
         \A s \in Sources : data[s] = Within(L[s], mark - Size + 1, mark)
  PROVE  LET e == Evaluate(Formula[d], data, TimesOf(Formula[d], data)) IN
         /\ DOMAIN e \subseteq Int
         /\ \A t \in DOMAIN e : Right(L, d, t, e[t])
         /\ \A t \in Int : Sampled(L, A, mark, d, t) => t \in DOMAIN e
<1>1. Formula[d] \subseteq Sources /\ Formula[d] # {}
      /\ Size \in Int /\ mark - Size + 1 \in Int
  BY DerivedRefreshAssumption
<1>2. \A s \in Formula[d] :
        /\ TimeSet(DOMAIN L[s]) /\ Part(data[s], L[s])
        /\ \A u \in DOMAIN L[s] :
             mark - Size + 1 <= u /\ u <= mark => u \in DOMAIN data[s]
  <2> DEFINE first == mark - Size + 1
  <2>1. first \in Int /\ \A s \in Sources : data[s] = Within(L[s], first, mark)
    BY <1>1
  <2> HIDE DEF first
  <2> SUFFICES ASSUME NEW s \in Formula[d]
               PROVE  /\ TimeSet(DOMAIN L[s]) /\ Part(data[s], L[s])
                      /\ \A u \in DOMAIN L[s] :
                           first <= u /\ u <= mark => u \in DOMAIN data[s]
    BY DEF first
  <2>2. /\ TimeSet(DOMAIN L[s]) /\ DOMAIN L[s] \subseteq Int
        /\ data[s] = Within(L[s], first, mark)
    BY <1>1, <2>1 DEF TimeSet
  <2>3. /\ Part(Within(L[s], first, mark), L[s])
        /\ \A u \in DOMAIN L[s] :
             first <= u /\ u <= mark => u \in DOMAIN Within(L[s], first, mark)
    BY <2>1, <2>2, WithinPart
  <2> QED BY <2>2, <2>3
<1> DEFINE e == Evaluate(Formula[d], data, TimesOf(Formula[d], data))
<1>3. /\ DOMAIN e \subseteq TimesOf(Formula[d], data)
      /\ TimesOf(Formula[d], data) \subseteq Int
      /\ \A t \in DOMAIN e : Right(L, d, t, e[t])
      /\ \A t \in TimesOf(Formula[d], data) : EveryPoint(data, d, t) => t \in DOMAIN e
  BY <1>2, EvaluateRight
<1> HIDE DEF e
<1>4. ASSUME NEW t \in Int, Sampled(L, A, mark, d, t)
      PROVE  t \in DOMAIN e
  <2>1. mark - Size + 1 <= t /\ t <= mark
    BY <1>1, <1>4 DEF Sampled, EveryPoint
  <2>2. \A s \in Formula[d] : t \in DOMAIN data[s]
    BY <1>2, <1>4, <2>1 DEF Sampled, EveryPoint
  <2>3. t \in TimesOf(Formula[d], data)
    BY <1>1, <2>2 DEF TimesOf
  <2> QED BY <1>3, <2>2, <2>3 DEF EveryPoint
<1>5. DOMAIN e \subseteq Int
  BY <1>3
<1> QED BY <1>3, <1>4, <1>5 DEF e

LEMMA ReadFullEffect ==
  ASSUME ShapeInv, NEW c \in Callers, ReadFull(c)
  PROVE  LET x == caller[c]
             y == caller'[c]
         IN
         /\ y = [pc |-> "publishing", project |-> x.project, report |-> x.report,
                 full |-> {}, items |-> y.items]
         /\ x.pc = "readingFull" /\ OthersSame(c) /\ DOMAIN caller' = Callers
         /\ DOMAIN y.items = (DOMAIN x.items) \cup x.full
         /\ \A d \in DOMAIN x.items : y.items[d] = x.items[d]
         /\ \A d \in x.full :
              /\ ItemOK(y.items[d], x.report) /\ ~y.items[d].incremental
              /\ ItemRight(y.items[d], live, ahead, watermark[ProjectOf[d]], d)
<1> DEFINE x == caller[c]
           p == caller[c].project
           data == Queried(p)
           values == [d \in caller[c].full |->
                        Evaluate(Formula[d], data, TimesOf(Formula[d], data))]
           items == [d \in caller[c].full |->
                       FullItem(Evaluate(Formula[d], data, TimesOf(Formula[d], data)))]
           new == Over(caller[c].items, items)
<1>1. /\ x.pc = "readingFull"
      /\ caller' = [caller EXCEPT ![c].pc = "publishing", ![c].full = {},
                                  ![c].items = Over(@, items)]
  BY Zenon DEF ReadFull
<1>2. /\ WindowOK /\ CallerOK(x) /\ DOMAIN caller = Callers
  BY DEF ShapeInv
<1>3. /\ x = [pc |-> x.pc, project |-> x.project, report |-> x.report,
              full |-> x.full, items |-> x.items]
      /\ x.full \subseteq Derived \cap InProject(p)
      /\ (DOMAIN x.items) \cap x.full = {}
      /\ p \in Projects
  BY <1>1, <1>2 DEF CallerOK
<1> HIDE DEF items
<1>4. /\ caller'[c] = [pc |-> "publishing", project |-> x.project, report |-> x.report,
                       full |-> {}, items |-> new]
      /\ OthersSame(c) /\ DOMAIN caller' = Callers
  BY <1>1, <1>2, <1>3 DEF OthersSame
<1>5. /\ DOMAIN items = x.full
      /\ \A d \in x.full : items[d] = FullItem(values[d])
  BY DEF items
<1>6. /\ DOMAIN new = (DOMAIN x.items) \cup x.full
      /\ \A d \in DOMAIN x.items : new[d] = x.items[d]
      /\ \A d \in x.full : new[d] = FullItem(values[d])
  BY <1>3, <1>5 DEF Over
<1>7. ASSUME NEW d \in x.full
      PROVE  /\ DOMAIN values[d] \subseteq Int
             /\ \A t \in DOMAIN values[d] : Right(live, d, t, values[d][t])
             /\ \A t \in Int : Sampled(live, ahead, watermark[p], d, t) => t \in DOMAIN values[d]
  <2>1. d \in Derived /\ \A s \in Sources : TimeSet(DOMAIN live[s])
    BY <1>2, <1>3 DEF WindowOK
  <2>2. values[d] = Evaluate(Formula[d], data, TimesOf(Formula[d], data))
    OBVIOUS
  <2>3. CASE watermark[p] # NoTime
    <3>1. watermark[p] \in Int
      BY <1>2, <1>3, <2>3 DEF WindowOK
    <3>2. \A s \in Sources :
            data[s] = Within(live[s], watermark[p] - Size + 1, watermark[p])
      BY <2>3 DEF Queried, WindowStart
    <3>4. ASSUME NEW s \in Formula[d], NEW t \in DOMAIN live[s]
          PROVE  t <= watermark[p] \/ t \in ahead[s]
      <4>1. s \in Sources /\ ProjectOf[s] = p
        BY <1>3, <2>1, DerivedRefreshAssumption DEF InProject
      <4> QED BY <1>2, <4>1 DEF WindowOK
    <3> HIDE DEF data, values, p
    <3>3. LET e == Evaluate(Formula[d], data, TimesOf(Formula[d], data)) IN
          /\ DOMAIN e \subseteq Int
          /\ \A t \in DOMAIN e : Right(live, d, t, e[t])
          /\ \A t \in Int : Sampled(live, ahead, watermark[p], d, t) => t \in DOMAIN e
      BY <2>1, <3>1, <3>2, <3>4, FullRight
    <3> QED BY <2>2, <3>3
  <2>4. CASE watermark[p] = NoTime
    <3>1. \A s \in Sources : data[s] = EmptyMap
      BY <2>4 DEF Queried
    <3>2. \A s \in Formula[d] : DOMAIN data[s] = {}
      BY <2>1, <3>1, DerivedRefreshAssumption DEF EmptyMap
    <3>3. TimesOf(Formula[d], data) = {}
      BY <3>2 DEF TimesOf
    <3>4. DOMAIN values[d] = {}
      BY <2>2, <3>3 DEF Evaluate
    <3> QED BY <2>4, <3>4 DEF Sampled
  <2> QED BY <2>3, <2>4
<1> HIDE DEF values, new
<1>8. ASSUME NEW d \in x.full
      PROVE  /\ ItemOK(new[d], x.report) /\ ~new[d].incremental
             /\ ItemRight(new[d], live, ahead, watermark[ProjectOf[d]], d)
  <2>1. new[d] = [incremental |-> FALSE, start |-> 0, end |-> 0, points |-> values[d]]
    BY <1>6, <1>8 DEF FullItem
  <2>2. ProjectOf[d] = p
    BY <1>3, <1>8 DEF InProject
  <2>3. new[d].points = values[d] /\ new[d].incremental = FALSE
    BY <2>1
  <2> QED BY <1>7, <1>8, <2>1, <2>2, <2>3 DEF ItemOK, ItemRight
<1> HIDE DEF x, p
<1> QED BY <1>1, <1>4, <1>6, <1>8 DEF x, p

(* A caller publishes d: it has one item less.                             *)
LEMMA PublishEffect ==
  ASSUME ShapeInv, NEW c \in Callers, NEW d, Published(c, d),
         caller[c].pc = "publishing"
  PROVE  LET x == caller[c]
             y == caller'[c]
         IN
         /\ y = [pc |-> "publishing", project |-> x.project, report |-> x.report,
                 full |-> {}, items |-> y.items]
         /\ OthersSame(c) /\ DOMAIN caller' = Callers
         /\ x.full = {}
         /\ DOMAIN y.items = (DOMAIN x.items) \ {d}
         /\ \A e \in (DOMAIN x.items) \ {d} : y.items[e] = x.items[e]
<1> DEFINE x == caller[c]
           items == Restrict(x.items, (DOMAIN x.items) \ {d})
<1>1. /\ x = [pc |-> x.pc, project |-> x.project, report |-> x.report,
              full |-> x.full, items |-> x.items]
      /\ x.full = {} /\ DOMAIN caller = Callers
  BY DEF ShapeInv, CallerOK
<1>2. caller' = [caller EXCEPT ![c].items = items]
  BY DEF Published
<1>3. /\ DOMAIN items = (DOMAIN x.items) \ {d}
      /\ \A e \in (DOMAIN x.items) \ {d} : items[e] = x.items[e]
  BY DEF Restrict
<1> HIDE DEF items
<1>4. /\ caller'[c] = [pc |-> "publishing", project |-> x.project, report |-> x.report,
                       full |-> {}, items |-> items]
      /\ OthersSame(c) /\ DOMAIN caller' = Callers
  BY <1>1, <1>2 DEF OthersSame
<1> HIDE DEF x
<1> QED BY <1>1, <1>3, <1>4 DEF x

(* An idle caller, and a caller that has just begun, have no results.      *)
LEMMA IdleOK ==
  ASSUME NEW x, x = Idle
  PROVE  CallerOK(x) /\ x.pc = "idle"
<1>1. x = [pc |-> "idle", project |-> NoCaller, report |-> NoReport, full |-> {},
           items |-> <<>>]
  BY DEF Idle, EmptyMap
<1> QED BY <1>1 DEF CallerOK, ReportOK

LEMMA BegunOK ==
  ASSUME NEW at \in {"locking", "reading"}, NEW p \in Projects, NEW report,
         ReportOK(report, p), at = "locking" => report = NoReport,
         NEW x, x = [Idle EXCEPT !.pc = at, !.project = p, !.report = report]
  PROVE  /\ CallerOK(x)
         /\ x = [pc |-> at, project |-> p, report |-> report, full |-> {},
                 items |-> EmptyMap]
         /\ DOMAIN EmptyMap = {}
<1>1. x = [pc |-> at, project |-> p, report |-> report, full |-> {}, items |-> EmptyMap]
  BY DEF Idle
<1>2. DOMAIN EmptyMap = {}
  BY DEF EmptyMap
<1>3. /\ x.pc = at /\ x.project = p /\ x.report = report /\ x.full = {}
      /\ x.items = EmptyMap
  BY DEF Idle
<1>4. x = [pc |-> x.pc, project |-> x.project, report |-> x.report,
           full |-> x.full, items |-> x.items]
  BY <1>1
<1>5. DOMAIN x.items = {}
  BY <1>2, <1>3
<1>6. CallerOK(x)
  BY <1>3, <1>4, <1>5 DEF CallerOK
<1> QED BY <1>1, <1>2, <1>6

(* patchDerivedSequence and replaceDerivedSequence: what is published, and *)
(* what becomes of the points of all series.                               *)
LEMMA PatchEffect ==
  ASSUME ShapeInv, NEW c \in Callers, NEW d \in Derived, Patch(c, d)
  PROVE  LET item == caller[c].items[d] IN
         /\ caller[c].pc = "publishing" /\ d \in DOMAIN caller[c].items
         /\ Published(c, d) /\ item.incremental
         /\ ~(caller[c].report.generation < lastPublished)
         /\ ItemOK(item, caller[c].report)
         /\ DOMAIN derived' = Derived
         /\ \A e \in Derived \ {d} : derived'[e] = derived[e]
         /\ \A t \in DOMAIN derived'[d] :
              \/ t \in DOMAIN item.points /\ derived'[d][t] = item.points[t]
              \/ /\ t \in DOMAIN derived[d] /\ ~InRange(item, t)
                 /\ derived'[d][t] = derived[d][t]
         /\ DOMAIN item.points \subseteq DOMAIN derived'[d]
         /\ \A t \in DOMAIN derived[d] :
              ~InRange(item, t) => t \in DOMAIN derived'[d]
<1> DEFINE item == caller[c].items[d]
           kept == Restrict(derived[d], {t \in DOMAIN derived[d] :
                                           t < item.start \/ t > item.end})
           new == Over(item.points, kept)
<1>1. /\ caller[c].pc = "publishing" /\ d \in DOMAIN caller[c].items
      /\ Published(c, d) /\ item.incremental
      /\ ~(caller[c].report.generation < lastPublished)
      /\ derived' = [derived EXCEPT ![d] = new]
  BY DEF Patch, Stale
<1>2. /\ ItemOK(item, caller[c].report) /\ DOMAIN derived = Derived
      /\ \A t \in DOMAIN derived[d] : t \in Int
  BY <1>1 DEF ShapeInv, CallerOK, WindowOK
<1>3. \A t \in DOMAIN derived[d] :
        (t < item.start \/ t > item.end) <=> ~InRange(item, t)
  BY <1>2 DEF InRange, ItemOK
<1>4. /\ DOMAIN kept = {t \in DOMAIN derived[d] : t < item.start \/ t > item.end}
      /\ \A t \in DOMAIN kept : kept[t] = derived[d][t]
  BY DEF Restrict
<1> HIDE DEF kept, item
<1>5. /\ DOMAIN new = (DOMAIN item.points) \cup (DOMAIN kept)
      /\ \A t \in DOMAIN new :
           new[t] = IF t \in DOMAIN item.points THEN item.points[t] ELSE kept[t]
  BY DEF Over
<1> HIDE DEF new
<1>6. /\ derived'[d] = new /\ DOMAIN derived' = Derived
      /\ \A e \in Derived \ {d} : derived'[e] = derived[e]
  BY <1>1, <1>2
<1> QED BY <1>1, <1>2, <1>3, <1>4, <1>5, <1>6, SMTT(20) DEF item

LEMMA ReplaceEffect ==
  ASSUME ShapeInv, NEW c \in Callers, NEW d \in Derived, Replace(c, d)
  PROVE  LET item == caller[c].items[d] IN
         /\ caller[c].pc = "publishing" /\ d \in DOMAIN caller[c].items
         /\ Published(c, d) /\ ~item.incremental
         /\ ItemOK(item, caller[c].report)
         /\ DOMAIN derived' = Derived
         /\ \A e \in Derived :
              LET old == IF e = d THEN item.points ELSE derived[e] IN
              /\ DOMAIN derived'[e] \subseteq DOMAIN old
              /\ \A t \in DOMAIN derived'[e] : derived'[e][t] = old[t]
              /\ \A t \in DOMAIN old :
                   \/ t \in DOMAIN derived'[e]
                   \/ /\ watermark[ProjectOf[e]] # NoTime
                      /\ ~(t >= watermark[ProjectOf[e]] - Size)
<1> DEFINE item == caller[c].items[d]
           p == caller[c].project
           replaced == [derived EXCEPT ![d] = item.points]
<1>1. /\ caller[c].pc = "publishing" /\ d \in DOMAIN caller[c].items
      /\ Published(c, d) /\ ~item.incremental
      /\ derived' = [x \in Derived |->
                       IF ProjectOf[x] = p /\ watermark[p] # NoTime
                       THEN From(replaced[x], WindowStart(p)) ELSE replaced[x]]
  BY Zenon DEF Replace
<1>2. /\ ItemOK(item, caller[c].report) /\ DOMAIN derived = Derived
      /\ p \in Projects
      /\ watermark[p] # NoTime => WindowStart(p) \in Int
  <2>1. /\ ItemOK(item, caller[c].report) /\ DOMAIN derived = Derived /\ p \in Projects
        /\ watermark[p] \in Int \cup {NoTime}
    BY <1>1 DEF ShapeInv, CallerOK, WindowOK
  <2> QED BY <2>1, DerivedRefreshAssumption DEF WindowStart
<1> HIDE DEF item, p
<1>3. ASSUME NEW e \in Derived
      PROVE  LET old == IF e = d THEN item.points ELSE derived[e] IN
             /\ DOMAIN derived'[e] \subseteq DOMAIN old
             /\ \A t \in DOMAIN derived'[e] : derived'[e][t] = old[t]
             /\ \A t \in DOMAIN old :
                  \/ t \in DOMAIN derived'[e]
                  \/ /\ watermark[ProjectOf[e]] # NoTime
                     /\ ~(t >= watermark[ProjectOf[e]] - Size)
  <2> DEFINE old == IF e = d THEN item.points ELSE derived[e]
  <2>1. replaced[e] = old
    BY <1>2, <1>3
  <2>2. DOMAIN old \subseteq Int
    BY <1>2, <1>3 DEF ShapeInv, WindowOK, ItemOK
  <2> HIDE DEF old, replaced
  <2>3. CASE ProjectOf[e] = p /\ watermark[p] # NoTime
    <3>1. derived'[e] = From(old, WindowStart(p))
      BY <1>1, <1>3, <2>1, <2>3
    <3>2. WindowStart(p) = watermark[ProjectOf[e]] - Size
      BY <2>3 DEF WindowStart
    <3>3. /\ DOMAIN From(old, WindowStart(p)) = {u \in DOMAIN old : u >= WindowStart(p)}
          /\ \A u \in DOMAIN From(old, WindowStart(p)) :
               From(old, WindowStart(p))[u] = old[u]
      BY <1>2, <2>2, <2>3, FromPart
    <3>4. /\ DOMAIN derived'[e] = {u \in DOMAIN old : u >= watermark[ProjectOf[e]] - Size}
          /\ \A u \in DOMAIN derived'[e] : derived'[e][u] = old[u]
      BY <3>1, <3>2, <3>3
    <3>5. watermark[ProjectOf[e]] # NoTime
      BY <2>3
    <3> QED BY <3>4, <3>5 DEF old
  <2>4. CASE ~(ProjectOf[e] = p /\ watermark[p] # NoTime)
    <3>1. derived'[e] = old
      BY <1>1, <1>3, <2>1, <2>4
    <3> QED BY <3>1 DEF old
  <2> QED BY <2>3, <2>4
<1>4. DOMAIN derived' = Derived
  BY <1>1
<1> QED BY <1>1, <1>2, <1>3, <1>4 DEF item
-----------------------------------------------------------------------------
LEMMA ShapeInit == Init => ShapeInv
<1> SUFFICES ASSUME Init
             PROVE  ShapeInv
  OBVIOUS
<1>1. DOMAIN EmptyMap = {} /\ TimeSet({})
  BY FS_EmptySet DEF EmptyMap, TimeSet
<1>2. WindowOK
  BY <1>1 DEF Init, WindowOK
<1>3. PublishedOK
  BY DEF Init, PublishedOK
<1>4. DOMAIN caller = Callers /\ \A c \in Callers : CallerOK(caller[c])
  BY IdleOK DEF Init
<1> QED BY <1>2, <1>3, <1>4 DEF ShapeInv

(* A step of one caller.                                                   *)
LEMMA ShapeStep ==
  ASSUME ShapeInv, NEW c \in Callers, OthersSame(c), DOMAIN caller' = Callers,
         CallerOK(caller'[c]), WindowOK', PublishedOK'
  PROVE  ShapeInv'
<1>1. \A b \in Callers : CallerOK(caller'[b])
  BY DEF ShapeInv, OthersSame
<1> QED BY <1>1 DEF ShapeInv

(* A caller that has published d.                                          *)
LEMMA PublishedShape ==
  ASSUME ShapeInv, NEW c \in Callers, NEW d, Published(c, d),
         caller[c].pc = "publishing"
  PROVE  CallerOK(caller'[c]) /\ OthersSame(c) /\ DOMAIN caller' = Callers
<1> DEFINE x == caller[c]
           y == caller'[c]
<1>1. /\ y = [pc |-> "publishing", project |-> x.project, report |-> x.report,
              full |-> {}, items |-> y.items]
      /\ OthersSame(c) /\ DOMAIN caller' = Callers
      /\ DOMAIN y.items = (DOMAIN x.items) \ {d}
      /\ \A e \in (DOMAIN x.items) \ {d} : y.items[e] = x.items[e]
  BY PublishEffect
<1>2. CallerOK(x) /\ x.pc = "publishing"
  BY DEF ShapeInv
<1> HIDE DEF x, y
<1>3. /\ y.pc = "publishing" /\ y.project = x.project /\ y.report = x.report
      /\ y.full = {}
  BY <1>1
<1>4. CallerOK(y)
  BY <1>1, <1>2, <1>3 DEF CallerOK
<1> QED BY <1>1, <1>4 DEF y

LEMMA WindowStays ==
  ASSUME WindowOK, UNCHANGED windowVars, UNCHANGED derived
  PROVE  WindowOK'
BY DEF WindowOK, windowVars

LEMMA PublishedStays ==
  ASSUME PublishedOK, UNCHANGED <<enabled, lastPublished, patched>>
  PROVE  PublishedOK'
BY DEF PublishedOK

LEMMA ShapeNext ==
  ASSUME ShapeInv, [Next]_vars
  PROVE  ShapeInv'
<1>1. WindowOK /\ PublishedOK /\ DOMAIN caller = Callers
      /\ \A c \in Callers : CallerOK(caller[c])
  BY DEF ShapeInv
<1>2. ASSUME NEW c \in Callers, Update(c)
      PROVE  ShapeInv'
  <2>1. PICK p \in Projects : \E report : UpdateDone(c, p, report)
    BY <1>2, UpdateEffect
  <2>2. PICK report : UpdateDone(c, p, report)
    BY <2>1
  <2> DEFINE y == [Idle EXCEPT !.pc = "reading", !.project = p, !.report = report]
  <2>3. caller' = [caller EXCEPT ![c] = y] /\ ReportOK(report, p)
    BY <2>2 DEF UpdateDone
  <2>4. CallerOK(y)
    BY <2>3, BegunOK
  <2> HIDE DEF y
  <2>5. CallerOK(caller'[c]) /\ OthersSame(c) /\ DOMAIN caller' = Callers
    BY <1>1, <2>3, <2>4 DEF OthersSame
  <2>6. PublishedOK'
    BY <1>1, <2>2, PublishedStays DEF UpdateDone
  <2>7. WindowOK'
    BY <1>2, UpdateEffect
  <2> QED BY <2>5, <2>6, <2>7, ShapeStep
<1>3. ASSUME NEW c \in Callers, Sync(c)
      PROVE  ShapeInv'
  <2>1. PICK d \in Derived :
          /\ enabled' = IF d \in enabled THEN enabled \ {d} ELSE enabled \cup {d}
          /\ caller' = [caller EXCEPT ![c] = [Idle EXCEPT !.pc = "locking",
                                                          !.project = ProjectOf[d]]]
    BY <1>3 DEF Sync
  <2>2. UNCHANGED windowVars /\ UNCHANGED <<derived, lastPublished, patched>>
    BY <1>3 DEF Sync
  <2>3. ProjectOf[d] \in Projects
    BY DerivedRefreshAssumption
  <2> DEFINE y == [Idle EXCEPT !.pc = "locking", !.project = ProjectOf[d],
                               !.report = NoReport]
  <2>4. y = [Idle EXCEPT !.pc = "locking", !.project = ProjectOf[d]]
    <3>1. ASSUME NEW x, x = [Idle EXCEPT !.pc = "locking", !.project = ProjectOf[d]]
          PROVE  x = [pc |-> "locking", project |-> ProjectOf[d], report |-> NoReport,
                      full |-> {}, items |-> EmptyMap]
      BY <3>1 DEF Idle
    <3>2. y = [pc |-> "locking", project |-> ProjectOf[d], report |-> NoReport,
               full |-> {}, items |-> EmptyMap]
      <4> HIDE DEF y
      <4>1. y = [Idle EXCEPT !.pc = "locking", !.project = ProjectOf[d],
                               !.report = NoReport]
        BY DEF y
      <4> QED BY <4>1, BegunOK, <2>3 DEF ReportOK
    <3>3. \A x : x = [Idle EXCEPT !.pc = "locking", !.project = ProjectOf[d]] => x = y
      BY <3>1, <3>2, Zenon
    <3> QED BY <3>3
  <2>5. CallerOK(y)
    BY <2>3, BegunOK DEF ReportOK
  <2> HIDE DEF y
  <2>6. CallerOK(caller'[c]) /\ OthersSame(c) /\ DOMAIN caller' = Callers
    BY <1>1, <2>1, <2>4, <2>5 DEF OthersSame
  <2>7. PublishedOK'
    BY <1>1, <2>1, <2>2 DEF PublishedOK
  <2>8. WindowOK'
    BY <1>1, <2>2, WindowStays
  <2> QED BY <2>6, <2>7, <2>8, ShapeStep
<1>4. ASSUME NEW c \in Callers, LockFull(c)
      PROVE  ShapeInv'
  <2>1. CallerOK(caller[c]) /\ caller[c].pc = "locking"
    BY <1>1, <1>4 DEF LockFull
  <2> DEFINE y == [caller[c] EXCEPT !.pc = "reading"]
  <2>2. caller' = [caller EXCEPT ![c] = y]
    BY <1>4 DEF LockFull
  <2>3. /\ y = [pc |-> "reading", project |-> caller[c].project,
                report |-> caller[c].report, full |-> caller[c].full,
                items |-> caller[c].items]
    BY <2>1 DEF CallerOK
  <2> HIDE DEF y
  <2>4. CallerOK(y)
    <3>1. /\ y.pc = "reading" /\ y.project = caller[c].project
          /\ y.report = caller[c].report /\ y.full = caller[c].full
          /\ y.items = caller[c].items
      BY <2>3
    <3>2. y = [pc |-> y.pc, project |-> y.project, report |-> y.report,
               full |-> y.full, items |-> y.items]
      BY <2>3, <3>1
    <3> QED BY <2>1, <3>1, <3>2 DEF CallerOK
  <2>5. CallerOK(caller'[c]) /\ OthersSame(c) /\ DOMAIN caller' = Callers
    BY <1>1, <2>2, <2>4 DEF OthersSame
  <2>6. PublishedOK'
    BY <1>1, <1>4, PublishedStays DEF LockFull, history
  <2>7. WindowOK'
    BY <1>1, <1>4, WindowStays DEF LockFull
  <2> QED BY <2>5, <2>6, <2>7, ShapeStep
<1>5. ASSUME NEW c \in Callers, ReadRange(c)
      PROVE  ShapeInv'
  <2> DEFINE x == caller[c]
             y == caller'[c]
  <2>1. /\ y = [pc |-> "readingFull", project |-> x.project, report |-> x.report,
                full |-> y.full, items |-> y.items]
        /\ x.pc = "reading" /\ OthersSame(c) /\ DOMAIN caller' = Callers
        /\ (DOMAIN y.items) \cup y.full \subseteq Derived \cap InProject(x.project)
        /\ (DOMAIN y.items) \cap y.full = {}
        /\ \A d \in DOMAIN y.items : ItemOK(y.items[d], x.report)
    BY <1>5, ReadRangeEffect
  <2>2. CallerOK(x)
    BY <1>1
  <2> HIDE DEF x, y
  <2>3. y.pc = "readingFull" /\ y.project = x.project /\ y.report = x.report
    BY <2>1
  <2>4. CallerOK(y)
    BY <2>1, <2>2, <2>3 DEF CallerOK
  <2>5. PublishedOK' /\ WindowOK'
    BY <1>1, <1>5, PublishedStays, WindowStays DEF ReadRange, history
  <2> QED BY <2>1, <2>4, <2>5, ShapeStep DEF y
<1>6. ASSUME NEW c \in Callers, ReadFull(c)
      PROVE  ShapeInv'
  <2> DEFINE x == caller[c]
             y == caller'[c]
  <2>1. /\ y = [pc |-> "publishing", project |-> x.project, report |-> x.report,
                full |-> {}, items |-> y.items]
        /\ x.pc = "readingFull" /\ OthersSame(c) /\ DOMAIN caller' = Callers
        /\ DOMAIN y.items = (DOMAIN x.items) \cup x.full
        /\ \A d \in DOMAIN x.items : y.items[d] = x.items[d]
        /\ \A d \in x.full : ItemOK(y.items[d], x.report)
    BY <1>6, ReadFullEffect
  <2>2. CallerOK(x)
    BY <1>1
  <2> HIDE DEF x, y
  <2>3. y.pc = "publishing" /\ y.project = x.project /\ y.report = x.report
        /\ y.full = {}
    BY <2>1
  <2>4. CallerOK(y)
    BY <2>1, <2>2, <2>3 DEF CallerOK
  <2>5. PublishedOK' /\ WindowOK'
    BY <1>1, <1>6, PublishedStays, WindowStays DEF ReadFull, history
  <2> QED BY <2>1, <2>4, <2>5, ShapeStep DEF y
<1>7. ASSUME NEW c \in Callers, NEW d \in Derived, Skip(c, d)
      PROVE  ShapeInv'
  <2>1. CallerOK(caller'[c]) /\ OthersSame(c) /\ DOMAIN caller' = Callers
    BY <1>7, PublishedShape DEF Skip
  <2>2. PublishedOK' /\ WindowOK'
    BY <1>1, <1>7, PublishedStays, WindowStays DEF Skip, history
  <2> QED BY <2>1, <2>2, ShapeStep
<1>8. ASSUME NEW c \in Callers, NEW d \in Derived, Patch(c, d)
      PROVE  ShapeInv'
  <2>1. CallerOK(caller'[c]) /\ OthersSame(c) /\ DOMAIN caller' = Callers
    BY <1>8, PublishedShape DEF Patch
  <2>2. WindowOK'
    <3>1. DOMAIN derived' = Derived /\ \A e \in Derived : DOMAIN derived'[e] \subseteq Int
      BY <1>1, <1>8, PatchEffect DEF WindowOK, ItemOK
    <3>2. UNCHANGED windowVars
      BY <1>8 DEF Patch
    <3> QED BY <1>1, <3>1, <3>2 DEF WindowOK, windowVars
  <2>3. caller[c].report.generation \in Nat
    <3>1. caller[c].items[d].incremental /\ ItemOK(caller[c].items[d], caller[c].report)
      BY <1>8, PatchEffect
    <3>2. ReportOK(caller[c].report, caller[c].project)
      BY <1>1 DEF CallerOK
    <3> QED BY <3>1, <3>2 DEF ItemOK, ReportOK
  <2>4. /\ lastPublished' = Later(lastPublished, caller[c].report.generation)
        /\ patched' = [patched EXCEPT ![d] = Later(@, caller[c].report.generation)]
        /\ enabled' = enabled
    BY <1>8 DEF Patch
  <2>5. PublishedOK'
    BY <1>1, <2>3, <2>4 DEF PublishedOK, Later
  <2> QED BY <2>1, <2>2, <2>5, ShapeStep
<1>9. ASSUME NEW c \in Callers, NEW d \in Derived, Replace(c, d)
      PROVE  ShapeInv'
  <2>1. CallerOK(caller'[c]) /\ OthersSame(c) /\ DOMAIN caller' = Callers
    BY <1>9, PublishedShape DEF Replace
  <2>2. WindowOK'
    <3>1. DOMAIN derived' = Derived
      BY <1>9, ReplaceEffect
    <3>2. ASSUME NEW e \in Derived
          PROVE  DOMAIN derived'[e] \subseteq Int
      <4>1. DOMAIN derived'[e] \subseteq
              DOMAIN (IF e = d THEN caller[c].items[d].points ELSE derived[e])
        BY <1>9, ReplaceEffect
      <4>2. ItemOK(caller[c].items[d], caller[c].report)
        BY <1>9, ReplaceEffect
      <4> QED BY <1>1, <4>1, <4>2 DEF WindowOK, ItemOK
    <3>3. UNCHANGED windowVars
      BY <1>9 DEF Replace
    <3> QED BY <1>1, <3>1, <3>2, <3>3 DEF WindowOK, windowVars
  <2>3. PublishedOK'
    BY <1>1, <1>9, PublishedStays DEF Replace
  <2> QED BY <2>1, <2>2, <2>3, ShapeStep
<1>10. ASSUME NEW c \in Callers, Finish(c)
       PROVE  ShapeInv'
  <2>1. caller' = [caller EXCEPT ![c] = Idle]
    BY <1>10 DEF Finish
  <2>2. CallerOK(caller'[c]) /\ OthersSame(c) /\ DOMAIN caller' = Callers
    BY <1>1, <2>1, IdleOK DEF OthersSame
  <2>3. PublishedOK' /\ WindowOK'
    BY <1>1, <1>10, PublishedStays, WindowStays DEF Finish, history
  <2> QED BY <2>2, <2>3, ShapeStep
<1>11. ASSUME UNCHANGED vars
       PROVE  ShapeInv'
  BY <1>11 DEF ShapeInv, WindowOK, PublishedOK, vars, windowVars, history
<1> QED
  BY <1>2, <1>3, <1>4, <1>5, <1>6, <1>7, <1>8, <1>9, <1>10, <1>11
  DEF Next, CallerStep, Terminated
-----------------------------------------------------------------------------
LEMMA ShapeInvariant == Spec => []ShapeInv
<1>1. ShapeInv /\ [Next]_vars => ShapeInv'
  BY ShapeNext
<1> QED BY <1>1, ShapeInit, PTL DEF Spec

(* Refreshes compute in parallel and publish in any order, but the         *)
(* generation that refreshInternal compares under publish_mutex_ keeps an  *)
(* older one from patching a series that a newer one has patched, in a     *)
(* service of any number of projects.                                      *)
THEOREM PatchesStayInOrder == Spec => PatchesInOrder
<1>1. ASSUME ShapeInv, NEW c \in Callers, NEW d \in Derived, Patch(c, d)
      PROVE  caller[c].report.generation >= patched[d]
  <2>1. /\ caller[c].items[d].incremental
        /\ ItemOK(caller[c].items[d], caller[c].report)
        /\ ~(caller[c].report.generation < lastPublished)
    BY <1>1, PatchEffect
  <2>2. ReportOK(caller[c].report, caller[c].project)
    BY <1>1 DEF ShapeInv, CallerOK
  <2>3. caller[c].report.generation \in Nat
    BY <2>1, <2>2 DEF ItemOK, ReportOK
  <2>4. patched[d] \in Nat /\ lastPublished \in Nat /\ patched[d] <= lastPublished
    BY <1>1 DEF ShapeInv, PublishedOK
  <2> QED BY <2>1, <2>3, <2>4
<1>2. ShapeInv =>
        [\A c \in Callers, d \in Derived :
           Patch(c, d) => caller[c].report.generation >= patched[d]]_vars
  BY <1>1
<1> QED BY <1>2, ShapeInvariant, PTL DEF PatchesInOrder
-----------------------------------------------------------------------------
(***************************************************************************)
(* A caller alone.  In a service of one project no generation is ahead of  *)
(* the project's, and a refresh that no other has overlapped is the newest *)
(* one: it is never skipped as stale.                                      *)
(***************************************************************************)
LEMMA AloneStep ==
  ASSUME ShapeInv, AloneInv, NEW c \in Callers, OthersSame(c),
         caller[c].pc # "idle", caller'[c].project = caller[c].project,
         caller'[c].report = caller[c].report,
         UNCHANGED <<generation, overlapped>>,
         \A p \in Projects : lastPublished' <= generation[p]
  PROVE  AloneInv'
<1>1. \A b \in Callers : /\ caller[b].pc # "idle" \/ caller'[b].pc = caller[b].pc
                         /\ caller'[b].project = caller[b].project
                         /\ caller'[b].report = caller[b].report
  BY DEF OthersSame
<1>2. \A b \in Callers \ {c} : caller'[b].pc = caller[b].pc
  BY DEF OthersSame
<1>3. ASSUME NEW b \in Callers, caller'[b].pc # "idle", caller'[b].report # NoReport
      PROVE  caller'[b].report.generation <= generation'[caller'[b].project]
  BY <1>1, <1>3 DEF AloneInv
<1>4. ASSUME ~overlapped', NEW b \in Callers, caller'[b].pc # "idle"
      PROVE  /\ \A a \in Callers \ {b} : caller'[a].pc = "idle"
             /\ caller'[b].report # NoReport =>
                  caller'[b].report.generation = generation'[caller'[b].project]
  <2>1. caller[b].pc # "idle" /\ ~overlapped
    BY <1>1, <1>4
  <2>2. \A a \in Callers \ {b} : caller[a].pc = "idle"
    BY <2>1 DEF AloneInv
  <2>3. b = c
    BY <2>2
  <2> QED BY <1>1, <1>2, <2>1, <2>2, <2>3 DEF AloneInv
<1> QED BY <1>3, <1>4 DEF AloneInv

LEMMA AloneNext ==
  ASSUME OneProject, ShapeInv, AloneInv, [Next]_vars
  PROVE  AloneInv'
<1>1. /\ \A p \in Projects : lastPublished <= generation[p]
      /\ \A c \in Callers : CallerOK(caller[c])
      /\ lastPublished \in Nat /\ generation \in [Projects -> Nat]
      /\ DOMAIN caller = Callers
  BY DEF AloneInv, ShapeInv, PublishedOK, WindowOK
<1>2. ASSUME NEW c \in Callers, Update(c)
      PROVE  AloneInv'
  <2>1. PICK p \in Projects : \E report : UpdateDone(c, p, report)
    BY <1>2, UpdateEffect
  <2>2. PICK report : UpdateDone(c, p, report)
    BY <2>1
  <2> DEFINE y == [Idle EXCEPT !.pc = "reading", !.project = p, !.report = report]
  <2>3. /\ caller' = [caller EXCEPT ![c] = y] /\ ReportOK(report, p)
        /\ report.generation = generation[p] + 1
        /\ generation' = [generation EXCEPT ![p] = @ + 1]
        /\ overlapped' = Overlaps(c) /\ lastPublished' = lastPublished
    BY <2>2 DEF UpdateDone
  <2>4. y.pc = "reading" /\ y.project = p /\ y.report = report
    BY DEF Idle
  <2> HIDE DEF y
  <2>5. \A b \in Callers \ {c} : caller'[b] = caller[b]
    BY <1>1, <2>3
  <2>6. caller'[c] = y
    BY <1>1, <2>3
  <2>7. /\ generation' \in [Projects -> Nat]
        /\ \A q \in Projects : generation[q] <= generation'[q]
        /\ generation'[p] = report.generation
    BY <1>1, <2>3
  <2>8. \A q \in Projects : lastPublished' <= generation'[q]
    BY <1>1, <2>3, <2>7
  <2>9. ASSUME NEW b \in Callers, caller'[b].pc # "idle", caller'[b].report # NoReport
        PROVE  caller'[b].report.generation <= generation'[caller'[b].project]
    <3>1. CASE b = c
      BY <2>4, <2>6, <2>7, <3>1
    <3>2. CASE b # c
      <4>1. caller[b].report.generation <= generation[caller[b].project]
        BY <2>5, <2>9, <3>2 DEF AloneInv
      <4>2. caller[b].project \in Projects /\ caller[b].report.generation \in Nat
        BY <1>1, <2>5, <2>9, <3>2 DEF CallerOK, ReportOK
      <4> QED BY <1>1, <2>5, <2>7, <3>2, <4>1, <4>2
    <3> QED BY <3>1, <3>2
  <2>10. ASSUME ~overlapped', NEW b \in Callers, caller'[b].pc # "idle"
         PROVE  /\ \A a \in Callers \ {b} : caller'[a].pc = "idle"
                /\ caller'[b].report # NoReport =>
                     caller'[b].report.generation = generation'[caller'[b].project]
    <3>1. \A a \in Callers \ {c} : caller'[a].pc = "idle"
      BY <2>3, <2>5, <2>10 DEF Overlaps
    <3>2. b = c
      BY <2>10, <3>1
    <3> QED BY <2>4, <2>6, <2>7, <3>1, <3>2
  <2> QED BY <2>8, <2>9, <2>10 DEF AloneInv
<1>3. ASSUME NEW c \in Callers, Sync(c)
      PROVE  AloneInv'
  <2>1. PICK d \in Derived :
          caller' = [caller EXCEPT ![c] = [Idle EXCEPT !.pc = "locking",
                                                       !.project = ProjectOf[d]]]
    BY <1>3 DEF Sync
  <2>2. /\ overlapped' = Overlaps(c) /\ generation' = generation
        /\ lastPublished' = lastPublished
    BY <1>3 DEF Sync, windowVars
  <2> DEFINE y == [Idle EXCEPT !.pc = "locking", !.project = ProjectOf[d]]
  <2>3. y.report = NoReport
    BY DEF Idle
  <2> HIDE DEF y
  <2>4. caller'[c] = y /\ \A b \in Callers \ {c} : caller'[b] = caller[b]
    BY <1>1, <2>1 DEF y
  <2>5. ASSUME NEW b \in Callers, caller'[b].pc # "idle", caller'[b].report # NoReport
        PROVE  caller'[b].report.generation <= generation'[caller'[b].project]
    BY <2>2, <2>3, <2>4, <2>5 DEF AloneInv
  <2>6. ASSUME ~overlapped', NEW b \in Callers, caller'[b].pc # "idle"
        PROVE  /\ \A a \in Callers \ {b} : caller'[a].pc = "idle"
               /\ caller'[b].report = NoReport
    <3>1. \A a \in Callers \ {c} : caller'[a].pc = "idle"
      BY <2>2, <2>4, <2>6 DEF Overlaps
    <3>2. b = c
      BY <2>6, <3>1
    <3> QED BY <2>3, <2>4, <3>1, <3>2
  <2> QED BY <1>1, <2>2, <2>5, <2>6 DEF AloneInv
<1>4. ASSUME NEW c \in Callers, LockFull(c)
      PROVE  AloneInv'
  <2>1. CallerOK(caller[c]) /\ caller[c].pc = "locking"
    BY <1>1, <1>4 DEF LockFull
  <2>2. caller' = [caller EXCEPT ![c] = [caller[c] EXCEPT !.pc = "reading"]]
    BY <1>4 DEF LockFull
  <2>3. /\ caller'[c].project = caller[c].project
        /\ caller'[c].report = caller[c].report /\ OthersSame(c)
    BY <1>1, <2>1, <2>2 DEF OthersSame, CallerOK
  <2>4. UNCHANGED <<generation, overlapped, lastPublished>>
    BY <1>4 DEF LockFull, windowVars, history
  <2> QED BY <1>1, <2>1, <2>3, <2>4, AloneStep
<1>5. ASSUME NEW c \in Callers, ReadRange(c)
      PROVE  AloneInv'
  <2> DEFINE x == caller[c]
             y == caller'[c]
  <2>1. /\ y = [pc |-> "readingFull", project |-> x.project, report |-> x.report,
                full |-> y.full, items |-> y.items]
        /\ x.pc = "reading" /\ OthersSame(c)
    BY <1>5, ReadRangeEffect
  <2> HIDE DEF x, y
  <2>2. y.project = x.project /\ y.report = x.report
    BY <2>1
  <2>3. UNCHANGED <<generation, overlapped, lastPublished>>
    BY <1>5 DEF ReadRange, windowVars, history
  <2> QED BY <1>1, <2>1, <2>2, <2>3, AloneStep DEF x, y
<1>6. ASSUME NEW c \in Callers, ReadFull(c)
      PROVE  AloneInv'
  <2> DEFINE x == caller[c]
             y == caller'[c]
  <2>1. /\ y = [pc |-> "publishing", project |-> x.project, report |-> x.report,
                full |-> {}, items |-> y.items]
        /\ x.pc = "readingFull" /\ OthersSame(c)
    BY <1>6, ReadFullEffect
  <2> HIDE DEF x, y
  <2>2. y.project = x.project /\ y.report = x.report
    BY <2>1
  <2>3. UNCHANGED <<generation, overlapped, lastPublished>>
    BY <1>6 DEF ReadFull, windowVars, history
  <2> QED BY <1>1, <2>1, <2>2, <2>3, AloneStep DEF x, y
<1>7. ASSUME NEW c \in Callers, NEW d \in Derived, Published(c, d),
             caller[c].pc = "publishing", UNCHANGED <<generation, overlapped>>,
             \A p \in Projects : lastPublished' <= generation[p]
      PROVE  AloneInv'
  <2> DEFINE x == caller[c]
             y == caller'[c]
  <2>1. /\ y = [pc |-> "publishing", project |-> x.project, report |-> x.report,
                full |-> {}, items |-> y.items]
        /\ OthersSame(c)
    BY <1>7, PublishEffect
  <2> HIDE DEF x, y
  <2>2. y.project = x.project /\ y.report = x.report
    BY <2>1
  <2> QED BY <1>7, <2>1, <2>2, AloneStep DEF x, y
<1>8. ASSUME NEW c \in Callers, NEW d \in Derived, Skip(c, d)
      PROVE  AloneInv'
  BY <1>1, <1>7, <1>8 DEF Skip, windowVars, history
<1>9. ASSUME NEW c \in Callers, NEW d \in Derived, Patch(c, d)
      PROVE  AloneInv'
  <2>1. /\ caller[c].pc = "publishing" /\ Published(c, d)
        /\ caller[c].items[d].incremental /\ ItemOK(caller[c].items[d], caller[c].report)
    BY <1>9, PatchEffect
  <2>2. caller[c].report # NoReport /\ caller[c].project \in Projects
        /\ ReportOK(caller[c].report, caller[c].project)
    BY <1>1, <2>1 DEF ItemOK, CallerOK
  <2>3. caller[c].report.generation <= generation[caller[c].project]
    BY <2>1, <2>2 DEF AloneInv
  <2>4. \A p \in Projects : generation[p] = generation[caller[c].project]
    BY <2>2 DEF OneProject
  <2>5. /\ lastPublished' = Later(lastPublished, caller[c].report.generation)
        /\ UNCHANGED <<generation, overlapped>>
    BY <1>9 DEF Patch, windowVars
  <2>6. \A p \in Projects : lastPublished' <= generation[p]
    BY <1>1, <2>3, <2>4, <2>5 DEF Later
  <2> QED BY <1>7, <2>1, <2>5, <2>6
<1>10. ASSUME NEW c \in Callers, NEW d \in Derived, Replace(c, d)
       PROVE  AloneInv'
  BY <1>1, <1>7, <1>10 DEF Replace, windowVars
<1>11. ASSUME NEW c \in Callers, Finish(c)
       PROVE  AloneInv'
  <2>1. /\ caller' = [caller EXCEPT ![c] = Idle]
        /\ UNCHANGED <<generation, overlapped, lastPublished>>
    BY <1>11 DEF Finish, windowVars, history
  <2>2. Idle.pc = "idle"
    BY DEF Idle
  <2>3. caller'[c].pc = "idle" /\ \A b \in Callers \ {c} : caller'[b] = caller[b]
    BY <1>1, <2>1, <2>2
  <2>4. \A b \in Callers : caller'[b].pc # "idle" => b # c
    BY <2>3
  <2>5. ASSUME NEW b \in Callers, caller'[b].pc # "idle", caller'[b].report # NoReport
        PROVE  caller'[b].report.generation <= generation'[caller'[b].project]
    BY <2>1, <2>3, <2>4, <2>5 DEF AloneInv
  <2>6. ASSUME ~overlapped', NEW b \in Callers, caller'[b].pc # "idle"
        PROVE  /\ \A a \in Callers \ {b} : caller'[a].pc = "idle"
               /\ caller'[b].report # NoReport =>
                    caller'[b].report.generation = generation'[caller'[b].project]
    <3>1. caller'[b] = caller[b] /\ ~overlapped
      BY <2>1, <2>3, <2>4, <2>6
    <3>2. \A a \in Callers \ {b} : caller[a].pc = "idle"
      BY <2>6, <3>1 DEF AloneInv
    <3> QED BY <2>1, <2>3, <2>6, <3>1, <3>2 DEF AloneInv
  <2> QED BY <1>1, <2>1, <2>5, <2>6 DEF AloneInv
<1>12. ASSUME UNCHANGED vars
       PROVE  AloneInv'
  BY <1>12 DEF AloneInv, vars, windowVars, history
<1> QED
  BY <1>2, <1>3, <1>4, <1>5, <1>6, <1>8, <1>9, <1>10, <1>11, <1>12
  DEF Next, CallerStep, Terminated
-----------------------------------------------------------------------------
(***************************************************************************)
(* One series d with the points D, while x is the only caller that may be  *)
(* refreshing: the three parts of the invariant say this of every series.  *)
(***************************************************************************)
ItemsOK(x, L, A, mark, d) == d \in DOMAIN x.items => ItemRight(x.items[d], L, A, mark, d)

SoundOK(x, L, D, d) ==
  \A t \in DOMAIN D : Right(L, d, t, D[t]) \/ Mends(x, d, t)

WholeOK(x, L, A, mark, D, d) ==
  \A t \in Int : Sampled(L, A, mark, d, t) =>
    t \in DOMAIN D \/ Uneven(L, d, t) \/ Mends(x, d, t) \/ Adjoins(x, L, d, t)

SeriesOK(x, L, A, mark, D, d) ==
  ItemsOK(x, L, A, mark, d) /\ SoundOK(x, L, D, d) /\ WholeOK(x, L, A, mark, D, d)

(* A caller that is idle has nothing to publish.                           *)
LEMMA IdleMends ==
  ASSUME NEW x, CallerOK(x), x.pc = "idle", NEW L, NEW d, NEW t
  PROVE  ~Mends(x, d, t) /\ ~Adjoins(x, L, d, t) /\ d \notin DOMAIN x.items
BY DEF CallerOK, Mends, Adjoins, Ranged

LEMMA OneSeries ==
  ASSUME ShapeInv, ItemsInv, SoundInv, WholeInv, ~overlapped, NEW c \in Callers,
         \A b \in Callers \ {c} : caller[b].pc = "idle", NEW d \in enabled
  PROVE  SeriesOK(caller[c], live, ahead, watermark[ProjectOf[d]], derived[d], d)
<1>1. \A b \in Callers \ {c} : CallerOK(caller[b])
  BY DEF ShapeInv
<1>2. \A b \in Callers \ {c} : \A t :
        ~Mends(caller[b], d, t) /\ ~Adjoins(caller[b], live, d, t)
  BY <1>1, IdleMends
<1>3. ItemsOK(caller[c], live, ahead, watermark[ProjectOf[d]], d)
  BY DEF ItemsInv, ItemsOK
<1>4. SoundOK(caller[c], live, derived[d], d)
  BY <1>2 DEF SoundInv, SoundOK
<1>5. WholeOK(caller[c], live, ahead, watermark[ProjectOf[d]], derived[d], d)
  BY <1>2 DEF WholeInv, WholeOK
<1> QED BY <1>3, <1>4, <1>5 DEF SeriesOK

LEMMA EverySeries ==
  ASSUME ShapeInv', NEW c \in Callers, OthersSame(c),
         \A b \in Callers \ {c} : caller[b].pc = "idle",
         \A d \in enabled' :
           SeriesOK(caller'[c], live', ahead', watermark'[ProjectOf[d]], derived'[d], d)
  PROVE  ItemsInv' /\ SoundInv' /\ WholeInv'
<1>1. \A b \in Callers \ {c} : CallerOK(caller'[b]) /\ caller'[b].pc = "idle"
  BY DEF ShapeInv, OthersSame
<1>2. ASSUME NEW b \in Callers, NEW d \in enabled', d \in DOMAIN caller'[b].items
      PROVE  ItemRight(caller'[b].items[d], live', ahead', watermark'[ProjectOf[d]], d)
  <2>1. b # c => d \notin DOMAIN caller'[b].items
    BY <1>1, IdleMends
  <2> QED BY <1>2, <2>1 DEF SeriesOK, ItemsOK
<1>3. ItemsInv'
  BY <1>2 DEF ItemsInv
<1>4. SoundInv'
  BY DEF SoundInv, SeriesOK, SoundOK
<1>5. WholeInv'
  BY DEF WholeInv, SeriesOK, WholeOK
<1> QED BY <1>3, <1>4, <1>5

(* What an update that changes the points of the sources from L to M, and  *)
(* prunes a derived series from D to E, leaves to be mended is what its    *)
(* own refresh will mend: a point before the range has kept its neighbours,*)
(* and there was none after it.                                            *)
LEMMA UpdateSeries ==
  ASSUME NEW d \in Derived, NEW L, NEW M, NEW A, NEW B,
         \A s \in Sources : A[s] \subseteq B[s],
         \A s \in Sources : TimeSet(DOMAIN L[s]) /\ TimeSet(DOMAIN M[s]),
         NEW p \in Projects, NEW report, ReportOK(report, p), report # NoReport,
         report.evicted \subseteq report.changed,
         \A s \in Sources : \A t \in DOMAIN M[s] :
           t \in DOMAIN L[s] \/ (s \in report.changed /\ t \in report.points[s]),
         \A s \in report.safe : \A t \in DOMAIN L[s], u \in report.points[s] : t < u,
         \A s \in Sources :
           s \notin report.evicted /\ (s \in report.changed => s \in report.safe)
             => Part(L[s], M[s]),
         NEW mark \in Int \cup {NoTime}, NEW next \in Int \cup {NoTime},
         ProjectOf[d] = p => /\ next \in Int /\ next - Size = report.windowStart
                             /\ mark # NoTime => mark <= next,
         ProjectOf[d] # p => next = mark,
         \A s \in Formula[d] : DOMAIN L[s] # {} => mark # NoTime,
         NEW D, NEW E, DOMAIN E \subseteq DOMAIN D, DOMAIN D \subseteq Int,
         \A t \in DOMAIN E : E[t] = D[t],
         \A t \in DOMAIN D :
           t \in DOMAIN E <=> (ProjectOf[d] = p => t >= report.windowStart),
         \A t \in DOMAIN D : Right(L, d, t, D[t]),
         \A t \in Int : Sampled(L, A, mark, d, t) => t \in DOMAIN D \/ Uneven(L, d, t),
         NEW y, y = [pc |-> "reading", project |-> p, report |-> report,
                     full |-> {}, items |-> EmptyMap]
  PROVE  SeriesOK(y, M, B, next, E, d)
<1> DEFINE changed == ChangedSources(report, d)
           range == RangeFor(report, d)
<1>1. /\ y.pc = "reading" /\ y.report = report /\ y.project = p
      /\ d \notin DOMAIN y.items
  BY DEF EmptyMap
<1>2. /\ Formula[d] \subseteq Sources /\ Formula[d] # {}
      /\ \A s \in Formula[d] : ProjectOf[s] = ProjectOf[d]
      /\ Size \in Nat \ {0} /\ NoTime \notin Int
  BY DerivedRefreshAssumption
<1>3. report.changed \subseteq Sources \cap InProject(p)
      /\ report.safe \subseteq report.changed /\ report.windowStart \in Int
      /\ \A s \in report.safe : report.points[s] # {} /\ report.points[s] \subseteq Int
  BY DEF ReportOK, TimeSet
<1>4. \A s \in Formula[d] : s \in report.changed <=> s \in changed
  BY DEF ChangedSources
<1>5. changed # {} => ProjectOf[d] = p
  BY <1>2, <1>3 DEF ChangedSources, InProject
(* As long as every source of d keeps all of its points.                   *)
<1>6. ASSUME \A s \in Formula[d] : Part(L[s], M[s]),
             NEW t \in Int, NEW v, Right(L, d, t, v)
      PROVE  Right(M, d, t, v)
  <2>1. \A s \in Formula[d] : /\ HasValue(L[s], t) /\ TimeSet(DOMAIN M[s])
                              /\ Part(L[s], M[s])
    BY <1>2, <1>6 DEF Right
  <2>2. \A s \in Formula[d] : HasValue(M[s], t) /\ ValueAt(L[s], t) = ValueAt(M[s], t)
    BY <2>1, PartValue
  <2>3. HasPoint(M, d, t)
    BY <1>6 DEF Right, HasPoint, Part
  <2>4. v = [s \in Formula[d] |-> ValueAt(M[s], t)]
    BY <1>6, <2>2 DEF Right
  <2> QED BY <2>2, <2>3, <2>4 DEF Right
<1>7. ASSUME NEW t \in Int, Sampled(M, B, next, d, t),
             \A s \in Formula[d] : t \in DOMAIN L[s]
      PROVE  /\ Sampled(L, A, mark, d, t)
             /\ t \in DOMAIN D => t \in DOMAIN E
  <2>1. mark # NoTime /\ mark \in Int
    BY <1>2, <1>7
  <2>2. next # NoTime /\ next \in Int /\ t > next - Size
    BY <1>7 DEF Sampled
  <2>3. mark <= next
    BY <2>1, <2>2
  <2>4. t > mark - Size
    BY <1>2, <2>1, <2>2, <2>3
  <2>5. ProjectOf[d] = p => t >= report.windowStart
    BY <1>2, <1>3, <2>2
  <2>6. \E s \in Formula[d] : t \notin A[s]
    BY <1>2, <1>7 DEF Sampled
  <2> QED BY <1>7, <2>1, <2>4, <2>5, <2>6 DEF Sampled, EveryPoint
<1>8. ItemsOK(y, M, B, next, d)
  BY <1>1 DEF ItemsOK
<1>9. CASE changed = {}
  <2>1. \A s \in Formula[d] : Part(L[s], M[s]) /\ DOMAIN L[s] = DOMAIN M[s]
    <3>1. \A s \in Formula[d] : s \notin report.changed /\ s \notin report.evicted
      BY <1>4, <1>9
    <3>2. \A s \in Formula[d] : Part(L[s], M[s]) /\ DOMAIN M[s] \subseteq DOMAIN L[s]
      BY <1>2, <3>1
    <3> QED BY <3>2 DEF Part
  <2>2. SoundOK(y, M, E, d)
    BY <1>6, <2>1 DEF SoundOK
  <2>3. ASSUME NEW t \in Int, Sampled(M, B, next, d, t)
        PROVE  t \in DOMAIN E \/ Uneven(M, d, t)
    <3>1. \A s \in Formula[d] : t \in DOMAIN L[s]
      BY <2>1, <2>3 DEF Sampled, EveryPoint
    <3>2. Uneven(L, d, t) => Uneven(M, d, t)
      BY <2>1 DEF Uneven, HasPoint, EveryPoint
    <3> QED BY <1>7, <2>3, <3>1, <3>2
  <2> QED BY <1>8, <2>2, <2>3 DEF SeriesOK, WholeOK
<1>10. CASE changed # {} /\ ~HasRange(report, d)
  <2>1. \A t : Mends(y, d, t)
    BY <1>1, <1>10 DEF Mends
  <2> QED BY <1>8, <2>1 DEF SeriesOK, SoundOK, WholeOK
<1>11. CASE changed # {} /\ HasRange(report, d)
  <2>1. Ranged(y, d)
    BY <1>1, <1>11 DEF Ranged
  <2>2. /\ range.start \in Int /\ range.end \in Int /\ range.start <= range.end
        /\ \A s \in changed : \A t \in report.points[s] : InRange(range, t)
        /\ changed \cap report.evicted # {} => range.start <= report.windowStart
    BY <1>11, RangeForBounds
  <2>3. \A t : InRange(range, t) => Mends(y, d, t)
    BY <1>1, <2>1 DEF Mends
  <2>4. PICK s \in changed : s \in report.safe /\ s \in Formula[d]
    BY <1>11 DEF HasRange, ChangedSources
  <2>5. PICK u \in report.points[s] : u \in Int /\ u <= range.end
    BY <1>3, <2>2, <2>4 DEF InRange
  <2>6. \A t \in DOMAIN L[s] : t \in Int /\ t < range.end
    <3>1. \A t \in DOMAIN L[s] : t \in Int /\ t < u
      BY <1>2, <2>4, <2>5 DEF TimeSet
    <3> QED BY <2>2, <2>5, <3>1
  <2>7. \A t \in DOMAIN M[s] : t \in Int /\ t <= range.end
    <3>1. \A t \in DOMAIN M[s] : t \in Int /\ (t \in DOMAIN L[s] \/ InRange(range, t))
      BY <1>2, <2>2, <2>4 DEF TimeSet
    <3> QED BY <2>2, <2>6, <3>1 DEF InRange
  <2>8. ASSUME report.windowStart < range.start
        PROVE  \A q \in Formula[d] : Part(L[q], M[q])
    <3>1. changed \cap report.evicted = {}
      BY <1>3, <2>2, <2>8
    <3>2. \A q \in Formula[d] : q \notin report.evicted
      BY <1>4, <3>1
    <3>3. \A q \in Formula[d] : q \in report.changed => q \in report.safe
      BY <1>4, <1>11 DEF HasRange
    <3> QED BY <1>2, <3>2, <3>3
  <2>9. \A q \in Formula[d] : \A w \in DOMAIN M[q] : w \in DOMAIN L[q] \/ InRange(range, w)
    BY <1>2, <1>4, <2>2
  <2>10. ASSUME NEW t \in DOMAIN E
         PROVE  Right(M, d, t, E[t]) \/ Mends(y, d, t)
    <3>1. /\ t \in Int /\ t \in DOMAIN D /\ E[t] = D[t] /\ Right(L, d, t, E[t])
          /\ t >= report.windowStart
      BY <1>5, <1>11, <2>10
    <3>2. CASE InRange(range, t)
      BY <2>3, <3>2
    <3>3. CASE t < range.start
      <4>1. report.windowStart < range.start
        BY <1>3, <2>2, <3>1, <3>3
      <4> QED BY <1>6, <2>8, <3>1, <4>1
    <3>4. CASE t > range.end
      <4>1. HasValue(L[s], t)
        BY <2>4, <3>1 DEF Right
      <4> QED BY <2>2, <2>6, <3>1, <3>4, <4>1 DEF HasValue
    <3> QED BY <2>2, <3>1, <3>2, <3>3, <3>4 DEF InRange
  <2>11. ASSUME NEW t \in Int, Sampled(M, B, next, d, t)
         PROVE  \/ t \in DOMAIN E \/ Uneven(M, d, t)
                \/ Mends(y, d, t) \/ Adjoins(y, M, d, t)
    <3>1. /\ \A q \in Formula[d] : t \in DOMAIN M[q]
          /\ t > report.windowStart
      BY <1>5, <1>11, <2>11 DEF Sampled, EveryPoint
    <3>2. CASE InRange(range, t)
      BY <2>3, <3>2
    <3>3. CASE t > range.end
      BY <2>2, <2>4, <2>7, <3>1, <3>3
    <3>4. CASE t < range.start
      <4>1. \A q \in Formula[d] : Part(L[q], M[q])
        BY <1>3, <2>2, <2>8, <3>1, <3>4
      <4>2. ~InRange(range, t)
        BY <2>2, <3>4 DEF InRange
      <4>3. \A q \in Formula[d] : t \in DOMAIN L[q]
        BY <2>9, <3>1, <4>2
      <4>4. t \in DOMAIN E \/ Uneven(L, d, t)
        BY <1>7, <2>11, <4>3
      <4>5. CASE Uneven(L, d, t)
        <5>1. PICK w \in Int :
                /\ w > t /\ HasPoint(L, d, w) /\ ~EveryPoint(L, d, w)
                /\ \A z \in Int : HasPoint(L, d, z) => ~(t < z /\ z < w)
          BY <4>5 DEF Uneven
        <5>2. \A z \in Int : z < range.start /\ HasPoint(M, d, z) => HasPoint(L, d, z)
          <6>1. \A z \in Int : z < range.start => ~InRange(range, z)
            BY <2>2 DEF InRange
          <6> QED BY <2>9, <6>1 DEF HasPoint
        <5>3. CASE w < range.start
          <6>1. HasPoint(M, d, w)
            BY <4>1, <5>1 DEF HasPoint, Part
          <6>2. ~InRange(range, w)
            BY <2>2, <5>3 DEF InRange
          <6>3. ~EveryPoint(M, d, w)
            BY <2>9, <5>1, <6>2 DEF EveryPoint
          <6>4. ASSUME NEW z \in Int, HasPoint(M, d, z), t < z, z < w
                PROVE  FALSE
            <7>1. z < range.start
              BY <2>2, <5>3, <6>4
            <7> QED BY <5>1, <5>2, <6>4, <7>1
          <6>5. Uneven(M, d, t)
            BY <5>1, <6>1, <6>3, <6>4 DEF Uneven
          <6> QED BY <6>5
        <5>4. CASE ~(w < range.start)
          <6>1. ASSUME NEW z \in Int, HasPoint(M, d, z), t < z, z < range.start
                PROVE  FALSE
            <7>1. z < w
              BY <2>2, <5>4, <6>1
            <7> QED BY <5>1, <5>2, <6>1, <7>1
          <6>2. Adjoins(y, M, d, t)
            BY <1>1, <2>1, <3>4, <6>1 DEF Adjoins
          <6> QED BY <6>2
        <5> QED BY <5>3, <5>4
      <4> QED BY <4>4, <4>5
    <3> QED BY <2>2, <3>2, <3>3, <3>4 DEF InRange
  <2> QED BY <1>8, <2>10, <2>11 DEF SeriesOK, SoundOK, WholeOK
<1> QED BY <1>9, <1>10, <1>11

(* A busy caller that makes a step while no refresh has overlapped, and    *)
(* one that begins, is the only one.                                       *)
LEMMA OnlyCaller ==
  ASSUME AloneInv, ~overlapped, NEW c \in Callers, caller[c].pc # "idle"
  PROVE  \A b \in Callers \ {c} : caller[b].pc = "idle"
BY DEF AloneInv

LEMMA SeriesUpdate ==
  ASSUME ShapeInv, ShapeInv', ItemsInv, SoundInv, WholeInv, ~overlapped',
         NEW c \in Callers, Update(c)
  PROVE  ItemsInv' /\ SoundInv' /\ WholeInv'
<1>1. PICK p \in Projects : \E report : UpdateDone(c, p, report)
  BY UpdateEffect
<1>2. PICK report : UpdateDone(c, p, report)
  BY <1>1
<1>3. /\ caller[c].pc = "idle" /\ overlapped' = Overlaps(c) /\ enabled' = enabled
      /\ report # NoReport /\ ReportOK(report, p)
      /\ caller' = [caller EXCEPT ![c] = [Idle EXCEPT !.pc = "reading", !.project = p,
                                                      !.report = report]]
  BY <1>2 DEF UpdateDone
<1>4. ~overlapped /\ \A b \in Callers \ {c} : caller[b].pc = "idle"
  BY <1>3 DEF Overlaps
<1>5. /\ WindowOK /\ WindowOK' /\ CallerOK(caller[c]) /\ enabled \subseteq Derived
      /\ DOMAIN caller = Callers
  BY DEF ShapeInv, PublishedOK
<1> DEFINE y == [Idle EXCEPT !.pc = "reading", !.project = p, !.report = report]
<1>6. y = [pc |-> "reading", project |-> p, report |-> report, full |-> {},
           items |-> EmptyMap]
  BY <1>3, BegunOK
<1> HIDE DEF y
<1>7. caller'[c] = y /\ OthersSame(c)
  BY <1>3, <1>5 DEF OthersSame, y
<1>8. ASSUME NEW d \in enabled
      PROVE  SeriesOK(y, live', ahead', watermark'[ProjectOf[d]], derived'[d], d)
  <2>1. SeriesOK(caller[c], live, ahead, watermark[ProjectOf[d]], derived[d], d)
    BY <1>4, OneSeries
  <2>2. \A t : ~Mends(caller[c], d, t) /\ ~Adjoins(caller[c], live, d, t)
    BY <1>3, <1>5, IdleMends
  <2>3. /\ \A t \in DOMAIN derived[d] : Right(live, d, t, derived[d][t])
        /\ \A t \in Int : Sampled(live, ahead, watermark[ProjectOf[d]], d, t)
                            => t \in DOMAIN derived[d] \/ Uneven(live, d, t)
    BY <2>1, <2>2 DEF SeriesOK, SoundOK, WholeOK
  <2>4. /\ d \in Derived /\ ProjectOf[d] \in Projects /\ Formula[d] \subseteq Sources
        /\ \A s \in Formula[d] : ProjectOf[s] = ProjectOf[d]
    BY <1>5, DerivedRefreshAssumption
  <2>5. /\ watermark[ProjectOf[d]] \in Int \cup {NoTime}
        /\ watermark'[ProjectOf[d]] \in Int \cup {NoTime}
        /\ \A s \in Formula[d] : DOMAIN live[s] # {} => watermark[ProjectOf[d]] # NoTime
        /\ \A s \in Sources : TimeSet(DOMAIN live[s]) /\ TimeSet(DOMAIN live'[s])
        /\ DOMAIN derived[d] \subseteq Int
    BY <1>5, <2>4 DEF WindowOK
  <2>6. ProjectOf[d] = p =>
          /\ watermark'[ProjectOf[d]] \in Int
          /\ watermark'[ProjectOf[d]] - Size = report.windowStart
          /\ watermark[ProjectOf[d]] # NoTime =>
               watermark[ProjectOf[d]] <= watermark'[ProjectOf[d]]
    BY <1>2 DEF UpdateDone
  <2>7. ProjectOf[d] # p => watermark'[ProjectOf[d]] = watermark[ProjectOf[d]]
    BY <1>2, <2>4 DEF UpdateDone
  <2>8. /\ DOMAIN derived'[d] \subseteq DOMAIN derived[d]
        /\ \A t \in DOMAIN derived'[d] : derived'[d][t] = derived[d][t]
        /\ \A t \in DOMAIN derived[d] :
             t \in DOMAIN derived'[d] <=> (ProjectOf[d] = p => t >= report.windowStart)
    <3>1. d \in InProject(p) <=> ProjectOf[d] = p
      BY <2>4, DerivedRefreshAssumption DEF InProject
    <3>2. derived'[d] = IF ProjectOf[d] = p THEN From(derived[d], report.windowStart)
                        ELSE derived[d]
      BY <1>2, <2>4, <3>1 DEF UpdateDone
    <3>3. CASE ProjectOf[d] = p
      <4>1. report.windowStart \in Int
        BY <1>3 DEF ReportOK
      <4>2. /\ DOMAIN From(derived[d], report.windowStart)
                 = {u \in DOMAIN derived[d] : u >= report.windowStart}
            /\ \A u \in DOMAIN From(derived[d], report.windowStart) :
                 From(derived[d], report.windowStart)[u] = derived[d][u]
        BY <2>5, <4>1, FromPart
      <4> QED BY <3>2, <3>3, <4>2
    <3>4. CASE ProjectOf[d] # p
      BY <3>2, <3>4
    <3> QED BY <3>3, <3>4
  <2>9. /\ \A s \in Sources : \A t \in DOMAIN live'[s] :
             t \in DOMAIN live[s] \/ (s \in report.changed /\ t \in report.points[s])
        /\ \A s \in report.safe : \A t \in DOMAIN live[s], u \in report.points[s] : t < u
        /\ \A s \in Sources :
             s \notin report.evicted /\ (s \in report.changed => s \in report.safe)
               => Part(live[s], live'[s])
        /\ report.evicted \subseteq report.changed
        /\ \A s \in Sources : ahead[s] \subseteq ahead'[s]
    BY <1>2 DEF UpdateDone
  <2> QED
    BY <1>3, <1>6, <2>3, <2>4, <2>5, <2>6, <2>7, <2>8, <2>9, UpdateSeries
<1> QED BY <1>3, <1>4, <1>7, <1>8, EverySeries

LEMMA SeriesSync ==
  ASSUME ShapeInv, ShapeInv', ItemsInv, SoundInv, WholeInv, ~overlapped',
         NEW c \in Callers, Sync(c)
  PROVE  ItemsInv' /\ SoundInv' /\ WholeInv'
<1>1. PICK e \in Derived :
        /\ enabled' = IF e \in enabled THEN enabled \ {e} ELSE enabled \cup {e}
        /\ caller' = [caller EXCEPT ![c] = [Idle EXCEPT !.pc = "locking",
                                                        !.project = ProjectOf[e]]]
  BY DEF Sync
<1>2. /\ caller[c].pc = "idle" /\ overlapped' = Overlaps(c)
      /\ UNCHANGED windowVars /\ derived' = derived
  BY DEF Sync
<1>3. ~overlapped /\ \A b \in Callers \ {c} : caller[b].pc = "idle"
  BY <1>2 DEF Overlaps
<1>4. CallerOK(caller[c]) /\ DOMAIN caller = Callers
  BY DEF ShapeInv
<1> DEFINE y == [Idle EXCEPT !.pc = "locking", !.project = ProjectOf[e]]
<1>5. /\ y.pc = "locking" /\ y.project = ProjectOf[e] /\ y.report = NoReport
      /\ DOMAIN y.items = {}
  BY DEF Idle, EmptyMap
<1> HIDE DEF y
<1>6. caller'[c] = y /\ OthersSame(c)
  BY <1>1, <1>4 DEF OthersSame, y
<1>7. ASSUME NEW d \in enabled'
      PROVE  SeriesOK(y, live, ahead, watermark[ProjectOf[d]], derived[d], d)
  <2>1. CASE ProjectOf[d] = ProjectOf[e]
    <3>1. \A t : Mends(y, d, t)
      BY <1>5, <2>1 DEF Mends
    <3> QED BY <1>5, <3>1 DEF SeriesOK, ItemsOK, SoundOK, WholeOK
  <2>2. CASE ProjectOf[d] # ProjectOf[e]
    <3>1. d \in enabled
      BY <1>1, <1>7, <2>2
    <3>2. SeriesOK(caller[c], live, ahead, watermark[ProjectOf[d]], derived[d], d)
      BY <1>3, <3>1, OneSeries
    <3>3. \A t : ~Mends(caller[c], d, t) /\ ~Adjoins(caller[c], live, d, t)
      BY <1>2, <1>4, IdleMends
    <3> QED BY <1>5, <3>2, <3>3 DEF SeriesOK, ItemsOK, SoundOK, WholeOK
  <2> QED BY <2>1, <2>2
<1>8. live' = live /\ watermark' = watermark /\ ahead' = ahead
  BY <1>2 DEF windowVars
<1> QED BY <1>2, <1>3, <1>6, <1>7, <1>8, EverySeries

(* A step of a refresh that only reads: what it was to mend it still will. *)
LEMMA SeriesRead ==
  ASSUME ShapeInv, ShapeInv', AloneInv, ItemsInv, SoundInv, WholeInv, ~overlapped',
         NEW c \in Callers, OthersSame(c), caller[c].pc # "idle",
         UNCHANGED <<windowVars, derived, enabled, overlapped>>,
         \A d \in enabled :
           /\ ItemsOK(caller[c], live, ahead, watermark[ProjectOf[d]], d)
                => ItemsOK(caller'[c], live, ahead, watermark[ProjectOf[d]], d)
           /\ \A t \in Int : Mends(caller[c], d, t) => Mends(caller'[c], d, t)
           /\ \A t \in Int : EveryPoint(live, d, t) /\ Adjoins(caller[c], live, d, t)
                => Mends(caller'[c], d, t)
  PROVE  ItemsInv' /\ SoundInv' /\ WholeInv'
<1>1. /\ live' = live /\ watermark' = watermark /\ ahead' = ahead /\ derived' = derived
      /\ enabled' = enabled /\ ~overlapped
  BY DEF windowVars
<1>2. \A b \in Callers \ {c} : caller[b].pc = "idle"
  BY <1>1, OnlyCaller
<1>3. ASSUME NEW d \in enabled
      PROVE  SeriesOK(caller'[c], live, ahead, watermark[ProjectOf[d]], derived[d], d)
  <2>1. SeriesOK(caller[c], live, ahead, watermark[ProjectOf[d]], derived[d], d)
    BY <1>1, <1>2, OneSeries
  <2>2. SoundOK(caller'[c], live, derived[d], d)
    <3>1. DOMAIN derived[d] \subseteq Int
      BY DEF ShapeInv, WindowOK, PublishedOK
    <3> QED BY <2>1, <3>1 DEF SeriesOK, SoundOK
  <2>3. WholeOK(caller'[c], live, ahead, watermark[ProjectOf[d]], derived[d], d)
    BY <2>1 DEF SeriesOK, WholeOK, Sampled
  <2>4. ItemsOK(caller'[c], live, ahead, watermark[ProjectOf[d]], d)
    BY <2>1 DEF SeriesOK
  <2> QED BY <2>2, <2>3, <2>4 DEF SeriesOK
<1> QED BY <1>1, <1>2, <1>3, EverySeries

LEMMA SeriesReading ==
  ASSUME ShapeInv, ShapeInv', AloneInv, ItemsInv, SoundInv, WholeInv, ~overlapped',
         NEW c \in Callers, LockFull(c) \/ ReadRange(c) \/ ReadFull(c)
  PROVE  ItemsInv' /\ SoundInv' /\ WholeInv'
<1> DEFINE x == caller[c]
           y == caller'[c]
<1>1. CallerOK(x) /\ DOMAIN caller = Callers /\ enabled \subseteq Derived
  BY DEF ShapeInv, PublishedOK
<1>2. CASE LockFull(c)
  <2>1. /\ x.pc = "locking" /\ UNCHANGED <<windowVars, derived, enabled, overlapped>>
        /\ caller' = [caller EXCEPT ![c] = [x EXCEPT !.pc = "reading"]]
    BY <1>2 DEF LockFull, history
  <2>2. /\ y.pc = "reading" /\ y.project = x.project /\ y.report = x.report
        /\ y.full = x.full /\ y.items = x.items /\ OthersSame(c)
    BY <1>1, <2>1 DEF CallerOK, OthersSame
  <2>3. x.report = NoReport /\ x.full = {} /\ DOMAIN x.items = {}
    BY <1>1, <2>1 DEF CallerOK
  <2> HIDE DEF x, y
  <2>4. \A d, t : ~Adjoins(x, live, d, t)
    BY <2>3 DEF Adjoins, Ranged
  <2>5. \A d, t : Mends(x, d, t) => Mends(y, d, t)
    BY <2>1, <2>2, <2>3 DEF Mends, Ranged
  <2>6. \A d : ItemsOK(y, live, ahead, watermark[ProjectOf[d]], d)
    BY <2>2, <2>3 DEF ItemsOK
  <2> QED BY <2>1, <2>2, <2>4, <2>5, <2>6, SeriesRead DEF x, y
<1>3. CASE ReadRange(c)
  <2>1. UNCHANGED <<windowVars, derived, enabled, overlapped>>
    BY <1>3 DEF ReadRange, history
  <2>2. /\ y = [pc |-> "readingFull", project |-> x.project, report |-> x.report,
                full |-> y.full, items |-> y.items]
        /\ x.pc = "reading" /\ OthersSame(c)
        /\ \A d \in enabled :
             /\ x.report = NoReport /\ ProjectOf[d] = x.project => d \in y.full
             /\ x.report # NoReport /\ ChangedSources(x.report, d) # {} =>
                  IF HasRange(x.report, d) THEN d \in DOMAIN y.items ELSE d \in y.full
        /\ \A d \in DOMAIN y.items :
             /\ ItemOK(y.items[d], x.report)
             /\ d \in enabled =>
                  /\ PatchOf(y.items[d], x, live, d)
                  /\ ItemRight(y.items[d], live, ahead, watermark[ProjectOf[d]], d)
    BY <1>3, ReadRangeEffect
  <2> HIDE DEF x, y
  <2>3. x.full = {} /\ DOMAIN x.items = {}
    BY <1>1, <2>2 DEF CallerOK
  <2>4. ASSUME NEW d \in enabled, Ranged(x, d)
        PROVE  d \in DOMAIN y.items /\ PatchOf(y.items[d], x, live, d)
    BY <2>2, <2>4 DEF Ranged
  <2>5. ASSUME NEW d \in enabled, NEW t \in Int, Mends(x, d, t)
        PROVE  Mends(y, d, t)
    <3>1. CASE d \in y.full
      BY <3>1 DEF Mends
    <3>2. CASE Ranged(x, d) /\ InRange(RangeFor(x.report, d), t)
      <4>1. d \in DOMAIN y.items /\ PatchOf(y.items[d], x, live, d)
        BY <2>4, <3>2
      <4>2. PICK item : item = y.items[d]
        OBVIOUS
      <4>3. PICK range : range = RangeFor(x.report, d)
        OBVIOUS
      <4>4. /\ item.start <= range.start /\ item.end = range.end
            /\ range.start <= t /\ t <= range.end
            /\ item.start \in Int /\ range.start \in Int
        BY <2>2, <3>2, <4>1, <4>2, <4>3 DEF PatchOf, InRange, ItemOK
      <4>5. InRange(item, t)
        BY <4>4 DEF InRange
      <4> QED BY <4>1, <4>2, <4>5 DEF Mends
    <3>3. \/ d \in y.full
          \/ Ranged(x, d) /\ InRange(RangeFor(x.report, d), t)
      <4>1. /\ x.report = NoReport /\ ProjectOf[d] = x.project => d \in y.full
            /\ x.report # NoReport /\ ChangedSources(x.report, d) # {} =>
                 HasRange(x.report, d) \/ d \in y.full
        BY <2>2
      <4>2. ~(d \in x.full) /\ ~(d \in DOMAIN x.items)
        BY <2>3
      <4> QED BY <2>5, <4>1, <4>2 DEF Mends
    <3> QED BY <3>1, <3>2, <3>3
  <2>6. ASSUME NEW d \in enabled, NEW t \in Int, EveryPoint(live, d, t),
               Adjoins(x, live, d, t)
        PROVE  Mends(y, d, t)
    <3>1. Ranged(x, d) /\ t < RangeFor(x.report, d).start
      BY <2>6 DEF Adjoins
    <3>2. /\ d \in DOMAIN y.items /\ PatchOf(y.items[d], x, live, d)
      BY <2>4, <3>1
    <3>3. /\ y.items[d].start <= t
          /\ y.items[d].end = RangeFor(x.report, d).end
          /\ RangeFor(x.report, d).start \in Int /\ RangeFor(x.report, d).end \in Int
          /\ RangeFor(x.report, d).start <= RangeFor(x.report, d).end
      BY <2>6, <3>2 DEF PatchOf
    <3>4. t <= y.items[d].end
      BY <3>1, <3>3
    <3>5. InRange(y.items[d], t)
      BY <3>3, <3>4 DEF InRange
    <3> QED BY <3>2, <3>5 DEF Mends
  <2>7. \A d \in enabled : ItemsOK(y, live, ahead, watermark[ProjectOf[d]], d)
    BY <2>2 DEF ItemsOK
  <2> QED BY <2>1, <2>2, <2>5, <2>6, <2>7, SeriesRead DEF x, y
<1>4. CASE ReadFull(c)
  <2>1. UNCHANGED <<windowVars, derived, enabled, overlapped>>
    BY <1>4 DEF ReadFull, history
  <2>2. /\ x.pc = "readingFull" /\ OthersSame(c)
        /\ DOMAIN y.items = (DOMAIN x.items) \cup x.full
        /\ \A d \in DOMAIN x.items : y.items[d] = x.items[d]
        /\ \A d \in x.full :
             /\ ~y.items[d].incremental
             /\ ItemRight(y.items[d], live, ahead, watermark[ProjectOf[d]], d)
    BY <1>4, ReadFullEffect
  <2> HIDE DEF x, y
  <2>3. \A d, t : ~Adjoins(x, live, d, t)
    BY <2>2 DEF Adjoins, Ranged
  <2>4. ASSUME NEW d, NEW t, Mends(x, d, t)
        PROVE  Mends(y, d, t)
    <3>1. \/ d \in x.full
          \/ d \in DOMAIN x.items /\ (x.items[d].incremental => InRange(x.items[d], t))
      BY <2>2, <2>4 DEF Mends, Ranged
    <3> QED BY <2>2, <3>1 DEF Mends
  <2>5. ASSUME NEW d \in enabled, ItemsOK(x, live, ahead, watermark[ProjectOf[d]], d)
        PROVE  ItemsOK(y, live, ahead, watermark[ProjectOf[d]], d)
    BY <2>2, <2>5 DEF ItemsOK
  <2> QED BY <2>1, <2>2, <2>3, <2>4, <2>5, SeriesRead DEF x, y
<1> QED BY <1>2, <1>3, <1>4

(* Publishing one series: it becomes right, and the others stay as they    *)
(* are, with what is to be published for them.                             *)
LEMMA SeriesPublished ==
  ASSUME ShapeInv, ShapeInv', AloneInv, ItemsInv, SoundInv, WholeInv, ~overlapped',
         NEW c \in Callers, NEW d \in Derived, Patch(c, d) \/ Replace(c, d)
  PROVE  ItemsInv' /\ SoundInv' /\ WholeInv'
<1> DEFINE x == caller[c]
           y == caller'[c]
           item == x.items[d]
<1>1. /\ x.pc = "publishing" /\ d \in DOMAIN x.items /\ Published(c, d)
      /\ UNCHANGED <<windowVars, enabled, overlapped>>
  BY DEF Patch, Replace
<1>2. /\ y = [pc |-> "publishing", project |-> x.project, report |-> x.report,
              full |-> {}, items |-> y.items]
      /\ OthersSame(c) /\ x.full = {}
      /\ DOMAIN y.items = (DOMAIN x.items) \ {d}
      /\ \A e \in (DOMAIN x.items) \ {d} : y.items[e] = x.items[e]
  BY <1>1, PublishEffect
<1>3. /\ live' = live /\ watermark' = watermark /\ ahead' = ahead
      /\ enabled' = enabled /\ ~overlapped
  BY <1>1 DEF windowVars
<1>4. \A b \in Callers \ {c} : caller[b].pc = "idle"
  BY <1>1, <1>3, OnlyCaller
<1>5. /\ enabled \subseteq Derived
      /\ \A e \in Derived : DOMAIN derived[e] \subseteq Int
      /\ \A e \in Derived : watermark[ProjectOf[e]] \in Int \cup {NoTime}
      /\ ItemOK(item, x.report) /\ Size \in Int
  BY <1>1, DerivedRefreshAssumption DEF ShapeInv, PublishedOK, WindowOK, CallerOK
<1>6. \A e \in enabled :
        SeriesOK(x, live, ahead, watermark[ProjectOf[e]], derived[e], e)
  BY <1>3, <1>4, OneSeries
<1>7. /\ Patch(c, d) =>
           /\ item.incremental
           /\ \A e \in Derived \ {d} : derived'[e] = derived[e]
           /\ \A t \in DOMAIN derived'[d] :
                \/ t \in DOMAIN item.points /\ derived'[d][t] = item.points[t]
                \/ /\ t \in DOMAIN derived[d] /\ ~InRange(item, t)
                   /\ derived'[d][t] = derived[d][t]
           /\ DOMAIN item.points \subseteq DOMAIN derived'[d]
           /\ \A t \in DOMAIN derived[d] : ~InRange(item, t) => t \in DOMAIN derived'[d]
  BY PatchEffect
<1>8. Replace(c, d) =>
        /\ ~item.incremental
        /\ \A e \in Derived :
             LET old == IF e = d THEN item.points ELSE derived[e] IN
             /\ DOMAIN derived'[e] \subseteq DOMAIN old
             /\ \A t \in DOMAIN derived'[e] : derived'[e][t] = old[t]
             /\ \A t \in DOMAIN old :
                  \/ t \in DOMAIN derived'[e]
                  \/ /\ watermark[ProjectOf[e]] # NoTime
                     /\ ~(t >= watermark[ProjectOf[e]] - Size)
  BY ReplaceEffect
<1> HIDE DEF x, y, item
<1>9. y.pc = "publishing" /\ y.full = {}
  BY <1>2
<1>10. \A e, t :
         /\ ~Adjoins(x, live, e, t)
         /\ Mends(x, e, t) <=>
              e \in DOMAIN x.items /\ (x.items[e].incremental => InRange(x.items[e], t))
  BY <1>1, <1>2 DEF Adjoins, Mends, Ranged
<1>11. ASSUME NEW e \in enabled, e # d
       PROVE  SeriesOK(y, live, ahead, watermark[ProjectOf[e]], derived'[e], e)
  <2>1. e \in DOMAIN x.items => e \in DOMAIN y.items /\ y.items[e] = x.items[e]
    BY <1>2, <1>11
  <2>2. \A t : Mends(x, e, t) => Mends(y, e, t)
    BY <1>10, <2>1 DEF Mends
  <2>3. /\ DOMAIN derived'[e] \subseteq DOMAIN derived[e]
        /\ \A t \in DOMAIN derived'[e] : derived'[e][t] = derived[e][t]
        /\ \A t \in DOMAIN derived[e] :
             \/ t \in DOMAIN derived'[e]
             \/ /\ watermark[ProjectOf[e]] # NoTime
                /\ ~(t >= watermark[ProjectOf[e]] - Size)
    BY <1>5, <1>7, <1>8, <1>11
  <2>4. SoundOK(y, live, derived'[e], e)
    BY <1>6, <2>2, <2>3 DEF SeriesOK, SoundOK
  <2>5. ASSUME NEW t \in Int, Sampled(live, ahead, watermark[ProjectOf[e]], e, t)
        PROVE  t \in DOMAIN derived'[e] \/ Uneven(live, e, t) \/ Mends(y, e, t)
    <3>1. t \in DOMAIN derived[e] \/ Uneven(live, e, t) \/ Mends(x, e, t)
      BY <1>6, <1>10, <2>5 DEF SeriesOK, WholeOK
    <3>2. t >= watermark[ProjectOf[e]] - Size
      BY <1>5, <1>11, <2>5 DEF Sampled
    <3> QED BY <2>2, <2>3, <3>1, <3>2
  <2>6. ItemsOK(y, live, ahead, watermark[ProjectOf[e]], e)
    BY <1>2, <1>6, <2>1 DEF SeriesOK, ItemsOK
  <2> QED BY <2>4, <2>5, <2>6 DEF SeriesOK, WholeOK
<1>12. ASSUME d \in enabled
       PROVE  SeriesOK(y, live, ahead, watermark[ProjectOf[d]], derived'[d], d)
  <2>1. ItemRight(item, live, ahead, watermark[ProjectOf[d]], d)
    BY <1>1, <1>6, <1>12 DEF SeriesOK, ItemsOK, item
  <2>2. \A t : Mends(x, d, t) <=> (item.incremental => InRange(item, t))
    BY <1>1, <1>10 DEF item
  <2>3. ItemsOK(y, live, ahead, watermark[ProjectOf[d]], d)
    BY <1>2 DEF ItemsOK
  <2>4. CASE Patch(c, d)
    <3>1. \A t \in DOMAIN derived[d] :
            ~InRange(item, t) => Right(live, d, t, derived[d][t])
      BY <1>6, <1>7, <1>12, <2>2, <2>4 DEF SeriesOK, SoundOK
    <3>2. SoundOK(y, live, derived'[d], d)
      BY <1>7, <2>1, <2>4, <3>1 DEF SoundOK, ItemRight
    <3>3. ASSUME NEW t \in Int, Sampled(live, ahead, watermark[ProjectOf[d]], d, t)
          PROVE  t \in DOMAIN derived'[d] \/ Uneven(live, d, t)
      <4>1. CASE InRange(item, t)
        BY <1>7, <2>1, <2>4, <3>3, <4>1 DEF ItemRight
      <4>2. CASE ~InRange(item, t)
        <5>1. t \in DOMAIN derived[d] \/ Uneven(live, d, t)
          BY <1>6, <1>7, <1>10, <1>12, <2>2, <2>4, <3>3, <4>2 DEF SeriesOK, WholeOK
        <5> QED BY <1>7, <2>4, <4>2, <5>1
      <4> QED BY <4>1, <4>2
    <3> QED BY <2>3, <3>2, <3>3 DEF SeriesOK, WholeOK
  <2>5. CASE Replace(c, d)
    <3>1. /\ ~item.incremental
          /\ DOMAIN derived'[d] \subseteq DOMAIN item.points
          /\ \A t \in DOMAIN derived'[d] : derived'[d][t] = item.points[t]
          /\ \A t \in DOMAIN item.points :
               \/ t \in DOMAIN derived'[d]
               \/ ~(t >= watermark[ProjectOf[d]] - Size)
      BY <1>8, <2>5
    <3>2. SoundOK(y, live, derived'[d], d)
      BY <2>1, <3>1 DEF SoundOK, ItemRight
    <3>3. ASSUME NEW t \in Int, Sampled(live, ahead, watermark[ProjectOf[d]], d, t)
          PROVE  t \in DOMAIN derived'[d] \/ Uneven(live, d, t)
      <4>1. t \in DOMAIN item.points \/ Uneven(live, d, t)
        BY <2>1, <3>1, <3>3 DEF ItemRight
      <4>2. t >= watermark[ProjectOf[d]] - Size
        BY <1>5, <3>3 DEF Sampled
      <4> QED BY <3>1, <4>1, <4>2
    <3> QED BY <2>3, <3>2, <3>3 DEF SeriesOK, WholeOK
  <2> QED BY <2>4, <2>5
<1>13. \A e \in enabled : SeriesOK(y, live, ahead, watermark[ProjectOf[e]], derived'[e], e)
  BY <1>11, <1>12
<1> QED BY <1>2, <1>3, <1>4, <1>13, EverySeries DEF y

LEMMA SeriesFinish ==
  ASSUME ShapeInv, ShapeInv', AloneInv, ItemsInv, SoundInv, WholeInv, ~overlapped',
         NEW c \in Callers, Finish(c)
  PROVE  ItemsInv' /\ SoundInv' /\ WholeInv'
<1> DEFINE x == caller[c]
<1>1. /\ x.pc = "publishing" /\ DOMAIN x.items = {} /\ caller' = [caller EXCEPT ![c] = Idle]
      /\ UNCHANGED <<windowVars, derived, enabled, overlapped>>
  BY DEF Finish, history
<1>2. CallerOK(x) /\ DOMAIN caller = Callers
  BY DEF ShapeInv
<1>3. /\ OthersSame(c) /\ caller'[c].pc = "idle" /\ CallerOK(caller'[c])
  BY <1>1, <1>2, IdleOK DEF OthersSame
<1>4. \A d, t : ~Mends(x, d, t) /\ ~Adjoins(x, live, d, t)
  BY <1>1, <1>2 DEF CallerOK, Mends, Adjoins, Ranged
<1>5. x.pc # "idle"
  BY <1>1
<1>6. \A d : d \notin DOMAIN caller'[c].items
  BY <1>3, IdleMends
<1>7. \A d : ItemsOK(caller'[c], live, ahead, watermark[ProjectOf[d]], d)
  BY <1>6 DEF ItemsOK
<1> QED BY <1>1, <1>3, <1>4, <1>5, <1>7, SeriesRead

(* A refresh that is alone is the newest of its only project.              *)
LEMMA NeverSkipped ==
  ASSUME ShapeInv, AloneInv, ~overlapped, NEW c \in Callers, NEW d, Skip(c, d)
  PROVE  FALSE
<1>1. /\ caller[c].pc = "publishing" /\ d \in DOMAIN caller[c].items
      /\ caller[c].items[d].incremental
      /\ caller[c].report.generation < lastPublished
  BY DEF Skip, Stale
<1>2. CallerOK(caller[c]) /\ lastPublished \in Nat /\ generation \in [Projects -> Nat]
  BY DEF ShapeInv, PublishedOK, WindowOK
<1>3. /\ caller[c].report # NoReport /\ caller[c].project \in Projects
  BY <1>1, <1>2 DEF CallerOK, ItemOK
<1>4. /\ caller[c].report.generation = generation[caller[c].project]
      /\ lastPublished <= generation[caller[c].project]
  BY <1>1, <1>3 DEF AloneInv
<1> QED BY <1>1, <1>2, <1>3, <1>4

LEMMA SeriesNext ==
  ASSUME ShapeInv, ShapeInv', AloneInv, ItemsInv, SoundInv, WholeInv, [Next]_vars
  PROVE  ItemsInv' /\ SoundInv' /\ WholeInv'
<1>1. CASE overlapped'
  BY <1>1 DEF ItemsInv, SoundInv, WholeInv
<1>2. CASE ~overlapped'
  <2>1. ASSUME NEW c \in Callers, NEW d \in Derived, Skip(c, d)
        PROVE  ItemsInv' /\ SoundInv' /\ WholeInv'
    <3>1. ~overlapped
      BY <1>2, <2>1 DEF Skip, history
    <3> QED BY <2>1, <3>1, NeverSkipped
  <2>2. ASSUME NEW c \in Callers, CallerStep(c)
        PROVE  ItemsInv' /\ SoundInv' /\ WholeInv'
    <3>1. CASE Update(c)
      BY <1>2, <3>1, SeriesUpdate
    <3>2. CASE Sync(c)
      BY <1>2, <3>2, SeriesSync
    <3>3. CASE LockFull(c) \/ ReadRange(c) \/ ReadFull(c)
      BY <1>2, <3>3, SeriesReading
    <3>4. CASE \E d \in Derived : Skip(c, d) \/ Patch(c, d) \/ Replace(c, d)
      BY <1>2, <2>1, <3>4, SeriesPublished
    <3>5. CASE Finish(c)
      BY <1>2, <3>5, SeriesFinish
    <3> QED BY <2>2, <3>1, <3>2, <3>3, <3>4, <3>5 DEF CallerStep
  <2>3. ASSUME UNCHANGED vars
        PROVE  ItemsInv' /\ SoundInv' /\ WholeInv'
    BY <2>3 DEF ItemsInv, SoundInv, WholeInv, vars, windowVars, history
  <2> QED BY <2>2, <2>3 DEF Next, Terminated
<1> QED BY <1>1, <1>2
-----------------------------------------------------------------------------
SeriesInv == ShapeInv /\ AloneInv /\ ItemsInv /\ SoundInv /\ WholeInv

LEMMA SeriesInvariant ==
  ASSUME OneProject
  PROVE  Spec => []SeriesInv
<1>1. Init => SeriesInv
  <2> SUFFICES ASSUME Init
               PROVE  SeriesInv
    OBVIOUS
  <2>1. ShapeInv
    BY ShapeInit
  <2>2. \A c \in Callers : caller[c].pc = "idle" /\ DOMAIN caller[c].items = {}
    BY DEF Init, Idle, EmptyMap
  <2>3. AloneInv
    BY <2>2 DEF Init, AloneInv
  <2>4. ItemsInv
    BY <2>2 DEF ItemsInv
  <2>5. \A d \in Derived : DOMAIN derived[d] = {}
    BY DEF Init, EmptyMap
  <2>6. SoundInv
    BY <2>5 DEF Init, SoundInv
  <2>7. \A d \in Derived : watermark[ProjectOf[d]] = NoTime
    BY DerivedRefreshAssumption DEF Init
  <2>8. WholeInv
    BY <2>7 DEF Init, WholeInv, Sampled
  <2> QED BY <2>1, <2>3, <2>4, <2>6, <2>8 DEF SeriesInv
<1>2. SeriesInv /\ [Next]_vars => SeriesInv'
  <2> SUFFICES ASSUME SeriesInv, [Next]_vars
               PROVE  SeriesInv'
    OBVIOUS
  <2>1. ShapeInv /\ AloneInv /\ ItemsInv /\ SoundInv /\ WholeInv
    BY DEF SeriesInv
  <2>2. ShapeInv'
    BY <2>1, ShapeNext
  <2>3. AloneInv'
    BY <2>1, AloneNext
  <2>4. ItemsInv' /\ SoundInv' /\ WholeInv'
    BY <2>1, <2>2, SeriesNext
  <2> QED BY <2>2, <2>3, <2>4 DEF SeriesInv
<1> QED BY <1>1, <1>2, PTL DEF Spec

(* At rest nothing is left to be mended.                                   *)
LEMMA NothingLeft ==
  ASSUME ShapeInv, AtRest, NEW c \in Callers, NEW d, NEW t
  PROVE  ~Mends(caller[c], d, t) /\ ~Adjoins(caller[c], live, d, t)
BY IdleMends DEF ShapeInv, AtRest

(* While one caller at a time refreshes a service of one project, every    *)
(* point of an enabled derived series is what its formula gives on the     *)
(* points of its sources that are kept: no range that incrementalRangeFor  *)
(* returns is too small, whatever is appended, corrected or evicted, and   *)
(* whatever configurations are synchronized.                               *)
THEOREM DerivedPointsRight ==
  ASSUME OneProject
  PROVE  Spec => []DerivedSound
<1>1. SeriesInv => DerivedSound
  <2> SUFFICES ASSUME SeriesInv, AtRest, ~overlapped, NEW d \in enabled,
                      NEW t \in DOMAIN derived[d]
               PROVE  t \in DOMAIN Reference(d) /\ derived[d][t] = Reference(d)[t]
    BY DEF DerivedSound
  <2>1. Right(live, d, t, derived[d][t])
    BY NothingLeft DEF SeriesInv, SoundInv
  <2>2. t \in TimesOf(Formula[d], live)
    BY <2>1 DEF Right, HasPoint, TimesOf
  <2> QED BY <2>1, <2>2 DEF Right, Reference, Evaluate
<1> QED BY <1>1, SeriesInvariant, PTL

(* As soon as the sources of a series have points at the same times, no    *)
(* point that a full refresh would compute is missing, but for those that  *)
(* every source got ahead of the watermark of a first update.              *)
THEOREM LevelSeriesWhole ==
  ASSUME OneProject
  PROVE  Spec => []WholeWhenLevel
<1>1. SeriesInv => WholeWhenLevel
  <2> SUFFICES ASSUME SeriesInv, AtRest, ~overlapped, NEW d \in enabled, Level(d),
                      NEW t \in DOMAIN Rebuild(d), \E s \in Formula[d] : t \notin ahead[s]
               PROVE  t \in DOMAIN derived[d]
    BY DEF WholeWhenLevel
  <2>1. /\ d \in Derived /\ WindowOK
    BY DEF SeriesInv, ShapeInv, PublishedOK
  <2>2. /\ Formula[d] \subseteq Sources /\ Size \in Nat \ {0}
        /\ ProjectOf[d] \in Projects
    BY <2>1, DerivedRefreshAssumption
  <2> DEFINE p == ProjectOf[d]
             mark == watermark[p]
             first == mark - Size + 1
             data == Queried(p)
  <2>3. PICK s \in Formula[d] : t \in DOMAIN data[s]
    BY DEF Rebuild, Evaluate, TimesOf
  <2>4. mark # NoTime
    <3>1. mark = NoTime => DOMAIN data[s] = DOMAIN EmptyMap
      BY <2>2, <2>3 DEF Queried
    <3>2. DOMAIN EmptyMap = {}
      BY DEF EmptyMap
    <3> HIDE DEF data, mark
    <3> QED BY <2>3, <3>1, <3>2
  <2>5. first \in Int /\ mark \in Int /\ DOMAIN live[s] \subseteq Int
    BY <2>1, <2>2, <2>3, <2>4 DEF WindowOK, TimeSet
  <2>6. data[s] = Within(live[s], first, mark)
    BY <2>2, <2>3, <2>4 DEF Queried, WindowStart
  <2> HIDE DEF data, mark, first
  <2>7. t \in DOMAIN live[s] /\ first <= t
    BY <2>3, <2>5, <2>6, WithinPart
  <2>8. t \in Int /\ t > mark - Size
    BY <2>2, <2>5, <2>7 DEF first
  <2>9. Sampled(live, ahead, mark, d, t)
    BY <2>3, <2>4, <2>7, <2>8 DEF Sampled, EveryPoint, Level
  <2>10. \A u : HasPoint(live, d, u) => EveryPoint(live, d, u)
    BY DEF HasPoint, EveryPoint, Level
  <2>11. ~Uneven(live, d, t)
    BY <2>10 DEF Uneven
  <2> QED BY <2>8, <2>9, <2>11, NothingLeft DEF SeriesInv, WholeInv, mark
<1> QED BY <1>1, SeriesInvariant, PTL
=============================================================================
