----------------------- MODULE ConstraintReportProofs -----------------------
(***************************************************************************)
(* Proofs about ConstraintReport for any rules, batches, limits, window    *)
(* sizes and number of ingests: what ingests that overlap fold into the    *)
(* constraint states adds up, and what one ingest at a time reports is     *)
(* what is violated.                                                       *)
(***************************************************************************)
EXTENDS ConstraintReport, FiniteSetTheorems, TLAPS

(* A finite set of times has a first and a last one: the times from one on *)
(* become fewer with every later one, and not for ever.                    *)
LEMMA HasGreatest ==
  ASSUME NEW S, IsFiniteSet(S), S # {}, S \subseteq Int
  PROVE  \E x \in S : \A y \in S : x >= y
<1> DEFINE U(x) == {y \in S : y >= x}
           T == {U(x) : x \in S}
<1>1. T \subseteq FiniteSubsetsOf(S) /\ T # {}
  <2>1. \A x \in S : U(x) \in SUBSET S /\ IsFiniteSet(U(x))
    BY FS_Subset
  <2>2. \A V \in T : V \in FiniteSubsetsOf(S)
    BY <2>1 DEF FiniteSubsetsOf
  <2>3. T # {}
    OBVIOUS
  <2> HIDE DEF T
  <2> QED BY <2>2, <2>3
<1>2. PICK V \in T : \A W \in T : <<W, V>> \notin StrictSubsetOrdering(S)
  BY <1>1, FS_StrictSubsetOrderingWellFounded, WFMin
<1>3. PICK x \in S : V = U(x)
  BY <1>2
<1>4. ASSUME NEW y \in S, ~(x >= y)
      PROVE  FALSE
  <2>1. x \in Int /\ y \in Int /\ y > x
    BY <1>4
  <2>2. \A z \in S : z \in Int /\ (z >= y => z >= x) /\ x >= x /\ ~(x >= y)
    BY <2>1
  <2>3. <<U(y), U(x)>> \in StrictSubsetOrdering(S)
    <3>1. U(y) \subseteq U(x)
      BY <2>2, Zenon
    <3>2. x \in U(x) /\ x \notin U(y)
      BY <2>2, Zenon
    <3>3. U(x) \subseteq S /\ U(y) \subseteq S
      OBVIOUS
    <3> HIDE DEF U
    <3> QED BY <3>1, <3>2, <3>3 DEF StrictSubsetOrdering
  <2> QED BY <1>2, <1>3, <2>3
<1> QED BY <1>4

LEMMA HasLeast ==
  ASSUME NEW S, IsFiniteSet(S), S # {}, S \subseteq Int
  PROVE  \E x \in S : \A y \in S : x <= y
<1> DEFINE U(x) == {y \in S : y <= x}
           T == {U(x) : x \in S}
<1>1. T \subseteq FiniteSubsetsOf(S) /\ T # {}
  <2>1. \A x \in S : U(x) \in SUBSET S /\ IsFiniteSet(U(x))
    BY FS_Subset
  <2>2. \A V \in T : V \in FiniteSubsetsOf(S)
    BY <2>1 DEF FiniteSubsetsOf
  <2>3. T # {}
    OBVIOUS
  <2> HIDE DEF T
  <2> QED BY <2>2, <2>3
<1>2. PICK V \in T : \A W \in T : <<W, V>> \notin StrictSubsetOrdering(S)
  BY <1>1, FS_StrictSubsetOrderingWellFounded, WFMin
<1>3. PICK x \in S : V = U(x)
  BY <1>2
<1>4. ASSUME NEW y \in S, ~(x <= y)
      PROVE  FALSE
  <2>1. x \in Int /\ y \in Int /\ y < x
    BY <1>4
  <2>2. \A z \in S : z \in Int /\ (z <= y => z <= x) /\ x <= x /\ ~(x <= y)
    BY <2>1
  <2>3. <<U(y), U(x)>> \in StrictSubsetOrdering(S)
    <3>1. U(y) \subseteq U(x)
      BY <2>2, Zenon
    <3>2. x \in U(x) /\ x \notin U(y)
      BY <2>2, Zenon
    <3>3. U(x) \subseteq S /\ U(y) \subseteq S
      OBVIOUS
    <3> HIDE DEF U
    <3> QED BY <3>1, <3>2, <3>3 DEF StrictSubsetOrdering
  <2> QED BY <1>2, <1>3, <2>3
<1> QED BY <1>4

LEMMA Extremes ==
  ASSUME NEW S, IsFiniteSet(S), S # {}, S \subseteq Int
  PROVE  /\ Least(S) \in S /\ \A x \in S : Least(S) <= x
         /\ Greatest(S) \in S /\ \A x \in S : x <= Greatest(S)
<1>1. Least(S) \in S /\ \A x \in S : Least(S) <= x
  BY HasLeast DEF Least
<1>2. Greatest(S) \in S /\ \A x \in S : Greatest(S) >= x
  BY HasGreatest DEF Greatest
<1>3. \A x \in S : Greatest(S) >= x => x <= Greatest(S)
  BY <1>2
<1> QED BY <1>1, <1>2, <1>3

(* The image of a finite set is finite.                                    *)
LEMMA FiniteImage ==
  ASSUME NEW f, NEW S, IsFiniteSet(S)
  PROVE  IsFiniteSet({f[x] : x \in S})
<1> DEFINE g == [x \in S |-> f[x]]
           T == {f[x] : x \in S}
<1>1. g \in Surjection(S, T)
  BY DEF Surjection
<1> HIDE DEF g, T
<1>2. IsFiniteSet(T)
  BY <1>1, FS_Surjection
<1> QED BY <1>2 DEF T
-----------------------------------------------------------------------------
(* The step of the ingest of c after which it no longer touches the states.*)
Unapplied(c) == caller[c].pc \in {"updated", "configured", "checking"}
Generation(c) == caller[c].report.generation
WindowStart(c) == caller[c].report.windowStart

(* The window: a point of a sequence is never later than its latest_time,  *)
(* and ahead of the watermark only if it came so.                          *)
WindowOK ==
  /\ size \in Nat \ {0} /\ generation \in Nat
  /\ watermark \in Int \cup {NoTime}
  /\ \A s \in SequenceIds :
       /\ DOMAIN live[s] \subseteq Int
       /\ latest[s] \in Int \cup {NoTime}
       /\ \A t \in DOMAIN live[s] :
            /\ watermark # NoTime /\ latest[s] # NoTime /\ t <= latest[s]
            /\ t <= watermark \/ t \in ahead[s]

StatesOK ==
  /\ DOMAIN states \subseteq Rules
  /\ \A r \in DOMAIN states :
       /\ states[r].initialized = TRUE
       /\ states[r].violations \subseteq Int
       /\ states[r].generation \in 0 .. generation

(* What the report of an ingest says of its update.                        *)
ReportOK(c) ==
  LET report == caller[c].report IN
  /\ report.generation \in 1 .. generation
  /\ report.windowStart \in Int /\ watermark \in Int
  /\ report.incoming \subseteq SequenceIds /\ report.safe \subseteq report.incoming
  /\ report.changed = report.incoming \cup report.evicted
  /\ \A s \in report.incoming :
       /\ IsFiniteSet(report.times[s]) /\ report.times[s] # {}
       /\ report.times[s] \subseteq Int

(* The range of a check contains what the update brought, or there is none.*)
RangeOK(report, r, range) ==
  IF HasRange(report, r)
  THEN /\ range.start \in Int /\ range.end \in Int
       /\ \A t \in report.times[SequenceOf[r]] : range.start <= t /\ t <= range.end
  ELSE range = NoRange

Grouped(c) == UNION {group.rules : group \in caller[c].groups}

(* The checks of an ingest: none before it has selected its rules; then    *)
(* every rule has one place, and every affected rule has one.              *)
ChecksOK(c) ==
  LET report == caller[c].report
      results == caller[c].results
  IN /\ caller[c].pc \in {"updated", "configured"} =>
          results = <<>> /\ caller[c].groups = {}
     /\ caller[c].pc # "checking" => ~caller[c].failed
     /\ DOMAIN results \cup Grouped(c) \subseteq Rules
     /\ \A g, h \in caller[c].groups : g # h => g.rules \cap h.rules = {}
     /\ DOMAIN results \cap Grouped(c) = {}
     /\ \A g \in caller[c].groups : \A r \in g.rules : RangeOK(report, r, g.range)
     /\ \A r \in DOMAIN results :
          /\ RangeOK(report, r, results[r].range)
          /\ results[r].violations \subseteq Int
     /\ caller[c].pc = "checking" /\ ~caller[c].failed =>
          \A r \in Rules : Affected(report, r) => r \in DOMAIN results \cup Grouped(c)

IngestState(x) ==
  x = [pc |-> x.pc, report |-> x.report, rules |-> x.rules,
       selected |-> x.selected, groups |-> x.groups, results |-> x.results,
       failed |-> x.failed, reported |-> x.reported]

CallerOK(c) ==
  /\ IngestState(caller[c])
  /\ caller[c].pc \in {"idle", "updated", "configured", "checking", "reporting"}
  /\ caller[c].failed \in BOOLEAN
  /\ caller[c].pc # "idle" => ReportOK(c)
  /\ ChecksOK(c)
  /\ Unapplied(c) =>
       \A r \in DOMAIN states : states[r].generation # Generation(c)

CallersOK ==
  /\ caller = [c \in Callers |-> caller[c]]
  /\ \A c \in Callers : CallerOK(c)

(* Ingests at work have generations and sequences of their own.            *)
Apart ==
  \A c, d \in Callers :
    c # d /\ caller[c].pc # "idle" /\ caller[d].pc # "idle" =>
      /\ Generation(c) # Generation(d)
      /\ caller[c].report.incoming \cap caller[d].report.incoming = {}

ShapeInv == WindowOK /\ StatesOK /\ CallersOK /\ Apart

(* No check has failed, no state been erased, no limit or size changed.    *)
Clean == intact /\ ~syncing /\ \A c \in Callers : ~caller[c].failed

Settled ==
  \A c \in Callers :
    /\ caller[c].pc # "idle" => WindowStart(c) <= watermark - size
    /\ caller[c].pc \in {"configured", "checking"} => caller[c].rules = limit
    /\ \A d \in Callers :
         caller[c].pc # "idle" /\ caller[d].pc # "idle"
           /\ Generation(c) < Generation(d) => WindowStart(c) <= WindowStart(d)

Computed(c, r) == caller[c].pc = "checking" /\ r \in DOMAIN caller[c].results
Owns(c, r) == Unapplied(c) /\ SequenceOf[r] \in caller[c].report.incoming
Newer(c, g) == Generation(c) > g
Current(c, r) == Newer(c, StateOf(r).generation)
Results(c, r) == caller[c].results[r].violations
Covered(range, t) == range = NoRange \/ (range.start <= t /\ t <= range.end)

(* An ingest that is newer than g has brought t and will check it.         *)
Brought(r, t, g) ==
  \E d \in Callers : /\ Owns(d, r) /\ Newer(d, g)
                     /\ t \in caller[d].report.times[SequenceOf[r]]

(* What the state of a rule does not know, someone will tell it.           *)
StateKnows(r) ==
  \A t \in Due(r) :
    t \in StateOf(r).violations \/ Brought(r, t, StateOf(r).generation)

(* The results of the ingest that owns the sequence know all that they     *)
(* cover; those of another one, unless the state has passed them by, know  *)
(* all but what a newer one has brought.                                   *)
OwnerKnows(c, r) ==
  Computed(c, r) /\ Owns(c, r) =>
    \A t \in Due(r) : Covered(caller[c].results[r].range, t) => t \in Results(c, r)

OtherKnows(c, r) ==
  Computed(c, r) /\ ~Owns(c, r) /\ Current(c, r) =>
    \A t \in Due(r) : t \in Results(c, r) \/ Brought(r, t, Generation(c))

(* An ingest that is newer than g will take t out of the state of r.       *)
Mended(r, t, g) ==
  \E d \in Callers :
    /\ Unapplied(d) /\ Newer(d, g) /\ Affected(caller[d].report, r)
    /\ t < WindowStart(d) \/ (Owns(d, r) /\ ~HasRange(caller[d].report, r))

(* What is no violation any more, someone will take out.                   *)
StateTrue(r) ==
  \A t \in StateOf(r).violations :
    t \in May(r) \/ Mended(r, t, StateOf(r).generation)

ResultsTrue(c, r) ==
  Computed(c, r) /\ Current(c, r) =>
    \A t \in Results(c, r) : t \in May(r) \/ Mended(r, t, Generation(c))

ResultsOK(c, r) == OwnerKnows(c, r) /\ OtherKnows(c, r) /\ ResultsTrue(c, r)

StatesInv == \A r \in Rules : StateKnows(r) /\ StateTrue(r)
ResultsInv == \A c \in Callers, r \in Rules : ResultsOK(c, r)

CleanInv == Clean => Settled /\ StatesInv /\ ResultsInv

(* One ingest at a time: what it checks without a range it knows exactly,  *)
(* up to the watermark.                                                    *)
AloneOf(c) ==
  /\ \A d \in Callers \ {c} : caller[d].pc = "idle"
  /\ Generation(c) = generation
  /\ caller[c].pc \in {"configured", "checking", "reporting"} => caller[c].rules = limit
  /\ \A r \in DOMAIN caller[c].results :
       caller[c].results[r].range = NoRange =>
         /\ Seen(r) \subseteq Results(c, r) /\ Results(c, r) \subseteq May(r)
         /\ caller[c].pc = "reporting" =>
              r \in DOMAIN states /\ states[r].violations = Results(c, r)

AloneInv ==
  mode = "alone" =>
    ~syncing /\ \A c \in Callers : caller[c].pc # "idle" => AloneOf(c)

SelectedInv ==
  mode = "alone" /\ Clean =>
    \A c \in Callers : caller[c].pc \in {"checking", "reporting"} =>
      \A r \in Rules : Due(r) # {} => r \in caller[c].selected
-----------------------------------------------------------------------------
(* The range of a rule contains the times of its sequence.                 *)
LEMMA RangeForBounds ==
  ASSUME NEW report, NEW r, HasRange(report, r), report.windowStart \in Int,
         IsFiniteSet(report.times[SequenceOf[r]]), report.times[SequenceOf[r]] # {},
         report.times[SequenceOf[r]] \subseteq Int
  PROVE  /\ RangeFor(report, r).start \in Int /\ RangeFor(report, r).end \in Int
         /\ \A t \in report.times[SequenceOf[r]] :
              RangeFor(report, r).start <= t /\ t <= RangeFor(report, r).end
<1> DEFINE times == report.times[SequenceOf[r]]
           first == IF SequenceOf[r] \in report.evicted
                    THEN {report.windowStart} ELSE {}
<1>1. IsFiniteSet(first) /\ first \subseteq Int
  BY FS_Singleton, FS_EmptySet
<1>2. RangeFor(report, r) = [start |-> Least(times \cup first), end |-> Greatest(times)]
  BY DEF RangeFor
<1> HIDE DEF times, first
<1>3. IsFiniteSet(times) /\ times # {} /\ times \subseteq Int
  BY DEF times
<1>4. /\ IsFiniteSet(times \cup first) /\ times \cup first # {}
      /\ times \cup first \subseteq Int
  BY <1>1, <1>3, FS_Union
<1>5. Least(times \cup first) \in Int /\ \A t \in times : Least(times \cup first) <= t
  BY <1>4, Extremes
<1>6. Greatest(times) \in Int /\ \A t \in times : t <= Greatest(times)
  BY <1>3, Extremes
<1>7. /\ RangeFor(report, r).start = Least(times \cup first)
      /\ RangeFor(report, r).end = Greatest(times)
  BY <1>2
<1> QED BY <1>5, <1>6, <1>7 DEF times

(* So does the union of the ranges of a group of rules.                    *)
LEMMA UnionRangeBounds ==
  ASSUME NEW report, NEW rules, rules \subseteq Rules, report.windowStart \in Int,
         \A r \in rules :
           /\ HasRange(report, r)
           /\ IsFiniteSet(report.times[SequenceOf[r]])
           /\ report.times[SequenceOf[r]] # {}
           /\ report.times[SequenceOf[r]] \subseteq Int
  PROVE  \A r \in rules : RangeOK(report, r, UnionRange(report, rules))
<1> DEFINE first == [r \in rules |-> RangeFor(report, r).start]
           last == [r \in rules |-> RangeFor(report, r).end]
           range == UnionRange(report, rules)
<1>1. IsFiniteSet(rules)
  BY FS_Subset, ConstraintReportAssumption
<1>2. \A r \in rules : first[r] \in Int /\ last[r] \in Int
  BY RangeForBounds
<1>3. ASSUME NEW r \in rules
      PROVE  RangeOK(report, r, range)
  <2>1. range = [start |-> Least({first[q] : q \in rules}),
                 end |-> Greatest({last[q] : q \in rules})]
    BY DEF UnionRange
  <2>2. \A t \in report.times[SequenceOf[r]] : first[r] <= t /\ t <= last[r]
    BY RangeForBounds
  <2> HIDE DEF first, last, range
  <2>3. /\ IsFiniteSet({first[q] : q \in rules}) /\ {first[q] : q \in rules} # {}
        /\ {first[q] : q \in rules} \subseteq Int
    BY <1>1, <1>2, FiniteImage
  <2>4. /\ IsFiniteSet({last[q] : q \in rules}) /\ {last[q] : q \in rules} # {}
        /\ {last[q] : q \in rules} \subseteq Int
    BY <1>1, <1>2, FiniteImage
  <2>5. Least({first[q] : q \in rules}) \in Int
        /\ Least({first[q] : q \in rules}) <= first[r]
    BY <2>3, Extremes
  <2>6. Greatest({last[q] : q \in rules}) \in Int
        /\ last[r] <= Greatest({last[q] : q \in rules})
    BY <2>4, Extremes
  <2>7. range.start \in Int /\ range.end \in Int /\ range.start <= first[r]
        /\ last[r] <= range.end
    BY <2>1, <2>5, <2>6
  <2>8. \A t \in report.times[SequenceOf[r]] : t \in Int
    OBVIOUS
  <2>9. \A t \in report.times[SequenceOf[r]] : range.start <= t /\ t <= range.end
    BY <1>2, <2>2, <2>7, <2>8
  <2> QED BY <2>7, <2>9 DEF RangeOK
<1> QED BY <1>3

(* The groups of the rules to check hold each of them once, with a range   *)
(* that suits it.                                                          *)
LEMMA GroupsPartition ==
  ASSUME NEW report, NEW rules, rules \subseteq Rules, report.windowStart \in Int,
         report.safe \subseteq report.incoming,
         \A s \in report.incoming :
           /\ IsFiniteSet(report.times[s]) /\ report.times[s] # {}
           /\ report.times[s] \subseteq Int
  PROVE  /\ \A r \in rules : \E g \in GroupsOf(report, rules) : r \in g.rules
         /\ \A g \in GroupsOf(report, rules) :
              /\ g.rules \subseteq rules
              /\ \A r \in g.rules : RangeOK(report, r, g.range)
         /\ \A g, h \in GroupsOf(report, rules) : g # h => g.rules \cap h.rules = {}
<1> DEFINE ordinary == {r \in rules : GroupOf[r] = NoGroup}
           pools == {ordinary} \cup {{r} : r \in rules \ ordinary}
           ranged(p) == {r \in p : HasRange(report, r)}
           With(p) == [rules |-> ranged(p), range |-> UnionRange(report, ranged(p))]
           Without(p) == [rules |-> p \ ranged(p), range |-> NoRange]
           withs == {With(p) : p \in {q \in pools : ranged(q) # {}}}
           withouts == {Without(p) : p \in {q \in pools : q \ ranged(q) # {}}}
<1>1. GroupsOf(report, rules) = withs \cup withouts
  BY Zenon DEF GroupsOf
<1>2. \A p \in pools : p \subseteq rules
  OBVIOUS
<1>3. \A r \in rules : \E p \in pools : r \in p
  <2>1. \A r \in ordinary : ordinary \in pools
    OBVIOUS
  <2>2. \A r \in rules \ ordinary : {r} \in pools
    OBVIOUS
  <2> QED BY <2>1, <2>2
<1>4. \A p, q \in pools : p # q => p \cap q = {}
  OBVIOUS
<1> HIDE DEF ordinary, pools
<1>5. \A g \in GroupsOf(report, rules) :
        \E p \in pools : g = With(p) \/ g = Without(p)
  BY <1>1
<1>6. ASSUME NEW r \in rules
      PROVE  \E g \in GroupsOf(report, rules) : r \in g.rules
  <2>1. PICK p \in pools : r \in p
    BY <1>3
  <2>2. CASE HasRange(report, r)
    <3>1. r \in ranged(p) /\ With(p) \in withs
      BY <2>1, <2>2
    <3>2. r \in With(p).rules
      BY <3>1
    <3> QED BY <1>1, <3>1, <3>2
  <2>3. CASE ~HasRange(report, r)
    <3>1. r \in p \ ranged(p) /\ Without(p) \in withouts
      BY <2>1, <2>3
    <3>2. r \in Without(p).rules
      BY <3>1
    <3> QED BY <1>1, <3>1, <3>2
  <2> QED BY <2>2, <2>3
<1>7. ASSUME NEW g \in GroupsOf(report, rules)
      PROVE  /\ g.rules \subseteq rules
             /\ \A r \in g.rules : RangeOK(report, r, g.range)
  <2>1. PICK p \in pools : g = With(p) \/ g = Without(p)
    BY <1>5
  <2>2. CASE g = With(p)
    <3>1. g.rules = ranged(p) /\ g.range = UnionRange(report, ranged(p))
      BY <2>2
    <3>2. \A r \in ranged(p) : HasRange(report, r) /\ SequenceOf[r] \in report.incoming
      BY DEF HasRange
    <3>3. ranged(p) \subseteq rules
      BY <1>2
    <3> HIDE DEF ranged
    <3>4. \A r \in ranged(p) : RangeOK(report, r, UnionRange(report, ranged(p)))
      BY <3>2, <3>3, UnionRangeBounds
    <3> QED BY <3>1, <3>3, <3>4
  <2>3. CASE g = Without(p)
    <3>1. g.rules = p \ ranged(p) /\ g.range = NoRange
      BY <2>3
    <3>2. \A r \in p \ ranged(p) : ~HasRange(report, r)
      OBVIOUS
    <3> QED BY <1>2, <3>1, <3>2 DEF RangeOK
  <2> QED BY <2>1, <2>2, <2>3
<1>8. ASSUME NEW g \in GroupsOf(report, rules), NEW h \in GroupsOf(report, rules), g # h
      PROVE  g.rules \cap h.rules = {}
  <2>1. PICK p \in pools : g = With(p) \/ g = Without(p)
    BY <1>5
  <2>2. PICK q \in pools : h = With(q) \/ h = Without(q)
    BY <1>5
  <2>3. \/ g.rules = ranged(p)
        \/ g.rules = p \ ranged(p)
    BY <2>1
  <2>4. \/ h.rules = ranged(q)
        \/ h.rules = q \ ranged(q)
    BY <2>2
  <2>5. g.rules \subseteq p /\ h.rules \subseteq q
    BY <2>3, <2>4
  <2>6. CASE p # q
    BY <1>4, <2>5, <2>6
  <2>7. CASE p = q
    <3>1. \/ g = With(p) /\ h = Without(p)
          \/ g = Without(p) /\ h = With(p)
      BY <1>8, <2>1, <2>2, <2>7
    <3>2. \/ g.rules = ranged(p) /\ h.rules = p \ ranged(p)
          \/ g.rules = p \ ranged(p) /\ h.rules = ranged(p)
      BY <3>1
    <3> QED BY <3>2
  <2> QED BY <2>6, <2>7
<1> QED BY <1>6, <1>7, <1>8
-----------------------------------------------------------------------------
(* What an update does to the window and reports of it: points leave only  *)
(* before the start it reports, arrive only with its batch, and are        *)
(* replaced only in sequences it does not call safe.                       *)
UpdateDone(c) ==
  LET report == caller'[c].report
      start == report.windowStart
  IN /\ generation' = generation + 1 /\ report.generation = generation + 1
     /\ watermark' \in Int /\ (watermark # NoTime => watermark <= watermark')
     /\ start = watermark' - size
     /\ \A s \in SequenceIds : ahead[s] \subseteq ahead'[s]
     /\ report.incoming \subseteq SequenceIds /\ report.safe \subseteq report.incoming
     /\ report.changed = report.incoming \cup report.evicted
     /\ \A s \in report.incoming :
          /\ IsFiniteSet(report.times[s]) /\ report.times[s] # {}
          /\ report.times[s] \subseteq Int
     /\ \A s \in report.safe : report.times[s] \cap DOMAIN live[s] = {}
     /\ \A d \in Callers : Busy(d) \cap report.incoming = {}
     /\ \A s \in SequenceIds : \A t \in DOMAIN live'[s] :
          \/ s \in report.incoming /\ t \in report.times[s]
          \/ t \in DOMAIN live[s] /\ live'[s][t] = live[s][t]
     /\ \A s \in SequenceIds : \A t \in DOMAIN live[s] :
          \/ s \in report.evicted /\ t < start
          \/ s \in report.incoming /\ t \in report.times[s]
          \/ t \in DOMAIN live'[s] /\ live'[s][t] = live[s][t]

LEMMA UpdateEffect ==
  ASSUME WindowOK, caller = [x \in Callers |-> caller[x]],
         NEW c \in Callers, Update(c)
  PROVE  /\ UpdateDone(c) /\ WindowOK'
         /\ caller[c].pc = "idle" /\ mode' = ModeOf(c)
         /\ caller' = [caller EXCEPT ![c] = [Idle EXCEPT !.pc = "updated",
                                                         !.report = caller'[c].report]]
         /\ UNCHANGED <<size, configVars, states, intact>>
<1> DEFINE
  Updated(batch, mark) ==
    LET incoming == DOMAIN batch
        start == mark - size
        full == [s \in SequenceIds |-> IF s \in incoming
                                       THEN Over(batch[s], live[s]) ELSE live[s]]
        evicted == {s \in SequenceIds : \E t \in DOMAIN full[s] : t < start}
    IN /\ \A d \in Callers : Busy(d) \cap incoming = {}
       /\ watermark' = mark
       /\ ahead' = [s \in SequenceIds |->
                      IF s \notin incoming THEN ahead[s]
                      ELSE ahead[s] \cup {t \in DOMAIN batch[s] : t > mark}]
       /\ generation' = generation + 1
       /\ live' = [s \in SequenceIds |-> From(full[s], start)]
       /\ latest' = [s \in SequenceIds |->
                       IF s \notin incoming THEN latest[s]
                       ELSE Greatest(DOMAIN batch[s] \cup
                                     ({latest[s]} \ {NoTime}))]
       /\ caller' = [caller EXCEPT
            ![c] = [Idle EXCEPT
              !.pc = "updated",
              !.report = [generation |-> generation + 1,
                          windowStart |-> start,
                          incoming |-> incoming,
                          changed |-> incoming \cup evicted,
                          evicted |-> evicted,
                          safe |-> {s \in incoming :
                                      \/ latest[s] = NoTime
                                      \/ Least(DOMAIN batch[s]) > latest[s]},
                          times |-> [s \in incoming |-> DOMAIN batch[s]]]]]
<1>0. PICK batch \in Batches : \E mark \in Marks(batch) : Updated(batch, mark)
  BY Zenon DEF Update
<1>1. PICK mark \in Marks(batch) : Updated(batch, mark)
  BY <1>0
<1> DEFINE incoming == DOMAIN batch
           start == mark - size
           full == [s \in SequenceIds |-> IF s \in incoming
                                          THEN Over(batch[s], live[s]) ELSE live[s]]
           evicted == {s \in SequenceIds : \E t \in DOMAIN full[s] : t < start}
           safe == {s \in incoming : \/ latest[s] = NoTime
                                     \/ Least(DOMAIN batch[s]) > latest[s]}
           times == [s \in incoming |-> DOMAIN batch[s]]
           report == [generation |-> generation + 1, windowStart |-> start,
                      incoming |-> incoming, changed |-> incoming \cup evicted,
                      evicted |-> evicted, safe |-> safe, times |-> times]
<1>2. /\ \A d \in Callers : Busy(d) \cap incoming = {}
      /\ watermark' = mark /\ generation' = generation + 1
      /\ ahead' = [s \in SequenceIds |->
                     IF s \notin incoming THEN ahead[s]
                     ELSE ahead[s] \cup {t \in DOMAIN batch[s] : t > mark}]
      /\ live' = [s \in SequenceIds |-> From(full[s], start)]
      /\ latest' = [s \in SequenceIds |->
                      IF s \notin incoming THEN latest[s]
                      ELSE Greatest(DOMAIN batch[s] \cup ({latest[s]} \ {NoTime}))]
      /\ caller' = [caller EXCEPT ![c] = [Idle EXCEPT !.pc = "updated",
                                                      !.report = report]]
  BY <1>1, Zenon DEF Updated
<1> HIDE DEF Updated
<1>3. /\ caller[c].pc = "idle" /\ mode' = ModeOf(c)
      /\ UNCHANGED <<size, configVars, states, intact>>
  BY DEF Update
<1>4. /\ IsFiniteSet(incoming) /\ incoming # {} /\ incoming \subseteq SequenceIds
      /\ \A s \in incoming : /\ IsFiniteSet(times[s]) /\ times[s] # {}
                             /\ times[s] \subseteq Int /\ times[s] = DOMAIN batch[s]
  BY BatchAssumption DEF SequenceIds
<1>5. mark \in Int /\ (watermark # NoTime => watermark <= mark)
  <2>1. CASE watermark = NoTime
    BY <1>4, <2>1 DEF Marks, TimesOf
  <2>2. CASE watermark # NoTime
    <3> DEFINE all == {DOMAIN batch[s] : s \in incoming}
               S == {watermark} \cup UNION all
    <3>1. mark = Greatest(S) /\ watermark \in Int
      BY <2>2 DEF Marks, TimesOf, WindowOK
    <3>2. IsFiniteSet(all) /\ \A T \in all : IsFiniteSet(T) /\ T \subseteq Int
      <4>1. \A s \in incoming : IsFiniteSet(DOMAIN batch[s]) /\ DOMAIN batch[s] \subseteq Int
        BY <1>4
      <4> DEFINE D == [s \in incoming |-> DOMAIN batch[s]]
      <4>2. all = {D[s] : s \in incoming} /\ \A s \in incoming : D[s] = DOMAIN batch[s]
        OBVIOUS
      <4> HIDE DEF incoming, all, D
      <4>3. IsFiniteSet({D[s] : s \in incoming})
        BY <1>4, FiniteImage
      <4> QED BY <4>1, <4>2, <4>3
    <3> HIDE DEF all
    <3>3. IsFiniteSet(S) /\ S # {} /\ S \subseteq Int
      BY <3>1, <3>2, FS_UNION, FS_Singleton, FS_Union
    <3> HIDE DEF S
    <3>4. Greatest(S) \in S /\ \A t \in S : t <= Greatest(S)
      BY <3>3, Extremes
    <3> QED BY <3>1, <3>3, <3>4 DEF S
  <2> QED BY <2>1, <2>2
<1>6. mark \in Int /\ start \in Int /\ (watermark # NoTime => watermark <= mark)
  BY <1>5, ConstraintReportAssumption DEF WindowOK
<1>7. start = watermark' - size
  BY <1>2
<1> HIDE DEF start
<1>8. caller'[c].report = report /\ caller'[c] = [Idle EXCEPT !.pc = "updated", !.report = report]
  <2>1. caller'[c] = [Idle EXCEPT !.pc = "updated", !.report = report]
    BY <1>2, Zenon
  <2> HIDE DEF report
  <2> QED BY <2>1 DEF Idle
<1>9. /\ report.generation = generation + 1 /\ report.windowStart = start
      /\ report.incoming = incoming /\ report.changed = incoming \cup evicted
      /\ report.evicted = evicted /\ report.safe = safe /\ report.times = times
  OBVIOUS
<1> HIDE DEF report
<1>10. \A s \in SequenceIds :
         DOMAIN full[s] = DOMAIN live[s] \cup (IF s \in incoming THEN times[s] ELSE {})
  BY <1>4 DEF Over
<1>11. \A s \in SequenceIds : \A t \in DOMAIN full[s] :
         (s \in incoming => t \notin times[s]) => full[s][t] = live[s][t]
  BY <1>4 DEF Over
<1>12. \A s \in SequenceIds : DOMAIN full[s] \subseteq Int
  BY <1>4, <1>10 DEF WindowOK
<1> HIDE DEF full
<1>13. \A s \in SequenceIds :
         /\ DOMAIN live'[s] = {t \in DOMAIN full[s] : t >= start}
         /\ \A t \in DOMAIN live'[s] : live'[s][t] = full[s][t]
  BY <1>2 DEF From, Restrict
<1>14. \A s \in SequenceIds : \A t \in DOMAIN live'[s] :
         \/ s \in incoming /\ t \in times[s]
         \/ t \in DOMAIN live[s] /\ live'[s][t] = live[s][t]
  BY <1>10, <1>11, <1>13
<1>15. \A s \in SequenceIds : \A t \in DOMAIN live[s] :
         \/ s \in evicted /\ t < start
         \/ s \in incoming /\ t \in times[s]
         \/ t \in DOMAIN live'[s] /\ live'[s][t] = live[s][t]
  BY <1>6, <1>10, <1>11, <1>12, <1>13
<1>16. \A s \in safe : times[s] \cap DOMAIN live[s] = {}
  <2>1. ASSUME NEW s \in safe, NEW t \in times[s], t \in DOMAIN live[s]
        PROVE  FALSE
    <3>1. s \in incoming /\ s \in SequenceIds
      BY <1>4
    <3>2. latest[s] # NoTime /\ latest[s] \in Int /\ t <= latest[s] /\ t \in Int
      BY <2>1, <3>1 DEF WindowOK
    <3>3. Least(times[s]) \in Int /\ Least(times[s]) <= t
      BY <1>4, <3>1, Extremes
    <3>4. Least(times[s]) > latest[s]
      BY <1>4, <3>1, <3>2
    <3> QED BY <3>2, <3>3, <3>4
  <2> QED BY <2>1
<1>17. /\ \A s \in SequenceIds : ahead[s] \subseteq ahead'[s]
       /\ \A s \in incoming : \A t \in times[s] : t <= mark \/ t \in ahead'[s]
  <2>1. \A s \in SequenceIds :
          ahead'[s] = IF s \notin incoming THEN ahead[s]
                      ELSE ahead[s] \cup {t \in DOMAIN batch[s] : t > mark}
    BY <1>2
  <2>2. ASSUME NEW s \in incoming, NEW t \in times[s]
        PROVE  t <= mark \/ t \in ahead'[s]
    <3>1. t \in Int /\ s \in SequenceIds /\ t \in DOMAIN batch[s]
      BY <1>4
    <3> HIDE DEF incoming
    <3>2. ahead'[s] = ahead[s] \cup {u \in DOMAIN batch[s] : u > mark}
      BY <2>1, <2>2, <3>1
    <3> QED BY <1>6, <3>1, <3>2
  <2> QED BY <2>1, <2>2
<1> HIDE DEF incoming, times, safe, evicted
<1>18. UpdateDone(c)
  <2>1. generation' = generation + 1 /\ watermark' = mark
        /\ \A d \in Callers : Busy(d) \cap incoming = {}
    BY <1>2
  <2>2. caller'[c].report = report
    BY <1>8
  <2>3. safe \subseteq incoming
    BY DEF safe
  <2>4. /\ watermark' \in Int /\ (watermark # NoTime => watermark <= watermark')
        /\ report.windowStart = watermark' - size
    BY <1>6, <1>7, <1>9, <2>1
  <2>5. \A s \in incoming : IsFiniteSet(times[s]) /\ times[s] # {} /\ times[s] \subseteq Int
    BY <1>4
  <2> QED
    BY <1>4, <1>9, <1>14, <1>15, <1>16, <1>17, <2>1, <2>2, <2>3, <2>4, <2>5 DEF UpdateDone
<1>19. WindowOK'
  <2>1. size' \in Nat \ {0} /\ generation' \in Nat /\ watermark' \in Int \cup {NoTime}
    BY <1>2, <1>3, <1>6 DEF WindowOK
  <2>2. ASSUME NEW s \in SequenceIds
        PROVE  /\ DOMAIN live'[s] \subseteq Int /\ latest'[s] \in Int \cup {NoTime}
               /\ \A t \in DOMAIN live'[s] :
                    /\ watermark' # NoTime /\ latest'[s] # NoTime /\ t <= latest'[s]
                    /\ t <= watermark' \/ t \in ahead'[s]
    <3>1. DOMAIN live'[s] \subseteq Int
      BY <1>12, <1>13
    <3>2. watermark' # NoTime
      BY <1>2, <1>6, ConstraintReportAssumption
    <3>3. \A t \in DOMAIN live'[s] : t <= watermark' \/ t \in ahead'[s]
      <4>1. ASSUME NEW t \in DOMAIN live'[s], t \in DOMAIN live[s]
            PROVE  t <= mark \/ t \in ahead'[s]
        <5>1. /\ t \in Int /\ watermark \in Int /\ watermark # NoTime
              /\ t <= watermark \/ t \in ahead[s]
          BY <4>1 DEF WindowOK
        <5> QED BY <1>6, <1>17, <5>1
      <4> QED BY <1>2, <1>14, <1>17, <4>1
    <3>4. CASE s \in incoming
      <4> DEFINE old == {latest[s]} \ {NoTime}
      <4>1. latest'[s] = Greatest(times[s] \cup old)
        BY <1>2, <1>4, <3>4
      <4>2. IsFiniteSet(old) /\ old \subseteq Int
        <5>1. old \subseteq {latest[s]} /\ latest[s] \in Int \cup {NoTime}
          BY DEF WindowOK
        <5>2. IsFiniteSet({latest[s]})
          BY FS_Singleton
        <5>3. IsFiniteSet(old)
          BY <5>1, <5>2, FS_Subset
        <5> QED BY <5>1, <5>3
      <4>3. \A t \in DOMAIN live[s] : latest[s] \in old /\ t \in Int /\ t <= latest[s]
        BY DEF WindowOK
      <4> HIDE DEF old
      <4>4. /\ latest'[s] \in times[s] \cup old
            /\ \A t \in times[s] \cup old : t <= latest'[s]
        <5>1. /\ IsFiniteSet(times[s] \cup old) /\ times[s] \cup old # {}
              /\ times[s] \cup old \subseteq Int
          BY <1>4, <3>4, <4>2, FS_Union
        <5> QED BY <4>1, <5>1, Extremes
      <4>5. latest'[s] \in Int /\ latest'[s] # NoTime
        BY <1>4, <3>4, <4>2, <4>4, ConstraintReportAssumption
      <4>6. latest[s] \in old => latest[s] \in Int /\ latest[s] <= latest'[s]
        BY <4>2, <4>4
      <4>7. \A t \in DOMAIN live'[s] : t <= latest'[s]
        BY <1>14, <4>3, <4>4, <4>5, <4>6
      <4> QED BY <3>1, <3>2, <3>3, <4>5, <4>7
    <3>5. CASE s \notin incoming
      <4>1. latest'[s] = latest[s]
        BY <1>2, <3>5
      <4> QED BY <1>14, <3>1, <3>2, <3>3, <3>5, <4>1 DEF WindowOK
    <3> QED BY <3>4, <3>5
  <2> QED BY <2>1, <2>2 DEF WindowOK
<1> QED BY <1>2, <1>3, <1>8, <1>18, <1>19
-----------------------------------------------------------------------------
LEMMA RuleSequence ==
  ASSUME NEW r \in Rules
  PROVE  SequenceOf[r] \in SequenceIds
<1>1. SequenceOf[r] \in {SequenceOf[q] : q \in Rules}
  OBVIOUS
<1> QED BY <1>1, Zenon DEF SequenceIds

LEMMA ShapeInit ==
  ASSUME Init
  PROVE  ShapeInv
<1>1. WindowOK
  <2>1. \A s \in SequenceIds : DOMAIN live[s] = {}
    BY DEF Init
  <2> QED BY <2>1, ConstraintReportAssumption DEF Init, WindowOK
<1>2. StatesOK
  <2>1. DOMAIN states = {}
    BY DEF Init
  <2> QED BY <2>1 DEF StatesOK
<1>3. caller = [c \in Callers |-> caller[c]] /\ \A c \in Callers : caller[c] = Idle
  BY DEF Init
<1>4. ASSUME NEW c \in Callers
      PROVE  CallerOK(c)
  <2>1. /\ caller[c].pc = "idle" /\ caller[c].results = <<>> /\ caller[c].groups = {}
        /\ caller[c].failed = FALSE /\ IngestState(caller[c])
    BY <1>3 DEF Idle, IngestState
  <2>2. DOMAIN caller[c].results = {}
    BY <2>1
  <2> QED BY <2>1, <2>2 DEF CallerOK, ChecksOK, Grouped, Unapplied
<1> QED BY <1>1, <1>2, <1>3, <1>4 DEF ShapeInv, CallersOK, Apart, Init, Idle

(* An ingest that does nothing keeps its shape while others go on.         *)
LEMMA OthersKeepShape ==
  ASSUME ShapeInv, NEW d \in Callers, caller'[d] = caller[d],
         generation' \in Nat, generation <= generation',
         watermark \in Int => watermark' \in Int,
         Unapplied(d) => \A r \in DOMAIN states' : states'[r].generation # Generation(d)
  PROVE  CallerOK(d)'
<1>1. CallerOK(d) /\ generation \in Nat
  BY DEF ShapeInv, CallersOK, WindowOK
<1>2. caller'[d].pc # "idle" => ReportOK(d)'
  BY <1>1 DEF CallerOK, ReportOK
<1>3. ChecksOK(d)'
  BY <1>1 DEF CallerOK, ChecksOK, Grouped, RangeOK, HasRange, Affected
<1>4. IngestState(caller'[d])
  BY <1>1 DEF CallerOK
<1> QED BY <1>1, <1>2, <1>3, <1>4 DEF CallerOK, IngestState, Unapplied, Generation

(* An idle ingest, and one that has only its report, are as they should be.*)
LEMMA IdleShape ==
  ASSUME NEW c \in Callers, caller'[c] = Idle
  PROVE  CallerOK(c)'
<1>1. /\ caller'[c].pc = "idle" /\ caller'[c].results = <<>> /\ caller'[c].groups = {}
      /\ caller'[c].failed = FALSE
      /\ IngestState(caller'[c])
  BY DEF Idle, IngestState
<1>2. DOMAIN caller'[c].results = {}
  BY <1>1
<1> QED BY <1>1, <1>2 DEF CallerOK, ChecksOK, Grouped, Unapplied, IngestState

LEMMA UpdateShape ==
  ASSUME ShapeInv, NEW c \in Callers, Update(c)
  PROVE  ShapeInv'
<1>1. /\ UpdateDone(c) /\ WindowOK'
      /\ caller[c].pc = "idle"
      /\ caller' = [caller EXCEPT ![c] = [Idle EXCEPT !.pc = "updated",
                                                      !.report = caller'[c].report]]
      /\ UNCHANGED states
  BY UpdateEffect DEF ShapeInv, CallersOK
<1>2. /\ caller' = [x \in Callers |-> caller'[x]]
      /\ \A d \in Callers \ {c} : caller'[d] = caller[d]
      /\ caller'[c] = [Idle EXCEPT !.pc = "updated", !.report = caller'[c].report]
  BY <1>1, Zenon DEF ShapeInv, CallersOK
<1>3. /\ caller'[c].pc = "updated" /\ caller'[c].results = <<>> /\ caller'[c].groups = {}
      /\ caller'[c].failed = FALSE /\ IngestState(caller'[c])
  BY <1>2 DEF Idle, IngestState
<1>4. generation \in Nat /\ generation' = generation + 1
      /\ caller'[c].report.generation = generation + 1
  BY <1>1 DEF ShapeInv, WindowOK, UpdateDone
<1>5. \A d \in Callers : caller[d].pc # "idle" => Generation(d) \in 1 .. generation
  BY DEF ShapeInv, CallersOK, CallerOK, ReportOK, Generation
<1>6. StatesOK'
  BY <1>1, <1>4 DEF ShapeInv, StatesOK
<1>7. CallerOK(c)'
  <2>1. ReportOK(c)'
    BY <1>1, <1>4 DEF ReportOK, UpdateDone, ShapeInv, WindowOK
  <2>2. ChecksOK(c)'
    <3>1. DOMAIN caller'[c].results = {}
      BY <1>3
    <3> QED BY <1>3, <3>1 DEF ChecksOK, Grouped
  <2>3. \A r \in DOMAIN states' : states'[r].generation # caller'[c].report.generation
    BY <1>1, <1>4 DEF ShapeInv, StatesOK
  <2> QED BY <1>3, <2>1, <2>2, <2>3 DEF CallerOK, IngestState, Generation
<1>8. ASSUME NEW d \in Callers \ {c}
      PROVE  CallerOK(d)'
  <2>1. Unapplied(d) => \A r \in DOMAIN states' : states'[r].generation # Generation(d)
    BY <1>1 DEF ShapeInv, CallersOK, CallerOK
  <2>2. watermark \in Int => watermark' \in Int
    BY <1>1 DEF UpdateDone
  <2> QED BY <1>2, <1>4, <2>1, <2>2, OthersKeepShape
<1>9. Apart'
  <2>1. ASSUME NEW d \in Callers \ {c}, caller[d].pc # "idle"
        PROVE  /\ Generation(d) # caller'[c].report.generation
               /\ caller[d].report.incoming \cap caller'[c].report.incoming = {}
    <3>1. Busy(d) = caller[d].report.incoming
      BY <2>1 DEF Busy
    <3>2. Generation(d) # generation + 1
      BY <1>4, <1>5, <2>1
    <3> QED BY <1>1, <1>4, <3>1, <3>2 DEF UpdateDone
  <2> QED BY <1>2, <2>1 DEF ShapeInv, Apart, Generation
<1> QED BY <1>1, <1>2, <1>6, <1>7, <1>8, <1>9 DEF ShapeInv, CallersOK
-----------------------------------------------------------------------------
(* What the later steps of an ingest change.                               *)
OthersSame(c) ==
  /\ caller' = [x \in Callers |-> caller'[x]]
  /\ \A d \in Callers \ {c} : caller'[d] = caller[d]

LEMMA ReadRulesEffect ==
  ASSUME ShapeInv, NEW c \in Callers, ReadRules(c)
  PROVE  /\ OthersSame(c) /\ IngestState(caller'[c])
         /\ caller[c].pc = "updated" /\ caller'[c].pc = "configured"
         /\ caller'[c].report = caller[c].report /\ caller'[c].rules = limit
         /\ caller'[c].groups = caller[c].groups
         /\ caller'[c].results = caller[c].results
         /\ caller'[c].failed = caller[c].failed
         /\ UNCHANGED <<windowVars, configVars, states, history>>
<1>1. /\ caller[c].pc = "updated"
      /\ caller' = [caller EXCEPT ![c].pc = "configured", ![c].rules = limit]
      /\ UNCHANGED <<windowVars, configVars, states, history>>
  BY DEF ReadRules
<1>2. IngestState(caller[c]) /\ caller = [x \in Callers |-> caller[x]]
  BY DEF ShapeInv, CallersOK, CallerOK
<1>3. OthersSame(c) /\ caller'[c] = [caller[c] EXCEPT !.pc = "configured", !.rules = limit]
  BY <1>1, <1>2 DEF OthersSame
<1> QED BY <1>1, <1>2, <1>3 DEF IngestState

(* The rules that an ingest selects are those affected and those violated. *)
LEMMA SelectRulesEffect ==
  ASSUME ShapeInv, NEW c \in Callers, SelectRules(c)
  PROVE  /\ OthersSame(c) /\ caller[c].pc = "configured"
         /\ UNCHANGED <<windowVars, configVars, states, history>>
         /\ \/ caller'[c] = Idle /\ \A r \in Rules : ~Affected(caller[c].report, r)
            \/ /\ IngestState(caller'[c]) /\ caller'[c].pc = "checking"
               /\ caller'[c].report = caller[c].report
               /\ caller'[c].rules = caller[c].rules
               /\ caller'[c].results = caller[c].results
               /\ caller'[c].failed = caller[c].failed
               /\ \A r \in Rules :
                    Affected(caller[c].report, r) \/ r \in Violated
                      => r \in caller'[c].selected
               /\ \A r \in Rules :
                    Affected(caller[c].report, r)
                      => \E g \in caller'[c].groups : r \in g.rules
               /\ \A g \in caller'[c].groups :
                    /\ g.rules \subseteq Rules
                    /\ \A r \in g.rules : RangeOK(caller[c].report, r, g.range)
               /\ \A g, h \in caller'[c].groups : g # h => g.rules \cap h.rules = {}
<1> DEFINE report == caller[c].report
           selected == UNION {ClauseOf(r) : r \in {q \in Rules : Affected(report, q)}
                                                   \cup Violated}
           checked == {r \in selected : Affected(report, r) \/ r \notin Initialized}
<1>1. /\ caller[c].pc = "configured"
      /\ caller' = [caller EXCEPT
           ![c] = IF selected = {} THEN Idle
                  ELSE [@ EXCEPT !.pc = "checking", !.selected = selected,
                                 !.groups = GroupsOf(report, checked)]]
      /\ UNCHANGED <<windowVars, configVars, states, history>>
  BY Zenon DEF SelectRules
<1>2. /\ IngestState(caller[c]) /\ caller = [x \in Callers |-> caller[x]]
      /\ ReportOK(c)
  BY <1>1 DEF ShapeInv, CallersOK, CallerOK
<1>3. \A r \in Rules : Affected(report, r) \/ r \in Violated => r \in selected
  BY DEF ClauseOf
<1>4. checked \subseteq Rules
  BY DEF ClauseOf
<1>5. \A r \in Rules : Affected(report, r) => r \in checked
  BY <1>3
<1> HIDE DEF selected, checked
<1>6. /\ \A r \in checked : \E g \in GroupsOf(report, checked) : r \in g.rules
      /\ \A g \in GroupsOf(report, checked) :
           /\ g.rules \subseteq checked
           /\ \A r \in g.rules : RangeOK(report, r, g.range)
      /\ \A g, h \in GroupsOf(report, checked) : g # h => g.rules \cap h.rules = {}
  <2>1. /\ report.windowStart \in Int /\ report.safe \subseteq report.incoming
        /\ \A s \in report.incoming :
             /\ IsFiniteSet(report.times[s]) /\ report.times[s] # {}
             /\ report.times[s] \subseteq Int
    BY <1>2 DEF ReportOK
  <2> HIDE DEF report
  <2> QED BY <1>4, <2>1, GroupsPartition
<1>7. OthersSame(c)
  BY <1>1, <1>2, Zenon DEF OthersSame
<1>8. CASE selected = {}
  <2>1. caller'[c] = Idle
    BY <1>1, <1>2, <1>8, Zenon
  <2> QED BY <1>1, <1>3, <1>7, <1>8, <2>1
<1>9. CASE selected # {}
  <2>1. caller'[c] = [caller[c] EXCEPT !.pc = "checking", !.selected = selected,
                                       !.groups = GroupsOf(report, checked)]
    BY <1>1, <1>2, <1>9, Zenon
  <2>2. /\ IngestState(caller'[c]) /\ caller'[c].pc = "checking"
        /\ caller'[c].report = caller[c].report /\ caller'[c].rules = caller[c].rules
        /\ caller'[c].results = caller[c].results
        /\ caller'[c].failed = caller[c].failed
        /\ caller'[c].selected = selected
        /\ caller'[c].groups = GroupsOf(report, checked)
    BY <1>2, <2>1 DEF IngestState
  <2> QED BY <1>1, <1>3, <1>4, <1>5, <1>6, <1>7, <2>2
<1> QED BY <1>8, <1>9

(* What a group's check finds in the window.                               *)
Finds(c, g, r, violations) ==
  /\ violations \subseteq Violating(live[SequenceOf[r]], caller[c].rules[r])
  /\ \A t \in Violating(live[SequenceOf[r]], caller[c].rules[r]) :
       (IF g.range = NoRange THEN watermark - size + 1 <= t /\ t <= watermark
        ELSE g.range.start <= t /\ t <= g.range.end) => t \in violations

LEMMA CheckGroupEffect ==
  ASSUME ShapeInv, NEW c \in Callers, CheckGroup(c)
  PROVE  /\ OthersSame(c) /\ IngestState(caller'[c])
         /\ caller[c].pc = "checking" /\ caller'[c].pc = "checking"
         /\ caller'[c].report = caller[c].report
         /\ caller'[c].rules = caller[c].rules
         /\ caller'[c].selected = caller[c].selected
         /\ caller'[c].failed \in BOOLEAN /\ (caller[c].failed => caller'[c].failed)
         /\ UNCHANGED <<windowVars, configVars, states, history>>
         /\ \E g \in caller[c].groups :
              /\ caller'[c].groups = caller[c].groups \ {g}
              /\ \/ caller'[c].failed /\ caller'[c].results = caller[c].results
                 \/ /\ DOMAIN caller'[c].results = DOMAIN caller[c].results \cup g.rules
                    /\ \A r \in DOMAIN caller[c].results :
                         r \notin g.rules => caller'[c].results[r] = caller[c].results[r]
                    /\ \A r \in g.rules :
                         /\ caller'[c].results[r].range = g.range
                         /\ Finds(c, g, r, caller'[c].results[r].violations)
<1> DEFINE Queried(g, s) ==
             LET range == IF g.range # NoRange THEN g.range
                          ELSE [start |-> watermark - size + 1, end |-> watermark]
             IN Restrict(live[s], {t \in DOMAIN live[s] :
                                     range.start <= t /\ t <= range.end})
           failing(g) == \E r \in g.rules :
                           \E t \in DOMAIN Queried(g, SequenceOf[r]) :
                             live[SequenceOf[r]][t] = NotNumeric
           results(g) == [r \in g.rules |->
                            [range |-> g.range,
                             violations |-> Violating(Queried(g, SequenceOf[r]),
                                                      caller[c].rules[r])]]
<1>1. PICK g \in caller[c].groups :
        caller' = [caller EXCEPT
             ![c].groups = @ \ {g},
             ![c].failed = @ \/ failing(g),
             ![c].results = IF failing(g) THEN @ ELSE Over(results(g), @)]
  BY Zenon DEF CheckGroup
<1>2. /\ caller[c].pc = "checking"
      /\ UNCHANGED <<windowVars, configVars, states, history>>
  BY DEF CheckGroup
<1>3. /\ IngestState(caller[c]) /\ caller = [x \in Callers |-> caller[x]]
      /\ caller[c].failed \in BOOLEAN
  BY DEF ShapeInv, CallersOK, CallerOK
<1>4. ASSUME NEW r \in g.rules
      PROVE  Finds(c, g, r, results(g)[r].violations)
  <2> DEFINE points == live[SequenceOf[r]]
             bound == caller[c].rules[r]
             seen == Queried(g, SequenceOf[r])
  <2>1. /\ DOMAIN seen = {t \in DOMAIN points :
                            IF g.range = NoRange
                            THEN watermark - size + 1 <= t /\ t <= watermark
                            ELSE g.range.start <= t /\ t <= g.range.end}
        /\ \A t \in DOMAIN seen : seen[t] = points[t]
    BY DEF Restrict
  <2>2. results(g)[r].violations = Violating(seen, bound)
    OBVIOUS
  <2> HIDE DEF results, seen
  <2> QED BY <2>1, <2>2 DEF Finds, Violating
<1>5. DOMAIN results(g) = g.rules /\ \A r \in g.rules : results(g)[r].range = g.range
  OBVIOUS
<1> HIDE DEF results, failing
<1>6. /\ OthersSame(c)
      /\ caller'[c] = [caller[c] EXCEPT
             !.groups = @ \ {g},
             !.failed = @ \/ failing(g),
             !.results = IF failing(g) THEN @ ELSE Over(results(g), @)]
  BY <1>1, <1>3, Zenon DEF OthersSame
<1>7. /\ IngestState(caller'[c]) /\ caller'[c].pc = caller[c].pc
      /\ caller'[c].report = caller[c].report
      /\ caller'[c].rules = caller[c].rules
      /\ caller'[c].selected = caller[c].selected
      /\ caller'[c].groups = caller[c].groups \ {g}
      /\ caller'[c].failed = (caller[c].failed \/ failing(g))
      /\ caller'[c].results = IF failing(g) THEN caller[c].results
                              ELSE Over(results(g), caller[c].results)
  <2>1. /\ IngestState(caller'[c]) /\ caller'[c].pc = caller[c].pc
        /\ caller'[c].report = caller[c].report
        /\ caller'[c].rules = caller[c].rules
        /\ caller'[c].selected = caller[c].selected
        /\ caller'[c].groups = caller[c].groups \ {g}
    BY <1>3, <1>6 DEF IngestState
  <2>2. /\ caller'[c].failed = (caller[c].failed \/ failing(g))
        /\ caller'[c].results = IF failing(g) THEN caller[c].results
                                ELSE Over(results(g), caller[c].results)
    BY <1>3, <1>6, Zenon DEF IngestState
  <2> QED BY <2>1, <2>2
<1>8. failing(g) \in BOOLEAN
  BY DEF failing
<1>9. CASE failing(g)
  <2>1. caller'[c].failed = TRUE /\ caller'[c].results = caller[c].results
    BY <1>7, <1>9
  <2> QED BY <1>2, <1>6, <1>7, <2>1
<1>10. CASE ~failing(g)
  <2>1. caller'[c].results = Over(results(g), caller[c].results)
        /\ caller'[c].failed = caller[c].failed
    BY <1>3, <1>7, <1>8, <1>10
  <2>2. /\ DOMAIN caller'[c].results = DOMAIN caller[c].results \cup g.rules
        /\ \A r \in DOMAIN caller[c].results :
             r \notin g.rules => caller'[c].results[r] = caller[c].results[r]
        /\ \A r \in g.rules : caller'[c].results[r] = results(g)[r]
    BY <1>5, <2>1 DEF Over
  <2> QED BY <1>2, <1>3, <1>4, <1>5, <1>6, <1>7, <2>1, <2>2
<1> QED BY <1>9, <1>10

(* What the results of an ingest change in the states.                     *)
Kept(c, r) ==
  {t \in StateOf(r).violations :
     /\ caller[c].results[r].range # NoRange
     /\ \/ t < caller[c].results[r].range.start
        \/ t > caller[c].results[r].range.end
     /\ t >= WindowStart(c)}
Overtaken(c, r) == StateOf(r).initialized /\ Generation(c) < StateOf(r).generation
Unsatisfied(c) ==
  {r \in caller[c].selected :
     \A q \in ClauseOf(r) : /\ q \in DOMAIN states' /\ states'[q].initialized
                            /\ states'[q].violations # {}}

LEMMA ApplyEffect ==
  ASSUME ShapeInv, NEW c \in Callers, Apply(c)
  PROVE  /\ OthersSame(c) /\ IngestState(caller'[c])
         /\ caller[c].pc = "checking" /\ caller[c].groups = {} /\ ~caller[c].failed
         /\ caller'[c].pc = "reporting"
         /\ caller'[c].report = caller[c].report
         /\ caller'[c].rules = caller[c].rules
         /\ caller'[c].selected = caller[c].selected
         /\ caller'[c].groups = caller[c].groups
         /\ caller'[c].results = caller[c].results
         /\ caller'[c].failed = caller[c].failed
         /\ caller'[c].reported = UNION {{r} \X states'[r].violations : r \in Unsatisfied(c)}
         /\ UNCHANGED <<windowVars, configVars, history>>
         /\ DOMAIN states' = DOMAIN states \cup DOMAIN caller[c].results
         /\ \A r \in DOMAIN states :
              r \notin DOMAIN caller[c].results => states'[r] = states[r]
         /\ \A r \in DOMAIN caller[c].results :
              states'[r] = IF Overtaken(c, r) THEN StateOf(r)
                           ELSE [initialized |-> TRUE,
                                 violations |-> Kept(c, r) \cup Results(c, r),
                                 generation |-> Generation(c)]
<1> DEFINE results == caller[c].results
           fold == [r \in DOMAIN results |->
                      Folded(StateOf(r), results[r], caller[c].report)]
           folded == Over(fold, states)
           Satisfied(r) == r \notin DOMAIN folded \/ ~folded[r].initialized
                             \/ folded[r].violations = {}
           unsatisfied == {r \in caller[c].selected :
                             \A q \in ClauseOf(r) : ~Satisfied(q)}
<1>1. /\ caller[c].pc = "checking" /\ caller[c].groups = {} /\ ~caller[c].failed
      /\ states' = folded
      /\ caller' = [caller EXCEPT
           ![c].pc = "reporting",
           ![c].reported = UNION {{r} \X folded[r].violations : r \in unsatisfied}]
      /\ UNCHANGED <<windowVars, configVars, history>>
  BY Zenon DEF Apply
<1>2. IngestState(caller[c]) /\ caller = [x \in Callers |-> caller[x]]
  BY DEF ShapeInv, CallersOK, CallerOK
<1>3. \A r \in DOMAIN results :
        fold[r] = IF Overtaken(c, r) THEN StateOf(r)
                  ELSE [initialized |-> TRUE,
                        violations |-> Kept(c, r) \cup Results(c, r),
                        generation |-> Generation(c)]
  <2>1. ASSUME NEW r \in DOMAIN results
        PROVE  fold[r] = IF Overtaken(c, r) THEN StateOf(r)
                         ELSE [initialized |-> TRUE,
                               violations |-> Kept(c, r) \cup Results(c, r),
                               generation |-> Generation(c)]
    <3> DEFINE kept == IF results[r].range = NoRange THEN {}
                       ELSE {t \in StateOf(r).violations :
                               /\ t < results[r].range.start \/ t > results[r].range.end
                               /\ t >= caller[c].report.windowStart}
    <3>1. kept = Kept(c, r)
      BY Zenon DEF Kept, WindowStart
    <3>2. fold[r] = IF Overtaken(c, r) THEN StateOf(r)
                    ELSE [initialized |-> TRUE,
                          violations |-> kept \cup Results(c, r),
                          generation |-> Generation(c)]
      BY Zenon DEF Folded, Overtaken, Results, Generation
    <3> QED BY <3>1, <3>2, Zenon
  <2> QED BY <2>1
<1>4. DOMAIN fold = DOMAIN results
  OBVIOUS
<1> HIDE DEF fold
<1>5. /\ DOMAIN states' = DOMAIN states \cup DOMAIN results
      /\ \A r \in DOMAIN states : r \notin DOMAIN results => states'[r] = states[r]
      /\ \A r \in DOMAIN results : states'[r] = fold[r]
  BY <1>1, <1>4 DEF Over
<1>6. unsatisfied = Unsatisfied(c)
  BY <1>1, Zenon DEF Unsatisfied
<1>7. UNION {{r} \X folded[r].violations : r \in unsatisfied}
        = UNION {{r} \X states'[r].violations : r \in Unsatisfied(c)}
  BY <1>1, <1>6, Zenon
<1> HIDE DEF folded, unsatisfied
<1>8. /\ OthersSame(c)
      /\ caller'[c] = [caller[c] EXCEPT
            !.pc = "reporting",
            !.reported = UNION {{r} \X folded[r].violations : r \in unsatisfied}]
  BY <1>1, <1>2, Zenon DEF OthersSame
<1>9. /\ IngestState(caller'[c]) /\ caller'[c].pc = "reporting"
      /\ caller'[c].report = caller[c].report
      /\ caller'[c].rules = caller[c].rules
      /\ caller'[c].selected = caller[c].selected
      /\ caller'[c].groups = caller[c].groups
      /\ caller'[c].results = caller[c].results
      /\ caller'[c].failed = caller[c].failed
      /\ caller'[c].reported = UNION {{r} \X folded[r].violations : r \in unsatisfied}
  BY <1>2, <1>8, Zenon DEF IngestState
<1> QED BY <1>1, <1>3, <1>5, <1>7, <1>8, <1>9

LEMMA EndEffect ==
  ASSUME ShapeInv, NEW c \in Callers, Fail(c) \/ Return(c)
  PROVE  /\ OthersSame(c) /\ caller'[c] = Idle
         /\ UNCHANGED <<windowVars, configVars, states, mode>>
         /\ Fail(c) => ~intact'
         /\ Return(c) => caller[c].pc = "reporting" /\ intact' = intact
<1>1. caller = [x \in Callers |-> caller[x]]
  BY DEF ShapeInv, CallersOK
<1>2. caller' = [caller EXCEPT ![c] = Idle]
  BY DEF Fail, Return
<1>3. OthersSame(c) /\ caller'[c] = Idle
  BY <1>1, <1>2 DEF OthersSame
<1> QED BY <1>3 DEF Fail, Return, history
-----------------------------------------------------------------------------
(* A step of c that leaves the window alone and keeps or ends its report.  *)
LEMMA ShapeStays ==
  ASSUME ShapeInv, NEW c \in Callers, OthersSame(c), UNCHANGED windowVars,
         StatesOK', CallerOK(c)',
         caller'[c].pc # "idle" =>
           caller[c].pc # "idle" /\ caller'[c].report = caller[c].report,
         \A d \in Callers \ {c} :
           Unapplied(d) => \A r \in DOMAIN states' : states'[r].generation # Generation(d)
  PROVE  ShapeInv'
<1>1. WindowOK'
  BY DEF ShapeInv, WindowOK, windowVars
<1>2. ASSUME NEW d \in Callers \ {c}
      PROVE  CallerOK(d)'
  BY OthersKeepShape DEF OthersSame, ShapeInv, WindowOK, windowVars
<1>3. Apart'
  BY DEF ShapeInv, Apart, OthersSame, Generation
<1> QED BY <1>1, <1>2, <1>3 DEF ShapeInv, CallersOK, OthersSame

LEMMA IngestShape ==
  ASSUME ShapeInv, NEW c \in Callers, CallerStep(c)
  PROVE  ShapeInv'
<1> USE DEF windowVars
<1>1. /\ CallerOK(c) /\ WindowOK /\ StatesOK
      /\ \A d \in Callers : Unapplied(d) =>
           \A r \in DOMAIN states : states[r].generation # Generation(d)
  BY DEF ShapeInv, CallersOK, CallerOK
<1>2. CASE Update(c)
  BY <1>2, UpdateShape
<1>3. CASE ReadRules(c)
  <2>1. StatesOK'
    BY <1>1, <1>3, ReadRulesEffect DEF StatesOK
  <2>2. CallerOK(c)'
    <3>1. ReportOK(c)'
      BY <1>1, <1>3, ReadRulesEffect DEF CallerOK, ReportOK
    <3>2. ChecksOK(c)'
      BY <1>1, <1>3, ReadRulesEffect
         DEF CallerOK, ChecksOK, Grouped, RangeOK, HasRange, Affected
    <3>3. IngestState(caller'[c]) /\ UNCHANGED states
      BY <1>3, ReadRulesEffect
    <3> QED BY <1>1, <1>3, <3>1, <3>2, <3>3, ReadRulesEffect
            DEF CallerOK, Unapplied, Generation, IngestState
  <2> QED BY <1>1, <1>3, <2>1, <2>2, ReadRulesEffect, ShapeStays
<1>4. CASE SelectRules(c)
  <2>1. StatesOK' /\ OthersSame(c) /\ UNCHANGED <<windowVars, states>>
    BY <1>1, <1>4, SelectRulesEffect DEF StatesOK
  <2>2. CASE caller'[c] = Idle
    <3>1. CallerOK(c)' /\ caller'[c].pc = "idle"
      BY <2>2, IdleShape DEF Idle
    <3> QED BY <1>1, <2>1, <3>1, ShapeStays
  <2>3. CASE caller'[c] # Idle
    <3>1. /\ IngestState(caller'[c]) /\ caller'[c].pc = "checking"
          /\ caller'[c].report = caller[c].report
          /\ caller'[c].results = caller[c].results
          /\ caller'[c].failed = caller[c].failed
          /\ \A r \in Rules :
               Affected(caller[c].report, r) => \E g \in caller'[c].groups : r \in g.rules
          /\ \A g \in caller'[c].groups :
               /\ g.rules \subseteq Rules
               /\ \A r \in g.rules : RangeOK(caller[c].report, r, g.range)
          /\ \A g, h \in caller'[c].groups : g # h => g.rules \cap h.rules = {}
          /\ caller[c].pc = "configured"
      BY <1>4, <2>3, SelectRulesEffect
    <3>2. ReportOK(c)'
      BY <1>1, <2>1, <3>1 DEF CallerOK, ReportOK
    <3>3. caller[c].results = <<>> /\ ~caller[c].failed
      BY <1>1, <3>1 DEF CallerOK, ChecksOK
    <3>4. ChecksOK(c)'
      <4>1. DOMAIN caller'[c].results = {}
        BY <3>1, <3>3
      <4>2. /\ UNION {group.rules : group \in caller'[c].groups} \subseteq Rules
            /\ \A r \in Rules : Affected(caller[c].report, r)
                 => r \in UNION {group.rules : group \in caller'[c].groups}
        BY <3>1
      <4>3. \A g \in caller'[c].groups : \A r \in g.rules :
              RangeOK(caller'[c].report, r, g.range)
        BY <3>1
      <4> QED BY <3>1, <3>3, <4>1, <4>2, <4>3
              DEF ChecksOK, Grouped, RangeOK, HasRange, Affected
    <3>5. CallerOK(c)'
      BY <1>1, <2>1, <3>1, <3>2, <3>4 DEF CallerOK, Unapplied, Generation, IngestState
    <3> QED BY <1>1, <2>1, <3>1, <3>5, ShapeStays
  <2> QED BY <2>2, <2>3
<1>5. CASE CheckGroup(c)
  <2>1. StatesOK' /\ OthersSame(c) /\ UNCHANGED <<windowVars, states>>
    BY <1>1, <1>5, CheckGroupEffect DEF StatesOK
  <2>2. /\ IngestState(caller'[c]) /\ caller[c].pc = "checking"
        /\ caller'[c].pc = "checking" /\ caller'[c].report = caller[c].report
        /\ caller'[c].failed \in BOOLEAN
        /\ (caller[c].failed => caller'[c].failed)
    BY <1>5, CheckGroupEffect
  <2>3. ReportOK(c)'
    BY <1>1, <2>1, <2>2 DEF CallerOK, ReportOK
  <2>4. PICK g \in caller[c].groups :
              /\ caller'[c].groups = caller[c].groups \ {g}
              /\ \/ caller'[c].failed /\ caller'[c].results = caller[c].results
                 \/ /\ DOMAIN caller'[c].results = DOMAIN caller[c].results \cup g.rules
                    /\ \A r \in DOMAIN caller[c].results :
                         r \notin g.rules => caller'[c].results[r] = caller[c].results[r]
                    /\ \A r \in g.rules :
                         /\ caller'[c].results[r].range = g.range
                         /\ Finds(c, g, r, caller'[c].results[r].violations)
    BY <1>5, CheckGroupEffect
  <2>5. /\ g.rules \subseteq Rules
        /\ \A r \in g.rules : RangeOK(caller[c].report, r, g.range)
        /\ g.rules \cap DOMAIN caller[c].results = {}
        /\ Grouped(c) = g.rules \cup UNION {h.rules : h \in caller'[c].groups}
        /\ g.rules \cap UNION {h.rules : h \in caller'[c].groups} = {}
    <3>1. g.rules \subseteq Grouped(c)
      BY DEF Grouped
    <3>2. \A h \in caller'[c].groups : h \in caller[c].groups /\ h # g
      BY <2>4
    <3>3. \A h \in caller[c].groups : h = g \/ h \in caller'[c].groups
      BY <2>4
    <3>4. g.rules \cap UNION {h.rules : h \in caller'[c].groups} = {}
      BY <1>1, <3>2 DEF CallerOK, ChecksOK
    <3>5. Grouped(c) = g.rules \cup UNION {h.rules : h \in caller'[c].groups}
      BY <3>2, <3>3 DEF Grouped
    <3> QED BY <1>1, <3>1, <3>4, <3>5 DEF CallerOK, ChecksOK
  <2>6. \A r \in g.rules : \A v : Finds(c, g, r, v) => v \subseteq Int
    <3>1. \A r \in g.rules : DOMAIN live[SequenceOf[r]] \subseteq Int
      <4>1. \A r \in g.rules : SequenceOf[r] \in SequenceIds
        BY <2>5, RuleSequence
      <4>2. \A s \in SequenceIds : DOMAIN live[s] \subseteq Int
        BY <1>1 DEF WindowOK
      <4> QED BY <4>1, <4>2
    <3> QED BY <3>1 DEF Finds, Violating
  <2>7. /\ DOMAIN caller'[c].results \subseteq DOMAIN caller[c].results \cup g.rules
        /\ \A r \in DOMAIN caller'[c].results :
             /\ RangeOK(caller[c].report, r, caller'[c].results[r].range)
             /\ caller'[c].results[r].violations \subseteq Int
    <3>1. \A r \in DOMAIN caller[c].results :
            /\ RangeOK(caller[c].report, r, caller[c].results[r].range)
            /\ caller[c].results[r].violations \subseteq Int
      BY <1>1 DEF CallerOK, ChecksOK
    <3> QED BY <2>4, <2>5, <2>6, <3>1
  <2>8. ChecksOK(c)'
    <3> DEFINE left == UNION {h.rules : h \in caller'[c].groups}
    <3>1. DOMAIN caller[c].results \cup Grouped(c) \subseteq Rules
          /\ DOMAIN caller[c].results \cap Grouped(c) = {}
      BY <1>1 DEF CallerOK, ChecksOK
    <3>2. DOMAIN caller'[c].results \cup left \subseteq Rules
          /\ DOMAIN caller'[c].results \cap left = {}
      BY <2>5, <2>7, <3>1
    <3>3. \A h \in caller'[c].groups : h \in caller[c].groups
      BY <2>4
    <3>4. \A x, h \in caller'[c].groups : x # h => x.rules \cap h.rules = {}
      BY <1>1, <3>3 DEF CallerOK, ChecksOK
    <3>5. \A h \in caller'[c].groups : \A r \in h.rules :
            RangeOK(caller[c].report, r, h.range)
      BY <1>1, <3>3 DEF CallerOK, ChecksOK
    <3>6. ~caller'[c].failed =>
            \A r \in Rules : Affected(caller[c].report, r)
              => r \in DOMAIN caller'[c].results \cup left
      <4>1. ~caller'[c].failed =>
              \A r \in Rules : Affected(caller[c].report, r)
                => r \in DOMAIN caller[c].results \cup Grouped(c)
        BY <1>1, <2>2 DEF CallerOK, ChecksOK
      <4>2. ~caller'[c].failed =>
              DOMAIN caller'[c].results = DOMAIN caller[c].results \cup g.rules
        BY <2>4
      <4> QED BY <2>5, <4>1, <4>2
    <3> QED BY <2>2, <2>7, <3>2, <3>4, <3>5, <3>6
            DEF ChecksOK, Grouped, RangeOK, HasRange, Affected
  <2>9. CallerOK(c)'
    BY <1>1, <2>1, <2>2, <2>3, <2>8 DEF CallerOK, Unapplied, Generation, IngestState
  <2> QED BY <1>1, <2>1, <2>2, <2>9, ShapeStays
<1>6. CASE Apply(c)
  <2>1. /\ OthersSame(c) /\ UNCHANGED windowVars /\ caller[c].pc = "checking"
        /\ caller'[c].pc = "reporting" /\ caller'[c].report = caller[c].report
        /\ IngestState(caller'[c]) /\ caller'[c].groups = caller[c].groups
        /\ caller'[c].results = caller[c].results
        /\ caller'[c].failed = caller[c].failed /\ ~caller[c].failed
    BY <1>6, ApplyEffect
  <2>2. /\ DOMAIN caller[c].results \subseteq Rules
        /\ \A r \in DOMAIN caller[c].results : Results(c, r) \subseteq Int
        /\ Generation(c) \in 1 .. generation
    BY <1>1, <2>1 DEF CallerOK, ChecksOK, ReportOK, Generation, Results
  <2>3. \A r \in DOMAIN states' :
          \/ r \in DOMAIN states /\ states'[r] = states[r]
          \/ r \in DOMAIN caller[c].results
               /\ states'[r] = [initialized |-> TRUE,
                                violations |-> Kept(c, r) \cup Results(c, r),
                                generation |-> Generation(c)]
    <3>1. \A r : Overtaken(c, r) => r \in DOMAIN states /\ StateOf(r) = states[r]
      BY DEF Overtaken, StateOf, NoState
    <3>2. /\ DOMAIN states' = DOMAIN states \cup DOMAIN caller[c].results
          /\ \A r \in DOMAIN states :
               r \notin DOMAIN caller[c].results => states'[r] = states[r]
      BY <1>6, ApplyEffect
    <3>3. \A r \in DOMAIN caller[c].results :
            states'[r] = IF Overtaken(c, r) THEN StateOf(r)
                         ELSE [initialized |-> TRUE,
                               violations |-> Kept(c, r) \cup Results(c, r),
                               generation |-> Generation(c)]
      BY <1>6, ApplyEffect
    <3>4. ASSUME NEW r \in DOMAIN caller[c].results, Overtaken(c, r)
          PROVE  r \in DOMAIN states /\ states'[r] = states[r]
      BY <3>1, <3>3, <3>4
    <3> QED BY <3>2, <3>3, <3>4
  <2>4. \A r : Kept(c, r) \subseteq Int
    BY <1>1 DEF Kept, StateOf, NoState, StatesOK
  <2>5. StatesOK'
    <3>1. DOMAIN states' \subseteq Rules
      BY <1>1, <2>2, <2>3 DEF StatesOK
    <3>2. ASSUME NEW r \in DOMAIN states'
          PROVE  /\ states'[r].initialized = TRUE
                 /\ states'[r].violations \subseteq Int
                 /\ states'[r].generation \in 0 .. generation
      BY <1>1, <2>2, <2>3, <2>4 DEF StatesOK, WindowOK
    <3> QED BY <2>1, <3>1, <3>2 DEF StatesOK
  <2>6. CallerOK(c)'
    <3>1. ReportOK(c)'
      BY <1>1, <2>1 DEF CallerOK, ReportOK
    <3>2. ChecksOK(c)'
      BY <1>1, <2>1 DEF CallerOK, ChecksOK, Grouped, RangeOK, HasRange, Affected
    <3> QED BY <1>1, <2>1, <3>1, <3>2 DEF CallerOK, Unapplied, IngestState
  <2>7. ASSUME NEW d \in Callers \ {c}, Unapplied(d), NEW r \in DOMAIN states'
        PROVE  states'[r].generation # Generation(d)
    <3>1. Generation(d) # Generation(c)
      BY <2>1, <2>7 DEF ShapeInv, Apart, Unapplied
    <3> QED BY <1>1, <2>3, <2>7, <3>1
  <2> QED BY <2>1, <2>5, <2>6, <2>7, ShapeStays
<1>7. CASE Fail(c) \/ Return(c)
  <2>1. OthersSame(c) /\ caller'[c] = Idle /\ UNCHANGED <<windowVars, states>>
    BY <1>7, EndEffect
  <2>2. StatesOK' /\ CallerOK(c)' /\ caller'[c].pc = "idle"
    BY <1>1, <2>1, IdleShape DEF StatesOK, Idle
  <2> QED BY <1>1, <2>1, <2>2, ShapeStays
<1> QED BY <1>2, <1>3, <1>4, <1>5, <1>6, <1>7 DEF CallerStep

LEMMA ShapeNext ==
  ASSUME ShapeInv, [Next]_vars
  PROVE  ShapeInv'
<1> USE DEF windowVars, configVars, history
<1>1. WindowOK /\ StatesOK /\ CallersOK /\ Apart
  BY DEF ShapeInv
<1>2. ASSUME UNCHANGED caller, generation' = generation, watermark' = watermark,
             \A r \in DOMAIN states' : r \in DOMAIN states /\ states'[r] = states[r]
      PROVE  StatesOK' /\ CallersOK' /\ Apart'
  <2>1. StatesOK'
    BY <1>1, <1>2 DEF StatesOK
  <2>2. ASSUME NEW d \in Callers
        PROVE  CallerOK(d)'
    <3>1. generation \in Nat
      BY <1>1 DEF WindowOK
    <3>2. Unapplied(d) => \A r \in DOMAIN states : states[r].generation # Generation(d)
      BY <1>1 DEF CallersOK, CallerOK
    <3> QED BY <1>2, <3>1, <3>2, OthersKeepShape
  <2>3. Apart'
    BY <1>1, <1>2 DEF Apart, Generation
  <2> QED BY <1>1, <1>2, <2>1, <2>2, <2>3 DEF CallersOK
<1>3. CASE \E c \in Callers : CallerStep(c)
  BY <1>3, IngestShape
<1>4. CASE Sync
  <2>1. UNCHANGED <<windowVars, states, caller>>
    BY <1>4 DEF Sync
  <2> QED BY <1>1, <1>2, <2>1 DEF ShapeInv, WindowOK
<1>5. CASE EraseStates
  <2>1. UNCHANGED <<windowVars, caller>> /\ states' = <<>>
    BY <1>5 DEF EraseStates
  <2>2. DOMAIN states' = {}
    BY <2>1
  <2> QED BY <1>1, <1>2, <2>1, <2>2 DEF ShapeInv, WindowOK
<1>6. CASE Resize
  <2>1. UNCHANGED <<latest, watermark, generation, ahead, states, caller>>
    BY <1>6 DEF Resize
  <2>2. PICK n \in Sizes \ {size} :
          /\ size' = n
          /\ live' = IF watermark = NoTime THEN live
                     ELSE [s \in SequenceIds |-> From(live[s], watermark - n)]
    BY <1>6 DEF Resize
  <2>3. size' \in Nat \ {0}
    BY <2>2, ConstraintReportAssumption
  <2>4. \A s \in SequenceIds : DOMAIN live'[s] \subseteq DOMAIN live[s]
    BY <2>2 DEF From, Restrict
  <2>5. WindowOK'
    BY <1>1, <2>1, <2>3, <2>4 DEF WindowOK
  <2> QED BY <1>1, <1>2, <2>1, <2>5 DEF ShapeInv
<1>7. CASE Terminated \/ UNCHANGED vars
  <2>1. UNCHANGED vars
    BY <1>7 DEF Terminated
  <2> QED BY <1>1, <1>2, <2>1 DEF ShapeInv, WindowOK, vars
<1> QED BY <1>3, <1>4, <1>5, <1>6, <1>7 DEF Next
-----------------------------------------------------------------------------
(* What the limits and the window make of a point.                         *)
LEMMA PointOfMay ==
  ASSUME NEW r, NEW t
  PROVE  t \in May(r) <=> /\ t \in DOMAIN live[SequenceOf[r]]
                          /\ live[SequenceOf[r]][t] # NotNumeric
                          /\ live[SequenceOf[r]][t] > limit[r]
BY DEF May, Violating

LEMMA PointOfMay1 ==
  ASSUME NEW r, NEW t
  PROVE  t \in May(r)' <=> /\ t \in DOMAIN live'[SequenceOf[r]]
                           /\ live'[SequenceOf[r]][t] # NotNumeric
                           /\ live'[SequenceOf[r]][t] > limit'[r]
BY DEF May, Violating

LEMMA PointOfMust ==
  ASSUME NEW r, NEW t
  PROVE  t \in Must(r) <=> t \in May(r) /\ t > watermark - size
BY DEF Must

LEMMA PointOfMust1 ==
  ASSUME NEW r, NEW t
  PROVE  t \in Must(r)' <=> t \in May(r)' /\ t > watermark' - size'
BY DEF Must

LEMMA PointOfDue ==
  ASSUME NEW r, NEW t
  PROVE  t \in Due(r) <=> t \in Must(r) /\ t \notin ahead[SequenceOf[r]]
BY DEF Due

LEMMA PointOfDue1 ==
  ASSUME NEW r, NEW t
  PROVE  t \in Due(r)' <=> t \in Must(r)' /\ t \notin ahead'[SequenceOf[r]]
BY DEF Due

(* Nothing becomes clean again.                                            *)
LEMMA CleanBefore ==
  ASSUME ShapeInv, [Next]_vars, Clean'
  PROVE  /\ Clean
         /\ limit' = limit /\ size' = size
         /\ \/ \E c \in Callers : CallerStep(c) /\ ~Fail(c)
            \/ UNCHANGED vars
<1> USE DEF windowVars, configVars, history
<1>1. intact' /\ ~syncing' /\ \A d \in Callers : ~caller'[d].failed
  BY DEF Clean
<1>2. \A d \in Callers : caller[d].failed \in BOOLEAN
                          /\ (caller[d].pc # "checking" => ~caller[d].failed)
  BY DEF ShapeInv, CallersOK, CallerOK, ChecksOK
<1>3. ASSUME NEW c \in Callers, CallerStep(c)
      PROVE  Clean /\ limit' = limit /\ size' = size /\ ~Fail(c)
  <2>1. ~Fail(c) /\ intact' = intact
    BY <1>1, <1>3, EndEffect, UpdateEffect
       DEF CallerStep, Update, ReadRules, SelectRules, CheckGroup, Apply, Return, Fail
  <2>2. limit' = limit /\ size' = size /\ syncing' = syncing
    BY <1>3 DEF CallerStep, Update, ReadRules, SelectRules, CheckGroup, Apply, Return, Fail
  <2>3. \A d \in Callers \ {c} : caller'[d] = caller[d]
    <3>1. CASE Update(c)
      BY <3>1, UpdateEffect DEF ShapeInv, CallersOK
    <3>2. CASE ~Update(c)
      BY <1>3, <3>2, ReadRulesEffect, SelectRulesEffect, CheckGroupEffect, ApplyEffect,
         EndEffect DEF OthersSame, CallerStep
    <3> QED BY <3>1, <3>2
  <2>4. ~caller[c].failed
    <3>1. CASE CheckGroup(c)
      BY <1>1, <3>1, CheckGroupEffect
    <3>2. CASE ~CheckGroup(c)
      BY <1>2, <1>3, <2>1, <3>2
         DEF CallerStep, Update, ReadRules, SelectRules, Apply, Return
    <3> QED BY <3>1, <3>2
  <2> QED BY <1>1, <2>1, <2>2, <2>3, <2>4 DEF Clean
<1>4. ~Sync /\ ~EraseStates /\ ~Resize
  BY <1>1 DEF Sync, EraseStates, Resize
<1>5. CASE UNCHANGED vars
  BY <1>1, <1>5 DEF Clean, vars
<1>6. CASE Next
  BY <1>3, <1>4, <1>5, <1>6 DEF Next, Terminated
<1> QED BY <1>5, <1>6

(* Except for Update, an ingest leaves the window and the reports alone.   *)
LEMMA ReportStays ==
  ASSUME ShapeInv, NEW c \in Callers, CallerStep(c), ~Update(c), NEW d \in Callers
  PROVE  /\ UNCHANGED <<windowVars, limit>>
         /\ caller'[d].pc # "idle" =>
              caller[d].pc # "idle" /\ caller'[d].report = caller[d].report
         /\ caller'[d].pc \in {"configured", "checking"} =>
              \/ caller'[d].rules = limit
              \/ /\ caller[d].pc \in {"configured", "checking"}
                 /\ caller'[d].rules = caller[d].rules
<1> USE DEF configVars
<1>1. CASE ReadRules(c)
  BY <1>1, ReadRulesEffect DEF OthersSame
<1>2. CASE SelectRules(c)
  BY <1>2, SelectRulesEffect DEF OthersSame, Idle
<1>3. CASE CheckGroup(c)
  BY <1>3, CheckGroupEffect DEF OthersSame
<1>4. CASE Apply(c)
  BY <1>4, ApplyEffect DEF OthersSame
<1>5. CASE Fail(c) \/ Return(c)
  BY <1>5, EndEffect DEF OthersSame, Idle
<1> QED BY <1>1, <1>2, <1>3, <1>4, <1>5 DEF CallerStep

LEMMA SettledStep ==
  ASSUME ShapeInv, Settled, NEW c \in Callers, CallerStep(c)
  PROVE  Settled'
<1>1. CASE Update(c)
  <2>1. /\ UpdateDone(c) /\ UNCHANGED <<size, limit>> /\ WindowOK'
        /\ \A d \in Callers \ {c} : caller'[d] = caller[d]
        /\ caller'[c].pc = "updated"
    <3>1. /\ UpdateDone(c) /\ WindowOK' /\ UNCHANGED <<size, configVars>>
          /\ caller' = [caller EXCEPT ![c] = [Idle EXCEPT !.pc = "updated",
                                                          !.report = caller'[c].report]]
          /\ caller = [x \in Callers |-> caller[x]]
      BY <1>1, UpdateEffect DEF ShapeInv, CallersOK
    <3>2. caller'[c] = [Idle EXCEPT !.pc = "updated", !.report = caller'[c].report]
      BY <3>1, Zenon
    <3>3. caller'[c].pc = "updated"
      BY <3>2 DEF Idle
    <3> QED BY <3>1, <3>3 DEF configVars
  <2>2. /\ generation \in Nat /\ size \in Nat
        /\ caller'[c].report.windowStart = watermark' - size
        /\ caller'[c].report.generation = generation + 1
        /\ watermark' \in Int /\ (watermark # NoTime => watermark <= watermark')
    BY <2>1 DEF UpdateDone, ShapeInv, WindowOK
  <2>3. \A d \in Callers : caller[d].pc # "idle" =>
          /\ Generation(d) \in 1 .. generation /\ watermark \in Int
          /\ WindowStart(d) \in Int
    BY DEF ShapeInv, CallersOK, CallerOK, ReportOK, Generation, WindowStart
  <2>4. watermark \in Int => watermark <= watermark'
    BY <2>2, ConstraintReportAssumption
  <2>5. \A d \in Callers \ {c} : caller[d].pc # "idle" =>
          WindowStart(d) <= watermark' - size /\ Generation(d) < generation + 1
    BY <2>2, <2>3, <2>4 DEF Settled
  <2>6. /\ \A d \in Callers : caller'[d].pc # "idle" => WindowStart(d)' <= watermark' - size
        /\ \A d \in Callers \ {c} :
             caller'[d].pc # "idle" => Generation(d)' < Generation(c)'
        /\ WindowStart(c)' = watermark' - size /\ Generation(c)' = generation + 1
    BY <2>1, <2>2, <2>5 DEF WindowStart, Generation
  <2>7. \A d \in Callers :
          caller'[d].pc \in {"configured", "checking"} => caller'[d].rules = limit'
    BY <2>1 DEF Settled
  <2>8. ASSUME NEW d \in Callers, NEW e \in Callers,
               caller'[d].pc # "idle", caller'[e].pc # "idle",
               Generation(d)' < Generation(e)'
        PROVE  WindowStart(d)' <= WindowStart(e)'
    <3>1. CASE e = c
      BY <2>6, <2>8, <3>1
    <3>2. CASE d = c /\ e # c
      <4>1. Generation(e)' \in Int
        BY <2>1, <2>3, <2>8, <3>2 DEF Generation
      <4> QED BY <2>2, <2>6, <2>8, <3>2, <4>1
    <3>3. CASE d # c /\ e # c
      BY <2>1, <2>8, <3>3 DEF Settled, WindowStart, Generation
    <3> QED BY <3>1, <3>2, <3>3
  <2>9. size' = size
    BY <2>1
  <2> QED BY <2>6, <2>7, <2>8, <2>9 DEF Settled
<1>2. CASE ~Update(c)
  <2>1. \A d \in Callers :
          /\ UNCHANGED <<windowVars, limit>>
          /\ caller'[d].pc # "idle" =>
               caller[d].pc # "idle" /\ caller'[d].report = caller[d].report
          /\ caller'[d].pc \in {"configured", "checking"} =>
               \/ caller'[d].rules = limit
               \/ /\ caller[d].pc \in {"configured", "checking"}
                  /\ caller'[d].rules = caller[d].rules
    BY <1>2, ReportStays
  <2> QED BY <2>1 DEF Settled, WindowStart, Generation, windowVars
<1> QED BY <1>1, <1>2

(* Only Apply ends the work of an ingest that affects a rule.              *)
KeepsWork ==
  \A d \in Callers : Unapplied(d) =>
    \/ Unapplied(d)' /\ caller'[d].report = caller[d].report
    \/ \A r \in Rules : ~Affected(caller[d].report, r)

LEMMA WorkKept ==
  ASSUME ShapeInv, NEW c \in Callers, CallerStep(c), ~Apply(c), ~Fail(c)
  PROVE  KeepsWork
<1> USE DEF KeepsWork, Unapplied
<1>1. CASE Update(c)
  <2>1. caller[c].pc = "idle" /\ \A d \in Callers \ {c} : caller'[d] = caller[d]
    BY <1>1, UpdateEffect DEF ShapeInv, CallersOK
  <2> QED BY <2>1
<1>2. CASE ReadRules(c)
  BY <1>2, ReadRulesEffect DEF OthersSame
<1>3. CASE SelectRules(c)
  BY <1>3, SelectRulesEffect DEF OthersSame
<1>4. CASE CheckGroup(c)
  BY <1>4, CheckGroupEffect DEF OthersSame
<1>5. CASE Return(c)
  BY <1>5, EndEffect DEF OthersSame
<1> QED BY <1>1, <1>2, <1>3, <1>4, <1>5 DEF CallerStep

LEMMA OwnsAffects ==
  ASSUME ShapeInv, NEW d \in Callers, NEW r \in Rules, Owns(d, r)
  PROVE  Affected(caller[d].report, r)
BY DEF ShapeInv, CallersOK, CallerOK, ReportOK, Owns, Unapplied, Affected

LEMMA BroughtStays ==
  ASSUME ShapeInv, KeepsWork, NEW r \in Rules, NEW t, NEW g, Brought(r, t, g)
  PROVE  Brought(r, t, g)'
<1>1. PICK d \in Callers : /\ Owns(d, r) /\ Newer(d, g)
                           /\ t \in caller[d].report.times[SequenceOf[r]]
  BY DEF Brought
<1>2. Unapplied(d)' /\ caller'[d].report = caller[d].report
  BY <1>1, OwnsAffects DEF KeepsWork, Owns
<1> QED BY <1>1, <1>2 DEF Brought, Owns, Newer, Generation

LEMMA MendedStays ==
  ASSUME ShapeInv, KeepsWork, NEW r \in Rules, NEW t, NEW g, Mended(r, t, g)
  PROVE  Mended(r, t, g)'
<1>1. PICK d \in Callers :
        /\ Unapplied(d) /\ Newer(d, g) /\ Affected(caller[d].report, r)
        /\ t < WindowStart(d) \/ (Owns(d, r) /\ ~HasRange(caller[d].report, r))
  BY DEF Mended
<1>2. Unapplied(d)' /\ caller'[d].report = caller[d].report
  BY <1>1 DEF KeepsWork
<1> QED BY <1>1, <1>2
        DEF Mended, Owns, Newer, Generation, WindowStart, Affected, HasRange

(* The work of another ingest stays through a step of c.                   *)
LEMMA BroughtByOther ==
  ASSUME NEW c \in Callers, OthersSame(c), NEW r \in Rules, NEW t, NEW g,
         NEW d \in Callers \ {c}, Owns(d, r), Newer(d, g),
         t \in caller[d].report.times[SequenceOf[r]]
  PROVE  Brought(r, t, g)'
<1>1. caller'[d] = caller[d]
  BY DEF OthersSame
<1> QED BY <1>1 DEF Brought, Owns, Unapplied, Newer, Generation

LEMMA MendedByOther ==
  ASSUME NEW c \in Callers, OthersSame(c), NEW r \in Rules, NEW t, NEW g,
         NEW d \in Callers \ {c}, Unapplied(d), Newer(d, g),
         Affected(caller[d].report, r),
         t < WindowStart(d) \/ (Owns(d, r) /\ ~HasRange(caller[d].report, r))
  PROVE  Mended(r, t, g)'
<1>1. caller'[d] = caller[d]
  BY DEF OthersSame
<1> QED BY <1>1
        DEF Mended, Owns, Unapplied, Newer, Generation, WindowStart, Affected, HasRange

(* What is left to prove of a step, in terms of the generation that the    *)
(* state or the results have after it.                                     *)
LEMMA StateKnowsNext ==
  ASSUME NEW r \in Rules, NEW g, StateOf(r)'.generation = g,
         \A t \in Due(r)' : t \in StateOf(r)'.violations \/ Brought(r, t, g)'
  PROVE  StateKnows(r)'
BY DEF StateKnows, Brought, Newer

LEMMA StateTrueNext ==
  ASSUME NEW r \in Rules, NEW g, StateOf(r)'.generation = g,
         \A t \in StateOf(r)'.violations : t \in May(r)' \/ Mended(r, t, g)'
  PROVE  StateTrue(r)'
BY DEF StateTrue, Mended, Newer, Affected, HasRange

LEMMA OtherKnowsNext ==
  ASSUME NEW d \in Callers, NEW r \in Rules, NEW g, Generation(d)' = g,
         Computed(d, r)' /\ ~Owns(d, r)' /\ Current(d, r)' =>
           \A t \in Due(r)' : t \in Results(d, r)' \/ Brought(r, t, g)'
  PROVE  OtherKnows(d, r)'
BY DEF OtherKnows, Brought, Newer

LEMMA ResultsTrueNext ==
  ASSUME NEW d \in Callers, NEW r \in Rules, NEW g, Generation(d)' = g,
         Computed(d, r)' /\ Current(d, r)' =>
           \A t \in Results(d, r)' : t \in May(r)' \/ Mended(r, t, g)'
  PROVE  ResultsTrue(d, r)'
BY DEF ResultsTrue, Mended, Newer, Affected, HasRange
-----------------------------------------------------------------------------
(* The steps that touch neither the window nor the states.                 *)
LEMMA StatesQuiet ==
  ASSUME ShapeInv, StatesInv, KeepsWork, UNCHANGED <<windowVars, limit, states>>
  PROVE  StatesInv'
<1>1. ASSUME NEW r \in Rules
      PROVE  StateKnows(r)' /\ StateTrue(r)'
  <2>1. Due(r)' = Due(r) /\ May(r)' = May(r) /\ StateOf(r)' = StateOf(r)
    BY DEF windowVars, Due, Must, May, StateOf
  <2>2. PICK g : g = StateOf(r).generation
    OBVIOUS
  <2>3. \A t : /\ Brought(r, t, g) => Brought(r, t, g)'
               /\ Mended(r, t, g) => Mended(r, t, g)'
    BY BroughtStays, MendedStays
  <2>4. /\ \A t \in Due(r) : t \in StateOf(r).violations \/ Brought(r, t, g)
        /\ \A t \in StateOf(r).violations : t \in May(r) \/ Mended(r, t, g)
    BY <2>2 DEF StatesInv, StateKnows, StateTrue
  <2>5. StateKnows(r)'
    BY <2>1, <2>2, <2>3, <2>4, StateKnowsNext
  <2>6. StateTrue(r)'
    BY <2>1, <2>2, <2>3, <2>4, StateTrueNext
  <2> QED BY <2>5, <2>6
<1> QED BY <1>1 DEF StatesInv

LEMMA ResultsQuiet ==
  ASSUME ShapeInv, ResultsInv, KeepsWork, UNCHANGED <<windowVars, limit, states>>,
         NEW d \in Callers, NEW r \in Rules, Computed(d, r), caller'[d].pc = caller[d].pc,
         caller'[d].report = caller[d].report, caller'[d].results[r] = caller[d].results[r]
  PROVE  ResultsOK(d, r)'
<1>1. Due(r)' = Due(r) /\ May(r)' = May(r) /\ StateOf(r)' = StateOf(r)
  BY DEF windowVars, Due, Must, May, StateOf
<1>2. PICK g : g = Generation(d)
  OBVIOUS
<1>3. /\ Generation(d)' = g /\ Results(d, r)' = Results(d, r)
      /\ Owns(d, r)' <=> Owns(d, r)
      /\ Current(d, r)' <=> Current(d, r)
  BY <1>1, <1>2 DEF Generation, Results, Owns, Unapplied, Current, Newer
<1>4. \A t : /\ Brought(r, t, g) => Brought(r, t, g)'
             /\ Mended(r, t, g) => Mended(r, t, g)'
  BY BroughtStays, MendedStays
<1>5. OwnerKnows(d, r) /\ OtherKnows(d, r) /\ ResultsTrue(d, r)
  BY DEF ResultsInv, ResultsOK
<1>6. OwnerKnows(d, r)'
  BY <1>1, <1>3, <1>5 DEF OwnerKnows, Computed, Covered
<1>7. OtherKnows(d, r)'
  BY <1>1, <1>2, <1>3, <1>4, <1>5, OtherKnowsNext DEF OtherKnows
<1>8. ResultsTrue(d, r)'
  BY <1>1, <1>2, <1>3, <1>4, <1>5, ResultsTrueNext DEF ResultsTrue
<1> QED BY <1>6, <1>7, <1>8 DEF ResultsOK

LEMMA NotComputed ==
  ASSUME NEW d \in Callers, NEW r \in Rules, ~Computed(d, r)'
  PROVE  ResultsOK(d, r)'
BY DEF ResultsOK, OwnerKnows, OtherKnows, ResultsTrue

LEMMA QuietSteps ==
  ASSUME ShapeInv, StatesInv, ResultsInv, NEW c \in Callers,
         ReadRules(c) \/ SelectRules(c) \/ Return(c)
  PROVE  StatesInv' /\ ResultsInv'
<1>1. KeepsWork
  <2>1. ~Apply(c) /\ ~Fail(c)
    BY DEF ReadRules, SelectRules, Return, Apply, Fail
  <2> QED BY <2>1, WorkKept DEF CallerStep
<1>2. OthersSame(c) /\ UNCHANGED <<windowVars, limit, states>>
  BY ReadRulesEffect, SelectRulesEffect, EndEffect DEF configVars
<1>3. \A r \in Rules : ~Computed(c, r)'
  <2>1. CASE ReadRules(c)
    BY <2>1, ReadRulesEffect DEF Computed
  <2>2. CASE SelectRules(c)
    <3>1. caller[c].results = <<>>
      BY <2>2 DEF SelectRules, ShapeInv, CallersOK, CallerOK, ChecksOK
    <3>2. DOMAIN caller[c].results = {}
      BY <3>1
    <3> QED BY <2>2, <3>2, SelectRulesEffect DEF Computed, Idle
  <2>3. CASE Return(c)
    BY <2>3, EndEffect DEF Computed, Idle
  <2> QED BY <2>1, <2>2, <2>3
<1>4. ASSUME NEW d \in Callers, NEW r \in Rules
      PROVE  ResultsOK(d, r)'
  <2>1. CASE ~Computed(d, r)'
    BY <2>1, NotComputed
  <2>2. CASE Computed(d, r)'
    <3>1. d # c /\ caller'[d] = caller[d]
      BY <1>2, <1>3, <2>2 DEF OthersSame
    <3>2. Computed(d, r)
      BY <2>2, <3>1 DEF Computed
    <3> QED BY <1>1, <1>2, <3>1, <3>2, ResultsQuiet
  <2> QED BY <2>1, <2>2
<1> QED BY <1>1, <1>2, <1>4, StatesQuiet DEF ResultsInv

(* A check sees the window as it is, under the limits as they are.         *)
LEMMA CheckGroupCompletes ==
  ASSUME ShapeInv, Settled, StatesInv, ResultsInv, NEW c \in Callers, CheckGroup(c),
         ~caller'[c].failed
  PROVE  StatesInv' /\ ResultsInv'
<1>1. KeepsWork
  <2>1. ~Apply(c) /\ ~Fail(c)
    <3>1. caller[c].groups # {}
      BY DEF CheckGroup
    <3> QED BY <3>1 DEF Apply, Fail
  <2> QED BY <2>1, WorkKept DEF CallerStep
<1>2. /\ OthersSame(c) /\ UNCHANGED <<windowVars, limit, states>>
      /\ caller[c].pc = "checking" /\ caller'[c].pc = "checking"
      /\ caller'[c].report = caller[c].report
  BY CheckGroupEffect DEF configVars
<1>3. PICK g \in caller[c].groups :
        /\ DOMAIN caller'[c].results = DOMAIN caller[c].results \cup g.rules
        /\ \A r \in DOMAIN caller[c].results :
             r \notin g.rules => caller'[c].results[r] = caller[c].results[r]
        /\ \A r \in g.rules :
             /\ caller'[c].results[r].range = g.range
             /\ Finds(c, g, r, caller'[c].results[r].violations)
  BY CheckGroupEffect
<1>4. ASSUME NEW d \in Callers, NEW r \in Rules
      PROVE  ResultsOK(d, r)'
  <2>1. CASE ~Computed(d, r)'
    BY <2>1, NotComputed
  <2>2. CASE Computed(d, r)' /\ ~(d = c /\ r \in g.rules)
    <3>1. /\ Computed(d, r) /\ caller'[d].pc = caller[d].pc
          /\ caller'[d].report = caller[d].report
          /\ caller'[d].results[r] = caller[d].results[r]
      BY <1>2, <1>3, <2>2 DEF OthersSame, Computed
    <3> QED BY <1>1, <1>2, <3>1, ResultsQuiet
  <2>3. CASE d = c /\ r \in g.rules
    <3>1. caller[c].rules = limit
      BY <1>2 DEF Settled
    <3>2. /\ Results(c, r)' \subseteq May(r)
          /\ \A t \in May(r) :
               (IF g.range = NoRange
                THEN watermark - size + 1 <= t /\ t <= watermark
                ELSE g.range.start <= t /\ t <= g.range.end) => t \in Results(c, r)'
      BY <1>3, <2>3, <3>1 DEF Finds, Results, May
    <3>3. May(r)' = May(r) /\ Due(r)' = Due(r)
      BY <1>2 DEF windowVars, Due, May, Must
    <3>4. \A t \in Due(r) : /\ t \in May(r)
                            /\ watermark - size + 1 <= t /\ t <= watermark
      <4>1. watermark \in Int /\ size \in Int
        BY <1>2 DEF ShapeInv, CallersOK, CallerOK, ReportOK, WindowOK
      <4>2. \A t \in May(r) : t \in Int /\ (t <= watermark \/ t \in ahead[SequenceOf[r]])
        BY RuleSequence DEF May, Violating, ShapeInv, WindowOK
      <4> QED BY <4>1, <4>2, PointOfDue, PointOfMust
    <3>5. OwnerKnows(c, r)'
      BY <1>3, <2>3, <3>2, <3>3, <3>4 DEF OwnerKnows, Covered
    <3>6. Owns(c, r)' \/ g.range = NoRange
      BY <1>2, <1>3, <2>3
         DEF ShapeInv, CallersOK, CallerOK, ChecksOK, ReportOK, RangeOK, HasRange, Owns, Unapplied
    <3>7. OtherKnows(c, r)'
      BY <3>2, <3>3, <3>4, <3>6 DEF OtherKnows
    <3>8. ResultsTrue(c, r)'
      BY <3>2, <3>3 DEF ResultsTrue
    <3> QED BY <2>3, <3>5, <3>7, <3>8 DEF ResultsOK
  <2> QED BY <2>1, <2>2, <2>3
<1> QED BY <1>1, <1>2, <1>4, StatesQuiet DEF ResultsInv
-----------------------------------------------------------------------------
(* What an update takes from the window it mends, what it adds it brings.  *)
LEMMA UpdateCompletes ==
  ASSUME ShapeInv, StatesInv, ResultsInv, NEW c \in Callers, Update(c)
  PROVE  StatesInv' /\ ResultsInv'
<1> DEFINE report == caller'[c].report
<1>1. /\ UpdateDone(c) /\ UNCHANGED <<size, limit, states>>
      /\ \A d \in Callers \ {c} : caller'[d] = caller[d]
      /\ caller[c].pc = "idle" /\ caller'[c].pc = "updated"
  <2>1. /\ UpdateDone(c) /\ UNCHANGED <<size, configVars, states>>
        /\ caller[c].pc = "idle"
        /\ caller' = [caller EXCEPT ![c] = [Idle EXCEPT !.pc = "updated",
                                                        !.report = caller'[c].report]]
        /\ caller = [x \in Callers |-> caller[x]]
    BY UpdateEffect DEF ShapeInv, CallersOK
  <2>2. caller'[c] = [Idle EXCEPT !.pc = "updated", !.report = caller'[c].report]
    BY <2>1, Zenon
  <2>3. caller'[c].pc = "updated"
    BY <2>2 DEF Idle
  <2> QED BY <2>1, <2>3 DEF configVars
<1>2. KeepsWork
  BY <1>1 DEF KeepsWork, Unapplied
<1>3. /\ generation \in Nat /\ size \in Nat /\ report.generation = generation + 1
      /\ watermark' \in Int /\ (watermark # NoTime => watermark \in Int /\ watermark <= watermark')
      /\ report.windowStart = watermark' - size
  BY <1>1 DEF UpdateDone, ShapeInv, WindowOK
<1>4. Unapplied(c)' /\ Generation(c)' = generation + 1
  BY <1>1, <1>3 DEF Unapplied, Generation
<1>5. \A d \in Callers : caller[d].pc # "idle" => Generation(d) \in 1 .. generation
  BY DEF ShapeInv, CallersOK, CallerOK, ReportOK, Generation
<1>6. ASSUME NEW r \in Rules, NEW g \in 0 .. generation, NEW t,
             SequenceOf[r] \in report.incoming, t \in report.times[SequenceOf[r]]
      PROVE  Brought(r, t, g)'
  <2>1. generation + 1 > g
    BY <1>3
  <2> QED BY <1>4, <1>6, <2>1 DEF Brought, Owns, Newer
<1>7. ASSUME NEW r \in Rules, NEW t \in Due(r)'
      PROVE  \/ t \in Due(r)
             \/ SequenceOf[r] \in report.incoming /\ t \in report.times[SequenceOf[r]]
  <2>1. /\ t \in May(r)' /\ t > watermark' - size
        /\ t \notin ahead'[SequenceOf[r]]
    BY <1>1, PointOfMust1, PointOfDue1
  <2>2. t \in DOMAIN live'[SequenceOf[r]]
    BY <2>1, PointOfMay1
  <2>3. SequenceOf[r] \in SequenceIds
    BY RuleSequence
  <2>4. CASE t \in DOMAIN live[SequenceOf[r]]
               /\ live'[SequenceOf[r]][t] = live[SequenceOf[r]][t]
    <3>1. t \in May(r)
      BY <1>1, <2>1, <2>4, PointOfMay, PointOfMay1
    <3>2. t \in Int /\ watermark # NoTime
      BY <2>3, <2>4 DEF ShapeInv, WindowOK
    <3>3. t > watermark - size
      <4>1. /\ watermark \in Int /\ watermark' \in Int /\ watermark <= watermark'
            /\ size \in Nat
        BY <1>3, <3>2
      <4>2. t > watermark' - size /\ t \in Int
        BY <2>1, <3>2
      <4>3. \A u, w, v, n \in Int : w <= v /\ u > v - n => u > w - n
        OBVIOUS
      <4>4. size \in Int
        BY <4>1
      <4> QED BY <4>1, <4>2, <4>3, <4>4, Zenon
    <3>4. t \notin ahead[SequenceOf[r]]
      BY <1>1, <2>1, <2>3 DEF UpdateDone
    <3> QED BY <3>1, <3>3, <3>4, PointOfMust, PointOfDue
  <2> QED BY <1>1, <2>2, <2>3, <2>4 DEF UpdateDone
<1>8. ASSUME NEW r \in Rules, NEW g \in 0 .. generation, NEW t \in May(r), t \notin May(r)'
      PROVE  Mended(r, t, g)'
  <2>1. /\ t \in DOMAIN live[SequenceOf[r]] /\ SequenceOf[r] \in SequenceIds
        /\ generation + 1 > g
    BY <1>3, PointOfMay, RuleSequence
  <2>2. CASE SequenceOf[r] \in report.evicted /\ t < report.windowStart
    <3>1. Affected(report, r)
      BY <1>1, <2>2 DEF UpdateDone, Affected
    <3> QED BY <1>4, <2>1, <2>2, <3>1 DEF Mended, Newer, WindowStart, Affected
  <2>3. CASE SequenceOf[r] \in report.incoming /\ t \in report.times[SequenceOf[r]]
    <3>1. SequenceOf[r] \notin report.safe
      BY <1>1, <2>1, <2>3 DEF UpdateDone
    <3>2. Affected(report, r) /\ ~HasRange(report, r)
      BY <1>1, <2>3, <3>1 DEF UpdateDone, Affected, HasRange
    <3> QED BY <1>4, <2>1, <2>3, <3>2
            DEF Mended, Newer, Owns, Affected, HasRange
  <2>4. CASE t \in DOMAIN live'[SequenceOf[r]]
               /\ live'[SequenceOf[r]][t] = live[SequenceOf[r]][t]
    BY <1>1, <1>8, <2>4, PointOfMay, PointOfMay1
  <2> QED BY <1>1, <2>1, <2>2, <2>3, <2>4 DEF UpdateDone
<1>9. ASSUME NEW r \in Rules
      PROVE  StateKnows(r)' /\ StateTrue(r)'
  <2>1. StateOf(r)' = StateOf(r)
    BY <1>1 DEF StateOf
  <2>2. PICK g \in 0 .. generation : g = StateOf(r).generation
    BY <1>3 DEF ShapeInv, StatesOK, StateOf, NoState
  <2>3. \A t : /\ Brought(r, t, g) => Brought(r, t, g)'
               /\ Mended(r, t, g) => Mended(r, t, g)'
    BY <1>2, BroughtStays, MendedStays
  <2>4. /\ \A t \in Due(r) : t \in StateOf(r).violations \/ Brought(r, t, g)
        /\ \A t \in StateOf(r).violations : t \in May(r) \/ Mended(r, t, g)
    BY <2>2 DEF StatesInv, StateKnows, StateTrue
  <2>5. \A t \in Due(r)' : t \in StateOf(r).violations \/ Brought(r, t, g)'
    BY <1>6, <1>7, <2>3, <2>4
  <2>6. \A t \in StateOf(r).violations : t \in May(r)' \/ Mended(r, t, g)'
    BY <1>8, <2>3, <2>4
  <2>7. StateKnows(r)'
    BY <2>1, <2>2, <2>5, StateKnowsNext
  <2>8. StateTrue(r)'
    BY <2>1, <2>2, <2>6, StateTrueNext
  <2> QED BY <2>7, <2>8
<1>10. ASSUME NEW d \in Callers, NEW r \in Rules, Computed(d, r)'
       PROVE  ResultsOK(d, r)'
  <2>1. d # c /\ caller'[d] = caller[d] /\ Computed(d, r) /\ caller[d].pc # "idle"
    BY <1>1, <1>10 DEF Computed
  <2>2. PICK g \in 0 .. generation : g = Generation(d)
    BY <1>3, <1>5, <2>1
  <2>3. StateOf(r)' = StateOf(r)
    BY <1>1 DEF StateOf
  <2>4. /\ Generation(d)' = g /\ Results(d, r)' = Results(d, r)
        /\ Owns(d, r)' <=> Owns(d, r)
        /\ Current(d, r)' <=> Current(d, r)
    BY <2>1, <2>2, <2>3 DEF Generation, Results, Owns, Unapplied, Current, Newer
  <2>5. \A t : /\ Brought(r, t, g) => Brought(r, t, g)'
               /\ Mended(r, t, g) => Mended(r, t, g)'
    BY <1>2, BroughtStays, MendedStays
  <2>6. OwnerKnows(d, r) /\ OtherKnows(d, r) /\ ResultsTrue(d, r)
    BY DEF ResultsInv, ResultsOK
  <2>7. OwnerKnows(d, r)'
    <3>1. Owns(d, r) => SequenceOf[r] \notin report.incoming
      BY <1>1, <2>1 DEF UpdateDone, Busy, Owns
    <3>2. Owns(d, r) => \A t \in Due(r)' : t \in Due(r)
      BY <1>7, <3>1
    <3> QED BY <2>1, <2>4, <2>6, <3>2 DEF OwnerKnows, Covered
  <2>8. OtherKnows(d, r)'
    <3>1. ~Owns(d, r) /\ Current(d, r) =>
            \A t \in Due(r) : t \in Results(d, r) \/ Brought(r, t, g)
      BY <2>1, <2>2, <2>6 DEF OtherKnows
    <3>2. ~Owns(d, r) /\ Current(d, r) =>
            \A t \in Due(r)' : t \in Results(d, r) \/ Brought(r, t, g)'
      BY <1>6, <1>7, <2>5, <3>1
    <3> QED BY <2>4, <3>2, OtherKnowsNext
  <2>9. ResultsTrue(d, r)'
    <3>1. Current(d, r) => \A t \in Results(d, r) : t \in May(r) \/ Mended(r, t, g)
      BY <2>1, <2>2, <2>6 DEF ResultsTrue
    <3>2. Current(d, r) => \A t \in Results(d, r) : t \in May(r)' \/ Mended(r, t, g)'
      BY <1>8, <2>5, <3>1
    <3> QED BY <2>4, <3>2, ResultsTrueNext
  <2> QED BY <2>7, <2>8, <2>9 DEF ResultsOK
<1> QED BY <1>9, <1>10, NotComputed DEF StatesInv, ResultsInv
-----------------------------------------------------------------------------
(* Folding adds up: what the results do not cover the state keeps, and     *)
(* what either has too much, an ingest that is newer still will mend.      *)
LEMMA ApplyCompletes ==
  ASSUME ShapeInv, Settled, StatesInv, ResultsInv, NEW c \in Callers, Apply(c)
  PROVE  StatesInv' /\ ResultsInv'
<1>1. /\ OthersSame(c) /\ UNCHANGED <<windowVars, limit>>
      /\ caller[c].pc = "checking" /\ caller[c].groups = {} /\ ~caller[c].failed
      /\ caller'[c].pc = "reporting"
  BY ApplyEffect DEF configVars
<1>2. /\ DOMAIN states' = DOMAIN states \cup DOMAIN caller[c].results
      /\ \A r \in DOMAIN states : r \notin DOMAIN caller[c].results => states'[r] = states[r]
      /\ \A r \in DOMAIN caller[c].results :
           states'[r] = IF Overtaken(c, r) THEN StateOf(r)
                        ELSE [initialized |-> TRUE,
                              violations |-> Kept(c, r) \cup Results(c, r),
                              generation |-> Generation(c)]
  BY ApplyEffect
<1>3. /\ CallerOK(c) /\ ReportOK(c) /\ ChecksOK(c) /\ Unapplied(c)
      /\ DOMAIN states \subseteq Rules
      /\ \A r \in DOMAIN states : /\ states[r].initialized = TRUE
                                  /\ states[r].generation \in 0 .. generation
  BY <1>1 DEF ShapeInv, CallersOK, CallerOK, Unapplied, StatesOK
<1>4. \A d \in Callers : caller[d].pc # "idle" =>
        /\ Generation(d) \in 1 .. generation /\ WindowStart(d) \in Int
        /\ d # c => /\ Generation(d) # Generation(c)
                    /\ caller[c].report.incoming \cap caller[d].report.incoming = {}
  BY <1>1 DEF ShapeInv, CallersOK, CallerOK, ReportOK, Generation, WindowStart, Apart
<1>5. Generation(c) \in 1 .. generation /\ WindowStart(c) \in Int /\ generation \in Nat
  BY <1>1, <1>4 DEF ShapeInv, WindowOK
<1>6. \A r \in Rules : Affected(caller[c].report, r) => r \in DOMAIN caller[c].results
  BY <1>1, <1>3 DEF ChecksOK, Grouped
<1>7. \A r \in Rules : May(r)' = May(r) /\ Due(r)' = Due(r)
  BY <1>1 DEF Due, May, Must, windowVars
(* What happens to the state of a rule.                                    *)
<1>8. ASSUME NEW r \in Rules
      PROVE  \/ /\ StateOf(r)' = StateOf(r)
                /\ r \in DOMAIN caller[c].results =>
                     StateOf(r).generation > Generation(c)
             \/ /\ r \in DOMAIN caller[c].results /\ Current(c, r)
                /\ StateOf(r)' = [initialized |-> TRUE,
                                  violations |-> Kept(c, r) \cup Results(c, r),
                                  generation |-> Generation(c)]
  <2>1. CASE r \notin DOMAIN caller[c].results
    BY <1>2, <2>1 DEF StateOf
  <2>2. CASE r \in DOMAIN caller[c].results /\ Overtaken(c, r)
    <3>1. StateOf(r) = states[r] /\ r \in DOMAIN states
      BY <2>2 DEF Overtaken, StateOf, NoState
    <3>2. StateOf(r)' = StateOf(r)
      BY <1>2, <2>2, <3>1 DEF StateOf
    <3>3. StateOf(r).generation > Generation(c)
      BY <1>3, <1>5, <2>2, <3>1 DEF Overtaken
    <3> QED BY <3>2, <3>3
  <2>3. CASE r \in DOMAIN caller[c].results /\ ~Overtaken(c, r)
    <3>1. StateOf(r)' = states'[r]
      BY <1>2, <2>3 DEF StateOf
    <3>2. Current(c, r)
      <4>1. CASE r \in DOMAIN states
        <5>1. /\ StateOf(r) = states[r] /\ states[r].initialized = TRUE
              /\ states[r].generation \in 0 .. generation
              /\ states[r].generation # Generation(c)
          BY <1>3, <4>1 DEF StateOf, CallerOK
        <5> QED BY <1>5, <2>3, <5>1 DEF Overtaken, Current, Newer
      <4>2. CASE r \notin DOMAIN states
        BY <1>5, <4>2 DEF StateOf, NoState, Current, Newer
      <4> QED BY <4>1, <4>2
    <3> QED BY <1>2, <2>3, <3>1, <3>2
  <2> QED BY <2>1, <2>2, <2>3
(* The work on a rule that is newer than its state is not that of c.       *)
<1>9. ASSUME NEW r \in Rules, NEW g \in Int, NEW t, Brought(r, t, g),
             ~Owns(c, r) \/ g >= Generation(c)
      PROVE  Brought(r, t, g)'
  <2>1. PICK d \in Callers : /\ Owns(d, r) /\ Newer(d, g)
                             /\ t \in caller[d].report.times[SequenceOf[r]]
    BY <1>9 DEF Brought
  <2>2. d # c
    BY <1>5, <1>9, <2>1 DEF Newer
  <2> QED BY <1>1, <2>1, <2>2, BroughtByOther
<1>10. ASSUME NEW r \in Rules, NEW g \in Int, NEW t, Mended(r, t, g),
              ~Affected(caller[c].report, r) \/ g >= Generation(c)
       PROVE  Mended(r, t, g)'
  <2>1. PICK d \in Callers :
          /\ Unapplied(d) /\ Newer(d, g) /\ Affected(caller[d].report, r)
          /\ t < WindowStart(d) \/ (Owns(d, r) /\ ~HasRange(caller[d].report, r))
    BY <1>10 DEF Mended
  <2>2. d # c
    BY <1>5, <1>10, <2>1 DEF Newer
  <2> QED BY <1>1, <2>1, <2>2, MendedByOther
<1>11. \A r \in Rules : Owns(c, r) => Affected(caller[c].report, r)
  BY OwnsAffects
<1>12. \A r \in Rules : StateOf(r).generation \in Int
  BY <1>3, <1>5 DEF StateOf, NoState
<1>13. ASSUME NEW r \in Rules
       PROVE  StateKnows(r)' /\ StateTrue(r)'
  <2>1. StateKnows(r) /\ StateTrue(r) /\ ResultsOK(c, r)
    BY <1>13 DEF StatesInv, ResultsInv
  <2>2. CASE StateOf(r)' = StateOf(r)
               /\ (r \in DOMAIN caller[c].results => StateOf(r).generation > Generation(c))
    <3>1. PICK g \in Int : g = StateOf(r).generation
      BY <1>12
    <3>2. ~Affected(caller[c].report, r) \/ g >= Generation(c)
      BY <1>5, <1>6, <2>2, <3>1
    <3>3. \A t \in Due(r)' : t \in StateOf(r)'.violations \/ Brought(r, t, g)'
      BY <1>7, <1>9, <1>11, <2>1, <2>2, <3>1, <3>2 DEF StateKnows
    <3>4. \A t \in StateOf(r)'.violations : t \in May(r)' \/ Mended(r, t, g)'
      BY <1>7, <1>10, <2>1, <2>2, <3>1, <3>2 DEF StateTrue
    <3>5. StateOf(r)'.generation = g
      BY <2>2, <3>1
    <3> QED BY <3>3, <3>4, <3>5, StateKnowsNext, StateTrueNext
  <2>3. CASE /\ r \in DOMAIN caller[c].results /\ Current(c, r)
             /\ StateOf(r)' = [initialized |-> TRUE,
                               violations |-> Kept(c, r) \cup Results(c, r),
                               generation |-> Generation(c)]
    <3> DEFINE range == caller[c].results[r].range
    <3>1. PICK g \in Int : g = Generation(c)
      BY <1>5
    <3>2. /\ StateOf(r)'.violations = Kept(c, r) \cup Results(c, r)
          /\ StateOf(r)'.generation = g
      BY <2>3, <3>1
    <3>3. Computed(c, r) /\ RangeOK(caller[c].report, r, range)
      BY <1>1, <1>3, <2>3 DEF Computed, ChecksOK
    <3>4. range # NoRange => HasRange(caller[c].report, r) /\ Owns(c, r)
      BY <1>3, <3>3 DEF RangeOK, HasRange, ReportOK, Owns
    <3>5. ASSUME NEW t \in Due(r)
          PROVE  t \in Kept(c, r) \cup Results(c, r) \/ Brought(r, t, g)'
      <4>1. CASE Owns(c, r) /\ Covered(range, t)
        BY <2>1, <3>3, <4>1 DEF ResultsOK, OwnerKnows
      <4>2. CASE Owns(c, r) /\ ~Covered(range, t)
        <5>1. ~Brought(r, t, StateOf(r).generation)
          <6>1. SUFFICES ASSUME NEW d \in Callers, Owns(d, r),
                                t \in caller[d].report.times[SequenceOf[r]]
                         PROVE  FALSE
            BY DEF Brought
          <6>2. d = c
            BY <1>4, <4>2, <6>1 DEF Owns, Unapplied
          <6> QED BY <3>3, <3>4, <4>2, <6>1, <6>2 DEF RangeOK, Covered
        <5>2. t \in StateOf(r).violations
          BY <2>1, <5>1 DEF StateKnows
        <5>3. range # NoRange /\ (t < range.start \/ t > range.end)
          <6>1. t \in Int
            BY PointOfDue, PointOfMust, PointOfMay, RuleSequence DEF ShapeInv, WindowOK
          <6> QED BY <3>3, <3>4, <4>2, <6>1 DEF Covered, RangeOK
        <5>4. t >= WindowStart(c)
          <6>1. t \in Int
            BY PointOfDue, PointOfMust, PointOfMay, RuleSequence DEF ShapeInv, WindowOK
          <6>2. t > watermark - size /\ WindowStart(c) <= watermark - size
            BY <1>1, PointOfDue, PointOfMust DEF Settled
          <6>3. watermark \in Int /\ size \in Int
            BY <1>3 DEF ReportOK, ShapeInv, WindowOK
          <6> QED BY <1>5, <6>1, <6>2, <6>3
        <5> QED BY <5>2, <5>3, <5>4 DEF Kept
      <4>3. CASE ~Owns(c, r)
        <5>1. t \in Results(c, r) \/ Brought(r, t, g)
          BY <2>1, <2>3, <3>1, <3>3, <4>3 DEF ResultsOK, OtherKnows
        <5> QED BY <1>9, <4>3, <5>1
      <4> QED BY <4>1, <4>2, <4>3
    <3>6. ASSUME NEW t \in Results(c, r)
          PROVE  t \in May(r) \/ Mended(r, t, g)'
      <4>1. t \in May(r) \/ Mended(r, t, g)
        BY <2>1, <2>3, <3>1, <3>3 DEF ResultsOK, ResultsTrue
      <4>2. g >= Generation(c)
        BY <1>5, <3>1
      <4> QED BY <1>10, <4>1, <4>2
    <3>7. ASSUME NEW t \in Kept(c, r)
          PROVE  t \in May(r) \/ Mended(r, t, g)'
      <4>1. /\ t \in StateOf(r).violations /\ range # NoRange /\ t >= WindowStart(c)
            /\ t \in Int
        <5>1. t \in StateOf(r).violations /\ range # NoRange /\ t >= WindowStart(c)
          BY DEF Kept
        <5>2. StateOf(r).violations \subseteq Int
          BY DEF StateOf, NoState, ShapeInv, StatesOK
        <5> QED BY <5>1, <5>2
      <4>2. CASE Mended(r, t, StateOf(r).generation)
        <5>1. PICK d \in Callers :
                /\ Unapplied(d) /\ Affected(caller[d].report, r)
                /\ t < WindowStart(d) \/ (Owns(d, r) /\ ~HasRange(caller[d].report, r))
          BY <4>2 DEF Mended
        <5>2. Owns(c, r) /\ HasRange(caller[c].report, r)
          BY <3>4, <4>1
        <5>3. Owns(d, r) => d = c
          BY <1>4, <5>1, <5>2 DEF Owns, Unapplied
        <5>4. t < WindowStart(d)
          BY <5>1, <5>2, <5>3
        <5>5. caller[d].pc # "idle" /\ Generation(d) \in Int /\ WindowStart(d) \in Int
          BY <1>4, <5>1 DEF Unapplied
        <5>6. d # c
          BY <1>5, <4>1, <5>4
        <5>7. ~(Generation(d) < Generation(c))
          <6>1. Generation(d) < Generation(c) => WindowStart(d) <= WindowStart(c)
            BY <1>1, <5>5 DEF Settled
          <6> QED BY <1>5, <4>1, <5>4, <5>5, <6>1
        <5>8. Newer(d, g)
          BY <1>4, <1>5, <3>1, <5>5, <5>6, <5>7 DEF Newer
        <5> QED BY <1>1, <5>1, <5>4, <5>6, <5>8, MendedByOther
      <4> QED BY <2>1, <4>1, <4>2 DEF StateTrue
    <3>8. \A t \in Due(r)' : t \in StateOf(r)'.violations \/ Brought(r, t, g)'
      BY <1>7, <3>2, <3>5
    <3>9. \A t \in StateOf(r)'.violations : t \in May(r)' \/ Mended(r, t, g)'
      BY <1>7, <3>2, <3>6, <3>7
    <3> QED BY <3>2, <3>8, <3>9, StateKnowsNext, StateTrueNext
  <2> QED BY <1>8, <2>2, <2>3
<1>14. ASSUME NEW d \in Callers, NEW r \in Rules, Computed(d, r)'
       PROVE  ResultsOK(d, r)'
  <2>1. d # c /\ caller'[d] = caller[d] /\ Computed(d, r)
    BY <1>1, <1>14 DEF Computed, OthersSame
  <2>2. PICK g \in Int : g = Generation(d)
    BY <1>4, <2>1 DEF Computed
  <2>3. Generation(d)' = g /\ Results(d, r)' = Results(d, r) /\ (Owns(d, r)' <=> Owns(d, r))
    BY <2>1, <2>2 DEF Generation, Results, Owns, Unapplied
  <2>4. OwnerKnows(d, r) /\ OtherKnows(d, r) /\ ResultsTrue(d, r)
    BY DEF ResultsInv, ResultsOK
  (* If its results still count, they are newer than those of c.           *)
  <2>5. ASSUME Current(d, r)'
        PROVE  /\ Current(d, r)
               /\ ~Affected(caller[c].report, r) \/ g >= Generation(c)
    <3>1. g > StateOf(r)'.generation
      BY <2>3, <2>5 DEF Current, Newer
    <3>2. CASE StateOf(r)' = StateOf(r)
                 /\ (r \in DOMAIN caller[c].results => StateOf(r).generation > Generation(c))
      BY <1>5, <1>6, <1>12, <2>2, <3>1, <3>2 DEF Current, Newer
    <3>3. CASE /\ r \in DOMAIN caller[c].results /\ Current(c, r)
               /\ StateOf(r)' = [initialized |-> TRUE,
                                 violations |-> Kept(c, r) \cup Results(c, r),
                                 generation |-> Generation(c)]
      <4>1. g > Generation(c) /\ Generation(c) > StateOf(r).generation
        BY <3>1, <3>3 DEF Current, Newer
      <4> QED BY <1>5, <1>12, <2>2, <4>1 DEF Current, Newer
    <3> QED BY <1>8, <3>2, <3>3
  <2>6. OwnerKnows(d, r)'
    BY <1>7, <2>1, <2>3, <2>4 DEF OwnerKnows, Covered
  <2>7. OtherKnows(d, r)'
    <3>1. ASSUME ~Owns(d, r), Current(d, r)', NEW t \in Due(r)
          PROVE  t \in Results(d, r) \/ Brought(r, t, g)'
      <4>1. t \in Results(d, r) \/ Brought(r, t, g)
        BY <2>1, <2>2, <2>4, <2>5, <3>1 DEF OtherKnows
      <4> QED BY <1>9, <1>11, <2>5, <3>1, <4>1
    <3> QED BY <1>7, <2>3, <3>1, OtherKnowsNext
  <2>8. ResultsTrue(d, r)'
    <3>1. ASSUME Current(d, r)', NEW t \in Results(d, r)
          PROVE  t \in May(r) \/ Mended(r, t, g)'
      <4>1. t \in May(r) \/ Mended(r, t, g)
        BY <2>1, <2>2, <2>4, <2>5, <3>1 DEF ResultsTrue
      <4> QED BY <1>10, <2>5, <3>1, <4>1
    <3> QED BY <1>7, <2>3, <3>1, ResultsTrueNext
  <2> QED BY <2>6, <2>7, <2>8 DEF ResultsOK
<1> QED BY <1>13, <1>14, NotComputed DEF StatesInv, ResultsInv
-----------------------------------------------------------------------------
LEMMA CleanInit ==
  ASSUME Init
  PROVE  CleanInv
<1>1. \A c \in Callers : caller[c].pc = "idle"
  BY DEF Init, Idle
<1>2. Settled
  BY <1>1 DEF Settled
<1>3. ASSUME NEW r \in Rules
      PROVE  StateKnows(r) /\ StateTrue(r)
  <2>1. DOMAIN live[SequenceOf[r]] = {}
    BY RuleSequence DEF Init
  <2>2. Due(r) = {}
    BY <2>1, PointOfDue, PointOfMust, PointOfMay
  <2>3. StateOf(r).violations = {}
    BY DEF Init, StateOf, NoState
  <2> QED BY <2>2, <2>3 DEF StateKnows, StateTrue
<1>4. ASSUME NEW c \in Callers, NEW r \in Rules
      PROVE  ResultsOK(c, r)
  BY <1>1 DEF ResultsOK, OwnerKnows, OtherKnows, ResultsTrue, Computed
<1> QED BY <1>2, <1>3, <1>4 DEF CleanInv, StatesInv, ResultsInv

LEMMA CleanNext ==
  ASSUME ShapeInv, CleanInv, [Next]_vars
  PROVE  CleanInv'
<1> SUFFICES ASSUME Clean'
             PROVE  Settled' /\ StatesInv' /\ ResultsInv'
  BY DEF CleanInv
<1>1. Clean /\ ((\E c \in Callers : CallerStep(c) /\ ~Fail(c)) \/ UNCHANGED vars)
  BY CleanBefore
<1>2. Settled /\ StatesInv /\ ResultsInv
  BY <1>1 DEF CleanInv
<1>3. ASSUME NEW c \in Callers, CallerStep(c), ~Fail(c)
      PROVE  Settled' /\ StatesInv' /\ ResultsInv'
  <2>1. Settled'
    BY <1>2, <1>3, SettledStep
  <2>2. ~caller'[c].failed
    BY DEF Clean
  <2> QED BY <1>2, <1>3, <2>1, <2>2, UpdateCompletes, QuietSteps, CheckGroupCompletes,
             ApplyCompletes DEF CallerStep
<1>4. CASE UNCHANGED vars
  <2>1. UNCHANGED <<windowVars, limit, states, caller, size, watermark>>
    BY <1>4 DEF vars, windowVars, configVars
  <2>2. Settled'
    BY <1>2, <2>1 DEF Settled, WindowStart, Generation
  <2>3. KeepsWork
    BY <2>1 DEF KeepsWork, Unapplied
  <2>4. StatesInv'
    BY <1>2, <2>1, <2>3, StatesQuiet
  <2>5. ASSUME NEW d \in Callers, NEW r \in Rules
        PROVE  ResultsOK(d, r)'
    <3>1. CASE Computed(d, r)
      BY <1>2, <2>1, <2>3, <3>1, ResultsQuiet
    <3>2. CASE ~Computed(d, r)
      BY <2>1, <3>2, NotComputed DEF Computed
    <3> QED BY <3>1, <3>2
  <2> QED BY <2>2, <2>4, <2>5 DEF ResultsInv
<1> QED BY <1>1, <1>3, <1>4

LEMMA AloneInit ==
  ASSUME Init
  PROVE  AloneInv /\ SelectedInv
<1>1. \A c \in Callers : caller[c].pc = "idle"
  BY DEF Init, Idle
<1> QED BY <1>1 DEF Init, AloneInv, SelectedInv

(* While nothing but one ingest at a time has happened, only that one      *)
(* ingest takes a step.                                                    *)
LEMMA AloneSteps ==
  ASSUME ShapeInv, AloneInv, [Next]_vars, mode' = "alone"
  PROVE  /\ mode = "alone" /\ ~syncing' /\ UNCHANGED limit
         /\ \/ UNCHANGED vars
            \/ \E c \in Callers :
                 /\ CallerStep(c)
                 /\ \A d \in Callers \ {c} : caller[d].pc = "idle" /\ caller'[d] = caller[d]
                 /\ ~Update(c) => AloneOf(c)
<1> USE DEF windowVars, configVars, history
<1>1. ~Sync /\ ~Resize
  BY DEF Sync, Resize
<1>2. ASSUME NEW c \in Callers, CallerStep(c)
      PROVE  /\ mode = "alone" /\ ~syncing' /\ UNCHANGED limit
             /\ \A d \in Callers \ {c} : caller[d].pc = "idle" /\ caller'[d] = caller[d]
             /\ ~Update(c) => AloneOf(c)
  <2>1. CASE Update(c)
    <3>1. /\ mode' = ModeOf(c) /\ UNCHANGED <<limit, syncing>>
          /\ \A d \in Callers \ {c} : caller'[d] = caller[d]
      BY <2>1, UpdateEffect DEF ShapeInv, CallersOK
    <3>2. mode = "alone" /\ \A d \in Callers \ {c} : caller[d].pc = "idle"
      BY <3>1 DEF ModeOf
    <3> QED BY <2>1, <3>1, <3>2 DEF AloneInv
  <2>2. CASE ~Update(c)
    <3>1. /\ mode' = mode /\ UNCHANGED <<limit, syncing>> /\ caller[c].pc # "idle"
      BY <1>2, <2>2 DEF CallerStep, ReadRules, SelectRules, CheckGroup, Apply, Fail, Return
    <3>2. OthersSame(c)
      BY <1>2, <2>2, ReadRulesEffect, SelectRulesEffect, CheckGroupEffect, ApplyEffect,
         EndEffect DEF CallerStep
    <3> QED BY <3>1, <3>2 DEF AloneInv, AloneOf, OthersSame
  <2> QED BY <2>1, <2>2
<1>3. CASE \E c \in Callers : CallerStep(c)
  BY <1>2, <1>3
<1>4. ~EraseStates
  BY DEF EraseStates, AloneInv
<1>5. CASE Terminated \/ UNCHANGED vars
  <2>1. UNCHANGED vars
    BY <1>5 DEF Terminated
  <2> QED BY <2>1 DEF vars, AloneInv
<1> QED BY <1>1, <1>3, <1>4, <1>5 DEF Next

LEMMA AloneNext ==
  ASSUME ShapeInv, AloneInv, [Next]_vars
  PROVE  AloneInv'
<1> SUFFICES ASSUME mode' = "alone"
             PROVE  ~syncing' /\ \A d \in Callers : caller'[d].pc # "idle" => AloneOf(d)'
  BY DEF AloneInv
<1>1. mode = "alone" /\ ~syncing' /\ limit' = limit
  BY AloneSteps
<1>2. CASE UNCHANGED vars
  <2>1. UNCHANGED <<live, watermark, size, generation, limit, states, caller, mode>>
    BY <1>2 DEF vars, windowVars, configVars, history
  <2> QED BY <1>1, <2>1 DEF AloneInv, AloneOf, Generation, Seen, Must, May, Results
<1>3. ASSUME NEW c \in Callers, CallerStep(c),
             \A d \in Callers \ {c} : caller[d].pc = "idle" /\ caller'[d] = caller[d],
             ~Update(c) => AloneOf(c)
      PROVE  \A d \in Callers : caller'[d].pc # "idle" => AloneOf(d)'
  <2>1. SUFFICES ASSUME caller'[c].pc # "idle"
                 PROVE  AloneOf(c)'
    BY <1>3
  <2>2. \A d \in Callers \ {c} : caller'[d].pc = "idle"
    BY <1>3
  <2>3. CASE Update(c)
    <3>1. /\ UpdateDone(c)
          /\ caller' = [caller EXCEPT ![c] = [Idle EXCEPT !.pc = "updated",
                                                          !.report = caller'[c].report]]
          /\ caller = [x \in Callers |-> caller[x]]
      BY <2>3, UpdateEffect DEF ShapeInv, CallersOK
    <3>2. caller'[c] = [Idle EXCEPT !.pc = "updated", !.report = caller'[c].report]
      BY <3>1, Zenon
    <3>3. caller'[c].pc = "updated" /\ caller'[c].results = <<>>
      BY <3>2 DEF Idle
    <3>4. DOMAIN caller'[c].results = {}
      BY <3>3
    <3>5. Generation(c)' = generation'
      BY <3>1 DEF UpdateDone, Generation
    <3> QED BY <2>2, <3>3, <3>4, <3>5 DEF AloneOf
  <2>4. CASE ~Update(c)
    <3>1. /\ AloneOf(c) /\ UNCHANGED <<windowVars, limit>>
          /\ caller'[c].report = caller[c].report
          /\ Generation(c)' = generation'
          /\ caller'[c].pc \in {"configured", "checking"} => caller'[c].rules = limit'
      BY <1>3, <2>1, <2>4, ReportStays DEF AloneOf, Generation, windowVars
    <3>2. \A r : Seen(r)' = Seen(r) /\ May(r)' = May(r)
      BY <3>1 DEF Seen, Must, May, windowVars
    <3>3. CASE ReadRules(c)
      <4>1. caller'[c].pc = "configured" /\ caller'[c].results = caller[c].results
            /\ caller[c].pc = "updated"
        BY <3>3, ReadRulesEffect
      <4>2. \A r \in DOMAIN caller[c].results : Results(c, r)' = Results(c, r)
        BY <4>1 DEF Results
      <4> QED BY <2>2, <3>1, <3>2, <4>1, <4>2 DEF AloneOf
    <3>4. CASE SelectRules(c)
      <4>1. caller'[c].pc = "checking" /\ caller'[c].results = caller[c].results
        BY <2>1, <3>4, SelectRulesEffect DEF Idle
      <4>2. \A r \in DOMAIN caller[c].results : Results(c, r)' = Results(c, r)
        BY <4>1 DEF Results
      <4> QED BY <2>2, <3>1, <3>2, <4>1, <4>2 DEF AloneOf
    <3>5. CASE CheckGroup(c)
      <4>1. caller[c].pc = "checking" /\ caller'[c].pc = "checking"
        BY <3>5, CheckGroupEffect
      <4>2. PICK g \in caller[c].groups :
              \/ caller'[c].results = caller[c].results
              \/ /\ DOMAIN caller'[c].results = DOMAIN caller[c].results \cup g.rules
                 /\ \A r \in DOMAIN caller[c].results :
                      r \notin g.rules => caller'[c].results[r] = caller[c].results[r]
                 /\ \A r \in g.rules :
                      /\ caller'[c].results[r].range = g.range
                      /\ Finds(c, g, r, caller'[c].results[r].violations)
        BY <3>5, CheckGroupEffect
      <4>3. ASSUME NEW r \in DOMAIN caller'[c].results,
                   caller'[c].results[r].range = NoRange
            PROVE  Seen(r) \subseteq Results(c, r)' /\ Results(c, r)' \subseteq May(r)
        <5>1. CASE caller'[c].results[r] = caller[c].results[r]
                     /\ r \in DOMAIN caller[c].results
          BY <3>1, <4>3, <5>1 DEF AloneOf, Results
        <5>2. CASE /\ r \in g.rules /\ g.range = NoRange
                   /\ Finds(c, g, r, caller'[c].results[r].violations)
          <6>1. caller[c].rules = limit
            BY <3>1, <4>1 DEF AloneOf
          <6>2. /\ Results(c, r)' \subseteq May(r)
                /\ \A t \in May(r) : watermark - size + 1 <= t /\ t <= watermark
                                   => t \in Results(c, r)'
            BY <5>2, <6>1 DEF Finds, May, Results
          <6>3. r \in Rules
            BY <5>2 DEF ShapeInv, CallersOK, CallerOK, ChecksOK, Grouped
          <6>4. watermark \in Int /\ size \in Int
            BY <4>1 DEF ShapeInv, CallersOK, CallerOK, ReportOK, WindowOK
          <6>5. \A t \in Seen(r) : /\ t \in May(r) /\ t \in Int
                                   /\ t > watermark - size /\ t <= watermark
            BY <6>3, PointOfMust, PointOfMay, RuleSequence DEF Seen, ShapeInv, WindowOK
          <6>6. \A t \in Seen(r) : watermark - size + 1 <= t
            BY <6>4, <6>5
          <6> QED BY <6>2, <6>5, <6>6
        <5> QED BY <4>2, <4>3, <5>1, <5>2
      <4> QED BY <2>2, <3>1, <3>2, <4>1, <4>3 DEF AloneOf
    <3>6. CASE Apply(c)
      <4>1. /\ caller[c].pc = "checking" /\ caller'[c].pc = "reporting"
            /\ caller'[c].results = caller[c].results
            /\ caller'[c].rules = caller[c].rules
            /\ DOMAIN states' = DOMAIN states \cup DOMAIN caller[c].results
            /\ \A r \in DOMAIN caller[c].results :
                 states'[r] = IF Overtaken(c, r) THEN StateOf(r)
                              ELSE [initialized |-> TRUE,
                                    violations |-> Kept(c, r) \cup Results(c, r),
                                    generation |-> Generation(c)]
        BY <3>6, ApplyEffect
      <4>2. \A r : ~Overtaken(c, r)
        <5>1. Generation(c) = generation /\ generation \in Nat
          BY <3>1 DEF AloneOf, ShapeInv, WindowOK
        <5>2. \A r : StateOf(r).generation \in 0 .. generation
          BY <5>1 DEF StateOf, NoState, ShapeInv, StatesOK
        <5> QED BY <5>1, <5>2 DEF Overtaken
      <4>3. ASSUME NEW r \in DOMAIN caller[c].results,
                   caller[c].results[r].range = NoRange
            PROVE  r \in DOMAIN states' /\ states'[r].violations = Results(c, r)
        <5>1. Kept(c, r) = {}
          BY <4>3 DEF Kept
        <5>2. states'[r] = [initialized |-> TRUE,
                            violations |-> Kept(c, r) \cup Results(c, r),
                            generation |-> Generation(c)]
          <6>1. ~Overtaken(c, r)
            BY <4>2
          <6>2. states'[r] = IF Overtaken(c, r) THEN StateOf(r)
                             ELSE [initialized |-> TRUE,
                                   violations |-> Kept(c, r) \cup Results(c, r),
                                   generation |-> Generation(c)]
            BY <4>1
          <6> QED BY <6>1, <6>2, Zenon
        <5> QED BY <4>1, <5>1, <5>2
      <4>4. \A r \in DOMAIN caller[c].results : Results(c, r)' = Results(c, r)
        BY <4>1 DEF Results
      <4>5. caller'[c].rules = limit'
        BY <1>1, <3>1, <4>1 DEF AloneOf
      <4> QED BY <2>2, <3>1, <3>2, <4>1, <4>3, <4>4, <4>5 DEF AloneOf
    <3>7. CASE Fail(c) \/ Return(c)
      BY <2>1, <3>7, EndEffect DEF Idle
    <3> QED BY <1>3, <2>4, <3>3, <3>4, <3>5, <3>6, <3>7 DEF CallerStep
  <2> QED BY <2>3, <2>4
<1> QED BY <1>1, <1>2, <1>3, AloneSteps

(* Every rule with a violation is selected: it is affected, or its         *)
(* violation is in its state.                                              *)
LEMMA SelectedNext ==
  ASSUME ShapeInv, AloneInv, CleanInv, SelectedInv, [Next]_vars
  PROVE  SelectedInv'
<1> SUFFICES ASSUME mode' = "alone", Clean', NEW c \in Callers,
                    caller'[c].pc \in {"checking", "reporting"},
                    NEW r \in Rules, Due(r)' # {}
             PROVE  r \in caller'[c].selected
  BY DEF SelectedInv
<1>1. mode = "alone" /\ Clean /\ limit' = limit
  BY AloneSteps, CleanBefore
<1>2. CASE UNCHANGED vars
  <2>1. UNCHANGED <<live, watermark, ahead, size, limit, caller>>
    BY <1>2 DEF vars, windowVars, configVars
  <2> QED BY <1>1, <2>1 DEF SelectedInv, Due, Must, May
<1>3. ASSUME NEW d \in Callers, CallerStep(d),
             \A e \in Callers \ {d} : caller[e].pc = "idle" /\ caller'[e] = caller[e],
             ~Update(d) => AloneOf(d)
      PROVE  r \in caller'[c].selected
  <2>1. c = d
    BY <1>3
  <2>2. ~Update(c)
    <3>1. SUFFICES ASSUME Update(c)
                   PROVE  FALSE
      OBVIOUS
    <3>2. /\ caller' = [caller EXCEPT ![c] = [Idle EXCEPT !.pc = "updated",
                                                          !.report = caller'[c].report]]
          /\ caller = [x \in Callers |-> caller[x]]
      BY <3>1, UpdateEffect DEF ShapeInv, CallersOK
    <3>3. caller'[c] = [Idle EXCEPT !.pc = "updated", !.report = caller'[c].report]
      BY <3>2, Zenon
    <3> QED BY <3>3 DEF Idle
  <2>3. Due(r)' = Due(r)
    BY <1>3, <2>1, <2>2, ReportStays DEF Due, Must, May, windowVars
  <2>4. CASE SelectRules(c)
    <3>1. PICK t \in Due(r) : TRUE
      BY <2>3
    <3>2. StateKnows(r)
      BY <1>1 DEF CleanInv, StatesInv
    <3>3. Affected(caller[c].report, r) \/ r \in Violated
      <4>1. CASE t \in StateOf(r).violations
        BY <4>1 DEF Violated, StateOf, NoState
      <4>2. CASE t \notin StateOf(r).violations
        <5>1. PICK e \in Callers : Owns(e, r)
          BY <3>1, <3>2, <4>2 DEF StateKnows, Brought
        <5>2. e = c
          BY <1>3, <2>1, <5>1 DEF Owns, Unapplied
        <5> QED BY <5>1, <5>2, OwnsAffects
      <4> QED BY <4>1, <4>2
    <3> QED BY <2>4, <3>3, SelectRulesEffect DEF Idle
  <2>5. CASE CheckGroup(c)
    BY <1>1, <2>3, <2>5, CheckGroupEffect DEF SelectedInv
  <2>6. CASE Apply(c)
    BY <1>1, <2>3, <2>6, ApplyEffect DEF SelectedInv
  <2>7. CASE ReadRules(c)
    BY <2>7, ReadRulesEffect
  <2>8. CASE Fail(c) \/ Return(c)
    BY <2>8, EndEffect DEF Idle
  <2> QED BY <1>3, <2>1, <2>2, <2>4, <2>5, <2>6, <2>7, <2>8 DEF CallerStep
<1> QED BY <1>2, <1>3, AloneSteps

(* What is reported of the clauses that no rule satisfies.                 *)
Shown(c, r) == {v[2] : v \in {u \in caller[c].reported : u[1] = r}}
ShownExactly(c) ==
  \A r \in Rules :
    /\ Shown(c, r) \subseteq May(r)
    /\ Shown(c, r) # {} => \A q \in ClauseOf(r) : May(q) # {}
    /\ (\A q \in ClauseOf(r) : Due(q) # {}) => Due(r) \subseteq Shown(c, r)

TimesShown(reported, r) == {v[2] : v \in {u \in reported : u[1] = r}}
Pairs(R, V) == UNION {{q} \X V[q] : q \in R}

LEMMA ShownOfPairs ==
  ASSUME NEW R, NEW V, NEW r
  PROVE  TimesShown(Pairs(R, V), r) = IF r \in R THEN V[r] ELSE {}
<1> DEFINE those == {u \in Pairs(R, V) : u[1] = r}
<1>1. ASSUME NEW u \in those
      PROVE  r \in R /\ u[2] \in V[r]
  <2>1. PICK q \in R : u \in {q} \X V[q]
    BY DEF Pairs
  <2>2. u[1] = q /\ u[2] \in V[q] /\ u[1] = r
    BY <2>1
  <2> QED BY <2>2
<1>2. ASSUME NEW t, r \in R, t \in V[r]
      PROVE  <<r, t>> \in those
  <2>1. <<r, t>> \in {r} \X V[r]
    BY <1>2
  <2>2. <<r, t>> \in Pairs(R, V)
    BY <1>2, <2>1 DEF Pairs
  <2> QED BY <2>2
<1> HIDE DEF those
<1>3. \A t : t \in {v[2] : v \in those} => r \in R /\ t \in V[r]
  BY <1>1
<1>4. \A t : r \in R /\ t \in V[r] => t \in {v[2] : v \in those}
  <2>1. ASSUME NEW t, r \in R, t \in V[r]
        PROVE  t \in {v[2] : v \in those}
    <3>1. <<r, t>> \in those /\ <<r, t>>[2] = t
      BY <1>2, <2>1
    <3> QED BY <3>1
  <2> QED BY <2>1
<1>5. {v[2] : v \in those} = IF r \in R THEN V[r] ELSE {}
  BY <1>3, <1>4
<1> QED BY <1>5 DEF those, TimesShown

(* When an ingest that is alone has folded its results, nobody has left    *)
(* anything to bring or to mend: the states are exact.                     *)
LEMMA ReportNext ==
  ASSUME ShapeInv, AloneInv, CleanInv, SelectedInv, ShapeInv', CleanInv',
         ReportExact, [Next]_vars
  PROVE  ReportExact'
<1> SUFFICES ASSUME NEW c \in Callers, intact', mode' = "alone",
                    caller'[c].pc = "reporting"
             PROVE  ShownExactly(c)'
  BY DEF ReportExact, ShownExactly, Shown
<1>1. mode = "alone" /\ limit' = limit /\ ~syncing'
  BY AloneSteps
<1>2. CASE UNCHANGED vars
  <2>1. UNCHANGED <<live, watermark, ahead, size, limit, caller, intact>>
    BY <1>2 DEF vars, windowVars, configVars, history
  <2>2. ShownExactly(c)
    BY <1>1, <2>1 DEF ReportExact, ShownExactly, Shown
  <2> QED BY <2>1, <2>2 DEF ShownExactly, Shown, Due, Must, May
<1>3. ASSUME NEW d \in Callers, CallerStep(d),
             \A e \in Callers \ {d} : caller[e].pc = "idle" /\ caller'[e] = caller[e]
      PROVE  ShownExactly(c)'
  <2>1. c = d
    BY <1>3
  <2>2. Apply(c)
    <3>1. ~Update(c)
      <4>1. SUFFICES ASSUME Update(c)
                     PROVE  FALSE
        OBVIOUS
      <4>2. /\ caller' = [caller EXCEPT ![c] = [Idle EXCEPT !.pc = "updated",
                                                            !.report = caller'[c].report]]
            /\ caller = [x \in Callers |-> caller[x]]
        BY <4>1, UpdateEffect DEF ShapeInv, CallersOK
      <4>3. caller'[c] = [Idle EXCEPT !.pc = "updated", !.report = caller'[c].report]
        BY <4>2, Zenon
      <4> QED BY <4>3 DEF Idle
    <3>2. ~ReadRules(c) /\ ~CheckGroup(c)
      BY ReadRulesEffect, CheckGroupEffect
    <3>3. ~SelectRules(c)
      BY SelectRulesEffect DEF Idle
    <3>4. ~(Fail(c) \/ Return(c))
      <4>1. SUFFICES ASSUME Fail(c) \/ Return(c)
                     PROVE  FALSE
        OBVIOUS
      <4>2. caller'[c] = Idle
        BY <4>1, EndEffect
      <4> QED BY <4>2 DEF Idle
    <3> QED BY <1>3, <2>1, <3>1, <3>2, <3>3, <3>4 DEF CallerStep
  <2>3. /\ caller[c].pc = "checking" /\ UNCHANGED <<windowVars, intact>>
        /\ caller'[c].reported = UNION {{r} \X states'[r].violations : r \in Unsatisfied(c)}
    BY <2>2, ApplyEffect DEF history
  <2>4. \A e \in Callers : ~caller'[e].failed /\ caller'[e].pc \in {"idle", "reporting"}
    BY <1>3, <2>1 DEF ShapeInv, CallersOK, CallerOK, ChecksOK
  <2>5. Clean' /\ Clean
    <3>1. Clean'
      BY <1>1, <2>4 DEF Clean
    <3> QED BY <3>1, CleanBefore
  <2>6. \A r \in Rules : /\ Due(r)' \subseteq StateOf(r)'.violations
                         /\ StateOf(r)'.violations \subseteq May(r)'
    BY <2>4, <2>5
       DEF CleanInv, StatesInv, StateKnows, StateTrue, Brought, Mended, Owns, Unapplied
  <2>7. \A r \in Rules : Due(r)' # {} => r \in caller[c].selected
    <3>1. \A r \in Rules : Due(r)' = Due(r)
      BY <1>1, <2>3 DEF Due, Must, May, windowVars
    <3> QED BY <1>1, <2>3, <2>5, <3>1 DEF SelectedInv
  <2>8. ASSUME NEW r \in Rules
        PROVE  Shown(c, r)' = IF r \in Unsatisfied(c) THEN states'[r].violations ELSE {}
    <3>1. PICK R, reported, V : /\ R = Unsatisfied(c) /\ reported = caller'[c].reported
                                /\ V = [q \in Unsatisfied(c) |-> states'[q].violations]
      OBVIOUS
    <3>2. \A q \in R : V[q] = states'[q].violations
      BY <3>1
    <3>3. reported = Pairs(R, V)
      <4>1. {{q} \X V[q] : q \in R} = {{q} \X states'[q].violations : q \in R}
        BY <3>2
      <4> QED BY <2>3, <3>1, <4>1, Zenon DEF Pairs
    <3>4. Shown(c, r)' = TimesShown(reported, r)
      BY <3>1, Zenon DEF Shown, TimesShown
    <3> QED BY <3>1, <3>2, <3>3, <3>4, ShownOfPairs
  <2>9. \A r \in Rules : r \in ClauseOf(r) /\ ClauseOf(r) \subseteq Rules
    BY DEF ClauseOf
  <2>10. \A q \in Rules : q \in DOMAIN states' => StateOf(q)' = states'[q]
    BY DEF StateOf
  <2>11. \A q \in Rules : Due(q)' # {} =>
           /\ q \in DOMAIN states' /\ states'[q].initialized
           /\ states'[q].violations # {}
    <3>1. ASSUME NEW q \in Rules, Due(q)' # {}
          PROVE  /\ q \in DOMAIN states' /\ states'[q].initialized
                 /\ states'[q].violations # {}
      <4>1. q \in DOMAIN states'
        BY <2>6, <3>1 DEF StateOf, NoState
      <4>2. states'[q].initialized = TRUE
        BY <4>1 DEF ShapeInv, StatesOK
      <4> QED BY <2>6, <2>10, <3>1, <4>1, <4>2
    <3> QED BY <3>1
  <2>12. ASSUME NEW r \in Rules
         PROVE  /\ Shown(c, r)' \subseteq May(r)'
                /\ Shown(c, r)' # {} => \A q \in ClauseOf(r) : May(q)' # {}
                /\ (\A q \in ClauseOf(r) : Due(q)' # {}) => Due(r)' \subseteq Shown(c, r)'
    <3>1. CASE r \in Unsatisfied(c)
      <4>1. /\ Shown(c, r)' = states'[r].violations
            /\ \A q \in ClauseOf(r) : q \in DOMAIN states' /\ states'[q].violations # {}
        BY <2>8, <3>1 DEF Unsatisfied
      <4>2. \A q \in ClauseOf(r) : states'[q].violations \subseteq May(q)'
        BY <2>6, <2>9, <2>10, <4>1
      <4>3. \A q \in ClauseOf(r) : May(q)' # {}
        BY <4>1, <4>2
      <4>4. Due(r)' \subseteq states'[r].violations
        BY <2>6, <2>9, <2>10, <4>1
      <4> QED BY <2>9, <4>1, <4>2, <4>3, <4>4
    <3>2. CASE r \notin Unsatisfied(c)
      <4>1. Shown(c, r)' = {}
        BY <2>8, <3>2
      <4>2. ~(\A q \in ClauseOf(r) : Due(q)' # {})
        <5>1. SUFFICES ASSUME \A q \in ClauseOf(r) : Due(q)' # {}
                       PROVE  r \in Unsatisfied(c)
          BY <3>2
        <5>2. r \in caller[c].selected
          BY <2>7, <2>9, <5>1
        <5> QED BY <2>9, <2>11, <5>1, <5>2 DEF Unsatisfied
      <4> QED BY <4>1, <4>2
    <3> QED BY <3>1, <3>2
  <2> QED BY <2>12 DEF ShownExactly
<1> QED BY <1>2, <1>3, AloneSteps
-----------------------------------------------------------------------------
ReportInv == ShapeInv /\ CleanInv /\ AloneInv /\ SelectedInv /\ ReportExact

LEMMA ReportInvariant == Spec => []ReportInv
<1>1. Init => ReportInv
  <2> SUFFICES ASSUME Init
               PROVE  ReportInv
    OBVIOUS
  <2>2. ReportExact
    BY DEF Init, Idle, ReportExact
  <2> QED BY <2>2, ShapeInit, CleanInit, AloneInit DEF ReportInv
<1>2. ReportInv /\ [Next]_vars => ReportInv'
  <2> SUFFICES ASSUME ReportInv, [Next]_vars
               PROVE  ReportInv'
    OBVIOUS
  <2>2. ShapeInv /\ CleanInv /\ AloneInv /\ SelectedInv /\ ReportExact
    BY DEF ReportInv
  <2>3. ShapeInv'
    BY <2>2, ShapeNext
  <2>4. CleanInv'
    BY <2>2, CleanNext
  <2>5. AloneInv'
    BY <2>2, AloneNext
  <2>6. SelectedInv'
    BY <2>2, SelectedNext
  <2>7. ReportExact'
    BY <2>2, <2>3, <2>4, ReportNext
  <2> QED BY <2>3, <2>4, <2>5, <2>6, <2>7 DEF ReportInv
<1> QED BY <1>1, <1>2, PTL DEF Spec

(* At rest nobody has work left, and no check has failed.                  *)
LEMMA RestIsClean ==
  ASSUME ReportInv, intact, AtRest
  PROVE  /\ \A c \in Callers : ~Unapplied(c)
         /\ StatesInv
<1>1. \A c \in Callers : caller[c].pc = "idle" /\ ~caller[c].failed
  BY DEF AtRest, ReportInv, ShapeInv, CallersOK, CallerOK, ChecksOK
<1>2. Clean
  BY <1>1 DEF Clean, AtRest
<1> QED BY <1>1, <1>2 DEF Unapplied, ReportInv, CleanInv

(* However the checks of a rule were cut into ranges, and in whatever      *)
(* order ingests that overlap folded their results (apply in               *)
(* updateConstraintStatesAndCollect), the state of a rule knows every      *)
(* violation in the window, but of points that came ahead of the watermark *)
(* (window_service.cpp:734-742).                                           *)
THEOREM StatesAddUp == Spec => []RangesAddUp
<1>1. ReportInv => RangesAddUp
  <2> SUFFICES ASSUME ReportInv, intact, AtRest, NEW r \in DOMAIN states
               PROVE  Due(r) \subseteq states[r].violations
    BY DEF RangesAddUp
  <2>2. r \in Rules
    BY DEF ReportInv, ShapeInv, StatesOK
  <2>3. StateKnows(r) /\ \A c \in Callers : ~Owns(c, r)
    BY <2>2, RestIsClean DEF StatesInv, Owns
  <2> QED BY <2>3 DEF StateKnows, Brought, StateOf
<1> QED BY <1>1, ReportInvariant, PTL

(* Nor does the state of a rule keep a violation whose point has left the  *)
(* window or has been corrected.                                           *)
THEOREM StatesForget == Spec => []NothingOutlives
<1>1. ReportInv => NothingOutlives
  <2> SUFFICES ASSUME ReportInv, intact, AtRest, NEW r \in DOMAIN states
               PROVE  states[r].violations \subseteq May(r)
    BY DEF NothingOutlives, StateSound
  <2>2. r \in Rules
    BY DEF ReportInv, ShapeInv, StatesOK
  <2>3. StateTrue(r) /\ \A c \in Callers : ~Unapplied(c)
    BY <2>2, RestIsClean DEF StatesInv
  <2> QED BY <2>3 DEF StateTrue, Mended, StateOf
<1> QED BY <1>1, ReportInvariant, PTL

(* A check without a range makes the state of its rule exact, whatever     *)
(* failed before it, up to the watermark, as long as one ingest runs at a  *)
(* time.                                                                   *)
THEOREM FullChecksRestore == Spec => []FullCheckRestores
<1>1. ReportInv => FullCheckRestores
  BY DEF ReportInv, AloneInv, AloneOf, FullCheckRestores
<1> QED BY <1>1, ReportInvariant, PTL

(* One ingest at a time reports what is violated, nothing else, and all of *)
(* it but what happened at the first instant of the window or came ahead   *)
(* of the watermark.                                                       *)
THEOREM ReportsAreExact == Spec => []ReportExact
<1>1. ReportInv => ReportExact
  BY DEF ReportInv
<1> QED BY <1>1, ReportInvariant, PTL
=============================================================================
