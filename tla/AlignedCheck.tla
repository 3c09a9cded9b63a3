----------------------------- MODULE AlignedCheck -----------------------------
(***************************************************************************)
(* One sample rule under a stream of ingests, one at a time: from the      *)
(* report of a window update to the query with its context, the alignment  *)
(* (for rules over several sequences) and the check of the anchors, and    *)
(* beside it the ranged alignment as callers of the library use it.        *)
(* ConstraintReport has what happens to the result, and ingests that       *)
(* overlap.                                                                *)
(***************************************************************************)
EXTENDS Alignment, Sequences

CONSTANTS
  SequenceIds,
  Rules,       (* [terms, bound]: the sum of the terms is at most bound; a
                  term is [sequence, offset], offsets begin with 0 and do
                  not decrease                                             *)
  Batches,     (* what an ingest brings: points of some sequences          *)
  Size,        (* of the window                                            *)
  Windows,     (* those that callers of the library assemble               *)
  Requests,    (* the ranges and prefixes that they ask for                *)
  NoTime, NoRange

(* An ingest has a point at least, a request is no inverted range.         *)
ASSUME CheckAssumption ==
  /\ NoTime \notin Int /\ Size \in Nat
  /\ \A r \in Rules :
       /\ r.terms \in Seq([sequence : SequenceIds, offset : Nat])
       /\ r.terms # <<>> /\ r.bound \in Int
       /\ \A i, j \in DOMAIN r.terms :
            i <= j => r.terms[i].offset <= r.terms[j].offset
  /\ \A b \in Batches :
       /\ DOMAIN b # {} /\ DOMAIN b \subseteq SequenceIds
       /\ IsFiniteSet(DOMAIN b)
       /\ \A s \in DOMAIN b : /\ DOMAIN b[s] # {} /\ Series(b[s])
                              /\ Range(b[s]) \subseteq Int \cup {NotNumeric}
  /\ \A w \in Windows :
       /\ w.start \in Int /\ w.end \in Int /\ w.start <= w.end
       /\ \A s \in DOMAIN w.points : Series(w.points[s])
  /\ \A r \in Requests :
       /\ r.start \in Int /\ r.end \in Int /\ r.start <= r.end
       /\ r.prefix \in Nat

VARIABLES
  rule,        (* the rule of this behaviour                               *)
  live,        (* points of every sequence in the window                   *)
  watermark,
  latest,      (* latest_time of every sequence                            *)
  phase,
  range,       (* incremental range of the check, or that of a request     *)
  data,        (* result of the window query                               *)
  aligned,     (* what the rule is checked on                              *)
  outcome

windowVars == <<live, watermark, latest>>
vars == <<rule, windowVars, phase, range, data, aligned, outcome>>

Nothing == <<>>
Init ==
  /\ rule \in Rules
  /\ live = [s \in SequenceIds |-> <<>>]
  /\ watermark = NoTime /\ latest = [s \in SequenceIds |-> NoTime]
  /\ phase = "idle" /\ range = NoRange
  /\ data = Nothing /\ aligned = Nothing /\ outcome = Nothing

SequencesOf(r) == {r.terms[i].sequence : i \in DOMAIN r.terms}
MaxOffset(r) == r.terms[Len(r.terms)].offset
Single(r) == Cardinality(SequencesOf(r)) = 1
-----------------------------------------------------------------------------
Over(f, g) ==
  [t \in DOMAIN f \cup DOMAIN g |-> IF t \in DOMAIN f THEN f[t] ELSE g[t]]
From(points, t) == Restrict(points, {u \in DOMAIN points : u >= t})

(* incrementalRangeFor of a rule whose changed sequences were all appended *)
(* to; an eviction extends the range to the start of the window.           *)
RangeOf(batch, changed, evicted, start) ==
  LET times == UNION {DOMAIN batch[s] : s \in changed}
      from == times \cup (IF changed \cap evicted # {} THEN {start} ELSE {})
  IN [start |-> Min(from), end |-> Max(times)]

(* The watermark after an update.  Every point of the first one overwrites *)
(* it, so that it ends at the last point of the request, which may be any  *)
(* of them; later updates only move it forward.                            *)
Marks(batch) ==
  LET times == UNION {DOMAIN batch[s] : s \in DOMAIN batch}
  IN IF watermark = NoTime THEN times ELSE {Max({watermark} \cup times)}

(* The window is updated, and the rule selected if that touches it.        *)
Ingest ==
  /\ phase = "idle"
  /\ \E batch \in Batches : \E mark \in Marks(batch) :
       LET incoming == DOMAIN batch
           start == mark - Size
           full == [s \in SequenceIds |-> IF s \in incoming
                                          THEN Over(batch[s], live[s]) ELSE live[s]]
           evicted == {s \in SequenceIds : \E t \in DOMAIN full[s] : t < start}
           safe == {s \in incoming : \/ latest[s] = NoTime
                                     \/ Min(DOMAIN batch[s]) > latest[s]}
           changed == (incoming \cup evicted) \cap SequencesOf(rule)
       IN /\ watermark' = mark
          /\ live' = [s \in SequenceIds |-> From(full[s], start)]
          /\ latest' = [s \in SequenceIds |->
                          IF s \in incoming
                          THEN Max(DOMAIN batch[s] \cup ({latest[s]} \ {NoTime}))
                          ELSE latest[s]]
          /\ phase' = IF changed = {} THEN "idle" ELSE "updated"
          /\ range' = IF changed # {} /\ changed \subseteq safe
                      THEN RangeOf(batch, changed, evicted, start) ELSE NoRange
  /\ UNCHANGED <<rule, data, aligned, outcome>>

(* queryWindowData with what makeGroup asks for: points of the range and   *)
(* as many before and after it as the offsets need and one more.           *)
Queried ==
  LET context == MaxOffset(rule) + 1
      bounds == IF range = NoRange
                THEN [start |-> watermark + 1 - Size, end |-> watermark + 1]
                ELSE [start |-> range.start, end |-> range.end + 1]
      Chosen(times) ==
        {t \in times : bounds.start <= t /\ t < bounds.end}
          \cup IF range = NoRange THEN {}
               ELSE LastBefore(times, bounds.start, context)
                      \cup FirstFrom(times, bounds.end, context)
      found == {s \in SequencesOf(rule) : Chosen(DOMAIN live[s]) # {}}
  IN [start |-> bounds.start, end |-> bounds.end,
      points |-> [s \in found |-> Restrict(live[s], Chosen(DOMAIN live[s]))]]

Query ==
  /\ phase = "updated"
  /\ data' = Queried
  /\ phase' = "queried"
  /\ UNCHANGED <<rule, windowVars, range, aligned, outcome>>
-----------------------------------------------------------------------------
(* runContinuousConstraintCheck.                                           *)
Complete == SequencesOf(rule) \subseteq DOMAIN data.points
Distinct == Cardinality(UNION {DOMAIN data.points[s] : s \in DOMAIN data.points}) > 1
Checkable == Complete /\ (Single(rule) \/ Distinct)

Skipped == [status |-> "skipped", violations |-> {}, pending |-> {}]
Failure == [status |-> "failed", violations |-> {}, pending |-> {}]

(* A sequence is not there yet, or there is no interval to align by.       *)
Skip ==
  /\ phase = "queried" /\ ~Checkable
  /\ outcome' = Skipped
  /\ phase' = "checked"
  /\ UNCHANGED <<rule, windowVars, range, data, aligned>>

Align ==
  /\ phase = "queried" /\ Checkable /\ ~Single(rule)
  /\ aligned' = IF range = NoRange THEN Aligned(data)
                ELSE Ranged(data, range, MaxOffset(rule))
  /\ phase' = "aligned"
  /\ UNCHANGED <<rule, windowVars, range, data, outcome>>

(* A rule of one sequence is checked on its points.                        *)
Only(r) == CHOOSE s \in SequencesOf(r) : TRUE
PointsOf(window, s) ==
  [t \in DOMAIN window.points[s] |-> [q \in {s} |-> window.points[s][t]]]

TakePoints ==
  /\ phase = "queried" /\ Checkable /\ Single(rule)
  /\ aligned' = Sampled(PointsOf(data, Only(rule)))
  /\ phase' = "aligned"
  /\ UNCHANGED <<rule, windowVars, range, data, outcome>>

(* Mutant of Anchored: anchors begin with the range.                       *)
AnchoredInRange(r, asked, times) == asked.start

(* The first anchor: for a rule of one sequence the range is extended by   *)
(* as many points as its terms reach ahead.                                *)
Anchored(r, asked, times) ==
  IF Single(r)
  THEN Min({asked.start} \cup LastBefore(times, asked.start, MaxOffset(r)))
  ELSE asked.start

(* The k-th sample from t on.                                              *)
Later(times, t, k) ==
  CHOOSE u \in times : u >= t /\ Cardinality({v \in times : t <= v /\ v < u}) = k
HasLater(times, t, k) == Cardinality({u \in times : u > t}) >= k

Value(content, t, term) == content[Later(DOMAIN content, t, term.offset)][term.sequence]
Sum(values) ==
  LET sum[i \in 0 .. Len(values)] == IF i = 0 THEN 0 ELSE sum[i - 1] + values[i]
  IN sum[Len(values)]
Total(r, content, t) == Sum([i \in DOMAIN r.terms |-> Value(content, t, r.terms[i])])
(* Terms that cannot be evaluated; the first one decides.                  *)
Unresolved(r, content, t) ==
  {i \in DOMAIN r.terms : Value(content, t, r.terms[i]) \in {Missing, NotNumeric}}

(* checkConstraints, with evaluateRuleAt for every anchor.                 *)
Checked(r, asked, content) ==
  LET times == DOMAIN content
      anchors == {t \in times :
                    /\ HasLater(times, t, MaxOffset(r))
                    /\ asked # NoRange =>
                         Anchored(r, asked, times) <= t /\ t <= asked.end}
      blocked == {t \in anchors : Unresolved(r, content, t) # {}}
      First(t) == Value(content, t, r.terms[Min(Unresolved(r, content, t))])
  IN IF \E t \in blocked : First(t) = NotNumeric THEN Failure
     ELSE [status |-> "ok",
           violations |-> {t \in anchors \ blocked : Total(r, content, t) > r.bound},
           pending |-> blocked]

Check ==
  /\ phase = "aligned"
  /\ outcome' = IF ~aligned.ok \/ DOMAIN aligned.samples = {} THEN Failure
                ELSE Checked(rule, range, aligned.samples)
  /\ phase' = "checked"
  /\ UNCHANGED <<rule, windowVars, range, data, aligned>>

Finish ==
  /\ phase \in {"checked", "answered"}
  /\ phase' = "idle" /\ range' = NoRange
  /\ data' = Nothing /\ aligned' = Nothing /\ outcome' = Nothing
  /\ UNCHANGED <<rule, windowVars>>
-----------------------------------------------------------------------------
(* A caller of the library aligns a range of a window of its own.  What    *)
(* the service holds has no part in it: one state of it is enough.         *)
Request ==
  /\ phase = "idle" /\ watermark = NoTime
  /\ data' \in Windows /\ range' \in Requests
  /\ phase' = "requested"
  /\ UNCHANGED <<rule, windowVars, aligned, outcome>>

Answer ==
  /\ phase = "requested"
  /\ aligned' = Ranged(data, range, range.prefix)
  /\ phase' = "answered"
  /\ UNCHANGED <<rule, windowVars, range, data, outcome>>

Next ==
  \/ Ingest \/ Query \/ Skip \/ Align \/ TakePoints \/ Check \/ Finish
  \/ Request \/ Answer

Spec == Init /\ [][Next]_vars
-----------------------------------------------------------------------------
Checking(statuses) == phase = "checked" /\ outcome.status \in statuses

(* The anchors at which a rule is violated, counting points of sequences   *)
(* that have the same times.                                               *)
Violating(times) ==
  LET content == [t \in times |-> [s \in SequencesOf(rule) |-> live[s][t]]]
  IN {t \in times : /\ HasLater(times, t, MaxOffset(rule))
                    /\ Unresolved(rule, content, t) = {}
                    /\ Total(rule, content, t) > rule.bound}

(* An incremental check of a rule of one sequence finds every violation    *)
(* that a point of its range has a part in, also at anchors before the     *)
(* range, and none that a check of all points would not find.              *)
OffsetsFound ==
  Checking({"ok"}) /\ Single(rule) /\ range # NoRange =>
    LET times == DOMAIN live[Only(rule)]
        touched == {t \in Violating(times) :
                      /\ t <= range.end
                      /\ Later(times, t, MaxOffset(rule)) >= range.start}
    IN touched \subseteq outcome.violations
         /\ outcome.violations \subseteq Violating(times)

(* In the queried range the sequences of the rule have the same times and  *)
(* numbers only.                                                           *)
TimesIn(s) == {t \in DOMAIN live[s] : data.start <= t /\ t < data.end}
Simultaneous ==
  \A s, q \in SequencesOf(rule) :
    /\ TimesIn(s) = TimesIn(q)
    /\ KindOf[s] = KindOf[q]
    /\ NotNumeric \notin Range(live[s])

(* Of a rule without offsets over sequences sampled together, a check      *)
(* finds every violation, as one of the bucket that its time lies in, and  *)
(* samples filled in between make no violation where there is none.        *)
SimultaneousExact ==
  Checking({"ok"}) /\ ~Single(rule) /\ MaxOffset(rule) = 0 /\ Simultaneous =>
    LET violating == Violating(UNION {TimesIn(s) : s \in SequencesOf(rule)})
    IN /\ \A t \in violating :
            \E a \in outcome.violations : a <= t /\ t - a < Interval(data.points)
       /\ outcome.violations # {} => violating # {}

(* The ranged alignment has the sample of every time of the range.         *)
RangedAffected ==
  phase = "answered" /\ aligned.ok =>
    \A t \in range.start .. range.end \cap data.start .. data.end - 1 :
      LET interval == Interval(data.points)
      IN Edge(data, interval, IndexOf(data, interval, t)) \in DOMAIN aligned.samples

(* Whether it looks at a few buckets only or falls back to the whole       *)
(* window, the ranged alignment gives the samples that the full one gives, *)
(* and for a range that begins at the edge of a bucket all of the range    *)
(* and of its prefix.                                                      *)
RangedExact ==
  LET full == Aligned(data)
      interval == Interval(data.points)
      first == IndexOf(data, interval, range.start)
  IN phase = "answered" /\ full.ok /\ DOMAIN full.samples # {} =>
       /\ aligned.ok
       /\ \A t \in DOMAIN aligned.samples :
            t \in DOMAIN full.samples /\ aligned.samples[t] = full.samples[t]
       /\ range.start = Edge(data, interval, first) =>
            /\ RangedAffected
            /\ \A b \in Max({0, first - range.prefix}) .. first :
                 Edge(data, interval, b) \in DOMAIN aligned.samples

(* The context that was queried fills what is missing in the range: of a   *)
(* rule whose sequences are all there, no sample is left pending.          *)
ContextUsed ==
  Checking({"ok"}) /\ (\A s \in SequencesOf(rule) : KindOf[s] = "continuous") =>
    outcome.pending = {}

(* A new sample of sequences sampled together is checked with the ones     *)
(* that an offset pairs it with.                                           *)
AlignedOffsetsFound ==
  Checking({"ok"}) /\ ~Single(rule) /\ range # NoRange =>
    LET times(s) == DOMAIN live[s]
        all == UNION {times(s) : s \in SequencesOf(rule)}
        touched == {t \in Violating(all) :
                      Later(all, t, MaxOffset(rule)) \in range.start .. range.end}
    IN (\A s \in SequencesOf(rule) : times(s) = all) /\ touched # {}
         => outcome.violations # {}

(* A check of numbers does not fail.                                       *)
NumbersChecked ==
  Checking({"failed"}) =>
    \E s \in SequencesOf(rule) : NotNumeric \in Range(live[s])
=============================================================================
