------------------------------ MODULE Alignment ------------------------------
(***************************************************************************)
(* AlignmentService: the values of several sequences at common times.      *)
(* A window is a record of start, end (exclusive) and points, a function   *)
(* from sequences to functions from times to values.  The result is a      *)
(* record: ok, and the samples, a function from sample times to the values *)
(* of the sequences.                                                       *)
(* Only what the interval inferred from the data allows: neither an        *)
(* explicit interval or strategy nor the lags of relations.                *)
(***************************************************************************)
EXTENDS Integers, FiniteSetsExt, Functions

CONSTANTS
  KindOf,      (* series_kind of every sequence: continuous, discrete or
                  unspecified                                              *)
  NotNumeric,  (* a value that is no finite number                         *)
  Missing,     (* no value                                                 *)
  Failed       (* no value, for lack of a number                           *)

ASSUME AlignmentAssumption ==
  /\ Missing \notin Int /\ NotNumeric \notin Int
  /\ Failed \notin Int \cup {Missing, NotNumeric}

(* AlignmentResult: InvalidArgument, or Ok with its samples.               *)
Refused == [ok |-> FALSE, samples |-> <<>>]
Sampled(samples) == [ok |-> TRUE, samples |-> samples]

(* The points of one sequence.                                             *)
Series(points) ==
  /\ DOMAIN points \subseteq Int /\ IsFiniteSet(DOMAIN points)
  /\ points = [t \in DOMAIN points |-> points[t]]

(* The k greatest times of S before t, and the k least from t on.          *)
LastBefore(S, t, k) ==
  LET before == {u \in S : u < t}
  IN {u \in before : Cardinality({v \in before : v >= u}) <= k}
FirstFrom(S, t, k) ==
  LET from == {u \in S : u >= t}
  IN {u \in from : Cardinality({v \in from : v <= u}) <= k}
-----------------------------------------------------------------------------
(* inferBucketInterval: the least distance of two points of one sequence.  *)
GapsOf(times) == {p[2] - p[1] : p \in {q \in times \X times : q[1] < q[2]}}
Gaps(points) == UNION {GapsOf(DOMAIN points[s]) : s \in DOMAIN points}
Interval(points) == Min(Gaps(points))

(* The last one may be cut off by the end of the window.                   *)
Buckets(data, interval) == (data.end - data.start + interval - 1) \div interval

(* BucketAccumulator with the default aggregation of the kind.             *)
Aggregated(kind, points) ==
  IF kind = "unspecified" THEN points[Min(DOMAIN points)]
  ELSE IF kind = "discrete" THEN points[Max(DOMAIN points)]
  ELSE IF NotNumeric \in Range(points) THEN Failed
  ELSE FoldFunction(+, 0, points) \div Cardinality(DOMAIN points)

(* The values of the buckets that have points of a sequence.               *)
Bucketed(data, interval, s) ==
  LET BucketOf(t) == (t - data.start) \div interval
      times == {t \in DOMAIN data.points[s] : data.start <= t /\ t < data.end}
  IN [b \in {BucketOf(t) : t \in times} |->
        Aggregated(KindOf[s], Restrict(data.points[s],
                                       {t \in times : BucketOf(t) = b}))]

Before(values, b) == {c \in DOMAIN values : c < b}
After(values, b) == {c \in DOMAIN values : c > b}

(* fillNearAt: the nearest value, the earlier one of two equally near.     *)
Nearest(values, b) ==
  LET before == Before(values, b)
      after == After(values, b)
  IN IF before = {}
     THEN IF after = {} THEN Missing ELSE values[Min(after)]
     ELSE IF after = {} \/ b - Max(before) <= Min(after) - b
          THEN values[Max(before)] ELSE values[Min(after)]

(* fillLinear between two values.                                          *)
Between(values, b) ==
  LET left == Max(Before(values, b))
      right == Min(After(values, b))
  IN IF NotNumeric \in {values[left], values[right]} THEN Failed
     ELSE values[left]
            + ((values[right] - values[left]) * (b - left)) \div (right - left)

(* fillValues with the default method of the kind.                         *)
Filled(kind, values, b) ==
  LET before == Before(values, b)
  IN IF b \in DOMAIN values THEN values[b]
     ELSE IF kind = "discrete"
     THEN IF before = {} THEN Missing ELSE values[Max(before)]
     ELSE IF kind = "continuous" /\ before # {} /\ After(values, b) # {}
     THEN Between(values, b)
     ELSE Nearest(values, b)

(* alignWindowData with the interval that the ranged overload passes on.   *)
AlignedBy(data, interval) ==
  LET ids == DOMAIN data.points
      buckets == 0 .. Buckets(data, interval) - 1
      values == [s \in ids |-> Bucketed(data, interval, s)]
      samples == [t \in {data.start + b * interval : b \in buckets} |->
                    [s \in ids |-> Filled(KindOf[s], values[s],
                                          (t - data.start) \div interval)]]
  IN IF \/ ids = {} \/ \E s \in ids : Failed \in Range(values[s])
        \/ \E t \in DOMAIN samples : Failed \in Range(samples[t])
     THEN Refused ELSE Sampled(samples)

(* alignWindowData without configuration.                                  *)
Aligned(data) ==
  IF Gaps(data.points) = {} THEN Refused
  ELSE AlignedBy(data, Interval(data.points))
-----------------------------------------------------------------------------
(* cropFullResult.                                                         *)
Cropped(full, range, prefix) ==
  LET times == DOMAIN full.samples
  IN IF ~full.ok THEN full
     ELSE Sampled(Restrict(full.samples,
            LastBefore(times, range.start, prefix)
              \cup {t \in times : range.start <= t /\ t <= range.end}))

(* bucketIndexForTime.                                                     *)
IndexOf(data, interval, t) ==
  IF t <= data.start THEN 0
  ELSE IF t < data.end THEN (t - data.start) \div interval
  ELSE Buckets(data, interval) - 1

Edge(data, interval, b) == data.start + b * interval

(* Mutant of Target: only the bucket in which the range begins.            *)
TargetFirst(data, range, prefix) ==
  LET first == IndexOf(data, Interval(data.points), range.start)
  IN [first |-> Max({first - prefix, 0}), last |-> first]

(* The buckets of a range, with those of the prefix before it.             *)
Target(data, range, prefix) ==
  LET interval == Interval(data.points)
      first == IndexOf(data, interval, range.start)
      last == IndexOf(data, interval, range.end)
  IN [first |-> Max({first - prefix, 0}), last |-> Max({first, last})]

(* The window of the target buckets and one more on each side.             *)
Local(data, target) ==
  LET interval == Interval(data.points)
      first == Max({target.first - 1, 0})
      last == target.last + 1
      start == Edge(data, interval, first)
      end == IF last + 1 < Buckets(data, interval)
             THEN Edge(data, interval, last + 1) ELSE data.end
  IN [start |-> start, end |-> end,
      points |-> [s \in DOMAIN data.points |->
                    Restrict(data.points[s], {t \in DOMAIN data.points[s] :
                                                start <= t /\ t < end})]]

(* Mutant of LacksContext: only what comes before the range is looked at.  *)
LacksLeftContext(data, target, times) ==
  LET interval == Interval(data.points)
  IN /\ target.first # 0
     /\ \A t \in times : t >= Edge(data, interval, target.first + 1)

(* A boundary bucket of the target is empty, and so is the one beside it:  *)
(* its value depends on points outside of the local window, which has the  *)
(* given times of a sequence.                                              *)
LacksContext(data, target, times) ==
  LET interval == Interval(data.points)
  IN \/ /\ target.first # 0
        /\ \A t \in times : t >= Edge(data, interval, target.first + 1)
     \/ /\ target.last + 1 < Buckets(data, interval)
        /\ \A t \in times : t < Edge(data, interval, target.last)

(* alignWindowData for a range.                                            *)
Ranged(data, range, prefix) ==
  LET interval == Interval(data.points)
      target == Target(data, range, prefix)
      local == Local(data, target)
      aligned == AlignedBy(local, interval)
      edges == {Edge(data, interval, b) : b \in target.first .. target.last}
  IN IF Gaps(data.points) = {} \/ data.start = data.end THEN Refused
     ELSE IF \E s \in DOMAIN data.points :
               LacksContext(data, target, DOMAIN local.points[s])
     THEN Cropped(Aligned(data), range, prefix)
     ELSE IF aligned.ok THEN Sampled(Restrict(aligned.samples, edges))
     ELSE aligned
=============================================================================
