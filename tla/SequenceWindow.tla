--------------------------- MODULE SequenceWindow ---------------------------
(***************************************************************************)
(* The hot window of one sequence, WindowService::SequenceWindow: an       *)
(* append-oriented vector with a lazy left edge, a side map of late points *)
(* and statistics kept up to date by appends and evictions.  Every         *)
(* operator is what the code does while it holds the sequence's lock.      *)
(* A value is an integer, or NonNumeric for a value without statistics.    *)
(***************************************************************************)
EXTENDS Integers, SequencesExt, Functions

CONSTANTS
  NonNumeric,
  NoTime,             (* std::nullopt                                      *)
  FlushThreshold,     (* kLatePointFlushThreshold                          *)
  CompactThreshold    (* 4096 in pruneExpiredPoints                        *)

ASSUME SequenceWindowAssumption ==
  /\ NonNumeric \notin Int /\ NoTime \notin Int
  /\ FlushThreshold \in Nat \ {0} /\ CompactThreshold \in Nat \ {0}

Least(S) == CHOOSE x \in S : \A y \in S : x <= y
Greatest(S) == CHOOSE x \in S : \A y \in S : x >= y
TimesOf(q) == {q[i].time : i \in DOMAIN q}

(* The points of q as a map; the last of several points of a time wins.    *)
LastWins(q) ==
  [t \in TimesOf(q) |->
     q[Greatest({i \in DOMAIN q : q[i].time = t})].value]

(* What the map f has wins over g.                                         *)
Over(f, g) ==
  [t \in (DOMAIN f) \cup (DOMAIN g) |-> IF t \in DOMAIN f THEN f[t] ELSE g[t]]

(* A finite set of integers in ascending order: the element at i has i - 1 *)
(* smaller ones.                                                           *)
Ascending(S) ==
  [i \in 1 .. Cardinality(S) |->
     CHOOSE x \in S : Cardinality({y \in S : y < x}) = i - 1]

(* A map as a vector of points in ascending time order.                    *)
InTimeOrder(f) ==
  LET times == Ascending(DOMAIN f)
  IN [i \in DOMAIN times |-> [time |-> times[i], value |-> f[times[i]]]]

(* std::lower_bound and std::upper_bound on a sorted vector: how many      *)
(* points are before t, and before t or at it.                             *)
LowerBound(q, t) == Greatest({0} \cup {i \in DOMAIN q : q[i].time < t})
UpperBound(q, t) == Greatest({0} \cup {i \in DOMAIN q : q[i].time <= t})
-----------------------------------------------------------------------------
(***************************************************************************)
(* Statistics: the deques are monotonic, their fronts are the extremes.    *)
(* An invalid cache is never read before it is reset, so one value stands  *)
(* for every invalid one.                                                  *)
(***************************************************************************)
ResetStatistics ==
  [valid |-> TRUE, count |-> 0, nonNumeric |-> 0, sum |-> 0,
   minimum |-> <<>>, maximum |-> <<>>]
InvalidStatistics == [ResetStatistics EXCEPT !.valid = FALSE]

(* A back element is popped while Dominated holds of it.                   *)
PopBack(q, Dominated(_)) ==
  SubSeq(q, 1, Greatest({0} \cup {i \in DOMAIN q : ~Dominated(q[i])}))
(* Mutant of PopFront: an extreme outlives its point.                      *)
PopNothing(q, time) == q
PopFront(q, time) == IF q # <<>> /\ Head(q).time = time THEN Tail(q) ELSE q
Decrement(n) == IF n # 0 THEN n - 1 ELSE n

AppendStatistic(statistics, p) ==
  IF ~statistics.valid THEN statistics
  ELSE IF p.value = NonNumeric
  THEN [statistics EXCEPT !.nonNumeric = @ + 1]
  ELSE [statistics EXCEPT
          !.count = @ + 1,
          !.sum = @ + p.value,
          !.minimum = Append(PopBack(@, LAMBDA q : q.value >= p.value), p),
          !.maximum = Append(PopBack(@, LAMBDA q : q.value <= p.value), p)]

RemoveStatistic(statistics, p) ==
  IF ~statistics.valid THEN statistics
  ELSE IF p.value = NonNumeric
  THEN [statistics EXCEPT !.nonNumeric = Decrement(@)]
  ELSE [statistics EXCEPT
          !.count = Decrement(@),
          !.sum = @ - p.value,
          !.minimum = PopFront(@, p.time),
          !.maximum = PopFront(@, p.time)]

(* The loops that append and that remove the points of data.               *)
AppendStatistics(statistics, data) ==
  LET after[i \in 0 .. Len(data)] ==
        IF i = 0 THEN statistics ELSE AppendStatistic(after[i - 1], data[i])
  IN after[Len(data)]

RemoveStatistics(statistics, data) ==
  LET after[i \in 0 .. Len(data)] ==
        IF i = 0 THEN statistics ELSE RemoveStatistic(after[i - 1], data[i])
  IN after[Len(data)]
-----------------------------------------------------------------------------
EmptyWindow ==
  [points |-> <<>>, activeBegin |-> 0, late |-> <<>>, latest |-> NoTime,
   statistics |-> ResetStatistics]

ActivePoints(w) == SubSeq(w.points, w.activeBegin + 1, Len(w.points))

(* SequenceWindow::empty.                                                  *)
IsEmptyWindow(w) == w.activeBegin >= Len(w.points) /\ DOMAIN w.late = {}

(* What queryWindowData merges: a late correction wins over the vector.    *)
Live(w) == Over(w.late, LastWins(ActivePoints(w)))

(* Mutant of Compact: active_begin is not reset.                           *)
CompactKeepsBegin(w) == [w EXCEPT !.points = ActivePoints(w)]

(* compactSequence.                                                        *)
Compact(w) == [w EXCEPT !.points = ActivePoints(w), !.activeBegin = 0]

(* mergeSortedPoints.                                                      *)
MergePoints(w, incoming) ==
  LET c == Compact([w EXCEPT !.statistics = InvalidStatistics])
      merged == InTimeOrder(Over(incoming, LastWins(c.points)))
  IN IF DOMAIN incoming = {} THEN c
     ELSE [c EXCEPT !.points = merged, !.latest = Last(merged).time]

(* flushLatePoints.                                                        *)
FlushLate(w) ==
  IF DOMAIN w.late = {} THEN w
  ELSE MergePoints([w EXCEPT !.late = <<>>], w.late)

(* rebuildStatistics.                                                      *)
RebuildStatistics(w) ==
  LET f == FlushLate(w)
  IN [f EXCEPT !.statistics =
        AppendStatistics(ResetStatistics, ActivePoints(f))]

(* replaceSequence.                                                        *)
ReplaceWindow(data) ==
  LET points == InTimeOrder(LastWins(data))
  IN [points |-> points, activeBegin |-> 0, late |-> <<>>,
      latest |-> IF points = <<>> THEN NoTime ELSE Last(points).time,
      statistics |-> AppendStatistics(ResetStatistics, points)]

(* patchDerivedSequence, between its checks and its return.                *)
PatchWindow(w, start, end, data) ==
  LET c == Compact(FlushLate(w))
      before == SubSeq(c.points, 1, LowerBound(c.points, start))
      behind == SubSeq(c.points, UpperBound(c.points, end) + 1, Len(c.points))
  IN MergePoints([c EXCEPT !.points = before \o behind], LastWins(data))
-----------------------------------------------------------------------------
(***************************************************************************)
(* update_sequence: data are the points one update carries for the         *)
(* sequence, sorted and without duplicates unless they already were.       *)
(***************************************************************************)
StrictlyIncreasing(data) ==
  \A i \in 1 .. (Len(data) - 1) : data[i].time < data[i + 1].time

(* Mutant of AppendOnly: a point of the latest time counts as an append.   *)
AppendOrSame(w, data) ==
  /\ StrictlyIncreasing(data)
  /\ w.latest = NoTime \/ Head(data).time >= w.latest

AppendOnly(w, data) ==
  /\ StrictlyIncreasing(data)
  /\ w.latest = NoTime \/ Head(data).time > w.latest

AppendPoints(w, data) ==
  [w EXCEPT !.points = @ \o data,
            !.latest = Last(data).time,
            !.statistics = AppendStatistics(@, data)]

KeepLate(w, data) ==
  LET incoming == LastWins(data)
      newest == Greatest(DOMAIN incoming)
      kept == [w EXCEPT
                 !.statistics = InvalidStatistics,
                 !.late = Over(incoming, @),
                 !.latest = IF @ = NoTime \/ newest > @ THEN newest ELSE @]
  IN IF Cardinality(DOMAIN kept.late) >= FlushThreshold
     THEN FlushLate(kept) ELSE kept

InsertPoints(w, data) ==
  CASE AppendOnly(w, data) -> AppendPoints(w, data)
    [] ~AppendOnly(w, data) /\ IsEmptyWindow(w) ->
         MergePoints(w, LastWins(data))
    [] OTHER -> KeepLate(w, data)

(* pruneOne: what is older than start leaves the window.                   *)
PruneWindow(w, start) ==
  LET active == ActivePoints(w)
      expired == SubSeq(active, 1, LowerBound(active, start))
      fresh == {t \in DOMAIN w.late : t >= start}
      left == RemoveStatistics(w.statistics, expired)
      pruned == [w EXCEPT
                   !.activeBegin = @ + Len(expired),
                   !.late = Restrict(@, fresh),
                   !.statistics = IF fresh = DOMAIN w.late THEN left
                                  ELSE InvalidStatistics]
  IN IF /\ pruned.activeBegin >= CompactThreshold
        /\ pruned.activeBegin * 2 >= Len(pruned.points)
     THEN Compact(pruned) ELSE pruned

(* Mutant of Evicts: an expired late point is not reported.                *)
EvictsActive(w, start) ==
  \E i \in DOMAIN ActivePoints(w) : ActivePoints(w)[i].time < start

(* pruneOne reports an eviction.                                           *)
Evicts(w, start) ==
  \/ \E i \in DOMAIN ActivePoints(w) : ActivePoints(w)[i].time < start
  \/ \E t \in DOMAIN w.late : t < start
-----------------------------------------------------------------------------
(***************************************************************************)
(* Properties of one window, stated over all windows by WindowService.     *)
(***************************************************************************)
(* The vector stays strictly sorted by time whatever appends, late merges, *)
(* evictions, patches and compactions it went through (lower_bound relies  *)
(* on it), and latest_time bounds every kept point (append_only relies on  *)
(* it, so an append can never land before a late point).                   *)
WindowOrdered(w) ==
  /\ w.activeBegin \in 0 .. Len(w.points)
  /\ StrictlyIncreasing(w.points)
  /\ \A t \in DOMAIN Live(w) : w.latest # NoTime /\ t <= w.latest

(* The sum of the numbers of q, in its order.                              *)
Number(value) == IF value = NonNumeric THEN 0 ELSE value
Total(q) ==
  LET sum[i \in 0 .. Len(q)] ==
        IF i = 0 THEN 0 ELSE sum[i - 1] + Number(q[i].value)
  IN sum[Len(q)]

(* A cache that says it is valid holds what a scan of the live points      *)
(* would find: the counts, the sum, and the extremes at the deque fronts.  *)
StatisticsTrue(w) ==
  LET live == Live(w)
      numeric == {t \in DOMAIN live : live[t] # NonNumeric}
      values == {live[t] : t \in numeric}
      s == w.statistics
  IN s.valid =>
       /\ DOMAIN w.late = {}
       /\ s.count = Cardinality(numeric)
       /\ s.nonNumeric = Cardinality(DOMAIN live \ numeric)
       /\ s.sum = Total(InTimeOrder(live))
       /\ IF numeric = {} THEN s.minimum = <<>> /\ s.maximum = <<>>
          ELSE /\ Head(s.minimum).value = Least(values)
               /\ Head(s.maximum).value = Greatest(values)
=============================================================================
