---------------------------- MODULE DerivedRefresh ----------------------------
(***************************************************************************)
(* DerivedSeriesService on top of the hot windows.  Every caller (a hot    *)
(* worker after its window update, or a configuration RPC) runs            *)
(* refreshInternal: it reads the configurations and a bounded range of the *)
(* sources, reads the whole window for the series it cannot refresh by a   *)
(* range, and publishes one series after the other under publish_mutex_.   *)
(* A formula is symbolic: its value at a time is, for every source, the    *)
(* points it takes the source's value from.  Sources are continuous and    *)
(* numeric, so an evaluation has a value or is missing.                    *)
(* An update of the window is one step here; the steps of its own are      *)
(* those of module WindowService.  The points of a request come in any     *)
(* order.                                                                  *)
(***************************************************************************)
EXTENDS Integers, FiniteSets, Functions

CONSTANTS
  Callers,
  Projects,
  ProjectOf,    (* the project of every source and derived sequence        *)
  Formula,      (* the sources of every derived sequence (sourcesFor)      *)
  Batches,      (* what an update may carry: for some sources of a project *)
                (* a map from times to values                              *)
  Size,         (* the window size                                         *)
  MaxUpdates,   (* bound: updates per project                              *)
  MaxOverlapped,(* bound: the same, once two refreshes have overlapped     *)
  MaxSyncs,     (* bound: configuration synchronizations                   *)
  NoTime, NoCaller

Derived == DOMAIN Formula
Sources == DOMAIN ProjectOf \ Derived

ASSUME DerivedRefreshAssumption ==
  /\ IsFiniteSet(DOMAIN ProjectOf) /\ Derived \subseteq DOMAIN ProjectOf
  /\ \A x \in DOMAIN ProjectOf : ProjectOf[x] \in Projects
  /\ \A d \in Derived :
       /\ Formula[d] # {}
       /\ \A s \in Formula[d] : s \in Sources /\ ProjectOf[s] = ProjectOf[d]
  /\ Size \in Nat \ {0} /\ MaxUpdates \in Nat
  /\ MaxOverlapped \in Nat /\ MaxSyncs \in Nat
  /\ NoTime \notin Int /\ NoCaller \notin Callers

(* An update has points, at finitely many times, for every source it names.*)
ASSUME BatchAssumption ==
  \A batch \in Batches :
    /\ DOMAIN batch # {} /\ DOMAIN batch \subseteq Sources
    /\ \A s \in DOMAIN batch :
         /\ IsFiniteSet(DOMAIN batch[s]) /\ DOMAIN batch[s] # {}
         /\ DOMAIN batch[s] \subseteq Int

VARIABLES
  live,          (* the kept points of every source: time -> value         *)
  latest,        (* latest_time of every source                            *)
  watermark,     (* per project                                            *)
  generation,    (* update_generations_, per project                       *)
  ahead,         (* history: the times at which a source received a point  *)
                 (* ahead of the watermark, in a first update that did not *)
                 (* end with its newest point                              *)
  derived,       (* the kept points of every derived sequence              *)
  enabled,       (* the enabled configurations                             *)
  syncs,         (* configuration synchronizations so far                  *)
  lastPublished, (* last_published_generation_, one for all projects       *)
  fullHolder,    (* who holds full_refresh_mutex_                          *)
  caller,        (* what every caller is doing                             *)
  published,     (* history: per derived sequence, the newest update whose *)
                 (* refresh has published it                               *)
  patched,       (* history: the newest one that has patched it            *)
  overlapped     (* history: a caller has begun while another was refreshing *)

windowVars == <<live, latest, watermark, generation, ahead>>
history == <<published, patched, overlapped>>
vars == <<windowVars, derived, enabled, syncs, lastPublished, fullHolder,
          caller, history>>
-----------------------------------------------------------------------------
Least(S) == CHOOSE x \in S : \A y \in S : x <= y
Greatest(S) == CHOOSE x \in S : \A y \in S : x >= y
From(f, t) == Restrict(f, {u \in DOMAIN f : u >= t})
Within(f, lo, hi) == Restrict(f, {u \in DOMAIN f : lo <= u /\ u <= hi})
InProject(p) == {x \in DOMAIN ProjectOf : ProjectOf[x] = p}
EmptyMap == <<>>

(* The points of f, and those of g at times at which f has none.           *)
Over(f, g) == [x \in DOMAIN f \cup DOMAIN g |-> IF x \in DOMAIN f THEN f[x] ELSE g[x]]

(* The first point that stays in the window of project p.                  *)
WindowStart(p) == watermark[p] - Size

(* valueAt: a point of this time, or its two neighbours.                   *)
HasValue(points, t) ==
  \/ t \in DOMAIN points
  \/ \E l, r \in DOMAIN points : l < t /\ t < r

ValueAt(points, t) ==
  LET l == Greatest({u \in DOMAIN points : u <= t})
      r == Least({u \in DOMAIN points : u >= t})
  IN [left |-> <<l, points[l]>>, right |-> <<r, points[r]>>]

(* evaluateFormula at every time of T; missing times have no point.        *)
Evaluate(sources, data, T) ==
  LET defined == {t \in T : \A s \in sources : HasValue(data[s], t)}
  IN [t \in defined |-> [s \in sources |-> ValueAt(data[s], t)]]

TimesOf(sources, data) == UNION {DOMAIN data[s] : s \in sources}

(* queryWindowData of [lo, hi] with one point of context on each side.     *)
Context(f, lo, hi) ==
  LET before == {u \in DOMAIN f : u < lo}
      after == {u \in DOMAIN f : u > hi}
  IN Within(f, IF before = {} THEN lo ELSE Greatest(before),
               IF after = {} THEN hi ELSE Least(after))
-----------------------------------------------------------------------------
NoReport == [generation |-> 0]     (* update == nullptr                    *)
Idle == [pc |-> "idle", project |-> NoCaller, report |-> NoReport,
         full |-> {}, items |-> EmptyMap]

Init ==
  /\ live = [s \in Sources |-> EmptyMap]
  /\ latest = [s \in Sources |-> NoTime]
  /\ watermark = [p \in Projects |-> NoTime]
  /\ generation = [p \in Projects |-> 0]
  /\ ahead = [s \in Sources |-> {}]
  /\ derived = [d \in Derived |-> EmptyMap]
  /\ enabled = Derived
  /\ syncs = 0
  /\ lastPublished = 0
  /\ fullHolder = NoCaller
  /\ caller = [c \in Callers |-> Idle]
  /\ published = [d \in Derived |-> 0]
  /\ patched = [d \in Derived |-> 0]
  /\ overlapped = FALSE

(* The two bounds on updates, for a caller that is about to begin.         *)
Overlaps(c) == overlapped \/ \E b \in Callers \ {c} : caller[b].pc # "idle"
UpdateBound(c) == IF Overlaps(c) THEN MaxOverlapped ELSE MaxUpdates

(* The watermark after an update.  Every point of a project's first one    *)
(* overwrites it, so that it ends at the last point of the request, which  *)
(* may be any of them; later ones only move it forward.                    *)
Marks(p, batch) ==
  LET times == TimesOf(DOMAIN batch, batch)
  IN IF watermark[p] = NoTime THEN times
     ELSE {Greatest({watermark[p]} \cup times)}

(* updateWindowIncremental and the WindowUpdateResult it returns: the      *)
(* batch goes in, what is older than the window goes out.                  *)
Update(c) ==
  /\ caller[c].pc = "idle"
  /\ \E p \in Projects, batch \in Batches : \E mark \in Marks(p, batch) :
       LET incoming == DOMAIN batch
           start == mark - Size
           full == [s \in Sources |-> IF s \in incoming
                                      THEN Over(batch[s], live[s]) ELSE live[s]]
           mine == InProject(p)
           evicted == {s \in mine \cap Sources :
                         \E t \in DOMAIN full[s] : t < start}
           safe == {s \in incoming :
                      latest[s] = NoTime \/ Least(DOMAIN batch[s]) > latest[s]}
       IN /\ incoming \subseteq mine
          /\ generation[p] < UpdateBound(c)
          /\ generation' = [generation EXCEPT ![p] = @ + 1]
          /\ watermark' = [watermark EXCEPT ![p] = mark]
          /\ ahead' = [s \in Sources |->
                         IF s \notin incoming THEN ahead[s]
                         ELSE ahead[s] \cup {t \in DOMAIN batch[s] : t > mark}]
          /\ live' = [s \in Sources |-> IF s \in mine THEN From(full[s], start)
                                        ELSE live[s]]
          /\ derived' = [d \in Derived |-> IF d \in mine
                                           THEN From(derived[d], start)
                                           ELSE derived[d]]
          /\ latest' = [s \in Sources |->
                          IF s \notin incoming THEN latest[s]
                          ELSE Greatest(DOMAIN batch[s] \cup
                                        ({latest[s]} \ {NoTime}))]
          /\ caller' = [caller EXCEPT
                          ![c] = [Idle EXCEPT
                            !.pc = "reading",
                            !.project = p,
                            !.report = [generation |-> generation[p] + 1,
                                        windowStart |-> start,
                                        changed |-> incoming \cup evicted,
                                        safe |-> safe,
                                        evicted |-> evicted,
                                        points |-> [s \in incoming |->
                                                      DOMAIN batch[s]]]]]
  /\ overlapped' = Overlaps(c)
  /\ UNCHANGED <<enabled, syncs, lastPublished, fullHolder, published, patched>>

(* syncDerivedSeriesConfigs stores a configuration and refreshes it all.   *)
Sync(c) ==
  /\ caller[c].pc = "idle"
  /\ syncs < MaxSyncs /\ \A p \in Projects : generation[p] <= UpdateBound(c)
  /\ \E d \in Derived :
       /\ enabled' = IF d \in enabled THEN enabled \ {d} ELSE enabled \cup {d}
       /\ caller' = [caller EXCEPT ![c] = [Idle EXCEPT
                                             !.pc = "locking",
                                             !.project = ProjectOf[d]]]
  /\ syncs' = syncs + 1
  /\ overlapped' = Overlaps(c)
  /\ UNCHANGED <<windowVars, derived, lastPublished, fullHolder, published,
                 patched>>

LockFull(c) ==
  /\ caller[c].pc = "locking" /\ fullHolder = NoCaller
  /\ fullHolder' = c
  /\ caller' = [caller EXCEPT ![c].pc = "reading"]
  /\ UNCHANGED <<windowVars, derived, enabled, syncs, lastPublished, history>>
-----------------------------------------------------------------------------
(***************************************************************************)
(* incrementalRangeFor: a range exists only if every changed source of the *)
(* formula says it is safe.                                                *)
(***************************************************************************)
ChangedSources(report, d) == Formula[d] \cap report.changed

HasRange(report, d) ==
  /\ report # NoReport
  /\ ChangedSources(report, d) \subseteq report.safe

(* Mutants of RangeFor: only the first new time is covered, and an         *)
(* eviction does not extend the range to the left edge.                    *)
RangeForFirst(report, d) ==
  LET times == UNION {report.points[s] : s \in ChangedSources(report, d)}
  IN [start |-> Least(times), end |-> Least(times)]
RangeForBatch(report, d) ==
  LET times == UNION {report.points[s] : s \in ChangedSources(report, d)}
  IN [start |-> Least(times), end |-> Greatest(times)]

RangeFor(report, d) ==
  LET changed == ChangedSources(report, d)
      times == UNION {report.points[s] : s \in changed}
      start == IF changed \cap report.evicted # {}
               THEN {report.windowStart} ELSE {}
  IN [start |-> Least(times \cup start), end |-> Greatest(times)]

(* computeOne over the points of a bounded query: the patch begins at the  *)
(* point before the range that each source was queried with.               *)
IncrementalItem(report, d, data) ==
  LET range == RangeFor(report, d)
      preceding == UNION {LET before == {t \in DOMAIN data[s] : t < range.start}
                          IN IF before = {} THEN {} ELSE {Greatest(before)}
                          : s \in Formula[d]}
      start == Least({range.start} \cup preceding)
      times == {t \in TimesOf(Formula[d], data) : start <= t /\ t <= range.end}
  IN [incremental |-> TRUE, start |-> start, end |-> range.end,
      points |-> Evaluate(Formula[d], data, times)]

FullItem(points) ==
  [incremental |-> FALSE, start |-> 0, end |-> 0, points |-> points]

(* The configurations this refresh has to do with, and the query of the    *)
(* union of the ranges of those that have one.                             *)
ReadRange(c) ==
  LET report == caller[c].report
      mine == Derived \cap InProject(caller[c].project)
      affected == IF report = NoReport THEN mine
                  ELSE {d \in mine \cap enabled : ChangedSources(report, d) # {}}
      ranged == {d \in affected : HasRange(report, d)}
      start == Least({RangeFor(report, d).start : d \in ranged})
      end == Greatest({RangeFor(report, d).end : d \in ranged})
      data == [s \in Sources |-> Context(live[s], start, end)]
  IN /\ caller[c].pc = "reading"
     /\ caller' = [caller EXCEPT
          ![c].pc = "readingFull",
          ![c].full = (affected \cap enabled) \ ranged,
          ![c].items = Over([d \in ranged |-> IncrementalItem(report, d, data)],
                            [d \in affected \ enabled |-> FullItem(EmptyMap)])]
     /\ UNCHANGED <<windowVars, derived, enabled, syncs, lastPublished,
                    fullHolder, history>>

(* The query of the default range, which ends at the watermark and leaves  *)
(* out the window's first instant.                                         *)
Queried(p) ==
  [s \in Sources |-> IF watermark[p] = NoTime THEN EmptyMap
                     ELSE Within(live[s], WindowStart(p) + 1, watermark[p])]

(* The refresh of the whole window; a series that was disabled is          *)
(* published empty.                                                        *)
ReadFull(c) ==
  LET p == caller[c].project
      data == Queried(p)
      items == [d \in caller[c].full |->
                  FullItem(Evaluate(Formula[d], data,
                                    TimesOf(Formula[d], data)))]
  IN /\ caller[c].pc = "readingFull"
     /\ caller' = [caller EXCEPT ![c].pc = "publishing",
                                 ![c].full = {},
                                 ![c].items = Over(@, items)]
     /\ UNCHANGED <<windowVars, derived, enabled, syncs, lastPublished,
                    fullHolder, history>>
-----------------------------------------------------------------------------
(***************************************************************************)
(* Publishing one series, under publish_mutex_.                            *)
(***************************************************************************)
(* Mutant of Stale: no refresh by range is ever too late.                  *)
NeverStale(c, d) == FALSE

Stale(c, d) ==
  /\ caller[c].items[d].incremental
  /\ caller[c].report.generation < lastPublished

Published(c, d) ==
  caller' = [caller EXCEPT ![c].items = Restrict(@, DOMAIN @ \ {d})]

Skip(c, d) ==
  /\ caller[c].pc = "publishing" /\ d \in DOMAIN caller[c].items
  /\ Stale(c, d)
  /\ Published(c, d)
  /\ UNCHANGED <<windowVars, derived, enabled, syncs, lastPublished,
                 fullHolder, history>>

Later(a, b) == IF a > b THEN a ELSE b

(* patchDerivedSequence.                                                   *)
Patch(c, d) ==
  LET item == caller[c].items[d] IN
  /\ caller[c].pc = "publishing" /\ d \in DOMAIN caller[c].items
  /\ item.incremental /\ ~Stale(c, d)
  /\ lastPublished' = Later(lastPublished, caller[c].report.generation)
  /\ derived' = [derived EXCEPT
                   ![d] = Over(item.points,
                               Restrict(@, {t \in DOMAIN @ :
                                              t < item.start \/ t > item.end}))]
  /\ published' = [published EXCEPT ![d] = Later(@, caller[c].report.generation)]
  /\ patched' = [patched EXCEPT ![d] = Later(@, caller[c].report.generation)]
  /\ Published(c, d)
  /\ UNCHANGED <<windowVars, enabled, syncs, fullHolder, overlapped>>

(* replaceDerivedSequence, which also prunes the project's sequences.      *)
Replace(c, d) ==
  LET item == caller[c].items[d]
      p == caller[c].project
      replaced == [derived EXCEPT ![d] = item.points]
  IN
  /\ caller[c].pc = "publishing" /\ d \in DOMAIN caller[c].items
  /\ ~item.incremental
  /\ derived' = [x \in Derived |->
                   IF ProjectOf[x] = p /\ watermark[p] # NoTime
                   THEN From(replaced[x], WindowStart(p)) ELSE replaced[x]]
  /\ published' = [published EXCEPT ![d] = Later(@, caller[c].report.generation)]
  /\ Published(c, d)
  /\ UNCHANGED <<windowVars, enabled, syncs, lastPublished, fullHolder, patched,
                 overlapped>>

Finish(c) ==
  /\ caller[c].pc = "publishing" /\ DOMAIN caller[c].items = {}
  /\ fullHolder' = IF fullHolder = c THEN NoCaller ELSE fullHolder
  /\ caller' = [caller EXCEPT ![c] = Idle]
  /\ UNCHANGED <<windowVars, derived, enabled, syncs, lastPublished, history>>

(* All updates and synchronizations of the bound have been refreshed.      *)
AtRest == \A c \in Callers : caller[c].pc = "idle"
Terminated ==
  /\ AtRest /\ (overlapped \/ syncs = MaxSyncs)
  /\ \A c \in Callers, p \in Projects : generation[p] >= UpdateBound(c)
  /\ UNCHANGED vars

CallerStep(c) ==
  \/ Update(c) \/ Sync(c) \/ LockFull(c) \/ ReadRange(c) \/ ReadFull(c)
  \/ \E d \in Derived : Skip(c, d) \/ Patch(c, d) \/ Replace(c, d)
  \/ Finish(c)

Next == (\E c \in Callers : CallerStep(c)) \/ Terminated

Spec == Init /\ [][Next]_vars
-----------------------------------------------------------------------------
(***************************************************************************)
(* Properties.                                                             *)
(***************************************************************************)
TypeOK ==
  /\ watermark \in [Projects -> Int \cup {NoTime}]
  /\ generation \in [Projects -> 0 .. MaxUpdates]
  /\ ahead \in [Sources -> SUBSET Int]
  /\ enabled \subseteq Derived
  /\ lastPublished \in 0 .. MaxUpdates
  /\ published \in [Derived -> 0 .. MaxUpdates]
  /\ patched \in [Derived -> 0 .. MaxUpdates]
  /\ fullHolder \in Callers \cup {NoCaller}
  /\ overlapped \in BOOLEAN
  /\ \A s \in Sources : DOMAIN live[s] \subseteq Int
  /\ \A c \in Callers :
       /\ caller[c].pc \in {"idle", "locking", "reading", "readingFull",
                            "publishing"}
       /\ DOMAIN caller[c].items \cup caller[c].full \subseteq Derived
       /\ fullHolder = c <=> /\ caller[c].report = NoReport
                             /\ caller[c].pc \notin {"idle", "locking"}

(* What the formula of d gives on the kept points of its sources.          *)
Reference(d) == Evaluate(Formula[d], live, TimesOf(Formula[d], live))

(* What a full refresh would publish for d.                                *)
Rebuild(d) ==
  LET data == Queried(ProjectOf[d])
  IN Evaluate(Formula[d], data, TimesOf(Formula[d], data))

(* While one caller at a time refreshes, no derived point is wrong: after  *)
(* appends, corrections, evictions and configuration changes every point   *)
(* of an enabled series is what its formula gives on the kept points, so   *)
(* the range that a refresh patches is never too small.                    *)
DerivedSound ==
  AtRest /\ ~overlapped =>
    \A d \in enabled : \A t \in DOMAIN derived[d] :
      /\ t \in DOMAIN Reference(d)
      /\ derived[d][t] = Reference(d)[t]

(* An incremental refresh is as good as a full one: a derived series has   *)
(* every point that recomputing it from the whole window would give.       *)
DerivedComplete ==
  AtRest => \A d \in enabled : \A t \in DOMAIN Rebuild(d) :
              /\ t \in DOMAIN derived[d]
              /\ derived[d][t] = Rebuild(d)[t]

(* Where every source has a point of its own a series has one: what an     *)
(* update of some sources adds takes no such point away again.             *)
SampledTimes(d) == {t \in DOMAIN Rebuild(d) : \A s \in Formula[d] : t \in DOMAIN live[s]}
SampledKept ==
  AtRest => \A d \in enabled : SampledTimes(d) \subseteq DOMAIN derived[d]

Level(d) == \A s, q \in Formula[d] : DOMAIN live[s] = DOMAIN live[q]

(* As soon as all sources of a series have points at the same times, it    *)
(* has every point that a rebuild would give: whatever was missing while   *)
(* one source was ahead of another has been made up for.                   *)
LevelComplete ==
  AtRest /\ ~overlapped =>
    \A d \in enabled : Level(d) => DOMAIN Rebuild(d) \subseteq DOMAIN derived[d]

(* So it has all but what came ahead of the watermark in every source: a   *)
(* full refresh leaves that out, and ranges need not contain it later.     *)
WholeWhenLevel ==
  AtRest /\ ~overlapped => \A d \in enabled : Level(d) =>
    {t \in DOMAIN Rebuild(d) : \E s \in Formula[d] : t \notin ahead[s]}
      \subseteq DOMAIN derived[d]

(* A disabled series is cleared, and stays so.                             *)
DisabledStaysCleared ==
  AtRest => \A d \in Derived \ enabled : DOMAIN derived[d] = {}

(* Of two concurrent refreshes by range, the older never patches a series  *)
(* that the newer has already patched, although they compute in parallel.  *)
PatchesInOrder ==
  [][\A c \in Callers, d \in Derived :
       Patch(c, d) => caller[c].report.generation >= patched[d]]_vars

(* The generation keeps an older computation from publishing a series      *)
(* after a newer one has.                                                  *)
NoOlderOverNewer ==
  [][\A c \in Callers, d \in Derived :
       caller[c].report # NoReport /\ (Patch(c, d) \/ Replace(c, d))
         => caller[c].report.generation >= published[d]]_vars

(* A refresh is skipped as stale only if a newer update of the project has *)
(* published the series it would have published.                           *)
SkipIsCovered ==
  [][\A c \in Callers, d \in Derived :
       Skip(c, d) => published[d] > caller[c].report.generation]_vars
=============================================================================
