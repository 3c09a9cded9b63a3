--------------------------- MODULE ConstraintReport ---------------------------
(***************************************************************************)
(* processHotIngest of one project: after its window update an ingest      *)
(* snapshots the rules, looks at the cached constraint states, checks the  *)
(* selected rules in groups that each query the window for themselves, and *)
(* under constraint_state_mutex_ folds the results into the states and     *)
(* reports the violations of every clause that is not satisfied.           *)
(* A rule is a pointwise upper bound on one sequence: its violations are   *)
(* the times of the points above its limit.  A value that is no number     *)
(* fails the check that meets it, and with it the ingest's whole report.   *)
(* Ingests that share a sequence do not overlap (IngestExecutor); window   *)
(* updates are one step, as their interleaving is that of WindowService.   *)
(* The points of a request come in any order.                              *)
(***************************************************************************)
EXTENDS Integers, FiniteSets, Functions

CONSTANTS
  Callers,      (* hot workers                                             *)
  Rules,        (* constraint ids                                          *)
  SequenceOf,   (* the sequence of every rule                              *)
  GroupOf,      (* or_group_id of every rule, or NoGroup                   *)
  Limits,       (* the upper bounds a rule may be configured with          *)
  Batches,      (* what an ingest may carry: for some sequences a map from *)
                (* times to values                                         *)
  Sizes,        (* the window sizes that may be configured                 *)
  DefaultSize,
  MaxUpdates,   (* bound: ingests in every mode                            *)
  MaxSyncs,     (* bound: constraint synchronizations                      *)
  NotNumeric,   (* a value that is no number                              *)
  NoGroup, NoTime

SequenceIds ==
  (UNION {DOMAIN b : b \in Batches}) \cup {SequenceOf[r] : r \in Rules}

(* One ingest at a time so far; two have overlapped; limits or window size *)
(* have been changed.                                                      *)
Modes == {"alone", "overlapped", "changed"}

ASSUME ConstraintReportAssumption ==
  /\ IsFiniteSet(Rules)
  /\ NoTime \notin Int
  /\ Limits \subseteq Int /\ Limits # {}
  /\ Sizes \cup {DefaultSize} \subseteq Nat \ {0}
  /\ MaxUpdates \in [Modes -> Nat] /\ MaxSyncs \in Nat

(* An ingest carries at least one point, and finitely many.                *)
ASSUME BatchAssumption ==
  \A batch \in Batches :
    /\ IsFiniteSet(DOMAIN batch) /\ DOMAIN batch # {}
    /\ \A s \in DOMAIN batch :
         /\ IsFiniteSet(DOMAIN batch[s]) /\ DOMAIN batch[s] # {}
         /\ DOMAIN batch[s] \subseteq Int

VARIABLES
  live,        (* the kept points of every sequence                        *)
  latest,      (* latest_time of every sequence                            *)
  watermark, size, generation,
  ahead,       (* history: the times at which a sequence received a point  *)
               (* ahead of the watermark, in a first ingest that did not   *)
               (* end with its newest point                                *)
  limit,       (* the configured bound of every rule                       *)
  states,      (* constraint_states_: rule -> CachedConstraintState        *)
  caller,      (* what every ingest is doing                               *)
  syncs,       (* synchronizations so far                                  *)
  syncing,     (* a synchronization has yet to erase the states            *)
  intact,      (* history: no check has failed, no state has been erased   *)
               (* and the window has kept its size                         *)
  mode         (* history: what has happened so far                         *)

windowVars == <<live, latest, watermark, size, generation, ahead>>
configVars == <<limit, syncs, syncing>>
history == <<intact, mode>>
vars == <<windowVars, configVars, states, caller, history>>
-----------------------------------------------------------------------------
Least(S) == CHOOSE x \in S : \A y \in S : x <= y
Greatest(S) == CHOOSE x \in S : \A y \in S : x >= y
From(f, t) == Restrict(f, {u \in DOMAIN f : u >= t})
Over(f, g) == [x \in DOMAIN f \cup DOMAIN g |-> IF x \in DOMAIN f THEN f[x] ELSE g[x]]

(* clauseKey: the OR group, or the rule on its own.                        *)
ClauseOf(r) == {q \in Rules : q = r \/ (GroupOf[r] # NoGroup /\ GroupOf[q] = GroupOf[r])}

(* checkConstraints on the points of a range, bounded or not.              *)
Violating(points, bound) ==
  {t \in DOMAIN points : points[t] # NotNumeric /\ points[t] > bound}

NoRange == [start |-> NoTime, end |-> NoTime]
Idle == [pc |-> "idle", report |-> <<>>, rules |-> <<>>, selected |-> {},
         groups |-> {}, results |-> <<>>, failed |-> FALSE, reported |-> {}]

Init ==
  /\ live = [s \in SequenceIds |-> <<>>]
  /\ latest = [s \in SequenceIds |-> NoTime]
  /\ watermark = NoTime /\ size = DefaultSize /\ generation = 0
  /\ ahead = [s \in SequenceIds |-> {}]
  /\ limit \in [Rules -> Limits]
  /\ states = <<>>
  /\ caller = [c \in Callers |-> Idle]
  /\ syncs = 0 /\ syncing = FALSE /\ intact = TRUE /\ mode = "alone"

(* The sequences of an ingest that has not returned: one that shares a     *)
(* sequence with it waits.                                                 *)
Busy(c) == IF caller[c].pc = "idle" THEN {} ELSE caller[c].report.incoming

(* The mode in which an ingest begins.                                     *)
ModeOf(c) ==
  IF mode = "alone" /\ \E d \in Callers \ {c} : caller[d].pc # "idle"
  THEN "overlapped" ELSE mode

TimesOf(batch) == UNION {DOMAIN batch[s] : s \in DOMAIN batch}

(* The watermark after an update.  Every point of the first one overwrites *)
(* it, so that it ends at the last point of the request, which may be any  *)
(* of them; later updates only move it forward.                            *)
Marks(batch) ==
  IF watermark = NoTime THEN TimesOf(batch)
  ELSE {Greatest({watermark} \cup TimesOf(batch))}

(* buildTimeWindowIncremental and the WindowUpdateResult it returns.       *)
Update(c) ==
  /\ caller[c].pc = "idle" /\ generation < MaxUpdates[ModeOf(c)]
  /\ mode' = ModeOf(c)
  /\ \E batch \in Batches : \E mark \in Marks(batch) :
       LET incoming == DOMAIN batch
           start == mark - size
           full == [s \in SequenceIds |-> IF s \in incoming
                                          THEN Over(batch[s], live[s]) ELSE live[s]]
           evicted == {s \in SequenceIds : \E t \in DOMAIN full[s] : t < start}
       IN /\ \A d \in Callers : Busy(d) \cap incoming = {}
          /\ watermark' = mark
          /\ ahead' = [s \in SequenceIds |->
                         IF s \notin incoming THEN ahead[s]
                         ELSE ahead[s] \cup {t \in DOMAIN batch[s] : t > mark}]
          /\ generation' = generation + 1
          /\ live' = [s \in SequenceIds |-> From(full[s], start)]
          /\ latest' = [s \in SequenceIds |->
                          IF s \notin incoming THEN latest[s]
                          ELSE Greatest(DOMAIN batch[s] \cup
                                        ({latest[s]} \ {NoTime}))]
          /\ caller' = [caller EXCEPT
               ![c] = [Idle EXCEPT
                 !.pc = "updated",
                 !.report = [generation |-> generation + 1,
                             windowStart |-> start,
                             incoming |-> incoming,
                             changed |-> incoming \cup evicted,
                             evicted |-> evicted,
                             safe |-> {s \in incoming :
                                         \/ latest[s] = NoTime
                                         \/ Least(DOMAIN batch[s]) > latest[s]},
                             times |-> [s \in incoming |-> DOMAIN batch[s]]]]]
  /\ UNCHANGED <<size, configVars, states, intact>>

(* allEnabledConstraints.                                                  *)
ReadRules(c) ==
  /\ caller[c].pc = "updated"
  /\ caller' = [caller EXCEPT ![c].pc = "configured", ![c].rules = limit]
  /\ UNCHANGED <<windowVars, configVars, states, history>>
-----------------------------------------------------------------------------
(* incrementalRangeFor: no range unless the rule's sequence is changed and *)
(* its update was safe; an eviction extends it to the start of the window. *)
Affected(report, r) == SequenceOf[r] \in report.changed
HasRange(report, r) == Affected(report, r) /\ SequenceOf[r] \in report.safe
RangeFor(report, r) ==
  LET times == report.times[SequenceOf[r]]
      start == IF SequenceOf[r] \in report.evicted
               THEN {report.windowStart} ELSE {}
  IN [start |-> Least(times \cup start), end |-> Greatest(times)]

UnionRange(report, rules) ==
  [start |-> Least({RangeFor(report, r).start : r \in rules}),
   end |-> Greatest({RangeFor(report, r).end : r \in rules})]

Initialized == {r \in DOMAIN states : states[r].initialized}
(* Mutant of Violated: what is violated already is not looked at again.    *)
NoneViolated == {}
Violated == {r \in DOMAIN states : states[r].violations # {}}

(* addWithoutMixingOrClauses: rules of OR groups stand alone, the others   *)
(* share one group with the union of their ranges and one without a range. *)
GroupsOf(report, rules) ==
  LET ordinary == {r \in rules : GroupOf[r] = NoGroup}
      pools == {ordinary} \cup {{r} : r \in rules \ ordinary}
      ranged(pool) == {r \in pool : HasRange(report, r)}
  IN {[rules |-> ranged(pool), range |-> UnionRange(report, ranged(pool))]
        : pool \in {p \in pools : ranged(p) # {}}}
     \cup {[rules |-> pool \ ranged(pool), range |-> NoRange]
             : pool \in {p \in pools : p \ ranged(p) # {}}}

(* Under the state mutex: which rules are initialized and which violated.  *)
(* Clauses that were changed or are violated are selected whole; of their  *)
(* rules those changed or not yet initialized are checked.                 *)
SelectRules(c) ==
  LET report == caller[c].report
      selected == UNION {ClauseOf(r) : r \in {q \in Rules : Affected(report, q)}
                                              \cup Violated}
      checked == {r \in selected : Affected(report, r) \/ r \notin Initialized}
  IN /\ caller[c].pc = "configured"
     /\ caller' = [caller EXCEPT
          ![c] = IF selected = {} THEN Idle
                 ELSE [@ EXCEPT !.pc = "checking",
                                !.selected = selected,
                                !.groups = GroupsOf(report, checked)]]
     /\ UNCHANGED <<windowVars, configVars, states, history>>

(* run_group: the default range ends at the watermark and leaves out the   *)
(* window's first instant.  A group that fails gives no results; the       *)
(* others are checked all the same.                                        *)
CheckGroup(c) ==
  /\ caller[c].pc = "checking"
  /\ \E group \in caller[c].groups :
       LET Queried(s) ==
             LET range == IF group.range # NoRange THEN group.range
                          ELSE [start |-> watermark - size + 1, end |-> watermark]
             IN Restrict(live[s], {t \in DOMAIN live[s] :
                                     range.start <= t /\ t <= range.end})
           failed == \E r \in group.rules :
                       \E t \in DOMAIN Queried(SequenceOf[r]) :
                         live[SequenceOf[r]][t] = NotNumeric
           results == [r \in group.rules |->
                         [range |-> group.range,
                          violations |-> Violating(Queried(SequenceOf[r]),
                                                   caller[c].rules[r])]]
       IN caller' = [caller EXCEPT
            ![c].groups = @ \ {group},
            ![c].failed = @ \/ failed,
            ![c].results = IF failed THEN @ ELSE Over(results, @)]
  /\ UNCHANGED <<windowVars, configVars, states, history>>

NoState == [initialized |-> FALSE, violations |-> {}, generation |-> 0]
StateOf(r) == IF r \in DOMAIN states THEN states[r] ELSE NoState

(* Mutants of Folded: a check of the whole window keeps what was there,    *)
(* evicted violations stay, and results are folded in the order in which   *)
(* they arrive.                                                            *)
FoldedNoReset(state, result, report) ==
  LET kept == {t \in state.violations :
                 /\ \/ result.range = NoRange
                    \/ t < result.range.start \/ t > result.range.end
                 /\ t >= report.windowStart}
  IN IF state.initialized /\ report.generation < state.generation THEN state
     ELSE [initialized |-> TRUE,
           violations |-> kept \cup result.violations,
           generation |-> report.generation]
FoldedForEver(state, result, report) ==
  LET kept == IF result.range = NoRange THEN {}
              ELSE {t \in state.violations :
                      t < result.range.start \/ t > result.range.end}
  IN [initialized |-> TRUE, violations |-> kept \cup result.violations,
      generation |-> report.generation]
FoldedAnyOrder(state, result, report) ==
  LET kept == IF result.range = NoRange THEN {}
              ELSE {t \in state.violations :
                      /\ t < result.range.start \/ t > result.range.end
                      /\ t >= report.windowStart}
  IN [initialized |-> TRUE, violations |-> kept \cup result.violations,
      generation |-> report.generation]

(* The state of one rule after the result of one check of it.              *)
Folded(state, result, report) ==
  LET kept == IF result.range = NoRange THEN {}
              ELSE {t \in state.violations :
                      /\ t < result.range.start \/ t > result.range.end
                      /\ t >= report.windowStart}
  IN IF state.initialized /\ report.generation < state.generation THEN state
     ELSE [initialized |-> TRUE,
           violations |-> kept \cup result.violations,
           generation |-> report.generation]

(* The other critical section of the state mutex.                          *)
Apply(c) ==
  LET results == caller[c].results
      folded == Over([r \in DOMAIN results |->
                        Folded(StateOf(r), results[r], caller[c].report)], states)
      Satisfied(r) == r \notin DOMAIN folded \/ ~folded[r].initialized
                        \/ folded[r].violations = {}
      unsatisfied == {r \in caller[c].selected :
                        \A q \in ClauseOf(r) : ~Satisfied(q)}
  IN /\ caller[c].pc = "checking" /\ caller[c].groups = {} /\ ~caller[c].failed
     /\ states' = folded
     /\ caller' = [caller EXCEPT
          ![c].pc = "reporting",
          ![c].reported = UNION {{r} \X folded[r].violations
                                   : r \in unsatisfied}]
     /\ UNCHANGED <<windowVars, configVars, history>>

(* If any group failed, no state is touched and nothing is reported.       *)
Fail(c) ==
  /\ caller[c].pc = "checking" /\ caller[c].groups = {} /\ caller[c].failed
  /\ caller' = [caller EXCEPT ![c] = Idle]
  /\ intact' = FALSE
  /\ UNCHANGED <<windowVars, configVars, states, mode>>

(* The violations, if any, go to the notification executor.                *)
Return(c) ==
  /\ caller[c].pc = "reporting"
  /\ caller' = [caller EXCEPT ![c] = Idle]
  /\ UNCHANGED <<windowVars, configVars, states, history>>
-----------------------------------------------------------------------------
(* Bound: a change while ingests may follow it.                            *)
ChangeAllowed == generation < MaxUpdates["changed"]

(* syncConstraints: the registry swaps its rules, and then the states of   *)
(* the project are erased under the state mutex.                           *)
Sync ==
  /\ ~syncing /\ syncs < MaxSyncs /\ ChangeAllowed
  /\ \E r \in Rules, n \in Limits : limit' = [limit EXCEPT ![r] = n]
  /\ syncs' = syncs + 1 /\ syncing' = TRUE
  /\ mode' = "changed"
  /\ UNCHANGED <<windowVars, states, caller, intact>>

EraseStates ==
  /\ syncing
  /\ syncing' = FALSE
  /\ states' = <<>>
  /\ intact' = FALSE
  /\ UNCHANGED <<windowVars, limit, syncs, caller, mode>>

(* syncWindowConfig resizes and prunes the window, without a report.       *)
Resize ==
  /\ ChangeAllowed
  /\ \E n \in Sizes \ {size} :
       /\ size' = n
       /\ live' = IF watermark = NoTime THEN live
                  ELSE [s \in SequenceIds |-> From(live[s], watermark - n)]
  /\ intact' = FALSE /\ mode' = "changed"
  /\ UNCHANGED <<latest, watermark, generation, ahead, configVars, states, caller>>

AtRest == ~syncing /\ \A c \in Callers : caller[c].pc = "idle"

Terminated ==
  /\ AtRest /\ generation >= MaxUpdates[mode]
  /\ syncs = MaxSyncs \/ ~ChangeAllowed
  /\ UNCHANGED vars

CallerStep(c) ==
  \/ Update(c) \/ ReadRules(c) \/ SelectRules(c) \/ CheckGroup(c) \/ Apply(c)
  \/ Fail(c) \/ Return(c)

Next ==
  \/ \E c \in Callers : CallerStep(c)
  \/ Sync \/ EraseStates \/ Resize \/ Terminated

Spec == Init /\ [][Next]_vars
-----------------------------------------------------------------------------
(***************************************************************************)
(* Properties.  A full check skips the first instant of the window, which  *)
(* an incremental check includes: a violation there may be known or not.   *)
(***************************************************************************)
May(r) == Violating(live[SequenceOf[r]], limit[r])
Must(r) == {t \in May(r) : t > watermark - size}
(* What a full check sees of them, and those it has always seen.           *)
Seen(r) == {t \in Must(r) : t <= watermark}
Due(r) == Must(r) \ ahead[SequenceOf[r]]

TypeOK ==
  /\ mode \in Modes
  /\ generation \in 0 .. Greatest(Range(MaxUpdates))
  /\ watermark \in Int \cup {NoTime} /\ size \in Nat \ {0}
  /\ ahead \in [SequenceIds -> SUBSET Int] /\ intact \in BOOLEAN
  /\ limit \in [Rules -> Limits]
  /\ DOMAIN states \subseteq Rules
  /\ \A r \in DOMAIN states :
       /\ states[r].initialized \in BOOLEAN
       /\ states[r].violations \subseteq Int
       /\ states[r].generation \in 0 .. generation
  /\ \A c \in Callers :
       /\ caller[c].pc \in {"idle", "updated", "configured", "checking",
                            "reporting"}
       /\ caller[c].failed \in BOOLEAN
       /\ caller[c].selected \cup DOMAIN caller[c].results \subseteq Rules

(* A cached violation is one: its point is still in the window, and is     *)
(* above the limit that the rule has now.                                  *)
StateSound ==
  AtRest => \A r \in DOMAIN states : states[r].violations \subseteq May(r)

(* The state of a rule that has been checked knows every violation in the  *)
(* current window: it must be reported again with every ingest.            *)
StateComplete ==
  AtRest => \A r \in DOMAIN states :
              states[r].initialized => Must(r) \subseteq states[r].violations

(* However the checks of a rule were cut into ranges, and in whatever      *)
(* order concurrent ingests folded their results, its state knows every    *)
(* violation but of points that came ahead of the watermark: a full check  *)
(* forgets those, and checks of ranges do not look at them again.          *)
RangesAddUp ==
  intact /\ AtRest => \A r \in DOMAIN states : Due(r) \subseteq states[r].violations

(* Nor does a violation outlive the eviction or correction of its point,   *)
(* though results of older checks may be folded after those of newer ones. *)
NothingOutlives == intact => StateSound

(* Whatever an earlier failure left in a rule's state, a check of the      *)
(* whole window makes it exact again up to the watermark, where the range  *)
(* of such a check ends (one ingest at a time).                            *)
FullCheckRestores ==
  \A c \in Callers : mode = "alone" /\ caller[c].pc = "reporting" =>
    \A r \in DOMAIN caller[c].results :
      caller[c].results[r].range = NoRange =>
        /\ Seen(r) \subseteq states[r].violations
        /\ states[r].violations \subseteq May(r)

(* While one ingest runs at a time and none has failed, each reports what  *)
(* is violated in the window at that moment, batch after batch: nothing    *)
(* else, and of every clause none of whose rules is satisfied every        *)
(* violation that RangesAddUp speaks of.                                   *)
ReportExact ==
  \A c \in Callers : intact /\ mode = "alone" /\ caller[c].pc = "reporting" =>
    LET times(r) == {v[2] : v \in {u \in caller[c].reported : u[1] = r}} IN
    \A r \in Rules :
      /\ times(r) \subseteq May(r)
      /\ times(r) # {} => \A q \in ClauseOf(r) : May(q) # {}
      /\ (\A q \in ClauseOf(r) : Due(q) # {}) => Due(r) \subseteq times(r)
=============================================================================
