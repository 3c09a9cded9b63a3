---------------------------- MODULE WindowService ----------------------------
(***************************************************************************)
(* WindowService for one project: callers insert points, replace or patch  *)
(* derived sequences and resize the window.  A call takes mutex_ once, for *)
(* the watermark, the size and a snapshot of the project's sequences, and  *)
(* then one sequence lock at a time, first to write and then to prune;     *)
(* calls interleave between any two of these critical sections.  The       *)
(* sequence executor and the pruning loop are the free choice of the       *)
(* sequence a call works on next.                                          *)
(***************************************************************************)
EXTENDS SequenceWindow

CONSTANTS
  Callers,        (* the threads that call the service                     *)
  SequenceIds,
  DerivedIds,     (* the sequences that derived writes go to               *)
  Batches,        (* what an update may carry: sequences of records        *)
                  (* [sequence, time, value], in the order of the request  *)
  DerivedBatches, (* what a derived write may carry: [time, value]         *)
  Patches,        (* the ranges <<start, end>> of a derived patch          *)
  Sizes,          (* the window sizes a call may set; positive             *)
  DefaultSize,    (* kDefaultWindowSizeMs                                  *)
  MinTime,        (* the least Timestamp, where window_start saturates     *)
  MaxGeneration   (* the greatest update_generation, where it saturates    *)

ASSUME WindowServiceAssumption ==
  /\ MinTime \in Int /\ MaxGeneration \in Nat
  /\ DerivedIds \subseteq SequenceIds
  /\ Sizes \cup {DefaultSize} \subseteq Nat \ {0}

(* A validated request has a point at least; a patch has its range.        *)
Points == [time : Int, value : Int \cup {NonNumeric}]
ASSUME BatchAssumption ==
  /\ \A b \in Batches :
       /\ b # <<>>
       /\ b \in Seq([sequence : SequenceIds, time : Int,
                      value : Int \cup {NonNumeric}])
  /\ \A data \in DerivedBatches : data \in Seq(Points)
  /\ \A range \in Patches :
       range[1] \in Int /\ range[2] \in Int /\ range[1] <= range[2]

VARIABLES
  known,          (* the keys of sequence_windows_                         *)
  window,         (* sequence_windows_                                     *)
  watermark,      (* watermarks_                                           *)
  size,           (* window_sizes_, with its default                       *)
  generation,     (* update_generations_                                   *)
  call            (* what every caller is doing, and what it will return   *)

metadataVars == <<known, watermark, size, generation>>
vars == <<metadataVars, window, call>>

NoBatch == <<>>
Idle ==
  [pc |-> "idle",
   batch |-> NoBatch,        (* data.points                                *)
   start |-> MinTime,        (* window_start                               *)
   inserting |-> {},         (* the incoming sequences not yet updated     *)
   pruning |-> {},           (* the snapshot's sequences not yet pruned    *)
   generation |-> 0,         (* result.update_generation                   *)
   safe |-> {},              (* sequence_updates with incremental_safe     *)
   evicted |-> {},           (* evicted_sequence_ids                       *)
   touched |-> {}]           (* history: the <<sequence, time>> it changed *)

Init ==
  /\ known = {}
  /\ window = [s \in SequenceIds |-> EmptyWindow]
  /\ watermark = NoTime
  /\ size = DefaultSize
  /\ generation = 0
  /\ call = [c \in Callers |-> Idle]

SequencesOf(batch) == {batch[i].sequence : i \in DOMAIN batch}

(* incoming_by_sequence.                                                   *)
IncomingFor(batch, s) ==
  LET mine == Ascending({i \in DOMAIN batch : batch[i].sequence = s})
  IN [k \in DOMAIN mine |-> [time |-> batch[mine[k]].time,
                             value |-> batch[mine[k]].value]]

WindowStart(mark, n) == IF mark < MinTime + n THEN MinTime ELSE mark - n

(* The times at which a step changes the live points of sequence s.        *)
ChangedTimes(s, after) ==
  LET old == Live(window[s])
      new == Live(after)
  IN {t \in DOMAIN old \cup DOMAIN new :
        \/ t \notin DOMAIN old \cap DOMAIN new
        \/ old[t] # new[t]}
-----------------------------------------------------------------------------
(***************************************************************************)
(* updateWindowIncremental, with or without a size of its own.             *)
(***************************************************************************)
NextGeneration(g) == IF g # MaxGeneration THEN g + 1 ELSE g

(* Every point of a project's first update overwrites the watermark, so    *)
(* that the last of the request stays; later updates only move it forward. *)
MarkAfter(batch) ==
  LET newest == Greatest(TimesOf(batch))
  IN IF watermark = NoTime THEN batch[Len(batch)].time
     ELSE IF newest > watermark THEN newest ELSE watermark

Begin(c) ==
  /\ call[c].pc = "idle"
  /\ \E batch \in Batches, n \in {size} \cup Sizes :
       LET mark == MarkAfter(batch)
           next == NextGeneration(generation)
       IN /\ size' = n
          /\ watermark' = mark
          /\ generation' = next
          /\ known' = known \cup SequencesOf(batch)
          /\ call' = [call EXCEPT
                        ![c] = [Idle EXCEPT
                                  !.pc = "inserting",
                                  !.batch = batch,
                                  !.start = WindowStart(mark, n),
                                  !.inserting = SequencesOf(batch),
                                  !.pruning = known',
                                  !.generation = next]]
  /\ UNCHANGED window

(* update_sequence, under the lock of one incoming sequence.               *)
Insert(c) ==
  /\ call[c].pc = "inserting"
  /\ \E s \in call[c].inserting :
       LET data == IncomingFor(call[c].batch, s)
           after == InsertPoints(window[s], data)
           rest == call[c].inserting \ {s}
       IN /\ window' = [window EXCEPT ![s] = after]
          /\ call' = [call EXCEPT
               ![c].inserting = rest,
               ![c].pc = IF rest = {} THEN "pruning" ELSE "inserting",
               ![c].safe = IF AppendOnly(window[s], data)
                           THEN @ \cup {s} ELSE @,
               ![c].touched = @ \cup ({s} \X ChangedTimes(s, after))]
  /\ UNCHANGED metadataVars

(* pruneOne, under the lock of one sequence of the snapshot.               *)
Prune(c) ==
  /\ call[c].pc = "pruning"
  /\ \E s \in call[c].pruning :
       LET after == PruneWindow(window[s], call[c].start)
       IN /\ window' = [window EXCEPT ![s] = after]
          /\ call' = [call EXCEPT
               ![c].pruning = @ \ {s},
               ![c].evicted = IF Evicts(window[s], call[c].start)
                              THEN @ \cup {s} ELSE @,
               ![c].touched = @ \cup ({s} \X ChangedTimes(s, after))]
  /\ UNCHANGED metadataVars

(* The call returns its WindowUpdateResult.                                *)
Return(c) ==
  /\ call[c].pc = "pruning" /\ call[c].pruning = {}
  /\ call' = [call EXCEPT ![c] = Idle]
  /\ UNCHANGED <<metadataVars, window>>
-----------------------------------------------------------------------------
(***************************************************************************)
(* Derived writes.  Both create the sequence first; the window's bounds    *)
(* are only read, and all sequences only pruned, after a replacement.      *)
(***************************************************************************)
ReplaceDerived(c) ==
  /\ call[c].pc = "idle"
  /\ \E s \in DerivedIds, data \in DerivedBatches :
       /\ window' = [window EXCEPT ![s] = ReplaceWindow(data)]
       /\ known' = known \cup {s}
  /\ call' = [call EXCEPT ![c].pc = "replaced"]
  /\ UNCHANGED <<watermark, size, generation>>

(* The snapshot of replaceDerivedSequence and of configureWindowSize.      *)
PruneAll(c, n) ==
  call' = [call EXCEPT
             ![c] = IF watermark = NoTime THEN Idle
                    ELSE [Idle EXCEPT !.pc = "pruning",
                                      !.start = WindowStart(watermark, n),
                                      !.pruning = known]]

ReplacedDerived(c) ==
  /\ call[c].pc = "replaced"
  /\ PruneAll(c, size)
  /\ UNCHANGED <<metadataVars, window>>

PatchDerived(c) ==
  /\ call[c].pc = "idle"
  /\ \E s \in DerivedIds, range \in Patches, data \in DerivedBatches :
       /\ TimesOf(data) \subseteq range[1] .. range[2]
       /\ window' = [window EXCEPT
                       ![s] = PatchWindow(@, range[1], range[2], data)]
       /\ known' = known \cup {s}
  /\ UNCHANGED <<watermark, size, generation, call>>

ConfigureWindowSize(c) ==
  /\ call[c].pc = "idle"
  /\ \E n \in Sizes :
       /\ size' = n
       /\ PruneAll(c, n)
  /\ UNCHANGED <<known, window, watermark, generation>>

(* queryWindowStatistics: a reader repairs the cache it finds invalid.     *)
QueryStatistics ==
  /\ watermark # NoTime
  /\ \E s \in known :
       /\ ~window[s].statistics.valid
       /\ window' = [window EXCEPT ![s] = RebuildStatistics(@)]
  /\ UNCHANGED <<metadataVars, call>>
-----------------------------------------------------------------------------
CallerStep(c) ==
  \/ Begin(c) \/ Insert(c) \/ Prune(c) \/ Return(c)
  \/ ReplaceDerived(c) \/ ReplacedDerived(c) \/ PatchDerived(c)
  \/ ConfigureWindowSize(c)

Next == (\E c \in Callers : CallerStep(c)) \/ QueryStatistics

Spec == Init /\ [][Next]_vars
-----------------------------------------------------------------------------
(***************************************************************************)
(* Properties.                                                             *)
(***************************************************************************)
IsWindow(w) ==
  /\ w.points \in Seq(Points)
  /\ DOMAIN w.late \subseteq Int
  /\ w.latest \in Int \cup {NoTime}
  /\ w.statistics.valid \in BOOLEAN
  /\ w.statistics.count \in Nat /\ w.statistics.nonNumeric \in Nat

TypeOK ==
  /\ known \subseteq SequenceIds
  /\ \A s \in SequenceIds : IsWindow(window[s])
  /\ watermark \in Int \cup {NoTime}
  /\ size \in Nat \ {0}
  /\ generation \in 0 .. MaxGeneration
  /\ \A c \in Callers :
       /\ call[c].pc \in {"idle", "inserting", "pruning", "replaced"}
       /\ call[c].inserting \cup call[c].pruning \subseteq known
       /\ call[c].safe \subseteq SequencesOf(call[c].batch)
  /\ \A s \in SequenceIds : WindowOrdered(window[s])

(* No reader gets wrong statistics (StatisticsTrue): a correction, a patch *)
(* or an eviction of a late point has always invalidated the cache, and    *)
(* appends and left-edge evictions have kept it exact.                     *)
StatisticsExact == \A s \in SequenceIds : StatisticsTrue(window[s])

Inserted(c, s) == s \in call[c].inserting \ call'[c].inserting
Pruned(c, s) == s \in call[c].pruning \ call'[c].pruning

(* Behind vector, late points and lazy edge a window is a map: an update   *)
(* overwrites the times it carries and its last duplicate wins, a pruning  *)
(* keeps what is not older than its start, a patch replaces its range, and *)
(* a reader that rebuilds a cache changes nothing.                         *)
WindowIsMap ==
  [][\A s \in SequenceIds :
       LET before == Live(window[s])
           after == Live(window'[s])
       IN /\ \A c \in Callers :
               /\ Inserted(c, s) =>
                    after = Over(LastWins(IncomingFor(call[c].batch, s)), before)
               /\ Pruned(c, s) =>
                    after = Restrict(before, {t \in DOMAIN before :
                                                t >= call[c].start})
          /\ call' = call /\ after # before =>
               \E range \in Patches, data \in DerivedBatches :
                 LET patched == range[1] .. range[2] IN
                 /\ TimesOf(data) \subseteq patched
                 /\ after = Over(LastWins(data),
                                 Restrict(before, DOMAIN before \ patched))
    ]_vars

(* incremental_safe tells derived series and constraints that nothing they *)
(* already computed is stale: such an update only put points behind every  *)
(* point the sequence had, late ones included.                             *)
SafeIsSuffix ==
  [][\A c \in Callers, s \in SequenceIds :
       Inserted(c, s) /\ s \in call'[c].safe =>
         \A p \in TimesOf(IncomingFor(call[c].batch, s)) :
           \A t \in DOMAIN Live(window[s]) : t < p]_vars

(* The result of an update names every change it made: a sequence whose    *)
(* live points it changed is a changed sequence, and the change lies in    *)
(* the affected range or before the window, in a sequence marked evicted.  *)
ReportCovers ==
  \A c \in Callers :
    call[c].pc = "pruning" /\ call[c].pruning = {} =>
      \A change \in call[c].touched :
        LET s == change[1]
            t == change[2]
            incoming == TimesOf(IncomingFor(call[c].batch, s))
        IN \/ s \in call[c].evicted /\ t < call[c].start
           \/ incoming # {} /\ t \in Least(incoming) .. Greatest(incoming)

(* The watermark is the newest time that any sequence has received.        *)
WatermarkIsNewest ==
  \A s \in SequenceIds :
    window[s].latest # NoTime => watermark # NoTime /\ window[s].latest <= watermark

(* While no call is in progress, no window holds a point that is older     *)
(* than the watermark minus the window size.                               *)
NothingExpiredAtRest ==
  (\A c \in Callers : call[c].pc = "idle") /\ watermark # NoTime =>
    \A s \in SequenceIds : \A t \in DOMAIN Live(window[s]) :
      t >= WindowStart(watermark, size)
=============================================================================
