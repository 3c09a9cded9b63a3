--------------------------- MODULE IngestExecutor ---------------------------
(***************************************************************************)
(* IngestTaskExecutor: every IngestData request becomes one task that is   *)
(* split over several lanes: one cold lane per writer that stores some of  *)
(* its sequences, and one hot lane that updates the in-memory windows.     *)
(* Submitters, cold workers and hot workers are threads; an action is what *)
(* one of them does in one critical section (queue_mutex_, routing_mutex_  *)
(* or the task's result_mutex), or one promise it fulfils between two.     *)
(* A batch carries one point per sequence, so points are counted by        *)
(* counting sequences.                                                     *)
(***************************************************************************)
EXTENDS Integers, Sequences, FiniteSets

CONSTANTS
  Tasks,        (* the submissions                                         *)
  SequenceIds,  (* project + sequence keys, ordered as std::sort orders    *)
                (* them (by their number)                                  *)
  Batches,      (* the sets of sequences one request may carry             *)
  ColdCount,    (* cold_worker_count_                                      *)
  HotWorkers,   (* the hot worker threads                                  *)
  Capacity,     (* queue_capacity_                                         *)
  ColdCodes,    (* the outcomes of cold_write: some of Ok, Partial, Failed *)
  NoTask

Writers == 0 .. (ColdCount - 1)
NoWriter == ColdCount                  (* sequence_writers_.end()          *)
Workers == Writers \cup HotWorkers

ASSUME ExecutorAssumption ==
  /\ IsFiniteSet(Tasks) /\ NoTask \notin Tasks
  /\ IsFiniteSet(SequenceIds) /\ SequenceIds \subseteq Nat
  /\ Batches \subseteq SUBSET SequenceIds
  /\ ColdCount \in Nat \ {0}
  /\ IsFiniteSet(HotWorkers) /\ HotWorkers # {}
  /\ HotWorkers \cap Int = {}
  /\ Capacity \in Nat \ {0}
  /\ ColdCodes \subseteq {"Ok", "Partial", "Failed"} /\ ColdCodes # {}

VARIABLES
  submission,       (* where each trySubmit call is                        *)
  batch,            (* the sequences of the task's points                  *)
  route,            (* batch_writers of the task                           *)
  sequenceWriters,  (* sequence_writers_                                   *)
  nextWriter,       (* next_writer_index_                                  *)
  coldQueue,        (* cold_queues_                                        *)
  hotQueue,         (* hot_queue_                                          *)
  hotTail,          (* sequence_hot_tails_: the task that owns the future  *)
  predecessors,     (* hot_predecessors                                    *)
  ordered,          (* tasks whose hot_order_completion is set             *)
  announced,        (* tasks whose hot_completion is set                   *)
  completed,        (* tasks whose completion is set                       *)
  remaining,        (* remaining_lanes                                     *)
  result,           (* the task's IngestPipelineResult                     *)
  pending,          (* pending_tasks_                                      *)
  stopping,         (* stopping_                                           *)
  worker,           (* program counter and task of every worker thread     *)
  ticket            (* history: the rank of the task among the admitted    *)

clientVars == <<submission, batch, route>>
routingVars == <<sequenceWriters, nextWriter>>
queueVars == <<coldQueue, hotQueue, hotTail, predecessors, pending, stopping,
               ticket>>
taskVars == <<ordered, announced, completed, remaining, result>>
vars == <<clientVars, routingVars, queueVars, taskVars, worker>>
-----------------------------------------------------------------------------
Codes == {"None", "Ok", "Partial", "Failed"}
Storage == [code : Codes, success : Nat]
Results == [storage : Storage, hot : BOOLEAN]    (* hot: results are there *)
WorkerPcs == {"idle", "waiting", "running", "announcing", "counting",
              "publishing", "releasing", "exited"}

EmptyResult ==
  [storage |-> [code |-> "None", success |-> 0], hot |-> FALSE]

(* The points of task t that writer w stores (cold_batches[w]).            *)
ColdBatch(t, w) == {s \in batch[t] : route[t][s] = w}

(* The writers with cold work for t (has_cold_work).                       *)
ColdLanes(t) == {w \in Writers : ColdBatch(t, w) # {}}

Admitted == {t \in Tasks : submission[t] = "accepted"}

(* What cold_write may return for n points: success_count with its code.   *)
ColdOutcomes(n) ==
  {o \in [code : ColdCodes, success : 0 .. n] :
     /\ o.code = "Ok" <=> o.success = n
     /\ o.code = "Failed" <=> o.success = 0}

(* Mutant of MergeStorage: the code of the shard that finishes last wins.  *)
MergeLastCode(aggregate, part) ==
  [code |-> part.code, success |-> aggregate.success + part.success]

(* mergeStorageResult: the first shard is copied, the others are added.    *)
MergeStorage(aggregate, part) ==
  LET success == aggregate.success + part.success
      codes == {aggregate.code, part.code}
      code == IF "Failed" \in codes
              THEN IF success = 0 THEN aggregate.code ELSE "Partial"
              ELSE IF "Partial" \in codes THEN "Partial" ELSE aggregate.code
  IN IF aggregate.code = "None" THEN part
     ELSE [code |-> code, success |-> success]
-----------------------------------------------------------------------------
Init ==
  /\ submission = [t \in Tasks |-> "new"]
  /\ batch = [t \in Tasks |-> {}]
  /\ route = [t \in Tasks |-> [s \in SequenceIds |-> NoWriter]]
  /\ sequenceWriters = [s \in SequenceIds |-> NoWriter]
  /\ nextWriter = 0
  /\ coldQueue = [w \in Writers |-> <<>>]
  /\ hotQueue = <<>>
  /\ hotTail = [s \in SequenceIds |-> NoTask]
  /\ predecessors = [t \in Tasks |-> {}]
  /\ ordered = {} /\ announced = {} /\ completed = {}
  /\ remaining = [t \in Tasks |-> 0]
  /\ result = [t \in Tasks |-> EmptyResult]
  /\ pending = 0
  /\ stopping = FALSE
  /\ worker = [x \in Workers |-> [pc |-> "idle", task |-> NoTask]]
  /\ ticket = [t \in Tasks |-> 0]
-----------------------------------------------------------------------------
(***************************************************************************)
(* trySubmit.                                                              *)
(***************************************************************************)
Submit(t) ==
  /\ submission[t] = "new"
  /\ \E b \in Batches : batch' = [batch EXCEPT ![t] = b]
  /\ submission' = [submission EXCEPT ![t] = "routing"]
  /\ UNCHANGED <<route, routingVars, queueVars, taskVars, worker>>

Unrouted(t) == {s \in batch[t] : route[t][s] = NoWriter}

(* Mutants of WriterForSequence: the index does not wrap around, and no    *)
(* sequence keeps its writer.                                              *)
WriterUnwrapped(t, s) ==
  /\ route' = [route EXCEPT ![t][s] = nextWriter]
  /\ sequenceWriters' = [sequenceWriters EXCEPT ![s] = nextWriter]
  /\ nextWriter' = nextWriter + 1
WriterInTurn(t, s) ==
  /\ route' = [route EXCEPT ![t][s] = nextWriter]
  /\ sequenceWriters' = [sequenceWriters EXCEPT ![s] = nextWriter]
  /\ nextWriter' = (nextWriter + 1) % ColdCount

(* writerForSequence: a known sequence keeps its writer, a new one takes   *)
(* the next in turn.  Each call is a critical section of routing_mutex_.   *)
WriterForSequence(t, s) ==
  IF sequenceWriters[s] # NoWriter
  THEN /\ route' = [route EXCEPT ![t][s] = sequenceWriters[s]]
       /\ UNCHANGED routingVars
  ELSE /\ route' = [route EXCEPT ![t][s] = nextWriter]
       /\ sequenceWriters' = [sequenceWriters EXCEPT ![s] = nextWriter]
       /\ nextWriter' = (nextWriter + 1) % ColdCount

Route(t) ==
  /\ submission[t] = "routing"
  /\ \E s \in Unrouted(t) :
       /\ \A r \in Unrouted(t) : s <= r
       /\ WriterForSequence(t, s)
  /\ UNCHANGED <<submission, batch, queueVars, taskVars, worker>>

Reject(t) ==
  /\ submission[t] = "routing" /\ Unrouted(t) = {}
  /\ stopping \/ pending >= Capacity
  /\ submission' = [submission EXCEPT ![t] = "rejected"]
  /\ UNCHANGED <<batch, route, routingVars, queueVars, taskVars, worker>>

(* One critical section of queue_mutex_ registers the task behind the last *)
(* admitted task of each of its sequences and puts it in every lane.       *)
Admit(t) ==
  /\ submission[t] = "routing" /\ Unrouted(t) = {}
  /\ ~stopping /\ pending < Capacity
  /\ submission' = [submission EXCEPT ![t] = "accepted"]
  /\ predecessors' = [predecessors EXCEPT
                        ![t] = {hotTail[s] : s \in batch[t]} \ {NoTask}]
  /\ hotTail' = [s \in SequenceIds |-> IF s \in batch[t] THEN t ELSE hotTail[s]]
  /\ pending' = pending + 1
  /\ ticket' = [ticket EXCEPT ![t] = Cardinality(Admitted) + 1]
  /\ remaining' = [remaining EXCEPT ![t] = 1 + Cardinality(ColdLanes(t))]
  /\ coldQueue' = [w \in Writers |-> IF w \in ColdLanes(t)
                                     THEN Append(coldQueue[w], t)
                                     ELSE coldQueue[w]]
  /\ hotQueue' = Append(hotQueue, t)
  /\ UNCHANGED <<batch, route, routingVars, ordered, announced, completed,
                 result, stopping, worker>>
-----------------------------------------------------------------------------
(***************************************************************************)
(* coldWorkerLoop and completeCold.                                        *)
(***************************************************************************)
At(x, pc) == worker[x].pc = pc
Goto(x, pc) == worker' = [worker EXCEPT ![x].pc = pc]

TakeCold(w) ==
  /\ At(w, "idle") /\ coldQueue[w] # <<>>
  /\ worker' = [worker EXCEPT ![w] = [pc |-> "running",
                                      task |-> Head(coldQueue[w])]]
  /\ coldQueue' = [coldQueue EXCEPT ![w] = Tail(@)]
  /\ UNCHANGED <<clientVars, routingVars, hotQueue, hotTail, predecessors,
                 pending, stopping, ticket, taskVars>>

(* Mutant of FinishCold: a failed write leaves its lane uncounted.         *)
FinishColdUncounted(w) ==
  LET t == worker[w].task IN
  /\ At(w, "running")
  /\ worker' = [worker EXCEPT ![w] = [pc |-> "idle", task |-> NoTask]]
  /\ UNCHANGED <<clientVars, routingVars, queueVars, taskVars>>

(* cold_write returns or throws, and its result is merged.                 *)
FinishCold(w) ==
  LET t == worker[w].task IN
  /\ At(w, "running")
  /\ \E part \in ColdOutcomes(Cardinality(ColdBatch(t, w))) :
       result' = [result EXCEPT ![t].storage = MergeStorage(@, part)]
  /\ Goto(w, "counting")
  /\ UNCHANGED <<clientVars, routingVars, queueVars, ordered, announced,
                 completed, remaining>>
-----------------------------------------------------------------------------
(***************************************************************************)
(* hotWorkerLoop and completeHot.                                          *)
(***************************************************************************)
TakeHot(h) ==
  /\ At(h, "idle") /\ hotQueue # <<>>
  /\ worker' = [worker EXCEPT ![h] = [pc |-> "waiting",
                                      task |-> Head(hotQueue)]]
  /\ hotQueue' = Tail(hotQueue)
  /\ UNCHANGED <<clientVars, routingVars, coldQueue, hotTail, predecessors,
                 pending, stopping, ticket, taskVars>>

(* Mutant of StartHot: a batch does not wait for its predecessors.         *)
StartHotAtOnce(h) ==
  /\ At(h, "waiting")
  /\ Goto(h, "running")
  /\ UNCHANGED <<clientVars, routingVars, queueVars, taskVars>>

StartHot(h) ==
  /\ At(h, "waiting")
  /\ predecessors[worker[h].task] \subseteq ordered
  /\ Goto(h, "running")
  /\ UNCHANGED <<clientVars, routingVars, queueVars, taskVars>>

(* Mutant of FinishHot: a hot_update that throws is tried again.           *)
FinishHotRetries(h) == At(h, "running") /\ UNCHANGED vars

(* hot_update returns or throws; either way the successors are let go.     *)
FinishHot(h) ==
  /\ At(h, "running")
  /\ ordered' = ordered \cup {worker[h].task}
  /\ Goto(h, "announcing")
  /\ UNCHANGED <<clientVars, routingVars, queueVars, announced, completed,
                 remaining, result>>

(* completeHot merges the hot results and fulfils hot_completion.          *)
CompleteHot(h) ==
  /\ At(h, "announcing")
  /\ result' = [result EXCEPT ![worker[h].task].hot = TRUE]
  /\ announced' = announced \cup {worker[h].task}
  /\ Goto(h, "counting")
  /\ UNCHANGED <<clientVars, routingVars, queueVars, ordered, completed,
                 remaining>>
-----------------------------------------------------------------------------
(***************************************************************************)
(* completeTask, run by the worker of every lane: the last lane fulfils    *)
(* the completion promise and only then gives the slot back.               *)
(***************************************************************************)
Free(x) == worker' = [worker EXCEPT ![x] = [pc |-> "idle", task |-> NoTask]]

(* Mutant of CountLane: off by one, the last but one lane publishes too.   *)
CountLaneEarly(x) ==
  LET t == worker[x].task IN
  /\ At(x, "counting")
  /\ remaining' = [remaining EXCEPT ![t] = @ - 1]
  /\ IF remaining[t] <= 2 THEN Goto(x, "publishing") ELSE Free(x)
  /\ UNCHANGED <<clientVars, routingVars, queueVars, ordered, announced,
                 completed, result>>

CountLane(x) ==
  LET t == worker[x].task IN
  /\ At(x, "counting")
  /\ remaining' = [remaining EXCEPT ![t] = @ - 1]
  /\ IF remaining[t] = 1 THEN Goto(x, "publishing") ELSE Free(x)
  /\ UNCHANGED <<clientVars, routingVars, queueVars, ordered, announced,
                 completed, result>>

Publish(x) ==
  /\ At(x, "publishing")
  /\ completed' = completed \cup {worker[x].task}
  /\ Goto(x, "releasing")
  /\ UNCHANGED <<clientVars, routingVars, queueVars, ordered, announced,
                 remaining, result>>

Release(x) ==
  /\ At(x, "releasing")
  /\ pending' = IF pending # 0 THEN pending - 1 ELSE 0
  /\ Free(x)
  /\ UNCHANGED <<clientVars, routingVars, coldQueue, hotQueue, hotTail,
                 predecessors, stopping, ticket, taskVars>>
-----------------------------------------------------------------------------
(***************************************************************************)
(* The destructor raises stopping_; a worker leaves once it is raised and  *)
(* its own queue is empty.                                                 *)
(***************************************************************************)
Stop ==
  /\ ~stopping
  /\ stopping' = TRUE
  /\ UNCHANGED <<clientVars, routingVars, coldQueue, hotQueue, hotTail,
                 predecessors, pending, ticket, taskVars, worker>>

QueueOf(x) == IF x \in Writers THEN coldQueue[x] ELSE hotQueue

Exit(x) ==
  /\ At(x, "idle") /\ stopping /\ QueueOf(x) = <<>>
  /\ Goto(x, "exited")
  /\ UNCHANGED <<clientVars, routingVars, queueVars, taskVars>>

Joined == \A x \in Workers : At(x, "exited")

(* The destructor has joined every worker and every caller has returned.   *)
Terminated ==
  /\ Joined
  /\ \A t \in Tasks : submission[t] \in {"accepted", "rejected"}
  /\ UNCHANGED vars
-----------------------------------------------------------------------------
ClientStep(t) == Submit(t) \/ Route(t) \/ Reject(t) \/ Admit(t)
ColdStep(w) == TakeCold(w) \/ FinishCold(w)
HotStep(h) ==
  TakeHot(h) \/ StartHot(h) \/ FinishHot(h) \/ CompleteHot(h)
LaneStep(x) == CountLane(x) \/ Publish(x) \/ Release(x) \/ Exit(x)

Next ==
  \/ \E t \in Tasks : ClientStep(t)
  \/ \E w \in Writers : ColdStep(w)
  \/ \E h \in HotWorkers : HotStep(h)
  \/ \E x \in Workers : LaneStep(x)
  \/ Stop
  \/ Terminated

Spec == Init /\ [][Next]_vars

(* Threads are scheduled fairly and a callback returns or throws; nobody   *)
(* is obliged to submit or to stop the service.                            *)
Fairness ==
  /\ \A t \in Tasks : WF_vars(Route(t)) /\ WF_vars(Reject(t) \/ Admit(t))
  /\ \A w \in Writers : WF_vars(ColdStep(w))
  /\ \A h \in HotWorkers : WF_vars(HotStep(h))
  /\ \A x \in Workers : WF_vars(LaneStep(x))

FairSpec == Spec /\ Fairness
-----------------------------------------------------------------------------
(***************************************************************************)
(* Properties.                                                             *)
(***************************************************************************)
TypeOK ==
  /\ submission \in [Tasks -> {"new", "routing", "accepted", "rejected"}]
  /\ batch \in [Tasks -> SUBSET SequenceIds]
  /\ route \in [Tasks -> [SequenceIds -> 0 .. ColdCount]]
  /\ sequenceWriters \in [SequenceIds -> 0 .. ColdCount]
  /\ nextWriter \in Writers
  /\ coldQueue \in [Writers -> Seq(Tasks)]
  /\ hotQueue \in Seq(Tasks)
  /\ hotTail \in [SequenceIds -> Tasks \cup {NoTask}]
  /\ predecessors \in [Tasks -> SUBSET Tasks]
  /\ ordered \subseteq Tasks
  /\ announced \subseteq Tasks
  /\ completed \subseteq Tasks
  /\ remaining \in [Tasks -> Int]
  /\ result \in [Tasks -> Results]
  /\ pending \in Nat
  /\ stopping \in BOOLEAN
  /\ worker \in [Workers -> [pc : WorkerPcs, task : Tasks \cup {NoTask}]]
  /\ ticket \in [Tasks -> Nat]

Earlier(t, u) == ticket[t] # 0 /\ ticket[t] < ticket[u]
InQueue(t, q) == \E i \in 1 .. Len(q) : q[i] = t

(* t's hot_update has been called.                                         *)
HotStarted(t) ==
  t \in ordered \/ \E h \in HotWorkers : At(h, "running") /\ worker[h].task = t

(* Hot windows are updated in admission order on every sequence: while an  *)
(* earlier batch of the sequence has not finished its hot_update, a later  *)
(* one has not entered its own, however many hot workers there are.        *)
HotInOrder ==
  \A t, u \in Tasks :
    Earlier(t, u) /\ batch[t] \cap batch[u] # {} /\ HotStarted(u)
      => t \in ordered

(***************************************************************************)
(* What makes HotInOrder inductive: only admitted tasks travel through the *)
(* queues and the workers, tickets count admissions, the tail of a         *)
(* sequence is its last admitted task, and predecessors form a chain       *)
(* through all earlier tasks of each sequence.                             *)
(***************************************************************************)
OnlyAdmitted ==
  /\ \A x \in Workers : worker[x].pc \notin {"idle", "exited"}
                         => worker[x].task \in Admitted
  /\ \A i \in 1 .. Len(hotQueue) : hotQueue[i] \in Admitted
  /\ \A w \in Writers : \A i \in 1 .. Len(coldQueue[w]) :
       coldQueue[w][i] \in Admitted
  /\ ordered \subseteq Admitted
  /\ \A t \in Tasks : predecessors[t] \subseteq Admitted

TicketsCount ==
  \A t \in Tasks :
    /\ ticket[t] # 0 <=> t \in Admitted
    /\ ticket[t] <= Cardinality(Admitted)

TailsLast ==
  \A s \in SequenceIds :
    IF hotTail[s] = NoTask
    THEN \A t \in Admitted : s \notin batch[t]
    ELSE /\ hotTail[s] \in Admitted /\ s \in batch[hotTail[s]]
         /\ \A t \in Admitted :
              s \in batch[t] => t = hotTail[s] \/ Earlier(t, hotTail[s])

ChainsComplete ==
  \A t, u \in Tasks : \A s \in batch[t] \cap batch[u] :
    Earlier(t, u) => \E p \in predecessors[u] :
                       s \in batch[p] /\ (t = p \/ Earlier(t, p))

(* The last admitted tasks of a sequence stand in a chain of predecessors  *)
(* that no admission, however interleaved with running workers, breaks.    *)
HotInv ==
  /\ OnlyAdmitted
  /\ TicketsCount
  /\ TailsLast
  /\ ChainsComplete
  /\ HotInOrder

(* The points of sequence s in t are queued, or being written.             *)
ColdQueued(t, s) == InQueue(t, coldQueue[route[t][s]])
ColdWriting(t, s) ==
  /\ At(route[t][s], "running")
  /\ worker[route[t][s]].task = t

(* Cold writes of one sequence keep admission order, although batches are  *)
(* routed before they are admitted: until an earlier batch has been        *)
(* written, a later one stays in its queue.                                *)
ColdInOrder ==
  \A t, u \in Admitted : \A s \in batch[t] \cap batch[u] :
    Earlier(t, u) /\ (ColdQueued(t, s) \/ ColdWriting(t, s))
      => ColdQueued(u, s)

(* t counts against queue_capacity_.                                       *)
SlotHeld(t) ==
  /\ t \in Admitted
  /\ \/ remaining[t] # 0
     \/ \E x \in Workers :
          worker[x].task = t /\ worker[x].pc \in {"publishing", "releasing"}

(* pending_tasks_ counts the admitted tasks that have not given back their *)
(* slot, and the admission bound holds: a slot is never leaked nor given   *)
(* back twice by two lanes that finish together.                           *)
SlotsExact ==
  /\ pending = Cardinality({t \in Tasks : SlotHeld(t)})
  /\ pending <= Capacity

(* The promised completion covers every lane: the hot result is there, and *)
(* the storage result counts what was stored, with the code that this      *)
(* calls for, in whatever order the shards finished.                       *)
CompletionWhole ==
  \A t \in completed :
    LET storage == result[t].storage
        points == Cardinality(batch[t])
    IN
    /\ result[t].hot
    /\ storage.success <= points
    /\ batch[t] # {} =>
         storage.code = (IF storage.success = points THEN "Ok"
                         ELSE IF storage.success = 0 THEN "Failed"
                         ELSE "Partial")

(* The result is moved out with the promise: no lane writes it later.      *)
PromisedResultFinal ==
  [][\A t \in completed : result'[t] = result[t]]_vars

(* Every admitted task completes, with or without shutdown: no worker      *)
(* waits for ever on a predecessor that waits for a worker.                *)
AdmittedCompletes ==
  \A t \in Tasks : submission[t] = "accepted" ~> t \in completed

(* Once the destructor has raised stopping_, every worker leaves.          *)
StopTerminates == stopping ~> Joined
-----------------------------------------------------------------------------
(***************************************************************************)
(* The executor implements IngestPromise.  A sequence of t is stored once  *)
(* its writer has neither queued nor unfinished points of it.              *)
(***************************************************************************)
StoredSequences(t) ==
  {s \in batch[t] :
     t \in Admitted /\ ~ColdQueued(t, s) /\ ~ColdWriting(t, s)}

Promise == INSTANCE IngestPromise WITH
  status <- [t \in Tasks |-> IF submission[t] = "routing" THEN "asking"
                             ELSE submission[t]],
  rank <- ticket,
  applied <- ordered,
  stored <- [t \in Tasks |-> StoredSequences(t)],
  finished <- completed,
  held <- {t \in Tasks : SlotHeld(t)},
  closed <- stopping

(* Every behaviour of the lanes, queues and workers is one of the promise. *)
ImplementsPromise == Promise!Spec
=============================================================================
