----------------------- MODULE IngestExecutorProofs -------------------------
(***************************************************************************)
(* Proofs about IngestExecutor for any number of tasks, sequences, writers *)
(* and hot workers: its type invariant; that the hot windows of every      *)
(* sequence are updated in admission order, and so are cold writes; that   *)
(* every lane of a task is counted exactly once, so slots are neither      *)
(* leaked nor given back twice; that a completion covers every lane and is *)
(* final; and that the executor implements IngestPromise.  The last part   *)
(* is about IngestRpc, which gives the executor its callbacks.             *)
(***************************************************************************)
EXTENDS IngestRpc, FiniteSetTheorems, SequenceTheorems, TLAPS

(* A part of a finite set is finite and has a natural number of elements.  *)
LEMMA CountType ==
  ASSUME NEW S, IsFiniteSet(S), NEW T \in SUBSET S
  PROVE  IsFiniteSet(T) /\ Cardinality(T) \in Nat
BY FS_Subset, FS_CardinalityType

(* The cold writers of IngestTaskExecutor are finitely many.               *)
LEMMA WritersFinite == IsFiniteSet(Writers)
<1>1. 0 \in Int /\ ColdCount - 1 \in Int
  BY ExecutorAssumption
<1> QED BY <1>1, FS_Interval DEF Writers

(* No cold worker is a hot worker: a thread runs one of the two loops.     *)
LEMMA WorkersDisjoint == Writers \cap HotWorkers = {}
BY ExecutorAssumption DEF Writers

(* Merging the results of two shards yields a storage result.              *)
LEMMA MergeType ==
  ASSUME NEW a \in Storage, NEW b \in Storage
  PROVE  MergeStorage(a, b) \in Storage
BY DEF MergeStorage, Storage, Codes

(* What cold_write may return is a storage result.                         *)
LEMMA OutcomeType ==
  ASSUME NEW n \in Nat, NEW o \in ColdOutcomes(n)
  PROVE  o \in Storage
<1>1. /\ o \in [code : ColdCodes, success : 0 .. n]
      /\ ColdCodes \subseteq Codes
  BY ExecutorAssumption DEF ColdOutcomes, Codes
<1>2. 0 .. n \subseteq Nat
  OBVIOUS
<1> QED BY <1>1, <1>2 DEF Storage

(* A worker that is not idle has a task.                                   *)
WorkersOK ==
  /\ worker \in [Workers -> [pc : WorkerPcs, task : Tasks \cup {NoTask}]]
  /\ \A x \in Workers : worker[x].pc \notin {"idle", "exited"}
                        => worker[x].task \in Tasks

TypeInv == TypeOK /\ WorkersOK

(* A worker that moves on keeps its record well typed, and keeps a task    *)
(* unless it is idle or has left.                                          *)
LEMMA GotoType ==
  ASSUME WorkersOK, NEW x \in Workers, NEW pc \in WorkerPcs, Goto(x, pc),
         worker[x].task \in Tasks \/ pc \in {"idle", "exited"}
  PROVE  WorkersOK'
<1> DEFINE R == [pc : WorkerPcs, task : Tasks \cup {NoTask}]
<1>1. worker \in [Workers -> R] /\ worker[x] \in R
  BY DEF WorkersOK
<1>2. [worker[x] EXCEPT !.pc = pc] \in R
  BY <1>1
<1>3. worker' \in [Workers -> R]
  BY <1>1, <1>2 DEF Goto
<1>4. /\ worker'[x].pc = pc /\ worker'[x].task = worker[x].task
      /\ \A y \in Workers : y # x => worker'[y] = worker[y]
  BY <1>1 DEF Goto
<1> QED BY <1>3, <1>4 DEF WorkersOK

(* A worker that completeTask has freed is well typed.                     *)
LEMMA FreeType ==
  ASSUME WorkersOK, NEW x \in Workers, Free(x)
  PROVE  WorkersOK'
BY DEF WorkersOK, Free, WorkerPcs

(* A worker that has taken a task from its queue is well typed.            *)
LEMMA TakeType ==
  ASSUME WorkersOK, NEW x \in Workers, NEW pc \in WorkerPcs, NEW t \in Tasks,
         worker' = [worker EXCEPT ![x] = [pc |-> pc, task |-> t]]
  PROVE  WorkersOK'
BY DEF WorkersOK

(* The executor starts in a well-typed state.                              *)
LEMMA InitType == Init => TypeInv
<1> SUFFICES ASSUME Init PROVE TypeInv
  OBVIOUS
<1>1. /\ NoWriter \in 0 .. ColdCount /\ 0 \in Writers
      /\ EmptyResult \in Results
  BY ExecutorAssumption
     DEF Writers, NoWriter, EmptyResult, Results, Storage, Codes
<1>2. /\ route \in [Tasks -> [SequenceIds -> 0 .. ColdCount]]
      /\ sequenceWriters \in [SequenceIds -> 0 .. ColdCount]
      /\ nextWriter \in Writers
      /\ result \in [Tasks -> Results]
  BY <1>1 DEF Init
<1>3. /\ coldQueue \in [Writers -> Seq(Tasks)]
      /\ hotQueue \in Seq(Tasks)
  BY DEF Init
<1>4. /\ worker \in [Workers -> [pc : WorkerPcs, task : Tasks \cup {NoTask}]]
      /\ \A x \in Workers : worker[x].pc = "idle"
  BY DEF Init, WorkerPcs
<1>5. /\ submission \in [Tasks -> {"new", "routing", "accepted", "rejected"}]
      /\ batch \in [Tasks -> SUBSET SequenceIds]
      /\ hotTail \in [SequenceIds -> Tasks \cup {NoTask}]
      /\ predecessors \in [Tasks -> SUBSET Tasks]
      /\ remaining \in [Tasks -> Int] /\ ticket \in [Tasks -> Nat]
  BY DEF Init
<1>6. /\ ordered \subseteq Tasks /\ announced \subseteq Tasks
      /\ completed \subseteq Tasks /\ pending \in Nat /\ stopping \in BOOLEAN
  BY DEF Init
<1> QED
  BY <1>2, <1>3, <1>4, <1>5, <1>6 DEF TypeInv, TypeOK, WorkersOK

(* Every step of a submitter, a worker or the destructor keeps the types.  *)
LEMMA StepType == TypeInv /\ [Next]_vars => TypeInv'
<1> SUFFICES ASSUME TypeInv, [Next]_vars PROVE TypeInv'
  OBVIOUS
<1> USE DEF TypeInv, TypeOK
<1>1. ASSUME NEW t \in Tasks, Submit(t) PROVE TypeInv'
  BY <1>1, ExecutorAssumption
     DEF Submit, routingVars, queueVars, taskVars, WorkersOK
<1>2. ASSUME NEW t \in Tasks, Route(t) PROVE TypeInv'
  <2>1. (nextWriter + 1) % ColdCount \in Writers
    BY ExecutorAssumption DEF Writers
  <2>2. PICK s \in SequenceIds : WriterForSequence(t, s)
    BY <1>2 DEF Route, Unrouted
  <2>3. route' \in [Tasks -> [SequenceIds -> 0 .. ColdCount]]
    <3>1. PICK w \in 0 .. ColdCount : route' = [route EXCEPT ![t][s] = w]
      <4>1. CASE sequenceWriters[s] # NoWriter
        BY <2>2, <4>1 DEF WriterForSequence
      <4>2. CASE sequenceWriters[s] = NoWriter
        <5>1. nextWriter \in 0 .. ColdCount
          BY ExecutorAssumption DEF Writers
        <5> QED BY <2>2, <4>2, <5>1 DEF WriterForSequence
      <4> QED BY <4>1, <4>2
    <3> QED BY <3>1
  <2>4. /\ sequenceWriters' \in [SequenceIds -> 0 .. ColdCount]
        /\ nextWriter' \in Writers
    <3>1. nextWriter \in 0 .. ColdCount
      BY ExecutorAssumption DEF Writers
    <3> QED BY <2>1, <2>2, <3>1 DEF WriterForSequence, routingVars
  <2> QED
    BY <1>2, <2>3, <2>4 DEF Route, queueVars, taskVars, WorkersOK
<1>3. ASSUME NEW t \in Tasks, Reject(t) PROVE TypeInv'
  BY <1>3 DEF Reject, routingVars, queueVars, taskVars, WorkersOK
<1>4. ASSUME NEW t \in Tasks, Admit(t) PROVE TypeInv'
  <2>1. Cardinality(Admitted) + 1 \in Nat
    <3>1. Admitted \in SUBSET Tasks
      BY DEF Admitted
    <3>2. IsFiniteSet(Tasks)
      BY ExecutorAssumption
    <3>3. Cardinality(Admitted) \in Nat
      BY <3>1, <3>2, CountType
    <3> QED BY <3>3
  <2>2. 1 + Cardinality(ColdLanes(t)) \in Int
    <3>1. ColdLanes(t) \in SUBSET Writers
      BY DEF ColdLanes
    <3>2. Cardinality(ColdLanes(t)) \in Nat
      BY <3>1, CountType, WritersFinite
    <3> QED BY <3>2
  <2>3. coldQueue' \in [Writers -> Seq(Tasks)]
    BY <1>4 DEF Admit
  <2>4. hotQueue' \in Seq(Tasks)
    BY <1>4 DEF Admit
  <2>5. hotTail' \in [SequenceIds -> Tasks \cup {NoTask}]
    BY <1>4 DEF Admit
  <2>6. predecessors' \in [Tasks -> SUBSET Tasks]
    <3>1. {hotTail[s] : s \in batch[t]} \ {NoTask} \in SUBSET Tasks
      OBVIOUS
    <3> QED BY <1>4, <3>1 DEF Admit
  <2>7. /\ ticket' \in [Tasks -> Nat] /\ remaining' \in [Tasks -> Int]
        /\ pending' \in Nat
        /\ submission' \in
             [Tasks -> {"new", "routing", "accepted", "rejected"}]
    BY <1>4, <2>1, <2>2 DEF Admit
  <2> QED
    BY <1>4, <2>3, <2>4, <2>5, <2>6, <2>7 DEF Admit, routingVars, WorkersOK
<1>5. ASSUME NEW w \in Writers, TakeCold(w) PROVE TypeInv'
  <2>1. Head(coldQueue[w]) \in Tasks /\ Tail(coldQueue[w]) \in Seq(Tasks)
    BY <1>5 DEF TakeCold
  <2>2. coldQueue' \in [Writers -> Seq(Tasks)]
    BY <1>5, <2>1 DEF TakeCold
  <2>3. WorkersOK'
    BY <1>5, <2>1, TakeType DEF TakeCold, WorkerPcs, Workers
  <2> QED
    BY <1>5, <2>2, <2>3
       DEF TakeCold, clientVars, routingVars, taskVars, WorkersOK
<1>6. ASSUME NEW w \in Writers, FinishCold(w) PROVE TypeInv'
  <2> DEFINE t == worker[w].task
  <2>1. t \in Tasks /\ w \in Workers
    BY <1>6 DEF FinishCold, At, Workers, WorkersOK
  <2>2. Cardinality(ColdBatch(t, w)) \in Nat
    <3>1. ColdBatch(t, w) \in SUBSET SequenceIds
      BY <2>1 DEF ColdBatch
    <3>2. IsFiniteSet(SequenceIds)
      BY ExecutorAssumption
    <3> QED BY <3>1, <3>2, CountType
  <2>3. PICK part \in ColdOutcomes(Cardinality(ColdBatch(t, w))) :
          result' = [result EXCEPT
                       ![t].storage = MergeStorage(result[t].storage, part)]
    BY <1>6 DEF FinishCold
  <2>4. MergeStorage(result[t].storage, part) \in Storage
    BY <2>1, <2>2, <2>3, MergeType, OutcomeType DEF Results
  <2>5. result' \in [Tasks -> Results]
    BY <2>1, <2>3, <2>4 DEF Results
  <2>6. WorkersOK'
    BY <1>6, <2>1, GotoType DEF FinishCold, WorkerPcs
  <2> QED
    BY <1>6, <2>5, <2>6
       DEF FinishCold, clientVars, routingVars, queueVars, WorkersOK
<1>7. ASSUME NEW h \in HotWorkers, TakeHot(h) PROVE TypeInv'
  <2>1. Head(hotQueue) \in Tasks /\ Tail(hotQueue) \in Seq(Tasks)
    BY <1>7 DEF TakeHot
  <2>2. WorkersOK'
    BY <1>7, <2>1, TakeType DEF TakeHot, WorkerPcs, Workers
  <2> QED
    BY <1>7, <2>1, <2>2
       DEF TakeHot, clientVars, routingVars, taskVars, WorkersOK
<1>8. ASSUME NEW h \in HotWorkers, StartHot(h) PROVE TypeInv'
  <2>1. h \in Workers /\ worker[h].task \in Tasks
    BY <1>8 DEF StartHot, At, Workers, WorkersOK
  <2>2. WorkersOK'
    BY <1>8, <2>1, GotoType DEF StartHot, WorkerPcs
  <2> QED
    BY <1>8, <2>2 DEF StartHot, clientVars, routingVars, queueVars, taskVars,
                      WorkersOK
<1>9. ASSUME NEW h \in HotWorkers, FinishHot(h) PROVE TypeInv'
  <2>1. h \in Workers /\ worker[h].task \in Tasks
    BY <1>9 DEF FinishHot, At, Workers, WorkersOK
  <2>2. WorkersOK'
    BY <1>9, <2>1, GotoType DEF FinishHot, WorkerPcs
  <2> QED
    BY <1>9, <2>1, <2>2
       DEF FinishHot, clientVars, routingVars, queueVars, WorkersOK
<1>10. ASSUME NEW h \in HotWorkers, CompleteHot(h) PROVE TypeInv'
  <2>1. h \in Workers /\ worker[h].task \in Tasks
    BY <1>10 DEF CompleteHot, At, Workers, WorkersOK
  <2>2. result' \in [Tasks -> Results]
    BY <1>10, <2>1 DEF CompleteHot, Results
  <2>3. WorkersOK'
    BY <1>10, <2>1, GotoType DEF CompleteHot, WorkerPcs
  <2> QED
    BY <1>10, <2>1, <2>2, <2>3
       DEF CompleteHot, clientVars, routingVars, queueVars, WorkersOK
<1>11. ASSUME NEW x \in Workers, CountLane(x) PROVE TypeInv'
  <2>1. worker[x].task \in Tasks
    BY <1>11 DEF CountLane, At, WorkersOK
  <2>2. remaining' \in [Tasks -> Int]
    BY <1>11, <2>1 DEF CountLane
  <2>3. Goto(x, "publishing") \/ Free(x)
    BY <1>11 DEF CountLane
  <2>4. WorkersOK'
    BY <2>1, <2>3, GotoType, FreeType DEF WorkerPcs
  <2> QED
    BY <1>11, <2>1, <2>2, <2>4
       DEF CountLane, clientVars, routingVars, queueVars, WorkersOK
<1>12. ASSUME NEW x \in Workers, Publish(x) PROVE TypeInv'
  <2>1. worker[x].task \in Tasks
    BY <1>12 DEF Publish, At, WorkersOK
  <2>2. WorkersOK'
    BY <1>12, <2>1, GotoType DEF Publish, WorkerPcs
  <2> QED
    BY <1>12, <2>1, <2>2
       DEF Publish, clientVars, routingVars, queueVars, WorkersOK
<1>13. ASSUME NEW x \in Workers, Release(x) PROVE TypeInv'
  <2>1. WorkersOK'
    BY <1>13, FreeType DEF Release
  <2> QED
    BY <1>13, <2>1
       DEF Release, clientVars, routingVars, taskVars, WorkersOK
<1>14. ASSUME NEW x \in Workers, Exit(x) PROVE TypeInv'
  <2>1. WorkersOK'
    BY <1>14, GotoType DEF Exit, WorkerPcs
  <2> QED
    BY <1>14, <2>1 DEF Exit, clientVars, routingVars, queueVars, taskVars,
                       WorkersOK
<1>15. CASE Stop
  BY <1>15 DEF Stop, clientVars, routingVars, taskVars, WorkersOK
<1>16. CASE UNCHANGED vars
  BY <1>16 DEF vars, clientVars, routingVars, queueVars, taskVars, WorkersOK
<1> QED
  BY <1>1, <1>2, <1>3, <1>4, <1>5, <1>6, <1>7, <1>8, <1>9, <1>10, <1>11,
     <1>12, <1>13, <1>14, <1>15, <1>16
     DEF Next, ClientStep, ColdStep, HotStep, LaneStep, Terminated

(* The state keeps its types: queues hold tasks, writers are writers, and  *)
(* counters count.                                                         *)
THEOREM TypeCorrect == Spec => []TypeOK
<1>1. TypeInv => TypeOK
  BY DEF TypeInv
<1> QED BY <1>1, InitType, StepType, PTL DEF Spec
-----------------------------------------------------------------------------
(***************************************************************************)
(* HotInOrder.  Only Admit touches tickets, tails and predecessors, and    *)
(* only StartHot lets a hot_update begin; every other step keeps the       *)
(* invariant because it neither admits nor starts anything.                *)
(***************************************************************************)
(* The invariant of the hot order holds before the first submission.       *)
LEMMA HotInit == Init => HotInv
<1> SUFFICES ASSUME Init PROVE HotInv
  OBVIOUS
<1>1. Admitted = {} /\ Cardinality(Admitted) = 0
  BY FS_EmptySet DEF Init, Admitted
<1>2. OnlyAdmitted
  BY DEF Init, OnlyAdmitted
<1>3. TicketsCount /\ TailsLast /\ ChainsComplete /\ HotInOrder
  BY <1>1 DEF Init, TicketsCount, TailsLast, ChainsComplete, HotInOrder, Earlier
<1> QED BY <1>2, <1>3 DEF HotInv

(* Of two tasks with tickets in order, both are admitted.                  *)
LEMMA EarlierAdmitted ==
  ASSUME TypeOK, TicketsCount, NEW t \in Tasks, NEW u \in Tasks, Earlier(t, u)
  PROVE  t \in Admitted /\ u \in Admitted
BY DEF TypeOK, TicketsCount, Earlier

(* A step that admits nothing and leaves tails and predecessors alone      *)
(* keeps the chains.                                                       *)
LEMMA ChainKept ==
  ASSUME TypeOK, TicketsCount, TailsLast, ChainsComplete, OnlyAdmitted,
         UNCHANGED <<ticket, hotTail, predecessors>>, Admitted' = Admitted,
         \A t \in Admitted : batch'[t] = batch[t]
  PROVE  TicketsCount' /\ TailsLast' /\ ChainsComplete'
<1>1. \A t, u \in Tasks : Earlier(t, u)' <=> Earlier(t, u)
  BY DEF Earlier
<1>2. TicketsCount'
  BY DEF TicketsCount
<1>3. TailsLast'
  BY <1>1 DEF TailsLast, Admitted, TypeOK
<1>4. ChainsComplete'
  <2> SUFFICES ASSUME NEW t \in Tasks, NEW u \in Tasks,
                      NEW s \in batch'[t] \cap batch'[u], Earlier(t, u)'
               PROVE  \E p \in predecessors[u] :
                        s \in batch'[p] /\ (t = p \/ Earlier(t, p)')
    BY DEF ChainsComplete
  <2>1. t \in Admitted /\ u \in Admitted
    BY <1>1, EarlierAdmitted
  <2>2. PICK p \in predecessors[u] :
               s \in batch[p] /\ (t = p \/ Earlier(t, p))
    BY <1>1, <2>1 DEF ChainsComplete
  <2>3. p \in Admitted /\ p \in Tasks
    BY <2>2 DEF OnlyAdmitted, Admitted
  <2> QED BY <1>1, <2>2, <2>3
<1> QED BY <1>2, <1>3, <1>4

(* A step that starts no hot_update keeps the hot order.                   *)
LEMMA OrderKept ==
  ASSUME TypeOK, TicketsCount, HotInOrder, UNCHANGED ticket,
         \A t \in Admitted : batch'[t] = batch[t],
         ordered \subseteq ordered',
         \A u \in Tasks : HotStarted(u)' => HotStarted(u)
  PROVE  HotInOrder'
<1> SUFFICES ASSUME NEW t \in Tasks, NEW u \in Tasks, Earlier(t, u)',
                    batch'[t] \cap batch'[u] # {}, HotStarted(u)'
             PROVE  t \in ordered'
  BY DEF HotInOrder
<1>1. Earlier(t, u)
  BY DEF Earlier
<1>2. batch[t] \cap batch[u] # {}
  BY <1>1, EarlierAdmitted
<1> QED BY <1>1, <1>2 DEF HotInOrder

(* A step of the workers only: nobody is admitted.                         *)
LEMMA WorkerStepKeepsHotInv ==
  ASSUME TypeInv, HotInv, UNCHANGED <<submission, batch>>,
         UNCHANGED <<ticket, hotTail, predecessors>>,
         OnlyAdmitted', ordered \subseteq ordered',
         \A u \in Tasks : HotStarted(u)' => HotStarted(u)
  PROVE  HotInv'
<1>1. Admitted' = Admitted
  BY DEF Admitted
<1>2. TicketsCount' /\ TailsLast' /\ ChainsComplete'
  BY <1>1, ChainKept DEF HotInv, TypeInv
<1>3. HotInOrder'
  BY OrderKept DEF HotInv, TypeInv
<1> QED BY <1>2, <1>3 DEF HotInv

(* A step of a caller that admits nobody.                                  *)
LEMMA ClientStepKeepsHotInv ==
  ASSUME TypeInv, HotInv, Admitted' = Admitted,
         \A t \in Admitted : batch'[t] = batch[t],
         UNCHANGED <<queueVars, taskVars, worker>>
  PROVE  HotInv'
<1>1. UNCHANGED <<ticket, hotTail, predecessors, coldQueue, hotQueue, ordered>>
  BY DEF queueVars, taskVars
<1>2. TicketsCount' /\ TailsLast' /\ ChainsComplete'
  BY <1>1, ChainKept DEF HotInv, TypeInv
<1>3. OnlyAdmitted'
  BY <1>1 DEF HotInv, OnlyAdmitted
<1>4. HotInOrder'
  BY <1>1, OrderKept DEF HotInv, TypeInv, HotStarted, At
<1> QED BY <1>2, <1>3, <1>4 DEF HotInv

(* trySubmit's critical section links the task behind the tails of its     *)
(* sequences, and so extends every chain by it.                            *)
LEMMA AdmitKeepsHotInv ==
  ASSUME TypeInv, HotInv, NEW t \in Tasks, Admit(t)
  PROVE  HotInv'
<1> USE DEF HotInv, TypeInv
<1> DEFINE EarlierNext(u, v) == ticket'[u] # 0 /\ ticket'[u] < ticket'[v]
<1>1. /\ Admitted' = Admitted \cup {t} /\ t \notin Admitted
      /\ batch' = batch
  BY DEF Admit, Admitted, TypeOK
<1>2. /\ Cardinality(Admitted) \in Nat
      /\ Cardinality(Admitted') = Cardinality(Admitted) + 1
  <2>1. Admitted \in SUBSET Tasks
    BY DEF Admitted
  <2>2. IsFiniteSet(Tasks)
    BY ExecutorAssumption
  <2>3. IsFiniteSet(Admitted) /\ Cardinality(Admitted) \in Nat
    BY <2>1, <2>2, CountType
  <2> QED BY <1>1, <2>3, FS_AddElement
<1>3. ticket' = [ticket EXCEPT ![t] = Cardinality(Admitted) + 1]
  BY DEF Admit
<1>4. TicketsCount'
  BY <1>1, <1>2, <1>3 DEF TicketsCount, TypeOK
<1>5. /\ \A u \in Admitted : EarlierNext(u, t)
      /\ \A u, v \in Admitted : EarlierNext(u, v) <=> Earlier(u, v)
      /\ \A u \in Tasks : ~EarlierNext(t, u)
      /\ \A u \in Tasks, v \in Tasks : EarlierNext(u, v) /\ v # t => Earlier(u, v)
  <2>1. /\ \A u \in Tasks : u # t => ticket'[u] = ticket[u]
        /\ ticket'[t] = Cardinality(Admitted) + 1
        /\ \A u \in Tasks : ticket[u] \in Nat
    BY <1>3 DEF TypeOK
  <2>2. \A u \in Tasks : /\ ticket[u] # 0 <=> u \in Admitted
                         /\ ticket[u] <= Cardinality(Admitted)
    BY DEF TicketsCount
  <2>3. Admitted \subseteq Tasks
    BY DEF Admitted
  <2> QED BY <1>1, <1>2, <2>1, <2>2, <2>3 DEF Earlier
<1>6. TailsLast'
  <2>1. ASSUME NEW s \in SequenceIds, s \in batch[t]
        PROVE  /\ hotTail'[s] = t /\ t # NoTask /\ t \in Admitted'
               /\ \A u \in Admitted' : u = t \/ EarlierNext(u, t)
    BY <1>1, <1>5, <2>1, ExecutorAssumption DEF Admit
  <2>2. ASSUME NEW s \in SequenceIds, s \notin batch[t]
        PROVE  /\ hotTail'[s] = hotTail[s]
               /\ hotTail[s] = NoTask => \A u \in Admitted' : s \notin batch[u]
               /\ hotTail[s] # NoTask =>
                    /\ hotTail[s] \in Admitted' /\ s \in batch[hotTail[s]]
                    /\ \A u \in Admitted' : s \in batch[u] =>
                         u = hotTail[s] \/ EarlierNext(u, hotTail[s])
    <3>1. hotTail'[s] = hotTail[s]
      BY <2>2 DEF Admit
    <3>2. CASE hotTail[s] = NoTask
      BY <1>1, <2>2, <3>1, <3>2 DEF TailsLast
    <3>3. CASE hotTail[s] # NoTask
      <4>1. hotTail[s] \in Admitted /\ s \in batch[hotTail[s]]
        BY <3>3 DEF TailsLast
      <4>2. \A u \in Admitted : s \in batch[u] =>
              u = hotTail[s] \/ EarlierNext(u, hotTail[s])
        BY <1>5, <3>3, <4>1 DEF TailsLast
      <4> QED BY <1>1, <2>2, <3>1, <3>3, <4>1, <4>2
    <3> QED BY <3>2, <3>3
  <2>3. ASSUME NEW s \in SequenceIds
        PROVE  IF hotTail'[s] = NoTask
               THEN \A u \in Admitted' : s \notin batch'[u]
               ELSE /\ hotTail'[s] \in Admitted' /\ s \in batch'[hotTail'[s]]
                    /\ \A u \in Admitted' : s \in batch'[u] =>
                         u = hotTail'[s] \/ EarlierNext(u, hotTail'[s])
    <3>1. CASE s \in batch[t]
      BY <1>1, <2>1, <3>1
    <3>2. CASE s \notin batch[t]
      BY <1>1, <2>2, <3>2
    <3> QED BY <3>1, <3>2
  <2> QED BY <2>3 DEF TailsLast, Earlier
<1>7. ChainsComplete'
  <2> SUFFICES ASSUME NEW u \in Tasks, NEW v \in Tasks,
                      NEW s \in batch[u] \cap batch[v], EarlierNext(u, v)
               PROVE  \E p \in predecessors'[v] :
                        s \in batch[p] /\ (u = p \/ EarlierNext(u, p))
    BY <1>1 DEF ChainsComplete, Earlier
  <2>1. s \in SequenceIds
    BY DEF TypeOK
  <2>2. CASE v = t
    <3>1. u \in Admitted
      BY <1>1, <1>4, <1>5, <2>2 DEF TicketsCount
    <3>2. hotTail[s] # NoTask /\ hotTail[s] \in predecessors'[t]
      BY <2>1, <2>2, <3>1 DEF TailsLast, Admit, TypeOK
    <3>3. /\ hotTail[s] \in Admitted /\ s \in batch[hotTail[s]]
          /\ u = hotTail[s] \/ Earlier(u, hotTail[s])
      BY <2>1, <3>1, <3>2 DEF TailsLast
    <3> QED BY <1>5, <2>2, <3>1, <3>2, <3>3
  <2>3. CASE v # t
    <3>1. Earlier(u, v) /\ u \in Admitted /\ v \in Admitted
      BY <1>5, <2>3, EarlierAdmitted
    <3>2. PICK p \in predecessors[v] :
                 s \in batch[p] /\ (u = p \/ Earlier(u, p))
      BY <3>1 DEF ChainsComplete
    <3>3. p \in Admitted /\ predecessors'[v] = predecessors[v]
      BY <2>3, <3>2 DEF OnlyAdmitted, Admit, TypeOK
    <3> QED BY <1>5, <3>1, <3>2, <3>3
  <2> QED BY <2>2, <2>3
<1>8. OnlyAdmitted'
  <2>1. \A i \in 1 .. Len(hotQueue') : hotQueue'[i] \in Admitted'
    <3>1. hotQueue' = Append(hotQueue, t)
      BY DEF Admit
    <3>2. hotQueue \in Seq(Tasks)
      BY DEF TypeOK
    <3> QED BY <1>1, <3>1, <3>2 DEF OnlyAdmitted
  <2>2. \A w \in Writers : \A i \in 1 .. Len(coldQueue'[w]) :
          coldQueue'[w][i] \in Admitted'
    BY <1>1 DEF OnlyAdmitted, Admit, TypeOK
  <2>3. \A u \in Tasks : predecessors'[u] \subseteq Admitted'
    <3>1. \A s \in SequenceIds : hotTail[s] \in Admitted \cup {NoTask}
      BY DEF TailsLast
    <3>2. {hotTail[s] : s \in batch[t]} \ {NoTask} \subseteq Admitted
      BY <3>1 DEF TypeOK
    <3> QED BY <1>1, <3>2 DEF OnlyAdmitted, Admit, TypeOK
  <2>4. worker' = worker /\ ordered' = ordered
    BY DEF Admit
  <2> QED BY <1>1, <2>1, <2>2, <2>3, <2>4 DEF OnlyAdmitted
<1>9. HotInOrder'
  <2> SUFFICES ASSUME NEW u \in Tasks, NEW v \in Tasks, EarlierNext(u, v),
                      batch[u] \cap batch[v] # {}, HotStarted(v)'
               PROVE  u \in ordered
    BY <1>1 DEF HotInOrder, Earlier, Admit
  <2>1. HotStarted(v)
    BY DEF HotStarted, At, Admit
  <2>2. v # t
    BY <1>1, <2>1 DEF HotStarted, OnlyAdmitted, At, Workers
  <2> QED BY <1>5, <2>1, <2>2 DEF HotInOrder
<1> QED BY <1>4, <1>6, <1>7, <1>8, <1>9

(* hot_update begins once the predecessors are ordered: each of them has   *)
(* been started, so by HotInOrder everything earlier is ordered too.       *)
LEMMA StartKeepsHotInv ==
  ASSUME TypeInv, HotInv, NEW h \in HotWorkers, StartHot(h)
  PROVE  HotInv'
<1> USE DEF HotInv, TypeInv
<1> DEFINE t == worker[h].task
<1>1. /\ UNCHANGED <<submission, batch, ticket, hotTail, predecessors>>
      /\ UNCHANGED <<coldQueue, hotQueue, ordered>>
  BY DEF StartHot, clientVars, queueVars, taskVars
<1>2. Admitted' = Admitted
  BY <1>1 DEF Admitted
<1>3. h \in Workers /\ t \in Admitted /\ t \in Tasks
  BY DEF StartHot, At, OnlyAdmitted, Workers, Admitted
<1>4. /\ \A x \in Workers : worker'[x].task = worker[x].task
      /\ \A x \in Workers : x # h => worker'[x] = worker[x]
      /\ worker'[h].pc = "running"
  BY <1>3 DEF StartHot, Goto, WorkersOK
<1>5. OnlyAdmitted'
  BY <1>1, <1>2, <1>3, <1>4 DEF OnlyAdmitted
<1>6. TicketsCount' /\ TailsLast' /\ ChainsComplete'
  BY <1>1, <1>2, ChainKept
<1>7. HotInOrder'
  <2> SUFFICES ASSUME NEW u \in Tasks, NEW v \in Tasks, Earlier(u, v),
                      NEW s \in batch[u] \cap batch[v], HotStarted(v)'
               PROVE  u \in ordered
    BY <1>1 DEF HotInOrder, Earlier
  <2>1. CASE v = t
    <3>1. PICK p \in predecessors[t] :
                 s \in batch[p] /\ (u = p \/ Earlier(u, p))
      BY <2>1 DEF ChainsComplete
    <3>2. p \in ordered /\ p \in Tasks
      BY <1>3, <3>1 DEF StartHot, TypeOK
    <3> QED BY <3>1, <3>2 DEF HotInOrder, HotStarted
  <2>2. CASE v # t
    <3>1. HotStarted(v)
      BY <1>1, <1>3, <1>4, <2>2 DEF HotStarted, At, Workers
    <3> QED BY <3>1 DEF HotInOrder
  <2> QED BY <2>1, <2>2
<1> QED BY <1>5, <1>6, <1>7
(* A worker that keeps its task or frees itself stays with admitted tasks. *)
LEMMA GotoAdmitted ==
  ASSUME TypeInv, OnlyAdmitted, NEW x \in Workers, NEW pc,
         Goto(x, pc) \/ Free(x), worker[x].pc \notin {"idle", "exited"}
  PROVE  \A y \in Workers : worker'[y].pc \notin {"idle", "exited"}
                            => worker'[y].task \in Admitted
<1>1. worker \in [Workers -> [pc : WorkerPcs, task : Tasks \cup {NoTask}]]
  BY DEF TypeInv, WorkersOK
<1>2. CASE Goto(x, pc)
  <2>1. \A y \in Workers : /\ worker'[y].task = worker[y].task
                           /\ y # x => worker'[y].pc = worker[y].pc
    BY <1>1, <1>2 DEF Goto
  <2> QED BY <2>1 DEF OnlyAdmitted
<1>3. CASE Free(x)
  BY <1>1, <1>3 DEF Free, OnlyAdmitted
<1> QED BY <1>2, <1>3

(* Unless a hot worker enters "running", no hot_update has begun.          *)
LEMMA NothingStarted ==
  ASSUME TypeInv, NEW x \in Workers, NEW pc, pc # "running",
         Goto(x, pc) \/ Free(x), UNCHANGED ordered
  PROVE  \A u \in Tasks : HotStarted(u)' => HotStarted(u)
<1>1. worker \in [Workers -> [pc : WorkerPcs, task : Tasks \cup {NoTask}]]
  BY DEF TypeInv, WorkersOK
<1>2. \A y \in Workers : worker'[y].pc = "running" => worker'[y] = worker[y]
  BY <1>1 DEF Goto, Free
<1> QED BY <1>2 DEF HotStarted, At, Workers

(* Every step keeps the invariant of the hot order.                        *)
LEMMA StepKeepsHotInv == TypeInv /\ HotInv /\ [Next]_vars => HotInv'
<1> SUFFICES ASSUME TypeInv, HotInv, [Next]_vars PROVE HotInv'
  OBVIOUS
<1>1. ASSUME NEW t \in Tasks, ClientStep(t) PROVE HotInv'
  <2>1. CASE Submit(t)
    BY <2>1, ClientStepKeepsHotInv DEF Submit, Admitted, TypeInv, TypeOK
  <2>2. CASE Route(t)
    BY <2>2, ClientStepKeepsHotInv DEF Route, Admitted
  <2>3. CASE Reject(t)
    BY <2>3, ClientStepKeepsHotInv DEF Reject, Admitted, TypeInv, TypeOK
  <2> QED BY <1>1, <2>1, <2>2, <2>3, AdmitKeepsHotInv DEF ClientStep
<1>2. ASSUME NEW w \in Writers, TakeCold(w) PROVE HotInv'
  <2>1. /\ UNCHANGED <<submission, batch, ticket, hotTail, predecessors>>
        /\ UNCHANGED <<hotQueue, ordered>>
    BY <1>2 DEF TakeCold, clientVars, taskVars
  <2>2. Admitted' = Admitted
    BY <2>1 DEF Admitted
  <2>3. w \in Workers /\ w \notin HotWorkers
    BY WorkersDisjoint DEF Workers
  <2>4. \A u \in Tasks : HotStarted(u)' => HotStarted(u)
    BY <1>2, <2>1, <2>3 DEF TakeCold, HotStarted, At, Workers, TypeInv,
                            WorkersOK
  <2>5. Head(coldQueue[w]) \in Admitted
    BY <1>2 DEF TakeCold, TypeInv, TypeOK, HotInv, OnlyAdmitted
  <2>6. \A v \in Writers : \A i \in 1 .. Len(coldQueue'[v]) :
          coldQueue'[v][i] \in Admitted
    BY <1>2 DEF TakeCold, TypeInv, TypeOK, HotInv, OnlyAdmitted
  <2>7. \A x \in Workers : worker'[x].pc \notin {"idle", "exited"}
                           => worker'[x].task \in Admitted
    BY <1>2, <2>5 DEF TakeCold, TypeInv, WorkersOK, HotInv, OnlyAdmitted
  <2>8. OnlyAdmitted'
    BY <2>1, <2>2, <2>6, <2>7 DEF HotInv, OnlyAdmitted
  <2> QED BY <2>1, <2>4, <2>8, WorkerStepKeepsHotInv
<1>3. ASSUME NEW h \in HotWorkers, TakeHot(h) PROVE HotInv'
  <2>1. /\ UNCHANGED <<submission, batch, ticket, hotTail, predecessors>>
        /\ UNCHANGED <<coldQueue, ordered>>
    BY <1>3 DEF TakeHot, clientVars, taskVars
  <2>2. Admitted' = Admitted
    BY <2>1 DEF Admitted
  <2>3. h \in Workers
    BY DEF Workers
  <2>4. \A u \in Tasks : HotStarted(u)' => HotStarted(u)
    BY <1>3, <2>1, <2>3 DEF TakeHot, HotStarted, At, Workers, TypeInv,
                            WorkersOK
  <2>5. Head(hotQueue) \in Admitted
    BY <1>3 DEF TakeHot, TypeInv, TypeOK, HotInv, OnlyAdmitted
  <2>6. \A i \in 1 .. Len(hotQueue') : hotQueue'[i] \in Admitted
    BY <1>3 DEF TakeHot, TypeInv, TypeOK, HotInv, OnlyAdmitted
  <2>7. \A x \in Workers : worker'[x].pc \notin {"idle", "exited"}
                           => worker'[x].task \in Admitted
    BY <1>3, <2>5 DEF TakeHot, TypeInv, WorkersOK, HotInv, OnlyAdmitted
  <2>8. OnlyAdmitted'
    BY <2>1, <2>2, <2>6, <2>7 DEF HotInv, OnlyAdmitted
  <2> QED BY <2>1, <2>4, <2>8, WorkerStepKeepsHotInv
<1>4. ASSUME NEW h \in HotWorkers, FinishHot(h) PROVE HotInv'
  <2>1. /\ UNCHANGED <<submission, batch, ticket, hotTail, predecessors>>
        /\ UNCHANGED <<coldQueue, hotQueue>>
    BY <1>4 DEF FinishHot, clientVars, queueVars
  <2>2. Admitted' = Admitted
    BY <2>1 DEF Admitted
  <2>3. h \in Workers /\ worker[h].task \in Admitted
    BY <1>4 DEF FinishHot, At, Workers, HotInv, OnlyAdmitted
  <2>4. \A u \in Tasks : HotStarted(u)' => HotStarted(u)
    BY <1>4, <2>3 DEF FinishHot, Goto, HotStarted, At, Workers, TypeInv,
                      WorkersOK
  <2>5. \A x \in Workers : worker'[x].pc \notin {"idle", "exited"}
                           => worker'[x].task \in Admitted
    BY <1>4, <2>3, GotoAdmitted DEF FinishHot, At, HotInv
  <2>6. OnlyAdmitted'
    BY <1>4, <2>1, <2>2, <2>3, <2>5 DEF FinishHot, HotInv, OnlyAdmitted
  <2>7. ordered \subseteq ordered'
    BY <1>4 DEF FinishHot
  <2> QED BY <2>1, <2>4, <2>6, <2>7, WorkerStepKeepsHotInv
<1>5. ASSUME NEW x \in Workers, NEW pc \in WorkerPcs, pc # "running",
             worker[x].pc \notin {"idle", "exited"} \/ pc = "exited",
             Goto(x, pc) \/ Free(x),
             UNCHANGED <<submission, batch, ticket, hotTail, predecessors,
                         coldQueue, hotQueue, ordered>>
      PROVE  HotInv'
  <2>1. Admitted' = Admitted
    BY <1>5 DEF Admitted
  <2>2. \A u \in Tasks : HotStarted(u)' => HotStarted(u)
    BY <1>5, NothingStarted
  <2>3. \A y \in Workers : worker'[y].pc \notin {"idle", "exited"}
                           => worker'[y].task \in Admitted
    <3>1. CASE worker[x].pc \notin {"idle", "exited"}
      BY <1>5, <3>1, GotoAdmitted DEF HotInv
    <3>2. CASE pc = "exited"
      BY <1>5, <3>2 DEF Goto, Free, TypeInv, WorkersOK, HotInv, OnlyAdmitted
    <3> QED BY <1>5, <3>1, <3>2
  <2>4. OnlyAdmitted'
    BY <1>5, <2>1, <2>3 DEF HotInv, OnlyAdmitted
  <2> QED BY <1>5, <2>2, <2>4, WorkerStepKeepsHotInv
<1>6. ASSUME NEW w \in Writers, FinishCold(w) PROVE HotInv'
  BY <1>5, <1>6 DEF FinishCold, At, Workers, WorkerPcs, clientVars, queueVars
<1>7. ASSUME NEW h \in HotWorkers, CompleteHot(h) PROVE HotInv'
  BY <1>5, <1>7 DEF CompleteHot, At, Workers, WorkerPcs, clientVars, queueVars
<1>8. ASSUME NEW x \in Workers, LaneStep(x) PROVE HotInv'
  <2>1. CASE CountLane(x)
    <3>1. Goto(x, "publishing") \/ Free(x)
      BY <2>1 DEF CountLane
    <3> QED BY <1>5, <2>1, <3>1 DEF CountLane, At, WorkerPcs, clientVars,
                                    queueVars
  <2>2. CASE Publish(x)
    BY <1>5, <2>2 DEF Publish, At, WorkerPcs, clientVars, queueVars
  <2>3. CASE Release(x)
    <3>1. "idle" \in WorkerPcs
      BY DEF WorkerPcs
    <3> QED BY <1>5, <2>3, <3>1 DEF Release, At, clientVars, taskVars
  <2>4. CASE Exit(x)
    BY <1>5, <2>4 DEF Exit, At, WorkerPcs, clientVars, queueVars, taskVars
  <2> QED BY <1>8, <2>1, <2>2, <2>3, <2>4 DEF LaneStep
<1>9. ASSUME Stop \/ UNCHANGED vars PROVE HotInv'
  <2>1. /\ UNCHANGED <<submission, batch, ticket, hotTail, predecessors>>
        /\ UNCHANGED <<coldQueue, hotQueue, ordered, worker>>
    BY <1>9 DEF Stop, vars, clientVars, queueVars, taskVars
  <2>2. Admitted' = Admitted
    BY <2>1 DEF Admitted
  <2>3. OnlyAdmitted'
    BY <2>1, <2>2 DEF HotInv, OnlyAdmitted
  <2>4. \A u \in Tasks : HotStarted(u)' => HotStarted(u)
    BY <2>1 DEF HotStarted, At
  <2> QED BY <2>1, <2>3, <2>4, WorkerStepKeepsHotInv
<1> QED
  BY <1>1, <1>2, <1>3, <1>4, <1>6, <1>7, <1>8, <1>9, StartKeepsHotInv
     DEF Next, ColdStep, HotStep, Terminated

(* On every sequence the hot windows are updated in admission order, for   *)
(* any number of hot workers: hotWorkerLoop's wait on the predecessors     *)
(* recorded by trySubmit is enough.                                        *)
THEOREM HotOrder == Spec => []HotInOrder
<1>1. Init => TypeInv /\ HotInv
  BY InitType, HotInit
<1>2. TypeInv /\ HotInv /\ [Next]_vars => (TypeInv /\ HotInv)'
  BY StepType, StepKeepsHotInv
<1>3. TypeInv /\ HotInv => HotInOrder
  BY DEF HotInv
<1> QED BY <1>1, <1>2, <1>3, PTL DEF Spec
-----------------------------------------------------------------------------
(***************************************************************************)
(* A lane is a cold writer or the hot lane; one number stands for each.    *)
(***************************************************************************)
HotLane == NoWriter
Lanes == 0 .. ColdCount
LaneOf(x) == IF x \in Writers THEN x ELSE HotLane
LaneQueue(l) == IF l = HotLane THEN hotQueue ELSE coldQueue[l]
HasLane(t, l) == l = HotLane \/ ColdBatch(t, l) # {}

(* A worker has a lane of its task in hand until it has counted the lane;  *)
(* the last one then fulfils the promise and gives back the slot.          *)
OpenPcs == {"waiting", "running", "announcing", "counting"}
LastPcs == {"publishing", "releasing"}
InHand(x, t, l) ==
  LaneOf(x) = l /\ worker[x].pc \in OpenPcs /\ worker[x].task = t
Closing(x, t) == worker[x].pc \in LastPcs /\ worker[x].task = t
Writing(w, t) == worker[w].pc = "running" /\ worker[w].task = t

Queued(t, l) == \E i \in 1 .. Len(LaneQueue(l)) : LaneQueue(l)[i] = t
InLane(t, l) == Queued(t, l) \/ \E x \in Workers : InHand(x, t, l)
OpenLanes(t) == {l \in Lanes : InLane(t, l)}

(* A sequence keeps its writer, and an admitted task is fully routed.      *)
RoutesFixed ==
  /\ \A t \in Tasks, s \in SequenceIds :
       route[t][s] # NoWriter => route[t][s] = sequenceWriters[s]
  /\ \A t \in Admitted : \A s \in batch[t] : route[t][s] # NoWriter

(* Queues hold tasks with work in the lane, in admission order.            *)
QueuesSorted ==
  \A l \in Lanes :
    /\ \A t \in Tasks : Queued(t, l) => HasLane(t, l)
    /\ \A i, j \in 1 .. Len(LaneQueue(l)) :
         i < j => ticket[LaneQueue(l)[i]] < ticket[LaneQueue(l)[j]]

(* What a worker has in hand has left the queue, ahead of everything that  *)
(* is still there, and no two workers have the same lane of a task.        *)
HandsApart ==
  \A x \in Workers, t \in Tasks, l \in Lanes :
    InHand(x, t, l) =>
      /\ HasLane(t, l)
      /\ \A u \in Tasks : Queued(u, l) => ticket[t] < ticket[u]
      /\ \A y \in Workers : InHand(y, t, l) => x = y

(* Tasks leave a cold queue in admission order.                            *)
FrontFirst ==
  \A w \in Writers, u \in Tasks, v \in Tasks :
    /\ u \in Admitted /\ HasLane(u, w) /\ ~Queued(u, w)
    /\ Queued(v, w) \/ Writing(w, v)
    => u = v \/ ticket[u] < ticket[v]

LaneInv == RoutesFixed /\ QueuesSorted /\ HandsApart /\ FrontFirst

(* remaining_lanes counts the lanes still open.                            *)
LanesCounted == \A t \in Tasks : remaining[t] = Cardinality(OpenLanes(t))

(* One worker finishes a task, after its last lane was counted.            *)
OneFinisher ==
  /\ \A x \in Workers, t \in Tasks :
       Closing(x, t) =>
         /\ remaining[t] = 0
         /\ t \in completed <=> worker[x].pc = "releasing"
         /\ \A y \in Workers : Closing(y, t) => x = y
  /\ \A t \in completed : t \in Admitted /\ remaining[t] = 0

CountInv == LanesCounted /\ OneFinisher /\ SlotsExact
-----------------------------------------------------------------------------
(* The lanes are the writers and one more.                                 *)
LEMMA LanesAre ==
  /\ Lanes = Writers \cup {HotLane} /\ HotLane \notin Writers
  /\ IsFiniteSet(Lanes)
  /\ \A x \in Workers : LaneOf(x) \in Lanes
  /\ \A w \in Writers : LaneOf(w) = w /\ w \in Workers /\ w # HotLane
                        /\ w \notin HotWorkers
  /\ \A h \in HotWorkers : LaneOf(h) = HotLane /\ h \in Workers
                           /\ h \notin Writers
  /\ \A x \in Workers : x \in Writers \/ x \in HotWorkers
  /\ \A w \in Writers : LaneQueue(w) = coldQueue[w]
  /\ LaneQueue(HotLane) = hotQueue
<1>1. Lanes = Writers \cup {HotLane} /\ HotLane \notin Writers
  BY ExecutorAssumption DEF Lanes, Writers, HotLane, NoWriter
<1>2. IsFiniteSet(Lanes)
  <2>1. 0 \in Int /\ ColdCount \in Int
    BY ExecutorAssumption
  <2> QED BY <2>1, FS_Interval DEF Lanes
<1> QED BY <1>1, <1>2, WorkersDisjoint DEF Workers, LaneOf, LaneQueue

(* Queues of lanes hold admitted tasks.                                    *)
LEMMA LaneQueueType ==
  ASSUME TypeInv, OnlyAdmitted, NEW l \in Lanes
  PROVE  /\ LaneQueue(l) \in Seq(Tasks)
         /\ Len(LaneQueue(l)) \in Nat
         /\ \A i \in 1 .. Len(LaneQueue(l)) :
              LaneQueue(l)[i] \in Admitted /\ LaneQueue(l)[i] \in Tasks
<1>1. CASE l = HotLane
  BY <1>1, LanesAre DEF TypeInv, TypeOK, OnlyAdmitted, Admitted
<1>2. CASE l \in Writers
  BY <1>2, LanesAre DEF TypeInv, TypeOK, OnlyAdmitted, Admitted
<1> QED BY <1>1, <1>2, LanesAre

(* A task in a lane is admitted.                                           *)
LEMMA LaneAdmitted ==
  ASSUME TypeInv, OnlyAdmitted, NEW t, NEW l \in Lanes, InLane(t, l)
  PROVE  t \in Admitted /\ t \in Tasks
<1>1. CASE Queued(t, l)
  BY <1>1, LaneQueueType DEF Queued
<1>2. CASE \E x \in Workers : InHand(x, t, l)
  BY <1>2 DEF OnlyAdmitted, InHand, OpenPcs, Admitted
<1> QED BY <1>1, <1>2 DEF InLane

(* What one step does to the workers.                                      *)
LEMMA GotoShape ==
  ASSUME TypeInv, NEW x \in Workers, NEW pc, Goto(x, pc)
  PROVE  /\ worker'[x].pc = pc /\ worker'[x].task = worker[x].task
         /\ \A y \in Workers : y # x => worker'[y] = worker[y]
BY DEF TypeInv, WorkersOK, Goto

(* A freed worker is idle.                                                 *)
LEMMA FreeShape ==
  ASSUME TypeInv, NEW x \in Workers, Free(x)
  PROVE  /\ worker'[x].pc = "idle"
         /\ \A y \in Workers : y # x => worker'[y] = worker[y]
BY DEF TypeInv, WorkersOK, Free

(* A worker that takes a task has it.                                      *)
LEMMA TakeShape ==
  ASSUME TypeInv, NEW x \in Workers, NEW pc, NEW t,
         worker' = [worker EXCEPT ![x] = [pc |-> pc, task |-> t]]
  PROVE  /\ worker'[x].pc = pc /\ worker'[x].task = t
         /\ \A y \in Workers : y # x => worker'[y] = worker[y]
BY DEF TypeInv, WorkersOK

(* A step that takes nothing in hand that was not there before.            *)
NothingTaken ==
  /\ \A x \in Workers, t \in Tasks, l \in Lanes :
       InHand(x, t, l)' => InHand(x, t, l)
  /\ \A w \in Writers, t \in Tasks : Writing(w, t)' => Writing(w, t)

(* A step of a caller changes only what is not admitted yet.               *)
AdmittedFixed ==
  /\ Admitted' = Admitted
  /\ \A t \in Admitted : batch'[t] = batch[t] /\ route'[t] = route[t]

(* The cold batches of admitted tasks stay the same.                       *)
LEMMA LanesFixed ==
  ASSUME AdmittedFixed
  PROVE  \A t \in Admitted : \A l \in Lanes : HasLane(t, l)' <=> HasLane(t, l)
BY DEF AdmittedFixed, HasLane, ColdBatch

(* While the queues stay, so do their elements.                            *)
LEMMA QueuesFixed ==
  ASSUME UNCHANGED <<coldQueue, hotQueue>>
  PROVE  \A l : LaneQueue(l)' = LaneQueue(l)
                /\ \A t : Queued(t, l)' <=> Queued(t, l)
BY DEF LaneQueue, Queued

(* A step that neither queues nor takes anything keeps the order of the    *)
(* lanes.                                                                  *)
LEMMA QuietLanes ==
  ASSUME TypeInv, OnlyAdmitted, LaneInv, AdmittedFixed, NothingTaken,
         UNCHANGED <<coldQueue, hotQueue, ticket>>
  PROVE  QueuesSorted' /\ HandsApart' /\ FrontFirst'
<1>1. \A t \in Tasks, l \in Lanes : InLane(t, l) => t \in Admitted
  BY LaneAdmitted
<1>2. QueuesSorted'
  BY <1>1, LanesFixed, QueuesFixed DEF LaneInv, QueuesSorted, InLane
<1>3. HandsApart'
  BY <1>1, LanesFixed, QueuesFixed DEF LaneInv, HandsApart, NothingTaken, InLane
<1>4. FrontFirst'
  BY LanesFixed, LanesAre, QueuesFixed
     DEF LaneInv, FrontFirst, NothingTaken, AdmittedFixed
<1> QED BY <1>2, <1>3, <1>4
-----------------------------------------------------------------------------
(* Worker x takes the head t of the queue of its lane l.                   *)
TakesHead(x, t, l) ==
  /\ l = LaneOf(x) /\ worker[x].pc = "idle"
  /\ LaneQueue(l) # <<>> /\ t = Head(LaneQueue(l))
  /\ LaneQueue(l)' = Tail(LaneQueue(l))
  /\ \A k \in Lanes : k # l => LaneQueue(k)' = LaneQueue(k)
  /\ worker'[x].pc \in {"waiting", "running"} /\ worker'[x].task = t
  /\ \A y \in Workers : y # x => worker'[y] = worker[y]
  /\ UNCHANGED <<clientVars, routingVars, ticket>>

(* Both kinds of workers do so.                                            *)
LEMMA TakeColdIs ==
  ASSUME TypeInv, NEW w \in Writers, TakeCold(w)
  PROVE  /\ TakesHead(w, Head(coldQueue[w]), w) /\ worker'[w].pc = "running"
         /\ UNCHANGED <<hotQueue, taskVars, pending>>
<1>1. w \in Workers
  BY LanesAre
<1>2. /\ worker[w].pc = "idle" /\ coldQueue[w] # <<>>
      /\ worker' = [worker EXCEPT ![w] = [pc |-> "running",
                                          task |-> Head(coldQueue[w])]]
      /\ coldQueue' = [coldQueue EXCEPT ![w] = Tail(coldQueue[w])]
      /\ UNCHANGED <<clientVars, routingVars, hotQueue, ticket, taskVars, pending>>
  BY DEF TakeCold, At
<1>3. /\ coldQueue'[w] = Tail(coldQueue[w])
      /\ \A v \in Writers : v # w => coldQueue'[v] = coldQueue[v]
  BY <1>2 DEF TypeInv, TypeOK
<1>4. /\ LaneQueue(w) = coldQueue[w] /\ LaneQueue(w)' = coldQueue'[w]
      /\ \A k \in Lanes : k # w => LaneQueue(k)' = LaneQueue(k)
  BY <1>2, <1>3, LanesAre DEF LaneQueue
<1>5. /\ worker'[w].pc = "running" /\ worker'[w].task = Head(coldQueue[w])
      /\ \A y \in Workers : y # w => worker'[y] = worker[y]
  BY <1>1, <1>2, TakeShape
<1> QED BY <1>1, <1>2, <1>3, <1>4, <1>5, LanesAre DEF TakesHead

(* Hot workers take from the one hot queue.                                *)
LEMMA TakeHotIs ==
  ASSUME TypeInv, NEW h \in HotWorkers, TakeHot(h)
  PROVE  TakesHead(h, Head(hotQueue), HotLane) /\ UNCHANGED <<coldQueue, taskVars, pending>>
<1>1. h \in Workers
  BY LanesAre
<1>2. /\ worker[h].pc = "idle" /\ hotQueue # <<>>
      /\ worker' = [worker EXCEPT ![h] = [pc |-> "waiting",
                                          task |-> Head(hotQueue)]]
      /\ hotQueue' = Tail(hotQueue)
      /\ UNCHANGED <<clientVars, routingVars, coldQueue, ticket, taskVars, pending>>
  BY DEF TakeHot, At
<1>3. /\ LaneQueue(HotLane) = hotQueue /\ LaneQueue(HotLane)' = hotQueue'
      /\ \A k \in Lanes : k # HotLane => LaneQueue(k)' = LaneQueue(k)
  BY <1>2 DEF LaneQueue
<1> QED BY <1>1, <1>2, <1>3, TakeShape, LanesAre, ZenonT(30) DEF TakesHead

(* The head moves from the queue into the hands of the worker.             *)
LEMMA TakeMoves ==
  ASSUME TypeInv, OnlyAdmitted, TicketsCount, QueuesSorted,
         NEW x \in Workers, NEW t, NEW l, TakesHead(x, t, l)
  PROVE  /\ l \in Lanes /\ t \in Tasks /\ t \in Admitted /\ Queued(t, l)
         /\ \A u \in Tasks : Queued(u, l)' <=> Queued(u, l) /\ u # t
         /\ \A u \in Tasks : Queued(u, l)' => ticket[t] < ticket[u]
         /\ \A u \in Tasks, k \in Lanes : k # l => (Queued(u, k)' <=> Queued(u, k))
         /\ \A y \in Workers, u \in Tasks, k \in Lanes :
              InHand(y, u, k)' <=> InHand(y, u, k) \/ (y = x /\ u = t /\ k = l)
         /\ \A y \in Workers : y # x => worker'[y] = worker[y]
         /\ worker[x].pc = "idle" /\ worker'[x].task = t
         /\ worker'[x].pc \in {"waiting", "running"}
<1> DEFINE q == LaneQueue(l)
           r == LaneQueue(l)'
<1>1. /\ l \in Lanes /\ q \in Seq(Tasks) /\ q # <<>> /\ t = Head(q) /\ r = Tail(q)
      /\ \A i \in 1 .. Len(q) : q[i] \in Admitted
  BY LanesAre, LaneQueueType DEF TakesHead
<1> HIDE DEF q, r
<1>2. /\ t = q[1] /\ t \in Tasks /\ Len(q) \in Nat \ {0}
      /\ Len(r) = Len(q) - 1 /\ \A i \in 1 .. Len(r) : r[i] = q[i + 1]
      /\ \A i \in 1 .. Len(q) : q[i] \in Tasks
  BY <1>1, HeadTailProperties, EmptySeq, ElementOfSeq
<1>3. /\ 1 \in 1 .. Len(q) /\ \A i \in 1 .. Len(r) : i + 1 \in 1 .. Len(q) /\ 1 < i + 1
      /\ \A i \in 1 .. Len(q) : i # 1 => i - 1 \in 1 .. Len(r) /\ r[i - 1] = q[i]
  BY <1>2
<1>4. \A i, j \in 1 .. Len(q) : i < j => ticket[q[i]] < ticket[q[j]]
  BY <1>1 DEF QueuesSorted, q
<1>5. \A i \in 1 .. Len(r) : ticket[t] < ticket[r[i]]
  BY <1>2, <1>3, <1>4
<1>6. ticket[t] \in Nat
  BY <1>2 DEF TypeInv, TypeOK
<1>7. \A i \in 1 .. Len(r) : r[i] # t
  BY <1>5, <1>6
<1>8. /\ \A u : Queued(u, l) <=> \E i \in 1 .. Len(q) : q[i] = u
      /\ \A u : Queued(u, l)' <=> \E i \in 1 .. Len(r) : r[i] = u
  BY DEF Queued, q, r
<1>9. Queued(t, l) /\ t \in Admitted
  BY <1>1, <1>2, <1>3, <1>8
<1>10. ASSUME NEW u PROVE Queued(u, l)' <=> Queued(u, l) /\ u # t
  <2>1. Queued(u, l)' => Queued(u, l) /\ u # t
    BY <1>2, <1>3, <1>7, <1>8
  <2>2. ASSUME Queued(u, l), u # t PROVE Queued(u, l)'
    <3>1. PICK i \in 1 .. Len(q) : q[i] = u
      BY <2>2, <1>8
    <3>2. i # 1
      BY <1>2, <2>2, <3>1
    <3> QED BY <1>3, <1>8, <3>1, <3>2
  <2> QED BY <2>1, <2>2
<1>11. \A u \in Tasks, k \in Lanes : k # l => (Queued(u, k)' <=> Queued(u, k))
  BY DEF TakesHead, Queued
<1>12. \A y \in Workers, u \in Tasks, k \in Lanes :
         InHand(y, u, k)' <=> InHand(y, u, k) \/ (y = x /\ u = t /\ k = l)
  BY DEF TakesHead, InHand, OpenPcs, LaneOf
<1> QED
  BY <1>1, <1>2, <1>5, <1>8, <1>9, <1>10, <1>11, <1>12 DEF TakesHead

(* Taking the head keeps the order of the lanes.                           *)
LEMMA TakeKeepsLanes ==
  ASSUME TypeInv, OnlyAdmitted, TicketsCount, LaneInv,
         NEW x \in Workers, NEW t, NEW l, TakesHead(x, t, l)
  PROVE  LaneInv'
<1> USE DEF LaneInv
<1>1. UNCHANGED <<submission, batch, route, sequenceWriters, ticket>>
  BY DEF TakesHead, clientVars, routingVars
<1>2. /\ Admitted' = Admitted /\ RoutesFixed'
      /\ \A u \in Tasks, k \in Lanes : HasLane(u, k)' <=> HasLane(u, k)
  BY <1>1 DEF Admitted, RoutesFixed, HasLane, ColdBatch
<1>3. l \in Lanes /\ t \in Tasks /\ l = LaneOf(x) /\ ticket \in [Tasks -> Nat]
  <2>1. l \in Lanes /\ t \in Tasks
    BY TakeMoves
  <2> QED BY <2>1 DEF TakesHead, TypeInv, TypeOK
<1>4. QueuesSorted'
  <2>1. \A k \in Lanes, u \in Tasks : Queued(u, k)' => HasLane(u, k)'
    BY <1>2, TakeMoves DEF QueuesSorted
  <2>2. ASSUME NEW k \in Lanes, NEW i \in 1 .. Len(LaneQueue(k)'),
               NEW j \in 1 .. Len(LaneQueue(k)'), i < j
        PROVE  ticket[LaneQueue(k)'[i]] < ticket[LaneQueue(k)'[j]]
    <3>1. CASE k # l
      BY <2>2, <3>1 DEF TakesHead, QueuesSorted
    <3>2. CASE k = l
      <4> DEFINE q == LaneQueue(k)
                 r == LaneQueue(k)'
      <4>1. q \in Seq(Tasks) /\ q # <<>> /\ r = Tail(q)
        BY <3>2, LaneQueueType DEF TakesHead
      <4>2. \A m, n \in 1 .. Len(q) : m < n => ticket[q[m]] < ticket[q[n]]
        BY DEF QueuesSorted
      <4>3. i \in 1 .. Len(r) /\ j \in 1 .. Len(r)
        OBVIOUS
      <4> HIDE DEF q, r
      <4>4. /\ Len(q) \in Nat \ {0}
            /\ Len(r) = Len(q) - 1 /\ \A m \in 1 .. Len(r) : r[m] = q[m + 1]
        BY <4>1, HeadTailProperties, EmptySeq
      <4>5. i + 1 \in 1 .. Len(q) /\ j + 1 \in 1 .. Len(q) /\ i + 1 < j + 1
        BY <2>2, <4>3, <4>4
      <4>6. ticket[r[i]] < ticket[r[j]]
        BY <4>2, <4>3, <4>4, <4>5
      <4> QED BY <4>6 DEF q, r
    <3> QED BY <3>1, <3>2
  <2> QED BY <1>1, <2>1, <2>2 DEF QueuesSorted
<1>5. HandsApart'
  <2> SUFFICES ASSUME NEW y \in Workers, NEW u \in Tasks, NEW k \in Lanes,
                      InHand(y, u, k)'
               PROVE  /\ HasLane(u, k)'
                      /\ \A v \in Tasks : Queued(v, k)' => ticket[u] < ticket[v]
                      /\ \A z \in Workers : InHand(z, u, k)' => y = z
    BY <1>1 DEF HandsApart
  <2>1. CASE InHand(y, u, k)
    <3>1. u # t \/ k # l
      <4>1. CASE k = l
        <5>1. ticket[u] < ticket[t]
          BY <2>1, <4>1, <1>3, TakeMoves DEF HandsApart
        <5> QED BY <5>1, <1>3
      <4> QED BY <4>1
    <3> QED BY <2>1, <3>1, <1>2, TakeMoves DEF HandsApart
  <2>2. CASE y = x /\ u = t /\ k = l
    <3>1. HasLane(t, l)
      BY TakeMoves DEF QueuesSorted
    <3>2. \A z \in Workers : ~InHand(z, t, l)
      <4>1. \A z \in Workers : InHand(z, t, l) => ticket[t] < ticket[t]
        BY <1>3, TakeMoves DEF HandsApart
      <4> QED BY <4>1, <1>3
    <3> QED BY <1>2, <1>3, <2>2, <3>1, <3>2, TakeMoves
  <2> QED BY <2>1, <2>2, TakeMoves
<1>6. FrontFirst'
  <2> SUFFICES ASSUME NEW w \in Writers, NEW u \in Tasks, NEW v \in Tasks,
                      u \in Admitted, HasLane(u, w)', ~Queued(u, w)',
                      Queued(v, w)' \/ Writing(w, v)'
               PROVE  u = v \/ ticket[u] < ticket[v]
    BY <1>1, <1>2 DEF FrontFirst
  <2>1. HasLane(u, w) /\ w \in Lanes /\ w \in Workers /\ LaneOf(w) = w
    BY <1>2, LanesAre
  <2>2. CASE w # l
    <3>1. w # x
      BY <1>3, <2>1, <2>2
    <3>2. Writing(w, v)' => Writing(w, v)
      BY <2>1, <3>1, TakeMoves DEF Writing
    <3> QED BY <2>1, <2>2, <3>2, TakeMoves DEF FrontFirst
  <2>3. CASE w = l
    <3>1. w = x
      BY <1>3, <2>1, <2>3, LanesAre DEF LaneOf
    <3>2. Queued(v, w)' \/ v = t
      BY <3>1, TakeMoves DEF Writing
    <3>3. Queued(v, w)
      BY <2>3, <3>2, TakeMoves
    <3>4. CASE u = t
      BY <2>3, <3>2, <3>4, TakeMoves
    <3>5. CASE u # t
      <4>1. ~Queued(u, w)
        BY <2>3, <3>5, TakeMoves
      <4> QED BY <2>1, <3>3, <4>1 DEF FrontFirst
    <3> QED BY <3>4, <3>5
  <2> QED BY <2>2, <2>3
<1> QED BY <1>2, <1>4, <1>5, <1>6
-----------------------------------------------------------------------------
(* The critical section of trySubmit puts the task at the end of each of   *)
(* its lanes and changes nothing else there.                               *)
LEMMA AdmitQueues ==
  ASSUME TypeInv, OnlyAdmitted, TicketsCount, NEW t \in Tasks, Admit(t)
  PROVE  /\ Admitted' = Admitted \cup {t} /\ t \notin Admitted
         /\ UNCHANGED <<batch, route, sequenceWriters, worker>>
         /\ \A u \in Tasks, l \in Lanes : HasLane(u, l)' <=> HasLane(u, l)
         /\ \A l \in Lanes : LaneQueue(l)' = IF HasLane(t, l)
                                             THEN Append(LaneQueue(l), t)
                                             ELSE LaneQueue(l)
         /\ \A u \in Tasks, l \in Lanes :
              Queued(u, l)' <=> Queued(u, l) \/ (u = t /\ HasLane(t, l))
         /\ \A u \in Tasks, l \in Lanes : Queued(u, l) => u \in Admitted
         /\ \A x \in Workers, u \in Tasks, l \in Lanes :
              /\ InHand(x, u, l)' <=> InHand(x, u, l)
              /\ InHand(x, u, l) => u \in Admitted
         /\ \A u \in Admitted : ticket'[u] = ticket[u] /\ ticket'[u] < ticket'[t]
<1>1. /\ Admitted' = Admitted \cup {t} /\ t \notin Admitted
      /\ UNCHANGED <<batch, route, sequenceWriters, worker>>
  BY DEF Admit, Admitted, TypeInv, TypeOK, routingVars
<1>2. \A u \in Tasks, l \in Lanes : HasLane(u, l)' <=> HasLane(u, l)
  BY <1>1 DEF HasLane, ColdBatch
<1>3. \A l \in Lanes : LaneQueue(l)' = IF HasLane(t, l)
                                       THEN Append(LaneQueue(l), t)
                                       ELSE LaneQueue(l)
  BY LanesAre DEF Admit, LaneQueue, HasLane, ColdLanes
<1>4. \A u \in Tasks, l \in Lanes : /\ InLane(u, l) => u \in Admitted
                                    /\ Queued(u, l) => u \in Admitted
  BY LaneAdmitted DEF InLane
<1>5. ASSUME NEW u \in Tasks, NEW l \in Lanes
      PROVE  Queued(u, l)' <=> Queued(u, l) \/ (u = t /\ HasLane(t, l))
  <2> DEFINE q == LaneQueue(l)
             r == LaneQueue(l)'
  <2>1. /\ q \in Seq(Tasks) /\ r = IF HasLane(t, l) THEN Append(q, t) ELSE q
        /\ Queued(u, l) <=> \E i \in 1 .. Len(q) : q[i] = u
        /\ Queued(u, l)' <=> \E i \in 1 .. Len(r) : r[i] = u
    BY <1>3, LaneQueueType DEF Queued
  <2> HIDE DEF q, r
  <2>2. CASE HasLane(t, l)
    <3>1. /\ Len(r) = Len(q) + 1 /\ Len(q) \in Nat /\ r[Len(q) + 1] = t
          /\ \A i \in 1 .. Len(q) : r[i] = q[i]
      BY <2>1, <2>2, AppendProperties
    <3>2. \A i \in 1 .. Len(r) : i \in 1 .. Len(q) \/ i = Len(q) + 1
      BY <3>1
    <3>3. Len(q) + 1 \in 1 .. Len(r) /\ \A i \in 1 .. Len(q) : i \in 1 .. Len(r)
      BY <3>1
    <3> QED BY <2>1, <2>2, <3>1, <3>2, <3>3
  <2>3. CASE ~HasLane(t, l)
    BY <2>1, <2>3
  <2> QED BY <2>2, <2>3
<1>6. \A x \in Workers, u \in Tasks, l \in Lanes :
        /\ InHand(x, u, l)' <=> InHand(x, u, l)
        /\ InHand(x, u, l) => u \in Admitted
  BY <1>1, <1>4 DEF InHand, InLane, LaneOf
<1>7. \A u \in Admitted : ticket'[u] = ticket[u] /\ ticket'[u] < ticket'[t]
  <2>1. Cardinality(Admitted) \in Nat /\ Admitted \in SUBSET Tasks
    BY ExecutorAssumption, CountType DEF Admitted
  <2>2. ticket' = [ticket EXCEPT ![t] = Cardinality(Admitted) + 1]
    BY DEF Admit
  <2>3. \A u \in Admitted : ticket[u] \in Nat /\ ticket[u] <= Cardinality(Admitted)
    BY <2>1 DEF TicketsCount, TypeInv, TypeOK
  <2> QED BY <1>1, <2>1, <2>2, <2>3 DEF TypeInv, TypeOK
<1> QED BY <1>1, <1>2, <1>3, <1>4, <1>5, <1>6, <1>7

(* Admission keeps the order of the lanes.                                 *)
LEMMA AdmitKeepsLanes ==
  ASSUME TypeInv, OnlyAdmitted, TicketsCount, LaneInv, NEW t \in Tasks, Admit(t)
  PROVE  LaneInv'
<1> USE DEF LaneInv
<1>1. RoutesFixed'
  <2>1. \A s \in batch[t] : route[t][s] # NoWriter
    BY DEF Admit, Unrouted
  <2>2. /\ Admitted' = Admitted \cup {t}
        /\ UNCHANGED <<batch, route, sequenceWriters>>
    BY AdmitQueues
  <2> QED BY <2>1, <2>2 DEF RoutesFixed
<1>2. QueuesSorted'
  <2>1. \A l \in Lanes, u \in Tasks : Queued(u, l)' => HasLane(u, l)'
    BY AdmitQueues DEF QueuesSorted
  <2>2. ASSUME NEW l \in Lanes, NEW i \in 1 .. Len(LaneQueue(l)'),
               NEW j \in 1 .. Len(LaneQueue(l)'), i < j
        PROVE  ticket'[LaneQueue(l)'[i]] < ticket'[LaneQueue(l)'[j]]
    <3> DEFINE q == LaneQueue(l)
               r == LaneQueue(l)'
    <3>1. /\ q \in Seq(Tasks) /\ \A m \in 1 .. Len(q) : q[m] \in Admitted
          /\ r = IF HasLane(t, l) THEN Append(q, t) ELSE q
          /\ \A m, n \in 1 .. Len(q) : m < n => ticket[q[m]] < ticket[q[n]]
          /\ i \in 1 .. Len(r) /\ j \in 1 .. Len(r)
      BY AdmitQueues, LaneQueueType DEF QueuesSorted
    <3>2. \A u \in Admitted : ticket'[u] = ticket[u] /\ ticket'[u] < ticket'[t]
      BY AdmitQueues
    <3> HIDE DEF q, r
    <3>3. CASE HasLane(t, l)
      <4>1. /\ Len(r) = Len(q) + 1 /\ Len(q) \in Nat /\ r[Len(q) + 1] = t
            /\ \A m \in 1 .. Len(q) : r[m] = q[m]
        BY <3>1, <3>3, AppendProperties
      <4>2. i \in 1 .. Len(q) /\ (j \in 1 .. Len(q) \/ j = Len(q) + 1)
        BY <2>2, <3>1, <4>1
      <4>3. ticket'[r[i]] < ticket'[r[j]]
        <5>1. CASE j = Len(q) + 1
          BY <3>1, <3>2, <4>1, <4>2, <5>1
        <5>2. CASE j \in 1 .. Len(q)
          BY <2>2, <3>1, <3>2, <4>1, <4>2, <5>2
        <5> QED BY <4>2, <5>1, <5>2
      <4> QED BY <4>3 DEF r
    <3>4. CASE ~HasLane(t, l)
      <4>1. ticket'[r[i]] < ticket'[r[j]]
        BY <2>2, <3>1, <3>2, <3>4
      <4> QED BY <4>1 DEF r
    <3> QED BY <3>3, <3>4
  <2> QED BY <2>1, <2>2 DEF QueuesSorted
<1>3. HandsApart'
  <2> SUFFICES ASSUME NEW x \in Workers, NEW u \in Tasks, NEW l \in Lanes,
                      InHand(x, u, l)'
               PROVE  /\ HasLane(u, l)'
                      /\ \A v \in Tasks : Queued(v, l)' => ticket'[u] < ticket'[v]
                      /\ \A y \in Workers : InHand(y, u, l)' => x = y
    BY DEF HandsApart
  <2>1. InHand(x, u, l) /\ u \in Admitted
    BY AdmitQueues
  <2>2. HasLane(u, l)' /\ \A y \in Workers : InHand(y, u, l)' => x = y
    BY <2>1, AdmitQueues DEF HandsApart
  <2>3. ASSUME NEW v \in Tasks, Queued(v, l)' PROVE ticket'[u] < ticket'[v]
    <3>1. CASE v = t
      BY <2>1, <3>1, AdmitQueues
    <3>2. CASE v # t
      <4>1. Queued(v, l) /\ v \in Admitted
        BY <2>3, <3>2, AdmitQueues
      <4>2. ticket[u] < ticket[v]
        BY <2>1, <4>1 DEF HandsApart
      <4> QED BY <2>1, <4>1, <4>2, AdmitQueues
    <3> QED BY <3>1, <3>2
  <2> QED BY <2>2, <2>3
<1>4. FrontFirst'
  <2> SUFFICES ASSUME NEW w \in Writers, NEW u \in Tasks, NEW v \in Tasks,
                      u \in Admitted', HasLane(u, w)', ~Queued(u, w)',
                      Queued(v, w)' \/ Writing(w, v)'
               PROVE  u = v \/ ticket'[u] < ticket'[v]
    BY DEF FrontFirst
  <2>1. w \in Lanes /\ w \in Workers /\ LaneOf(w) = w
    BY LanesAre
  <2>2. u \in Admitted /\ u # t /\ HasLane(u, w) /\ ~Queued(u, w)
    BY <2>1, AdmitQueues
  <2>3. CASE v = t
    BY <2>2, <2>3, AdmitQueues
  <2>4. CASE v # t
    <3>1. /\ Queued(v, w) \/ Writing(w, v)
          /\ v \in Admitted
      BY <2>1, <2>4, AdmitQueues DEF Writing, InHand, OpenPcs
    <3>2. u = v \/ ticket[u] < ticket[v]
      BY <2>2, <3>1 DEF FrontFirst
    <3> QED BY <2>2, <3>1, <3>2, AdmitQueues
  <2> QED BY <2>3, <2>4
<1> QED BY <1>1, <1>2, <1>3, <1>4

(* A caller that is asked, routed or refused leaves the lanes alone; a     *)
(* writer once chosen for a sequence is never replaced.                    *)
LEMMA CallerKeepsLanes ==
  ASSUME TypeInv, OnlyAdmitted, LaneInv, NEW t \in Tasks,
         Submit(t) \/ Route(t) \/ Reject(t)
  PROVE  LaneInv' /\ AdmittedFixed
<1>1. AdmittedFixed
  BY DEF Submit, Route, Reject, WriterForSequence, AdmittedFixed, Admitted,
         TypeInv, TypeOK
<1>2. UNCHANGED <<coldQueue, hotQueue, ticket, worker>>
  BY DEF Submit, Route, Reject, queueVars
<1>3. NothingTaken
  BY <1>2 DEF NothingTaken, InHand, Writing, LaneOf
<1>4. RoutesFixed'
  <2>1. \A u \in Tasks, s \in SequenceIds :
          route'[u][s] # NoWriter => route'[u][s] = sequenceWriters'[s]
    <3>1. CASE Submit(t) \/ Reject(t)
      BY <3>1 DEF Submit, Reject, routingVars, LaneInv, RoutesFixed
    <3>2. CASE Route(t)
      <4>1. PICK r \in SequenceIds : WriterForSequence(t, r)
        BY <3>2 DEF Route, Unrouted, TypeInv, TypeOK
      <4>2. PICK w : /\ route' = [route EXCEPT ![t][r] = w]
                     /\ sequenceWriters[r] \in {NoWriter, w}
                     /\ sequenceWriters'[r] = w
                     /\ \A s \in SequenceIds :
                          s # r => sequenceWriters'[s] = sequenceWriters[s]
        BY <4>1 DEF WriterForSequence, routingVars, TypeInv, TypeOK
      <4>3. \A u \in Tasks, s \in SequenceIds :
              route'[u][s] = IF u = t /\ s = r THEN w ELSE route[u][s]
        BY <4>2 DEF TypeInv, TypeOK
      <4>4. \A u \in Tasks, s \in SequenceIds :
              route[u][s] # NoWriter => route[u][s] = sequenceWriters[s]
        BY DEF LaneInv, RoutesFixed
      <4> QED BY <4>2, <4>3, <4>4
    <3> QED BY <3>1, <3>2
  <2>2. \A u \in Admitted' : \A s \in batch'[u] : route'[u][s] # NoWriter
    BY <1>1 DEF AdmittedFixed, LaneInv, RoutesFixed
  <2> QED BY <2>1, <2>2 DEF RoutesFixed
<1> QED BY <1>1, <1>2, <1>3, <1>4, QuietLanes DEF LaneInv
-----------------------------------------------------------------------------
(* What a move of worker x does to the lanes in hand.                      *)
LEMMA GotoHands ==
  ASSUME TypeInv, NEW x \in Workers, NEW pc, Goto(x, pc)
  PROVE  \A y \in Workers, u \in Tasks :
           /\ \A l \in Lanes :
                InHand(y, u, l)' <=> IF y = x
                                     THEN /\ pc \in OpenPcs
                                          /\ LaneOf(x) = l /\ worker[x].task = u
                                     ELSE InHand(y, u, l)
           /\ Closing(y, u)' <=> IF y = x
                                 THEN pc \in LastPcs /\ worker[x].task = u
                                 ELSE Closing(y, u)
BY GotoShape DEF InHand, Closing, LaneOf

(* A freed worker has nothing in hand.                                     *)
LEMMA FreeHands ==
  ASSUME TypeInv, NEW x \in Workers, Free(x)
  PROVE  \A y \in Workers, u \in Tasks :
           /\ \A l \in Lanes : InHand(y, u, l)' <=> y # x /\ InHand(y, u, l)
           /\ Closing(y, u)' <=> y # x /\ Closing(y, u)
BY FreeShape DEF InHand, Closing, LaneOf, OpenPcs, LastPcs

(* A worker that goes on with what it has in hand takes nothing.           *)
LEMMA MoveTakesNothing ==
  ASSUME TypeInv, NEW x \in Workers, NEW pc,
         \/ Free(x)
         \/ /\ Goto(x, pc)
            /\ pc \in OpenPcs => worker[x].pc \in OpenPcs
            /\ pc = "running" => x \notin Writers
  PROVE  NothingTaken
<1>1. CASE Free(x)
  <2>1. \A w \in Writers, t \in Tasks : Writing(w, t)' => Writing(w, t)
    BY <1>1, FreeShape, LanesAre DEF Writing
  <2> QED BY <1>1, <2>1, FreeHands DEF NothingTaken
<1>2. CASE /\ Goto(x, pc)
           /\ pc \in OpenPcs => worker[x].pc \in OpenPcs
           /\ pc = "running" => x \notin Writers
  <2>1. \A w \in Writers, t \in Tasks : Writing(w, t)' => Writing(w, t)
    BY <1>2, GotoShape, LanesAre DEF Writing
  <2>2. \A y \in Workers, u \in Tasks, l \in Lanes :
          InHand(y, u, l)' => InHand(y, u, l)
    BY <1>2, GotoHands DEF InHand
  <2> QED BY <2>1, <2>2 DEF NothingTaken
<1> QED BY <1>1, <1>2

(* Steps of the workers other than taking a task, and the destructor.      *)
HotMoves(h) == StartHot(h) \/ FinishHot(h) \/ CompleteHot(h)
NoMoves == Stop \/ Terminated \/ UNCHANGED vars
Others ==
  \/ \E w \in Writers : FinishCold(w)
  \/ \E h \in HotWorkers : HotMoves(h)
  \/ \E x \in Workers : LaneStep(x)
  \/ NoMoves

(* They change neither queues nor requests, and take nothing in hand.      *)
LEMMA OthersQuiet ==
  ASSUME TypeInv, Others
  PROVE  /\ UNCHANGED <<clientVars, routingVars, coldQueue, hotQueue, ticket>>
         /\ NothingTaken
<1>1. UNCHANGED <<clientVars, routingVars, coldQueue, hotQueue, ticket>>
  BY DEF Others, HotMoves, NoMoves, FinishCold, StartHot, FinishHot, CompleteHot, LaneStep,
         CountLane, Publish, Release, Exit, Stop, Terminated, vars, queueVars
<1>2. ASSUME NEW w \in Writers, FinishCold(w) PROVE NothingTaken
  BY <1>2, MoveTakesNothing, LanesAre DEF FinishCold, At, OpenPcs
<1>3. ASSUME NEW h \in HotWorkers, HotMoves(h) PROVE NothingTaken
  BY <1>3, MoveTakesNothing, LanesAre
     DEF HotMoves, StartHot, FinishHot, CompleteHot, At, OpenPcs
<1>4. ASSUME NEW x \in Workers, LaneStep(x) PROVE NothingTaken
  <2>1. \/ Free(x)
        \/ Goto(x, "publishing") \/ Goto(x, "releasing") \/ Goto(x, "exited")
    BY <1>4 DEF LaneStep, CountLane, Publish, Release, Exit
  <2>2. /\ "publishing" \notin OpenPcs /\ "releasing" \notin OpenPcs
        /\ "exited" \notin OpenPcs
    BY DEF OpenPcs
  <2> QED BY <2>1, <2>2, MoveTakesNothing
<1>5. ASSUME NoMoves PROVE NothingTaken
  <2>1. worker' = worker
    BY <1>5 DEF NoMoves, Stop, Terminated, vars
  <2>2. \A x \in Workers, t \in Tasks, l \in Lanes :
          InHand(x, t, l)' <=> InHand(x, t, l)
    BY <2>1 DEF InHand, LaneOf
  <2>3. \A w \in Writers, t \in Tasks : Writing(w, t)' <=> Writing(w, t)
    BY <2>1 DEF Writing
  <2> QED BY <2>2, <2>3 DEF NothingTaken
<1> QED BY <1>1, <1>2, <1>3, <1>4, <1>5 DEF Others

(* So they keep the order of the lanes.                                    *)
LEMMA OthersKeepLanes ==
  ASSUME TypeInv, OnlyAdmitted, LaneInv, Others
  PROVE  LaneInv' /\ AdmittedFixed
<1>1. UNCHANGED <<submission, batch, route, sequenceWriters>>
  BY OthersQuiet DEF clientVars, routingVars
<1>2. AdmittedFixed
  BY <1>1 DEF AdmittedFixed, Admitted
<1>3. RoutesFixed'
  BY <1>1 DEF LaneInv, RoutesFixed, Admitted
<1> QED BY <1>2, <1>3, OthersQuiet, QuietLanes DEF LaneInv

(* Every step admits a task, prepares or refuses one, takes one from a     *)
(* queue, or is one of the others.                                         *)
LEMMA StepsAre ==
  ASSUME [Next]_vars
  PROVE  \/ \E t \in Tasks : Admit(t)
         \/ \E t \in Tasks : Submit(t) \/ Route(t) \/ Reject(t)
         \/ \E w \in Writers : TakeCold(w)
         \/ \E h \in HotWorkers : TakeHot(h)
         \/ Others
BY DEF Next, ClientStep, ColdStep, HotStep, Others, HotMoves, NoMoves

(* The order of the lanes holds before the first submission.               *)
LEMMA LanesInit == Init => LaneInv
<1> SUFFICES ASSUME Init PROVE LaneInv
  OBVIOUS
<1>1. \A l \in Lanes : LaneQueue(l) = <<>>
  BY LanesAre DEF Init
<1>2. \A t \in Tasks, l \in Lanes : ~Queued(t, l)
  BY <1>1, EmptySeq DEF Queued
<1>3. \A x \in Workers : worker[x].pc = "idle"
  BY DEF Init
<1>4. RoutesFixed
  BY DEF Init, RoutesFixed, Admitted
<1>5. QueuesSorted
  BY <1>1, <1>2, EmptySeq DEF QueuesSorted
<1>6. HandsApart /\ FrontFirst
  BY <1>3 DEF Init, Admitted, HandsApart, FrontFirst, InHand, OpenPcs
<1> QED BY <1>4, <1>5, <1>6 DEF LaneInv

(* The order of the lanes holds in every step.                             *)
LEMMA StepKeepsLanes == TypeInv /\ HotInv /\ LaneInv /\ [Next]_vars => LaneInv'
<1> SUFFICES ASSUME TypeInv, HotInv, LaneInv, [Next]_vars PROVE LaneInv'
  OBVIOUS
<1>1. OnlyAdmitted /\ TicketsCount
  BY DEF HotInv
<1>2. ASSUME NEW w \in Writers, TakeCold(w) PROVE LaneInv'
  BY <1>1, <1>2, TakeColdIs, TakeKeepsLanes, LanesAre
<1>3. ASSUME NEW h \in HotWorkers, TakeHot(h) PROVE LaneInv'
  BY <1>1, <1>3, TakeHotIs, TakeKeepsLanes, LanesAre
<1> QED
  BY <1>1, <1>2, <1>3, StepsAre, AdmitKeepsLanes, CallerKeepsLanes, OthersKeepLanes

(* A sequence of an admitted task is queued or being written at the writer *)
(* that every task with this sequence uses.                                *)
LEMMA ColdLaneOf ==
  ASSUME TypeInv, LaneInv, NEW t \in Admitted, NEW s \in batch[t]
  PROVE  /\ t \in Tasks /\ s \in SequenceIds
         /\ route[t][s] \in Writers /\ route[t][s] = sequenceWriters[s]
         /\ HasLane(t, route[t][s])
         /\ ColdQueued(t, s) <=> Queued(t, route[t][s])
         /\ ColdWriting(t, s) <=> Writing(route[t][s], t)
<1>1. t \in Tasks /\ s \in SequenceIds
  BY DEF Admitted, TypeInv, TypeOK
<1>2. route[t][s] \in Writers /\ route[t][s] = sequenceWriters[s]
  <2>1. route[t][s] \in 0 .. ColdCount /\ route[t][s] # ColdCount
        /\ route[t][s] = sequenceWriters[s]
    BY <1>1 DEF LaneInv, RoutesFixed, TypeInv, TypeOK, NoWriter
  <2> QED BY <2>1, ExecutorAssumption DEF Writers
<1>3. HasLane(t, route[t][s])
  BY DEF HasLane, ColdBatch
<1> QED
  BY <1>1, <1>2, <1>3, LanesAre
     DEF ColdQueued, InQueue, Queued, ColdWriting, Writing, At

(* Cold writes keep admission order for any number of writers: a sequence  *)
(* never changes its writer, and a writer takes its queue in order.        *)
LEMMA LanesOrderCold == TypeInv /\ LaneInv => ColdInOrder
<1> SUFFICES ASSUME TypeInv, LaneInv, NEW t \in Admitted, NEW u \in Admitted,
                    NEW s \in batch[t] \cap batch[u], Earlier(t, u),
                    ColdQueued(t, s) \/ ColdWriting(t, s)
             PROVE  ColdQueued(u, s)
  BY DEF ColdInOrder
<1> DEFINE w == sequenceWriters[s]
<1>1. /\ t \in Tasks /\ u \in Tasks /\ w \in Writers
      /\ HasLane(u, w) /\ (Queued(t, w) \/ Writing(w, t))
      /\ ColdQueued(u, s) <=> Queued(u, w)
  BY ColdLaneOf
<1>2. ticket[t] < ticket[u] /\ ticket[t] \in Nat /\ ticket[u] \in Nat
  BY <1>1 DEF Earlier, TypeInv, TypeOK
<1> HIDE DEF w
<1> QED BY <1>1, <1>2 DEF LaneInv, FrontFirst
-----------------------------------------------------------------------------
(* The lanes, their order and the hot order hold in every behaviour.       *)
LEMMA LanesInvariant == Spec => [](TypeInv /\ HotInv /\ LaneInv)
BY InitType, StepType, HotInit, StepKeepsHotInv, LanesInit, StepKeepsLanes, PTL
   DEF Spec

(* Cold writes of one sequence happen in admission order, for any number   *)
(* of writers and tasks, however routing and admission interleave.         *)
THEOREM ColdWritesInOrder == Spec => []ColdInOrder
BY LanesInvariant, LanesOrderCold, PTL
-----------------------------------------------------------------------------
(***************************************************************************)
(* Slots.                                                                  *)
(***************************************************************************)
HeldTasks == {t \in Tasks : SlotHeld(t)}

(* Lanes and slots can be counted.                                         *)
LEMMA Countable ==
  /\ \A t : IsFiniteSet(OpenLanes(t)) /\ Cardinality(OpenLanes(t)) \in Nat
  /\ IsFiniteSet(HeldTasks) /\ Cardinality(HeldTasks) \in Nat
<1>1. ASSUME NEW t PROVE IsFiniteSet(OpenLanes(t)) /\ Cardinality(OpenLanes(t)) \in Nat
  BY LanesAre, CountType DEF OpenLanes
<1>2. IsFiniteSet(HeldTasks) /\ Cardinality(HeldTasks) \in Nat
  BY ExecutorAssumption, CountType DEF HeldTasks
<1> QED BY <1>1, <1>2

(* A slot is held until its finisher has given it back.                    *)
LEMMA SlotHeldIs ==
  \A t \in Tasks : SlotHeld(t) <=>
    t \in Admitted /\ (remaining[t] # 0 \/ \E x \in Workers : Closing(x, t))
BY DEF SlotHeld, Closing, LastPcs

(* A step that closes no lane and finishes no task keeps the counts.       *)
LEMMA CountsKept ==
  ASSUME CountInv, Admitted' = Admitted,
         UNCHANGED <<remaining, completed, pending>>,
         \A t \in Tasks, l \in Lanes : InLane(t, l)' <=> InLane(t, l),
         \A x \in Workers, t \in Tasks :
           /\ Closing(x, t)' <=> Closing(x, t)
           /\ Closing(x, t) => worker'[x].pc = worker[x].pc
  PROVE  CountInv' /\ HeldTasks' = HeldTasks
<1>1. LanesCounted'
  <2>1. \A t \in Tasks : OpenLanes(t)' = OpenLanes(t)
    BY DEF OpenLanes
  <2> QED BY <2>1 DEF CountInv, LanesCounted
<1>2. OneFinisher'
  BY DEF CountInv, OneFinisher
<1>3. HeldTasks' = HeldTasks
  <2>1. \A t \in Tasks : SlotHeld(t)' <=>
          t \in Admitted /\ (remaining[t] # 0 \/ \E x \in Workers : Closing(x, t)')
    BY DEF SlotHeld, Closing, LastPcs
  <2> QED BY <2>1, SlotHeldIs DEF HeldTasks
<1>4. SlotsExact'
  BY <1>3 DEF CountInv, SlotsExact, HeldTasks
<1> QED BY <1>1, <1>2, <1>3, <1>4 DEF CountInv

(* Work that stays in its lane, or goes from the queue into a hand, leaves *)
(* the lane open.                                                          *)
LEMMA MoveKeepsCounts ==
  ASSUME TypeInv, CountInv, Admitted' = Admitted, NEW x \in Workers, NEW pc,
         Goto(x, pc), UNCHANGED <<coldQueue, hotQueue, remaining, completed, pending>>,
         \/ worker[x].pc \in OpenPcs /\ pc \in OpenPcs
         \/ worker[x].pc = "idle" /\ pc = "exited"
  PROVE  CountInv' /\ HeldTasks' = HeldTasks
<1>1. ~(worker[x].pc \in LastPcs) /\ ~(pc \in LastPcs)
  BY DEF OpenPcs, LastPcs
<1>2. \A y \in Workers, t \in Tasks :
        /\ \A l \in Lanes : InHand(y, t, l)' <=> InHand(y, t, l)
        /\ Closing(y, t)' <=> Closing(y, t)
        /\ Closing(y, t) => worker'[y].pc = worker[y].pc
  <2>1. pc \in OpenPcs <=> worker[x].pc \in OpenPcs
    BY DEF OpenPcs
  <2> QED BY <1>1, <2>1, GotoHands, GotoShape DEF InHand, Closing
<1>3. \A t \in Tasks, l \in Lanes : InLane(t, l)' <=> InLane(t, l)
  BY <1>2, QueuesFixed DEF InLane
<1> QED BY <1>2, <1>3, CountsKept

(* Taking a task keeps the counts.                                         *)
LEMMA TakeKeepsCounts ==
  ASSUME TypeInv, HotInv, LaneInv, CountInv, NEW x \in Workers, NEW t, NEW l,
         TakesHead(x, t, l), UNCHANGED <<remaining, completed, pending>>
  PROVE  CountInv' /\ HeldTasks' = HeldTasks
<1>0. OnlyAdmitted /\ TicketsCount /\ QueuesSorted
  BY DEF HotInv, LaneInv
<1>1. Admitted' = Admitted
  BY DEF TakesHead, clientVars, Admitted
<1>2. \A y \in Workers, u \in Tasks :
        /\ Closing(y, u)' <=> Closing(y, u)
        /\ Closing(y, u) => worker'[y].pc = worker[y].pc
  BY <1>0, TakeMoves DEF Closing, LastPcs
<1>3. \A u \in Tasks, k \in Lanes : InLane(u, k)' <=> InLane(u, k)
  <2>1. ASSUME NEW u \in Tasks, NEW k \in Lanes, InLane(u, k) PROVE InLane(u, k)'
    <3>1. CASE u = t /\ k = l
      BY <3>1, <1>0, TakeMoves DEF InLane
    <3>2. CASE ~(u = t /\ k = l)
      BY <2>1, <3>2, <1>0, TakeMoves DEF InLane
    <3> QED BY <3>1, <3>2
  <2>2. ASSUME NEW u \in Tasks, NEW k \in Lanes, InLane(u, k)' PROVE InLane(u, k)
    BY <2>2, <1>0, TakeMoves DEF InLane
  <2> QED BY <2>1, <2>2
<1> QED BY <1>1, <1>2, <1>3, CountsKept

(* An admitted task opens one lane for each writer with work for it and    *)
(* the hot lane, and takes one slot.                                       *)
LEMMA AdmitKeepsCounts ==
  ASSUME TypeInv, HotInv, CountInv, NEW t \in Tasks, Admit(t)
  PROVE  CountInv' /\ HeldTasks' = HeldTasks \cup {t}
<1>0. OnlyAdmitted /\ TicketsCount
  BY DEF HotInv
<1>1. /\ Admitted' = Admitted \cup {t} /\ t \notin Admitted /\ worker' = worker
      /\ completed' = completed /\ pending' = pending + 1 /\ pending < Capacity
      /\ remaining' = [remaining EXCEPT ![t] = 1 + Cardinality(ColdLanes(t))]
  BY <1>0, AdmitQueues DEF Admit
<1>2. \A x \in Workers, u \in Tasks : Closing(x, u)' <=> Closing(x, u)
  BY <1>1 DEF Closing
<1>3. \A x \in Workers : ~Closing(x, t)
  BY <1>0, <1>1 DEF Closing, LastPcs, OnlyAdmitted
<1>4. /\ remaining'[t] = 1 + Cardinality(ColdLanes(t))
      /\ \A u \in Tasks : u # t => remaining'[u] = remaining[u]
  BY <1>1 DEF TypeInv, TypeOK
<1>5. /\ IsFiniteSet(ColdLanes(t)) /\ Cardinality(ColdLanes(t)) \in Nat
      /\ ColdLanes(t) = {w \in Writers : HasLane(t, w)}
  <2>1. IsFiniteSet(ColdLanes(t)) /\ Cardinality(ColdLanes(t)) \in Nat
    BY CountType, WritersFinite DEF ColdLanes
  <2> QED BY <2>1, LanesAre DEF ColdLanes, HasLane
<1>6. \A u \in Tasks, l \in Lanes :
        InLane(u, l)' <=> InLane(u, l) \/ (u = t /\ HasLane(t, l))
  BY <1>0, AdmitQueues DEF InLane
<1>7. LanesCounted'
  <2>1. \A l \in Lanes : ~InLane(t, l)
    BY <1>0, <1>1, LaneAdmitted
  <2>2. OpenLanes(t)' = ColdLanes(t) \cup {HotLane} /\ HotLane \notin ColdLanes(t)
    BY <1>5, <1>6, <2>1, LanesAre DEF OpenLanes, HasLane
  <2>3. Cardinality(OpenLanes(t)') = Cardinality(ColdLanes(t)) + 1
    BY <1>5, <2>2, FS_AddElement
  <2>4. \A u \in Tasks : u # t => OpenLanes(u)' = OpenLanes(u)
    BY <1>6 DEF OpenLanes
  <2> QED BY <1>4, <1>5, <2>3, <2>4 DEF CountInv, LanesCounted
<1>8. OneFinisher'
  BY <1>1, <1>2, <1>3, <1>4 DEF CountInv, OneFinisher
<1>9. SlotsExact' /\ HeldTasks' = HeldTasks \cup {t}
  <2>1. \A u \in Tasks : SlotHeld(u)' <=>
          u \in Admitted' /\ (remaining'[u] # 0 \/ \E x \in Workers : Closing(x, u)')
    BY DEF SlotHeld, Closing, LastPcs
  <2>2. HeldTasks' = HeldTasks \cup {t} /\ t \notin HeldTasks
    BY <1>1, <1>2, <1>4, <1>5, <2>1, SlotHeldIs DEF HeldTasks
  <2>3. Cardinality(HeldTasks') = Cardinality(HeldTasks) + 1
    BY <2>2, Countable, FS_AddElement
  <2>4. pending = Cardinality(HeldTasks) /\ pending + 1 <= Capacity
    BY <1>1, Countable, ExecutorAssumption DEF CountInv, SlotsExact, HeldTasks
  <2> QED BY <1>1, <2>2, <2>3, <2>4 DEF SlotsExact, HeldTasks
<1> QED BY <1>7, <1>8, <1>9 DEF CountInv

(* A worker that counts its lane closes exactly this lane; the one that    *)
(* counts the last lane of a task, and no other, becomes its finisher.     *)
LEMMA CountLaneCloses ==
  ASSUME TypeInv, HotInv, LaneInv, CountInv, NEW x \in Workers, CountLane(x),
         NEW t, t = worker[x].task, NEW k, k = LaneOf(x)
  PROVE  /\ t \in Tasks /\ t \in Admitted /\ InHand(x, t, k) /\ k \in Lanes
         /\ \A u \in Tasks, l \in Lanes :
              InLane(u, l)' <=> InLane(u, l) /\ ~(u = t /\ l = k)
         /\ OpenLanes(t)' = OpenLanes(t) \ {k} /\ k \in OpenLanes(t)
         /\ remaining[t] \in Nat \ {0}
         /\ \A y \in Workers, u \in Tasks :
              Closing(y, u)' <=> \/ Closing(y, u)
                                 \/ y = x /\ u = t /\ remaining[u] = 1
         /\ remaining'[t] = remaining[t] - 1
         /\ \A u \in Tasks : u # t => remaining'[u] = remaining[u]
<1>1. /\ worker[x].pc = "counting" /\ t \in Admitted /\ t \in Tasks /\ k \in Lanes
  BY LanesAre DEF CountLane, At, HotInv, OnlyAdmitted, Admitted
<1>2. InHand(x, t, k)
  BY <1>1 DEF InHand, OpenPcs
<1>3. UNCHANGED <<coldQueue, hotQueue>>
  BY DEF CountLane, queueVars
<1>4. \A y \in Workers, u \in Tasks, l \in Lanes :
        InHand(y, u, l)' <=> y # x /\ InHand(y, u, l)
  <2>1. CASE remaining[t] = 1
    BY <2>1, GotoHands DEF CountLane, OpenPcs
  <2>2. CASE remaining[t] # 1
    BY <2>2, FreeHands DEF CountLane
  <2> QED BY <2>1, <2>2
<1>5. \A y \in Workers, u \in Tasks :
        Closing(y, u)' <=> \/ Closing(y, u)
                           \/ y = x /\ u = t /\ remaining[u] = 1
  <2>1. \A u \in Tasks : ~Closing(x, u)
    BY <1>1 DEF Closing, LastPcs
  <2>2. CASE remaining[t] = 1
    BY <2>1, <2>2, GotoHands DEF CountLane, LastPcs
  <2>3. CASE remaining[t] # 1
    BY <2>1, <2>3, FreeHands DEF CountLane
  <2> QED BY <2>2, <2>3
<1>6. ASSUME NEW u \in Tasks, NEW l \in Lanes
      PROVE  InLane(u, l)' <=> InLane(u, l) /\ ~(u = t /\ l = k)
  <2>1. \A y \in Workers : InHand(y, u, l) => (y = x <=> u = t /\ l = k)
    <3>1. \A y \in Workers : InHand(y, t, k) => y = x
      BY <1>1, <1>2 DEF LaneInv, HandsApart
    <3>2. InHand(x, u, l) => u = t /\ l = k
      BY DEF InHand
    <3> QED BY <3>1, <3>2
  <2>2. ~Queued(t, k)
    <3>1. Queued(t, k) => ticket[t] < ticket[t]
      BY <1>1, <1>2 DEF LaneInv, HandsApart
    <3>2. ticket[t] \in Nat
      BY <1>1 DEF TypeInv, TypeOK
    <3> QED BY <3>1, <3>2
  <2>3. Queued(u, l)' <=> Queued(u, l)
    BY <1>3, QueuesFixed
  <2> QED BY <1>4, <2>1, <2>2, <2>3 DEF InLane
<1>7. OpenLanes(t)' = OpenLanes(t) \ {k}
  BY <1>1, <1>6 DEF OpenLanes
<1>8. k \in OpenLanes(t) /\ remaining[t] \in Nat \ {0}
  <2>1. k \in OpenLanes(t)
    BY <1>1, <1>2 DEF OpenLanes, InLane
  <2>2. remaining[t] = Cardinality(OpenLanes(t))
    BY <1>1 DEF CountInv, LanesCounted
  <2> QED BY <2>1, <2>2, Countable, FS_EmptySet
<1>9. /\ remaining'[t] = remaining[t] - 1
      /\ \A u \in Tasks : u # t => remaining'[u] = remaining[u]
  BY <1>1 DEF CountLane, TypeInv, TypeOK
<1> QED BY <1>1, <1>2, <1>5, <1>6, <1>7, <1>8, <1>9

(* Counting a lane neither frees nor leaks the slot of its task.           *)
LEMMA CountLaneKeepsCounts ==
  ASSUME TypeInv, HotInv, LaneInv, CountInv, NEW x \in Workers, CountLane(x)
  PROVE  CountInv' /\ HeldTasks' = HeldTasks
<1> SUFFICES ASSUME NEW t, t = worker[x].task
             PROVE  CountInv' /\ HeldTasks' = HeldTasks
  OBVIOUS
<1>1. /\ Admitted' = Admitted /\ completed' = completed /\ pending' = pending
  BY DEF CountLane, clientVars, queueVars, Admitted
<1>2. /\ t \in Tasks /\ t \in Admitted /\ remaining[t] \in Nat \ {0}
      /\ remaining'[t] = remaining[t] - 1
      /\ \A u \in Tasks : u # t => remaining'[u] = remaining[u]
      /\ \A y \in Workers, u \in Tasks :
           Closing(y, u)' <=> Closing(y, u) \/ (y = x /\ u = t /\ remaining[u] = 1)
  BY CountLaneCloses
<1>3. \A y \in Workers : ~Closing(y, t)
  BY <1>2 DEF CountInv, OneFinisher
<1>4. LanesCounted'
  <2>1. PICK k : /\ OpenLanes(t)' = OpenLanes(t) \ {k} /\ k \in OpenLanes(t)
                 /\ \A u \in Tasks, l \in Lanes :
                      u # t => (InLane(u, l)' <=> InLane(u, l))
    BY CountLaneCloses
  <2>2. Cardinality(OpenLanes(t)') = Cardinality(OpenLanes(t)) - 1
    BY <2>1, Countable, FS_RemoveElement, ZenonT(30)
  <2>3. \A u \in Tasks : u # t => OpenLanes(u)' = OpenLanes(u)
    BY <2>1 DEF OpenLanes
  <2> QED BY <1>2, <2>2, <2>3 DEF CountInv, LanesCounted
<1>5. OneFinisher'
  <2>1. \A y \in Workers : y # x => worker'[y] = worker[y]
    BY GotoShape, FreeShape DEF CountLane
  <2>2. t \notin completed
    BY <1>2 DEF CountInv, OneFinisher
  <2> SUFFICES ASSUME NEW y \in Workers, NEW u \in Tasks, Closing(y, u)'
               PROVE  /\ remaining'[u] = 0
                      /\ u \in completed <=> worker'[y].pc = "releasing"
                      /\ \A z \in Workers : Closing(z, u)' => y = z
    <3>1. \A u \in completed : u # t /\ u \in Tasks
      BY <2>2 DEF CountInv, OneFinisher, Admitted
    <3>2. \A u \in completed' : u \in Admitted' /\ remaining'[u] = 0
      BY <1>1, <1>2, <3>1 DEF CountInv, OneFinisher
    <3> QED BY <1>1, <3>2 DEF OneFinisher
  <2>3. CASE u = t
    <3>1. y = x /\ remaining[t] = 1
      BY <1>2, <1>3, <2>3
    <3>2. worker'[x].pc = "publishing"
      BY <3>1, GotoShape DEF CountLane
    <3> QED BY <1>2, <1>3, <2>2, <2>3, <3>1, <3>2
  <2>4. CASE u # t
    <3>1. Closing(y, u) /\ y # x
      BY <1>2, <2>4 DEF Closing
    <3>2. \A z \in Workers : Closing(z, u)' => Closing(z, u)
      BY <1>2, <2>4
    <3> QED BY <1>2, <2>1, <2>4, <3>1, <3>2 DEF CountInv, OneFinisher
  <2> QED BY <2>3, <2>4
<1>6. HeldTasks' = HeldTasks
  <2>1. \A u \in Tasks : SlotHeld(u)' <=>
          u \in Admitted /\ (remaining'[u] # 0 \/ \E y \in Workers : Closing(y, u)')
    BY <1>1 DEF SlotHeld, Closing, LastPcs
  <2>2. SlotHeld(t) /\ SlotHeld(t)'
    BY <1>2, <2>1, SlotHeldIs
  <2>3. \A u \in Tasks : u # t => (SlotHeld(u)' <=> SlotHeld(u))
    BY <1>2, <2>1, SlotHeldIs
  <2> QED BY <2>2, <2>3 DEF HeldTasks
<1>7. SlotsExact'
  BY <1>1, <1>6 DEF CountInv, SlotsExact, HeldTasks
<1> QED BY <1>4, <1>5, <1>6, <1>7 DEF CountInv

(* The finisher fulfils the promise once.                                  *)
LEMMA PublishKeepsCounts ==
  ASSUME TypeInv, HotInv, CountInv, NEW x \in Workers, Publish(x)
  PROVE  CountInv' /\ HeldTasks' = HeldTasks
<1> SUFFICES ASSUME NEW t, t = worker[x].task
             PROVE  CountInv' /\ HeldTasks' = HeldTasks
  OBVIOUS
<1>1. /\ worker[x].pc = "publishing" /\ Goto(x, "releasing")
      /\ completed' = completed \cup {t} /\ Admitted' = Admitted
      /\ UNCHANGED <<coldQueue, hotQueue, remaining, pending>>
  BY DEF Publish, At, clientVars, queueVars, Admitted
<1>2. t \in Admitted /\ t \in Tasks /\ Closing(x, t)
  BY <1>1 DEF HotInv, OnlyAdmitted, Admitted, Closing, LastPcs
<1>3. \A y \in Workers, u \in Tasks :
        /\ \A l \in Lanes : InHand(y, u, l)' <=> InHand(y, u, l)
        /\ Closing(y, u)' <=> Closing(y, u)
  <2>1. /\ "releasing" \notin OpenPcs /\ "publishing" \notin OpenPcs
        /\ "releasing" \in LastPcs /\ "publishing" \in LastPcs
    BY DEF OpenPcs, LastPcs
  <2> QED BY <1>1, <2>1, GotoHands DEF InHand, Closing
<1>4. \A u \in Tasks, l \in Lanes : InLane(u, l)' <=> InLane(u, l)
  BY <1>1, <1>3, QueuesFixed DEF InLane
<1>5. LanesCounted'
  <2>1. \A u \in Tasks : OpenLanes(u)' = OpenLanes(u)
    BY <1>4 DEF OpenLanes
  <2> QED BY <1>1, <2>1 DEF CountInv, LanesCounted
<1>6. OneFinisher'
  <2>1. worker'[x].pc = "releasing" /\ \A y \in Workers : y # x => worker'[y] = worker[y]
    BY <1>1, GotoShape
  <2>2. remaining[t] = 0 /\ \A y \in Workers : Closing(y, t) => x = y
    BY <1>2 DEF CountInv, OneFinisher
  <2>3. \A u \in completed' : u \in Admitted' /\ remaining'[u] = 0
    BY <1>1, <1>2, <2>2 DEF CountInv, OneFinisher
  <2> SUFFICES ASSUME NEW y \in Workers, NEW u \in Tasks, Closing(y, u)'
               PROVE  /\ remaining'[u] = 0
                      /\ u \in completed' <=> worker'[y].pc = "releasing"
                      /\ \A z \in Workers : Closing(z, u)' => y = z
    BY <2>3 DEF OneFinisher
  <2>4. CASE u = t
    BY <1>1, <1>2, <1>3, <2>1, <2>2, <2>4
  <2>5. CASE u # t
    <3>1. Closing(y, u) /\ y # x
      BY <1>3, <2>5 DEF Closing
    <3> QED BY <1>1, <1>3, <2>1, <2>5, <3>1 DEF CountInv, OneFinisher
  <2> QED BY <2>4, <2>5
<1>7. HeldTasks' = HeldTasks
  <2>1. \A u \in Tasks : SlotHeld(u)' <=>
          u \in Admitted /\ (remaining[u] # 0 \/ \E y \in Workers : Closing(y, u)')
    BY <1>1 DEF SlotHeld, Closing, LastPcs
  <2> QED BY <1>3, <2>1, SlotHeldIs DEF HeldTasks
<1>8. SlotsExact'
  BY <1>1, <1>7 DEF CountInv, SlotsExact, HeldTasks
<1> QED BY <1>5, <1>6, <1>7, <1>8 DEF CountInv

(* The finisher gives the slot of its task back, which was held.           *)
LEMMA ReleaseKeepsCounts ==
  ASSUME TypeInv, HotInv, CountInv, NEW x \in Workers, Release(x),
         NEW t, t = worker[x].task
  PROVE  /\ CountInv' /\ t \in HeldTasks /\ t \in completed
         /\ HeldTasks' = HeldTasks \ {t}
<1>1. /\ worker[x].pc = "releasing" /\ Free(x) /\ Admitted' = Admitted
      /\ pending' = (IF pending # 0 THEN pending - 1 ELSE 0)
      /\ UNCHANGED <<coldQueue, hotQueue, remaining, completed>>
  BY DEF Release, At, clientVars, taskVars, Admitted
<1>2. t \in Admitted /\ t \in Tasks /\ Closing(x, t)
  BY <1>1 DEF HotInv, OnlyAdmitted, Admitted, Closing, LastPcs
<1>3. \A y \in Workers, u \in Tasks :
        /\ \A l \in Lanes : InHand(y, u, l)' <=> InHand(y, u, l)
        /\ Closing(y, u)' <=> y # x /\ Closing(y, u)
  BY <1>1, FreeHands DEF InHand, OpenPcs
<1>4. \A u \in Tasks, l \in Lanes : InLane(u, l)' <=> InLane(u, l)
  BY <1>1, <1>3, QueuesFixed DEF InLane
<1>5. LanesCounted'
  <2>1. \A u \in Tasks : OpenLanes(u)' = OpenLanes(u)
    BY <1>4 DEF OpenLanes
  <2> QED BY <1>1, <2>1 DEF CountInv, LanesCounted
<1>6. OneFinisher'
  <2>1. \A y \in Workers : y # x => worker'[y] = worker[y]
    BY <1>1, FreeShape
  <2> QED BY <1>1, <1>3, <2>1 DEF CountInv, OneFinisher
<1>7. HeldTasks' = HeldTasks \ {t} /\ t \in HeldTasks
  <2>1. \A u \in Tasks : SlotHeld(u)' <=>
          u \in Admitted /\ (remaining[u] # 0 \/ \E y \in Workers : Closing(y, u)')
    BY <1>1 DEF SlotHeld, Closing, LastPcs
  <2>2. remaining[t] = 0 /\ \A y \in Workers : Closing(y, t) => x = y
    BY <1>2 DEF CountInv, OneFinisher
  <2>3. SlotHeld(t) /\ ~SlotHeld(t)'
    BY <1>2, <1>3, <2>1, <2>2, SlotHeldIs
  <2>4. \A u \in Tasks : u # t => (SlotHeld(u)' <=> SlotHeld(u))
    <3>1. \A u \in Tasks : u # t => ~Closing(x, u)
      BY DEF Closing
    <3> QED BY <1>3, <2>1, <3>1, SlotHeldIs
  <2> QED BY <1>2, <2>3, <2>4 DEF HeldTasks
<1>8. SlotsExact'
  <2>1. Cardinality(HeldTasks') = Cardinality(HeldTasks) - 1
    BY <1>7, Countable, FS_RemoveElement
  <2>2. Cardinality(HeldTasks) \in Nat /\ Cardinality(HeldTasks') \in Nat
    <3>1. HeldTasks' \subseteq HeldTasks
      BY <1>7
    <3> QED BY <3>1, Countable, CountType
  <2>3. pending = Cardinality(HeldTasks) /\ pending <= Capacity /\ Capacity \in Nat
    BY ExecutorAssumption DEF CountInv, SlotsExact, HeldTasks
  <2>4. pending' = Cardinality(HeldTasks') /\ pending' <= Capacity
    BY <1>1, <2>1, <2>2, <2>3
  <2> QED BY <2>4 DEF SlotsExact, HeldTasks
<1>9. t \in completed
  BY <1>1, <1>2 DEF CountInv, OneFinisher
<1> QED BY <1>5, <1>6, <1>7, <1>8, <1>9 DEF CountInv

(* Nobody works, nothing is counted.                                       *)
LEMMA CountsInit == Init => CountInv
<1> SUFFICES ASSUME Init PROVE CountInv
  OBVIOUS
<1>1. \A t \in Tasks : OpenLanes(t) = {}
  <2>1. \A l \in Lanes : LaneQueue(l) = <<>>
    BY LanesAre DEF Init
  <2>2. \A t \in Tasks, l \in Lanes : ~Queued(t, l)
    BY <2>1, EmptySeq DEF Queued
  <2>3. \A x \in Workers, t \in Tasks, l \in Lanes : ~InHand(x, t, l)
    BY DEF Init, InHand, OpenPcs
  <2> QED BY <2>2, <2>3 DEF OpenLanes, InLane
<1>2. LanesCounted
  BY <1>1, FS_EmptySet DEF Init, LanesCounted
<1>3. OneFinisher
  BY DEF Init, OneFinisher, Closing, LastPcs
<1>4. SlotsExact
  <2>1. HeldTasks = {}
    BY SlotHeldIs DEF HeldTasks, Init, Admitted
  <2>2. Cardinality(HeldTasks) = 0 /\ pending = 0 /\ 0 <= Capacity
    BY <2>1, FS_EmptySet, ExecutorAssumption DEF Init
  <2> QED BY <2>2 DEF SlotsExact, HeldTasks
<1> QED BY <1>2, <1>3, <1>4 DEF CountInv

(* A step that moves no worker and no queue keeps the counts.              *)
LEMMA StillKeepsCounts ==
  ASSUME CountInv, Admitted' = Admitted,
         UNCHANGED <<coldQueue, hotQueue, worker, remaining, completed, pending>>
  PROVE  CountInv' /\ HeldTasks' = HeldTasks
<1>1. \A x \in Workers, t \in Tasks :
        /\ \A l \in Lanes : InHand(x, t, l)' <=> InHand(x, t, l)
        /\ Closing(x, t)' <=> Closing(x, t)
  BY DEF InHand, Closing, LaneOf
<1>2. \A t \in Tasks, l \in Lanes : InLane(t, l)' <=> InLane(t, l)
  BY <1>1, QueuesFixed DEF InLane
<1> QED BY <1>1, <1>2, CountsKept

(* The counts are right in every step.                                     *)
LEMMA StepKeepsCounts ==
  ASSUME TypeInv, HotInv, LaneInv, CountInv, [Next]_vars
  PROVE  /\ CountInv'
         /\ \/ \E t \in Tasks : Admit(t)
            \/ \E x \in Workers : Release(x)
            \/ HeldTasks' = HeldTasks
<1> DEFINE Kept == /\ CountInv'
                   /\ \/ \E t \in Tasks : Admit(t)
                      \/ \E x \in Workers : Release(x)
                      \/ HeldTasks' = HeldTasks
<1>0. OnlyAdmitted
  BY DEF HotInv
<1>1. ASSUME NEW t \in Tasks, Submit(t) \/ Route(t) \/ Reject(t) PROVE Kept
  <2>1. Admitted' = Admitted
    BY <1>0, <1>1, CallerKeepsLanes DEF AdmittedFixed
  <2>2. UNCHANGED <<coldQueue, hotQueue, worker, remaining, completed, pending>>
    BY <1>1 DEF Submit, Route, Reject, queueVars, taskVars
  <2> QED BY <2>1, <2>2, StillKeepsCounts
<1>2. ASSUME NEW w \in Writers, TakeCold(w) PROVE Kept
  BY <1>2, TakeColdIs, TakeKeepsCounts, LanesAre DEF taskVars
<1>3. ASSUME NEW h \in HotWorkers, TakeHot(h) PROVE Kept
  BY <1>3, TakeHotIs, TakeKeepsCounts, LanesAre DEF taskVars
<1>4. CASE Others
  <2>1. Admitted' = Admitted /\ UNCHANGED <<coldQueue, hotQueue>>
    BY <1>0, <1>4, OthersKeepLanes, OthersQuiet DEF AdmittedFixed
  <2>2. ASSUME NEW w \in Writers, FinishCold(w) PROVE Kept
    <3>1. /\ Goto(w, "counting") /\ worker[w].pc = "running" /\ w \in Workers
          /\ UNCHANGED <<remaining, completed, pending>>
      BY <2>2, LanesAre DEF FinishCold, At, queueVars
    <3> QED BY <2>1, <3>1, MoveKeepsCounts DEF OpenPcs
  <2>3. ASSUME NEW h \in HotWorkers, StartHot(h) PROVE Kept
    <3>1. /\ Goto(h, "running") /\ worker[h].pc = "waiting" /\ h \in Workers
          /\ UNCHANGED <<remaining, completed, pending>>
      BY <2>3, LanesAre DEF StartHot, At, queueVars, taskVars
    <3> QED BY <2>1, <3>1, MoveKeepsCounts DEF OpenPcs
  <2>4. ASSUME NEW h \in HotWorkers, FinishHot(h) PROVE Kept
    <3>1. /\ Goto(h, "announcing") /\ worker[h].pc = "running" /\ h \in Workers
          /\ UNCHANGED <<remaining, completed, pending>>
      BY <2>4, LanesAre DEF FinishHot, At, queueVars
    <3> QED BY <2>1, <3>1, MoveKeepsCounts DEF OpenPcs
  <2>5. ASSUME NEW h \in HotWorkers, CompleteHot(h) PROVE Kept
    <3>1. /\ Goto(h, "counting") /\ worker[h].pc = "announcing" /\ h \in Workers
          /\ UNCHANGED <<remaining, completed, pending>>
      BY <2>5, LanesAre DEF CompleteHot, At, queueVars
    <3> QED BY <2>1, <3>1, MoveKeepsCounts DEF OpenPcs
  <2>6. ASSUME NEW x \in Workers, Exit(x) PROVE Kept
    <3>1. /\ Goto(x, "exited") /\ worker[x].pc = "idle"
          /\ UNCHANGED <<remaining, completed, pending>>
      BY <2>6 DEF Exit, At, queueVars, taskVars
    <3> QED BY <2>1, <3>1, MoveKeepsCounts
  <2>7. CASE NoMoves
    <3>1. UNCHANGED <<worker, remaining, completed, pending>>
      BY <2>7 DEF NoMoves, Stop, Terminated, vars, taskVars, queueVars
    <3> QED BY <2>1, <3>1, StillKeepsCounts
  <2> QED
    BY <1>4, <2>2, <2>3, <2>4, <2>5, <2>6, <2>7, CountLaneKeepsCounts,
       PublishKeepsCounts, ReleaseKeepsCounts DEF Others, HotMoves, LaneStep
<1> QED BY <1>1, <1>2, <1>3, <1>4, StepsAre, AdmitKeepsCounts

(* Lanes and slots are counted right in every behaviour.                   *)
LEMMA CountsInvariant == Spec => []CountInv
BY LanesInvariant, CountsInit, StepKeepsCounts, PTL DEF Spec

(* pending_tasks_ is the number of tasks that hold a slot and never        *)
(* exceeds queue_capacity_, for any number of lanes and tasks.             *)
THEOREM SlotsAreExact == Spec => []SlotsExact
<1>1. CountInv => SlotsExact
  BY DEF CountInv
<1> QED BY <1>1, CountsInvariant, PTL
-----------------------------------------------------------------------------
(***************************************************************************)
(* The results: a completion covers every lane and is final, and the       *)
(* executor implements IngestPromise.                                      *)
(***************************************************************************)
(* The hot lane of a task closes after its windows and its hot result.     *)
HotLaneResult ==
  /\ \A t \in Admitted :
       InLane(t, HotLane) \/ (t \in ordered /\ result[t].hot)
  /\ \A h \in HotWorkers, t \in Tasks :
       InHand(h, t, HotLane) =>
         /\ t \in ordered <=> worker[h].pc \in {"announcing", "counting"}
         /\ worker[h].pc = "counting" => result[t].hot
  /\ \A t \in ordered : ~Queued(t, HotLane)

(* A storage result accounts for n points that went through the store.     *)
AccountsFor(storage, n) ==
  /\ storage.success <= n
  /\ storage.code = (IF n = 0 THEN "None"
                     ELSE IF storage.success = n THEN "Ok"
                     ELSE IF storage.success = 0 THEN "Failed"
                     ELSE "Partial")

StoredAccounted ==
  \A t \in Tasks : AccountsFor(result[t].storage, Cardinality(StoredSequences(t)))

ResultInv == HotLaneResult /\ StoredAccounted
-----------------------------------------------------------------------------
(***************************************************************************)
(* What went through the store.                                            *)
(***************************************************************************)
InCold(t, w) == Queued(t, w) \/ Writing(w, t)

(* A sequence waits at the writer it is routed to, before and after a step.*)
LEMMA ColdLaneIs ==
  ASSUME NEW w \in Writers, NEW t, NEW s
  PROVE  /\ route[t][s] = w =>
              (ColdQueued(t, s) \/ ColdWriting(t, s) <=> InCold(t, w))
         /\ route'[t][s] = w =>
              ((ColdQueued(t, s) \/ ColdWriting(t, s))' <=> InCold(t, w)')
<1>1. w # HotLane
  BY LanesAre
<1> QED
  BY <1>1 DEF ColdQueued, InQueue, ColdWriting, At, InCold, Queued, Writing,
              LaneQueue

(* A step that neither queues nor stores keeps what is stored.             *)
LEMMA StoredKept ==
  ASSUME TypeInv, LaneInv, AdmittedFixed,
         \A w \in Writers, t \in Tasks : InCold(t, w)' <=> InCold(t, w)
  PROVE  \A t \in Tasks : StoredSequences(t)' = StoredSequences(t)
<1> SUFFICES ASSUME NEW t \in Tasks
             PROVE  StoredSequences(t)' = StoredSequences(t)
  OBVIOUS
<1>1. CASE t \notin Admitted
  BY <1>1 DEF AdmittedFixed, StoredSequences
<1>2. CASE t \in Admitted
  <2>1. batch'[t] = batch[t] /\ route'[t] = route[t] /\ t \in Admitted'
    BY <1>2 DEF AdmittedFixed
  <2>2. ASSUME NEW s \in batch[t]
        PROVE  (ColdQueued(t, s) \/ ColdWriting(t, s))'
                 <=> ColdQueued(t, s) \/ ColdWriting(t, s)
    <3>1. PICK w \in Writers : route[t][s] = w
      BY <1>2, ColdLaneOf
    <3> QED BY <2>1, <3>1, ColdLaneIs
  <2> QED BY <1>2, <2>1, <2>2 DEF StoredSequences
<1> QED BY <1>1, <1>2

(* Admission stores nothing: all points of the task are queued.            *)
LEMMA StoredAtAdmission ==
  ASSUME TypeInv, HotInv, LaneInv, NEW t \in Tasks, Admit(t)
  PROVE  /\ \A u \in Tasks : StoredSequences(u)' = StoredSequences(u)
         /\ StoredSequences(t) = {}
<1>0. OnlyAdmitted /\ TicketsCount
  BY DEF HotInv
<1>1. /\ Admitted' = Admitted \cup {t} /\ t \notin Admitted
      /\ UNCHANGED <<batch, route, worker>>
  BY <1>0, AdmitQueues
<1>2. StoredSequences(t) = {}
  BY <1>1 DEF StoredSequences
<1>3. StoredSequences(t)' = {}
  <2>1. ASSUME NEW s \in batch[t]
        PROVE  (ColdQueued(t, s) \/ ColdWriting(t, s))'
    <3>1. s \in SequenceIds /\ route[t][s] # NoWriter
      BY DEF TypeInv, TypeOK, Admit, Unrouted
    <3>2. route[t][s] \in 0 .. ColdCount /\ route[t][s] # ColdCount
      BY <3>1 DEF TypeInv, TypeOK, NoWriter
    <3>3. PICK w \in Writers : route[t][s] = w
      BY <3>2, ExecutorAssumption DEF Writers
    <3>4. HasLane(t, w) /\ w \in Lanes
      BY <3>3, LanesAre DEF HasLane, ColdBatch
    <3>5. Queued(t, w)'
      BY <1>0, <3>4, AdmitQueues
    <3> QED BY <1>1, <3>3, <3>5, ColdLaneIs DEF InCold
  <2> QED BY <1>1, <2>1 DEF StoredSequences
<1>4. ASSUME NEW u \in Tasks, u # t PROVE StoredSequences(u)' = StoredSequences(u)
  <2>1. CASE u \notin Admitted
    BY <1>1, <1>4, <2>1 DEF StoredSequences
  <2>2. CASE u \in Admitted
    <3>1. ASSUME NEW s \in batch[u]
          PROVE  (ColdQueued(u, s) \/ ColdWriting(u, s))'
                   <=> ColdQueued(u, s) \/ ColdWriting(u, s)
      <4>1. PICK w \in Writers : route[u][s] = w
        BY <2>2, ColdLaneOf
      <4>2. Queued(u, w)' <=> Queued(u, w)
        BY <1>0, <1>4, AdmitQueues, LanesAre
      <4>3. Writing(w, u)' <=> Writing(w, u)
        BY <1>1 DEF Writing
      <4> QED BY <1>1, <4>1, <4>2, <4>3, ColdLaneIs DEF InCold
    <3> QED BY <1>1, <2>2, <3>1 DEF StoredSequences
  <2> QED BY <2>1, <2>2
<1> QED BY <1>2, <1>3, <1>4

(* Worker x neither begins nor ends a cold write.                          *)
LEMMA NoWrite ==
  ASSUME TypeInv, NEW x \in Workers, NEW pc, Goto(x, pc) \/ Free(x),
         UNCHANGED <<coldQueue, hotQueue>>,
         x \in Writers => worker[x].pc # "running" /\ pc # "running"
  PROVE  \A w \in Writers, t \in Tasks : InCold(t, w)' <=> InCold(t, w)
<1>1. \A w \in Writers, t \in Tasks : Writing(w, t)' <=> Writing(w, t)
  <2>1. \A y \in Workers : y # x => worker'[y] = worker[y]
    BY GotoShape, FreeShape
  <2>2. x \in Writers => worker'[x].pc # "running"
    BY GotoShape, FreeShape
  <2> QED BY <2>1, <2>2, LanesAre DEF Writing
<1> QED BY <1>1, QueuesFixed DEF InCold

(* Only cold_write stores.                                                 *)
LEMMA StoredSame ==
  ASSUME TypeInv, HotInv, LaneInv, [Next]_vars,
         ~\E w \in Writers : FinishCold(w)
  PROVE  \A t \in Tasks : StoredSequences(t)' = StoredSequences(t)
<1> DEFINE Same == \A t \in Tasks : StoredSequences(t)' = StoredSequences(t)
<1>0. OnlyAdmitted /\ TicketsCount /\ QueuesSorted
  BY DEF HotInv, LaneInv
<1>1. ASSUME NEW t \in Tasks, Submit(t) \/ Route(t) \/ Reject(t) PROVE Same
  <2>1. UNCHANGED <<coldQueue, hotQueue, worker>>
    BY <1>1 DEF Submit, Route, Reject, queueVars
  <2>2. \A w \in Writers, u \in Tasks : InCold(u, w)' <=> InCold(u, w)
    BY <2>1, QueuesFixed DEF InCold, Writing
  <2> QED BY <1>0, <1>1, <2>2, CallerKeepsLanes, StoredKept
<1>2. ASSUME NEW x \in Workers, NEW t, NEW l, TakesHead(x, t, l),
             x \in Writers => worker'[x].pc = "running"
      PROVE  Same
  <2>1. AdmittedFixed
    BY <1>2 DEF TakesHead, clientVars, AdmittedFixed, Admitted
  <2>2. ASSUME NEW w \in Writers, NEW u \in Tasks
        PROVE  InCold(u, w)' <=> InCold(u, w)
    <3>1. w \in Workers /\ w \in Lanes /\ LaneOf(w) = w /\ l = LaneOf(x)
      BY <1>2, LanesAre DEF TakesHead
    <3>2. CASE w = x
      BY <1>0, <1>2, <3>1, <3>2, TakeMoves DEF InCold, Writing
    <3>3. CASE w # x
      <4>1. w # l
        BY <3>1, <3>3, LanesAre DEF LaneOf
      <4> QED BY <1>0, <1>2, <3>1, <3>3, <4>1, TakeMoves DEF InCold, Writing
    <3> QED BY <3>2, <3>3
  <2> QED BY <2>1, <2>2, StoredKept
<1>3. ASSUME NEW w \in Writers, TakeCold(w) PROVE Same
  BY <1>2, <1>3, TakeColdIs, LanesAre
<1>4. ASSUME NEW h \in HotWorkers, TakeHot(h) PROVE Same
  BY <1>2, <1>4, TakeHotIs, LanesAre
<1>5. CASE Others
  <2>1. AdmittedFixed /\ UNCHANGED <<coldQueue, hotQueue>>
    BY <1>0, <1>5, OthersKeepLanes, OthersQuiet
  <2>2. ASSUME NEW h \in HotWorkers, HotMoves(h) PROVE Same
    <3>1. h \in Workers /\ h \notin Writers /\ \E pc : Goto(h, pc)
      BY <2>2, LanesAre DEF HotMoves, StartHot, FinishHot, CompleteHot
    <3> QED BY <2>1, <3>1, NoWrite, StoredKept
  <2>3. ASSUME NEW x \in Workers, LaneStep(x) PROVE Same
    <3>1. /\ worker[x].pc # "running"
          /\ \/ Goto(x, "publishing") \/ Free(x) \/ Goto(x, "releasing")
             \/ Goto(x, "exited")
      BY <2>3 DEF LaneStep, CountLane, Publish, Release, Exit, At
    <3> QED BY <2>1, <3>1, NoWrite, StoredKept
  <2>4. CASE NoMoves
    <3>1. worker' = worker
      BY <2>4 DEF NoMoves, Stop, Terminated, vars
    <3>2. \A w \in Writers, u \in Tasks : InCold(u, w)' <=> InCold(u, w)
      BY <2>1, <3>1, QueuesFixed DEF InCold, Writing
    <3> QED BY <2>1, <3>2, StoredKept
  <2> QED BY <1>5, <2>2, <2>3, <2>4 DEF Others
<1> QED BY <1>1, <1>3, <1>4, <1>5, StepsAre, StoredAtAdmission
-----------------------------------------------------------------------------
(* Merging the outcome of one more shard accounts for its points too.      *)
LEMMA MergeAccounts ==
  ASSUME NEW a \in Storage, NEW n \in Nat, AccountsFor(a, n),
         NEW m \in Nat \ {0}, NEW part \in ColdOutcomes(m)
  PROVE  AccountsFor(MergeStorage(a, part), n + m)
<1>1. /\ part.code \in {"Ok", "Partial", "Failed"}
      /\ part.success \in 0 .. m
      /\ part.code = "Ok" <=> part.success = m
      /\ part.code = "Failed" <=> part.success = 0
  BY ExecutorAssumption DEF ColdOutcomes
<1>2. a.code \in Codes /\ a.success \in Nat
  BY DEF Storage
<1>3. CASE n = 0
  BY <1>1, <1>2, <1>3 DEF AccountsFor, MergeStorage
<1>4. CASE n # 0
  <2>1. a.code # "None" /\ a.success <= n
    BY <1>4 DEF AccountsFor
  <2> DEFINE success == a.success + part.success
  <2>2. CASE a.code = "Failed"
    BY <1>1, <1>2, <1>4, <2>1, <2>2 DEF AccountsFor, MergeStorage
  <2>3. CASE a.code = "Ok"
    BY <1>1, <1>2, <1>4, <2>1, <2>3 DEF AccountsFor, MergeStorage
  <2>4. CASE a.code = "Partial"
    BY <1>1, <1>2, <1>4, <2>1, <2>4 DEF AccountsFor, MergeStorage
  <2> QED BY <1>2, <2>1, <2>2, <2>3, <2>4 DEF Codes
<1> QED BY <1>3, <1>4

(* The write of w closes one cold lane: what that lane carries, and        *)
(* nothing else, has now gone through the store.                           *)
LEMMA FinishColdStores ==
  ASSUME TypeInv, HotInv, LaneInv, NEW w \in Writers, FinishCold(w),
         NEW t, t = worker[w].task
  PROVE  /\ t \in Admitted /\ t \in Tasks /\ InHand(w, t, w)
         /\ ColdBatch(t, w) # {} /\ ColdBatch(t, w) \subseteq batch[t]
         /\ ColdBatch(t, w) \cap StoredSequences(t) = {}
         /\ StoredSequences(t)' = StoredSequences(t) \cup ColdBatch(t, w)
         /\ \A u \in Tasks : u # t => StoredSequences(u)' = StoredSequences(u)
<1>1. /\ worker[w].pc = "running" /\ Goto(w, "counting") /\ w \in Workers
      /\ UNCHANGED <<submission, batch, route, coldQueue, hotQueue>>
      /\ Admitted' = Admitted
  BY LanesAre DEF FinishCold, At, clientVars, queueVars, Admitted
<1>2. t \in Admitted /\ t \in Tasks
  BY <1>1 DEF HotInv, OnlyAdmitted, Admitted
<1>3. InHand(w, t, w) /\ Writing(w, t) /\ w \in Lanes /\ w # HotLane
  BY <1>1, LanesAre DEF InHand, OpenPcs, Writing
<1>4. /\ ColdBatch(t, w) # {}
      /\ \A u \in Tasks : Queued(u, w) => ticket[t] < ticket[u]
  BY <1>1, <1>2, <1>3 DEF LaneInv, HandsApart, HasLane
<1>5. ~Queued(t, w)
  BY <1>2, <1>4 DEF TypeInv, TypeOK
<1>6. ASSUME NEW v \in Writers, NEW u \in Tasks
      PROVE  InCold(u, v)' <=> InCold(u, v) /\ ~(u = t /\ v = w)
  <2>1. /\ worker'[w].pc = "counting"
        /\ \A y \in Workers : y # w => worker'[y] = worker[y]
    BY <1>1, GotoShape
  <2>2. Queued(u, v)' <=> Queued(u, v)
    BY <1>1, QueuesFixed
  <2>3. v \in Workers
    BY LanesAre
  <2>4. Writing(v, u)' <=> Writing(v, u) /\ ~(u = t /\ v = w)
    BY <1>1, <2>1, <2>3 DEF Writing
  <2> QED BY <1>5, <2>2, <2>4 DEF InCold
<1>7. ASSUME NEW u \in Tasks, u \in Admitted, NEW s \in batch[u]
      PROVE  /\ s \in StoredSequences(u) <=> ~InCold(u, route[u][s])
             /\ s \in StoredSequences(u)' <=>
                  \/ s \in StoredSequences(u)
                  \/ u = t /\ route[u][s] = w
  <2>1. PICK v \in Writers : route[u][s] = v
    BY <1>7, ColdLaneOf
  <2> QED BY <1>1, <1>6, <1>7, <2>1, ColdLaneIs DEF StoredSequences
<1>8. \A u \in Tasks : u \notin Admitted =>
        StoredSequences(u) = {} /\ StoredSequences(u)' = {}
  BY <1>1 DEF StoredSequences
<1>9. \A u \in Tasks :
        StoredSequences(u) \subseteq batch[u] /\ StoredSequences(u)' \subseteq batch[u]
  BY <1>1 DEF StoredSequences
<1>10. /\ ColdBatch(t, w) \subseteq batch[t]
       /\ \A s \in batch[t] : s \in ColdBatch(t, w) <=> route[t][s] = w
  BY DEF ColdBatch
<1>11. InCold(t, w)
  BY <1>3 DEF InCold
<1>12. ColdBatch(t, w) \cap StoredSequences(t) = {}
  BY <1>2, <1>7, <1>10, <1>11
<1>13. StoredSequences(t)' = StoredSequences(t) \cup ColdBatch(t, w)
  <2>1. \A s \in batch[t] : s \in StoredSequences(t)' <=>
                            s \in StoredSequences(t) \/ s \in ColdBatch(t, w)
    BY <1>2, <1>7, <1>10
  <2> QED BY <1>2, <1>9, <1>10, <2>1
<1>14. ASSUME NEW u \in Tasks, u # t
       PROVE  StoredSequences(u)' = StoredSequences(u)
  <2>1. CASE u \in Admitted
    <3>1. \A s \in batch[u] : s \in StoredSequences(u)' <=> s \in StoredSequences(u)
      BY <1>7, <1>14, <2>1
    <3> QED BY <1>9, <3>1
  <2> QED BY <1>8, <2>1
<1> QED BY <1>2, <1>3, <1>4, <1>10, <1>12, <1>13, <1>14

(* Only points of the task are stored, and they can be counted.            *)
LEMMA StoredCountable ==
  ASSUME TypeInv, NEW t \in Tasks
  PROVE  /\ IsFiniteSet(batch[t]) /\ Cardinality(batch[t]) \in Nat
         /\ StoredSequences(t) \subseteq batch[t]
         /\ \A S \in SUBSET batch[t] : IsFiniteSet(S) /\ Cardinality(S) \in Nat
<1>1. batch[t] \in SUBSET SequenceIds /\ IsFiniteSet(SequenceIds)
  BY ExecutorAssumption DEF TypeInv, TypeOK
<1>2. IsFiniteSet(batch[t]) /\ Cardinality(batch[t]) \in Nat
  BY <1>1, CountType
<1> QED BY <1>2, CountType DEF StoredSequences
-----------------------------------------------------------------------------
(***************************************************************************)
(* The result of a task.                                                   *)
(***************************************************************************)
(* A step that moves no task out of the hot lane keeps what is said of it. *)
LEMMA HotLaneKept ==
  ASSUME HotLaneResult, Admitted' = Admitted, ordered' = ordered,
         \A t \in Tasks : /\ InLane(t, HotLane) => InLane(t, HotLane)'
                          /\ Queued(t, HotLane)' => Queued(t, HotLane)
                          /\ result[t].hot => result'[t].hot,
         ordered \subseteq Tasks,
         \A h \in HotWorkers, t \in Tasks :
           InHand(h, t, HotLane)' =>
             /\ InHand(h, t, HotLane)
             /\ \/ worker'[h] = worker[h]
                \/ worker[h].pc = "waiting" /\ worker'[h].pc = "running"
  PROVE  HotLaneResult'
<1>1. Admitted \subseteq Tasks
  BY DEF Admitted
<1>2. \A h \in HotWorkers, t \in Tasks : InHand(h, t, HotLane)' =>
        /\ worker'[h].pc \in {"announcing", "counting"}
             <=> worker[h].pc \in {"announcing", "counting"}
        /\ worker'[h].pc = "counting" => worker[h].pc = "counting"
  OBVIOUS
<1> QED BY <1>1, <1>2 DEF HotLaneResult

(* A hot worker that leaves its hot_update or announces its result.        *)
LEMMA HotMoveKeepsHotLane ==
  ASSUME TypeInv, HotInv, LaneInv, HotLaneResult, NEW h \in HotWorkers,
         FinishHot(h) \/ CompleteHot(h)
  PROVE  HotLaneResult'
<1> SUFFICES ASSUME NEW t, t = worker[h].task PROVE HotLaneResult'
  OBVIOUS
<1> DEFINE pc == IF FinishHot(h) THEN "announcing" ELSE "counting"
<1>1. /\ h \in Workers /\ LaneOf(h) = HotLane /\ HotLane \in Lanes
      /\ worker[h].pc \in OpenPcs /\ pc \in OpenPcs
      /\ Goto(h, pc) /\ Admitted' = Admitted
      /\ UNCHANGED <<coldQueue, hotQueue>>
  <2>1. h \in Workers /\ LaneOf(h) = HotLane /\ HotLane \in Lanes
    BY LanesAre
  <2>2. ~(FinishHot(h) /\ CompleteHot(h))
    BY DEF FinishHot, CompleteHot, At
  <2> QED
    BY <2>1, <2>2 DEF FinishHot, CompleteHot, At, OpenPcs, clientVars, queueVars, Admitted
<1>2. t \in Admitted /\ t \in Tasks /\ InHand(h, t, HotLane)
  BY <1>1 DEF HotInv, OnlyAdmitted, Admitted, InHand, OpenPcs
<1>3. \A y \in Workers, u \in Tasks, l \in Lanes :
        InHand(y, u, l)' <=> InHand(y, u, l)
  BY <1>1, GotoHands DEF InHand
<1>4. \A u \in Tasks : /\ InLane(u, HotLane)' <=> InLane(u, HotLane)
                       /\ Queued(u, HotLane)' <=> Queued(u, HotLane)
  BY <1>1, <1>3, QueuesFixed DEF InLane
<1>5. /\ \A y \in HotWorkers : InHand(y, t, HotLane) => y = h
      /\ ~Queued(t, HotLane)
  <2>1. \A u \in Tasks : Queued(u, HotLane) => ticket[t] < ticket[u]
    BY <1>1, <1>2 DEF LaneInv, HandsApart
  <2>2. ~(ticket[t] < ticket[t])
    BY <1>2 DEF TypeInv, TypeOK
  <2> QED BY <1>1, <1>2, <2>1, <2>2, LanesAre DEF LaneInv, HandsApart
<1>6. /\ worker'[h].pc = pc
      /\ \A y \in HotWorkers : y # h => worker'[y] = worker[y]
  BY <1>1, GotoShape, LanesAre
<1>7. \A u \in Tasks : u # t => ~InHand(h, u, HotLane)
  BY DEF InHand
<1>8. /\ \A u \in Tasks : u # t => (u \in ordered' <=> u \in ordered)
      /\ \A u \in Tasks : u # t => result'[u] = result[u]
      /\ t \in ordered' /\ (pc = "counting" => result'[t].hot)
      /\ ordered' \subseteq ordered \cup {t}
  <2>1. CASE FinishHot(h)
    BY <2>1 DEF FinishHot
  <2>2. CASE CompleteHot(h)
    <3>1. t \in ordered
      BY <1>2, <2>2 DEF HotLaneResult, CompleteHot, At
    <3> QED BY <1>2, <2>2, <3>1 DEF CompleteHot, TypeInv, TypeOK, Results
  <2> QED BY <2>1, <2>2
<1>9. \A u \in Admitted' : InLane(u, HotLane)' \/ (u \in ordered' /\ result'[u].hot)
  <2>1. InLane(t, HotLane)
    BY <1>1, <1>2 DEF InLane
  <2> QED BY <1>1, <1>4, <1>8, <2>1 DEF HotLaneResult, Admitted
<1>10. ASSUME NEW y \in HotWorkers, NEW u \in Tasks, InHand(y, u, HotLane)'
       PROVE  /\ u \in ordered' <=> worker'[y].pc \in {"announcing", "counting"}
              /\ worker'[y].pc = "counting" => result'[u].hot
  <2>1. InHand(y, u, HotLane)
    BY <1>1, <1>3, <1>10, LanesAre
  <2>2. CASE y = h
    BY <1>1, <1>6, <1>7, <1>8, <2>1, <2>2
  <2>3. CASE y # h
    BY <1>5, <1>6, <1>8, <2>1, <2>3 DEF HotLaneResult
  <2> QED BY <2>2, <2>3
<1>11. \A u \in ordered' : ~Queued(u, HotLane)'
  BY <1>2, <1>4, <1>5, <1>8, ZenonT(30) DEF HotLaneResult, TypeInv, TypeOK
<1> QED BY <1>9, <1>10, <1>11 DEF HotLaneResult

(* Counting the hot lane closes it, after its windows and its result.      *)
LEMMA CountKeepsHotLane ==
  ASSUME TypeInv, HotInv, LaneInv, CountInv, HotLaneResult,
         NEW x \in Workers, CountLane(x)
  PROVE  HotLaneResult'
<1> SUFFICES ASSUME NEW t, t = worker[x].task, NEW k, k = LaneOf(x)
             PROVE  HotLaneResult'
  OBVIOUS
<1>1. /\ InHand(x, t, k) /\ t \in Tasks /\ k \in Lanes
      /\ \A u \in Tasks, l \in Lanes :
           InLane(u, l)' <=> InLane(u, l) /\ ~(u = t /\ l = k)
  BY CountLaneCloses
<1>2. /\ worker[x].pc = "counting" /\ Admitted' = Admitted
      /\ UNCHANGED <<ordered, result, coldQueue, hotQueue>>
      /\ Goto(x, "publishing") \/ Free(x)
  BY DEF CountLane, At, clientVars, queueVars, Admitted
<1>3. \A y \in Workers, u \in Tasks, l \in Lanes :
        InHand(y, u, l)' => y # x /\ InHand(y, u, l)
  BY <1>2, GotoHands, FreeHands DEF OpenPcs
<1>4. \A y \in Workers : y # x => worker'[y] = worker[y]
  BY <1>2, GotoShape, FreeShape
<1>5. HotLane \in Lanes /\ ordered \subseteq Tasks /\ Admitted \subseteq Tasks
  BY LanesAre DEF TypeInv, TypeOK, Admitted
<1>6. k = HotLane => t \in ordered /\ result[t].hot
  <2>1. k = HotLane => x \in HotWorkers
    BY LanesAre
  <2> QED BY <1>1, <1>2, <2>1 DEF HotLaneResult
<1>7. \A u \in Tasks : Queued(u, HotLane)' <=> Queued(u, HotLane)
  BY <1>2, QueuesFixed
<1>8. \A u \in Admitted' : InLane(u, HotLane)' \/ (u \in ordered' /\ result'[u].hot)
  BY <1>1, <1>2, <1>5, <1>6 DEF HotLaneResult
<1>9. ASSUME NEW y \in HotWorkers, NEW u \in Tasks, InHand(y, u, HotLane)'
      PROVE  /\ u \in ordered' <=> worker'[y].pc \in {"announcing", "counting"}
             /\ worker'[y].pc = "counting" => result'[u].hot
  <2>1. y # x /\ InHand(y, u, HotLane) /\ worker'[y] = worker[y]
    BY <1>3, <1>4, <1>5, <1>9, LanesAre
  <2> QED BY <1>2, <2>1 DEF HotLaneResult
<1>10. \A u \in ordered' : ~Queued(u, HotLane)'
  BY <1>2, <1>5, <1>7 DEF HotLaneResult
<1> QED BY <1>8, <1>9, <1>10 DEF HotLaneResult

(* Admission queues the task in the hot lane.                              *)
LEMMA AdmitKeepsHotLane ==
  ASSUME TypeInv, HotInv, HotLaneResult, NEW t \in Tasks, Admit(t)
  PROVE  HotLaneResult'
<1>0. OnlyAdmitted /\ TicketsCount
  BY DEF HotInv
<1>1. /\ HotLane \in Lanes /\ UNCHANGED <<ordered, result, worker>>
      /\ HasLane(t, HotLane)
      /\ Admitted' = Admitted \cup {t} /\ t \notin Admitted
      /\ ordered \subseteq Admitted /\ Admitted \subseteq Tasks
  BY <1>0, AdmitQueues, LanesAre DEF Admit, HasLane, OnlyAdmitted, Admitted
<1>2. \A u \in Tasks : Queued(u, HotLane)' <=> Queued(u, HotLane) \/ u = t
  BY <1>0, <1>1, AdmitQueues
<1>3. \A x \in Workers, u \in Tasks : InHand(x, u, HotLane)' <=> InHand(x, u, HotLane)
  BY <1>0, <1>1, AdmitQueues
<1>4. \A u \in Tasks : InLane(u, HotLane)' <=> InLane(u, HotLane) \/ u = t
  BY <1>2, <1>3 DEF InLane
<1>5. \A u \in Admitted' : InLane(u, HotLane)' \/ (u \in ordered' /\ result'[u].hot)
  BY <1>1, <1>4 DEF HotLaneResult
<1>6. \A y \in HotWorkers, u \in Tasks : InHand(y, u, HotLane)' =>
        /\ u \in ordered' <=> worker'[y].pc \in {"announcing", "counting"}
        /\ worker'[y].pc = "counting" => result'[u].hot
  BY <1>1, <1>3, LanesAre DEF HotLaneResult
<1>7. \A u \in ordered' : ~Queued(u, HotLane)'
  BY <1>1, <1>2 DEF HotLaneResult
<1> QED BY <1>5, <1>6, <1>7 DEF HotLaneResult

(* A worker takes the next task of its lane.                               *)
LEMMA TakeKeepsHotLane ==
  ASSUME TypeInv, HotInv, LaneInv, HotLaneResult, NEW x \in Workers, NEW t,
         NEW l, TakesHead(x, t, l), UNCHANGED taskVars,
         l = HotLane => worker'[x].pc = "waiting"
  PROVE  HotLaneResult'
<1>0. OnlyAdmitted /\ TicketsCount /\ QueuesSorted
  BY DEF HotInv, LaneInv
<1>1. /\ HotLane \in Lanes /\ UNCHANGED <<ordered, result>>
      /\ Admitted' = Admitted /\ Admitted \subseteq Tasks
      /\ ordered \subseteq Tasks
  BY LanesAre DEF TakesHead, taskVars, clientVars, Admitted, TypeInv, TypeOK
<1>2. /\ t \in Tasks /\ l \in Lanes /\ Queued(t, l)
      /\ \A u \in Tasks : Queued(u, HotLane)' <=>
           Queued(u, HotLane) /\ ~(l = HotLane /\ u = t)
      /\ \A y \in Workers, u \in Tasks : InHand(y, u, HotLane)' <=>
           InHand(y, u, HotLane) \/ (y = x /\ u = t /\ l = HotLane)
      /\ \A y \in Workers : y # x => worker'[y] = worker[y]
      /\ worker[x].pc = "idle"
  BY <1>0, <1>1, TakeMoves
<1>3. \A u \in Tasks : InLane(u, HotLane) => InLane(u, HotLane)'
  BY <1>2 DEF InLane
<1>4. \A u \in Admitted' : InLane(u, HotLane)' \/ (u \in ordered' /\ result'[u].hot)
  BY <1>1, <1>3 DEF HotLaneResult
<1>5. ASSUME NEW y \in HotWorkers, NEW u \in Tasks, InHand(y, u, HotLane)'
      PROVE  /\ u \in ordered' <=> worker'[y].pc \in {"announcing", "counting"}
             /\ worker'[y].pc = "counting" => result'[u].hot
  <2>1. CASE y = x /\ u = t /\ l = HotLane
    BY <1>1, <1>2, <2>1 DEF HotLaneResult
  <2>2. CASE InHand(y, u, HotLane)
    <3>1. y # x
      BY <1>2, <2>2 DEF InHand, OpenPcs
    <3> QED BY <1>1, <1>2, <2>2, <3>1, LanesAre DEF HotLaneResult
  <2> QED BY <1>2, <1>5, <2>1, <2>2, LanesAre
<1>6. \A u \in ordered' : ~Queued(u, HotLane)'
  BY <1>1, <1>2 DEF HotLaneResult
<1> QED BY <1>4, <1>5, <1>6 DEF HotLaneResult

(* Every step keeps what is said of the hot lane.                          *)
LEMMA StepKeepsHotLane ==
  ASSUME TypeInv, HotInv, LaneInv, CountInv, HotLaneResult, [Next]_vars
  PROVE  HotLaneResult'
<1>0. /\ OnlyAdmitted /\ ordered \subseteq Tasks /\ HotLane \in Lanes
      /\ \A t \in Tasks : result[t] \in Results
  BY LanesAre DEF HotInv, TypeInv, TypeOK
<1>1. ASSUME NEW t \in Tasks, Submit(t) \/ Route(t) \/ Reject(t)
      PROVE  HotLaneResult'
  <2>1. Admitted' = Admitted
    BY <1>0, <1>1, CallerKeepsLanes DEF AdmittedFixed
  <2>2. UNCHANGED <<coldQueue, hotQueue, worker, ordered, result>>
    BY <1>1 DEF Submit, Route, Reject, queueVars, taskVars
  <2>3. \A x \in Workers, u \in Tasks, l \in Lanes : InHand(x, u, l)' <=> InHand(x, u, l)
    BY <2>2 DEF InHand
  <2>4. \A u \in Tasks : /\ InLane(u, HotLane)' <=> InLane(u, HotLane)
                         /\ Queued(u, HotLane)' <=> Queued(u, HotLane)
    BY <1>0, <2>2, <2>3, QueuesFixed DEF InLane
  <2> QED BY <1>0, <2>1, <2>2, <2>3, <2>4, LanesAre, HotLaneKept
<1>2. ASSUME NEW w \in Writers, TakeCold(w) PROVE HotLaneResult'
  BY <1>2, TakeColdIs, TakeKeepsHotLane, LanesAre
<1>3. ASSUME NEW h \in HotWorkers, TakeHot(h) PROVE HotLaneResult'
  <2>1. worker'[h].pc = "waiting"
    BY <1>3, TakeShape, LanesAre DEF TakeHot
  <2> QED BY <1>3, <2>1, TakeHotIs, TakeKeepsHotLane, LanesAre
<1>4. CASE Others
  <2>1. Admitted' = Admitted /\ UNCHANGED <<coldQueue, hotQueue>>
    BY <1>0, <1>4, OthersKeepLanes, OthersQuiet DEF AdmittedFixed
  <2>2. ASSUME NEW x \in Workers, NEW pc, Goto(x, pc) \/ Free(x) \/ worker' = worker,
               ordered' = ordered,
               \A t \in Tasks : result[t].hot => result'[t].hot,
               Goto(x, pc) => \/ worker[x].pc \in OpenPcs /\ pc \in OpenPcs
                              \/ worker[x].pc \notin OpenPcs /\ pc \notin OpenPcs,
               Free(x) => worker[x].pc \notin OpenPcs,
               x \in HotWorkers /\ pc \in OpenPcs
                 => worker[x].pc = "waiting" /\ pc = "running"
        PROVE  HotLaneResult'
    <3>1. \A y \in Workers, u \in Tasks, l \in Lanes :
            InHand(y, u, l)' <=> InHand(y, u, l)
      BY <2>2, GotoHands, FreeHands DEF InHand
    <3>2. \A u \in Tasks : /\ InLane(u, HotLane)' <=> InLane(u, HotLane)
                           /\ Queued(u, HotLane)' <=> Queued(u, HotLane)
      BY <1>0, <2>1, <3>1, QueuesFixed DEF InLane
    <3>3. \A y \in Workers : y # x => worker'[y] = worker[y]
      BY <2>2, GotoShape, FreeShape
    <3>4. ASSUME NEW y \in HotWorkers, NEW u \in Tasks, InHand(y, u, HotLane)'
          PROVE  /\ InHand(y, u, HotLane)
                 /\ \/ worker'[y] = worker[y]
                    \/ worker[y].pc = "waiting" /\ worker'[y].pc = "running"
      <4>1. InHand(y, u, HotLane) /\ worker'[y].pc \in OpenPcs
        BY <1>0, <3>1, <3>4, LanesAre DEF InHand
      <4> QED BY <2>2, <3>3, <4>1, GotoShape, FreeShape, LanesAre DEF OpenPcs
    <3> QED BY <1>0, <2>1, <2>2, <3>2, <3>4, HotLaneKept
  <2>3. ASSUME NEW w \in Writers, FinishCold(w) PROVE HotLaneResult'
    <3>1. /\ Goto(w, "counting") /\ worker[w].pc = "running" /\ ordered' = ordered
          /\ w \in Workers /\ w \notin HotWorkers /\ ~Free(w)
      <4>1. Goto(w, "counting") /\ worker[w].pc = "running" /\ ordered' = ordered
            /\ w \in Workers /\ w \notin HotWorkers
        BY <2>3, LanesAre DEF FinishCold, At
      <4>2. worker'[w].pc = "counting"
        BY <4>1, GotoShape
      <4> QED BY <4>1, <4>2, FreeShape
    <3>2. \A t \in Tasks : result[t].hot => result'[t].hot
      BY <1>0, <2>3 DEF FinishCold, TypeInv, TypeOK, Results
    <3> QED BY <2>2, <3>1, <3>2 DEF OpenPcs
  <2>4. ASSUME NEW h \in HotWorkers, HotMoves(h) PROVE HotLaneResult'
    <3>1. CASE StartHot(h)
      <4>1. /\ Goto(h, "running") /\ worker[h].pc = "waiting" /\ h \in Workers
            /\ UNCHANGED <<ordered, result>>
        BY <3>1, LanesAre DEF StartHot, At, taskVars
      <4>2. ~Free(h)
        BY <4>1, GotoShape, FreeShape
      <4> QED BY <2>2, <4>1, <4>2 DEF OpenPcs
    <3> QED BY <2>4, <3>1, HotMoveKeepsHotLane DEF HotMoves
  <2>5. ASSUME NEW x \in Workers, LaneStep(x) PROVE HotLaneResult'
    <3>1. CASE Publish(x) \/ Exit(x)
      <4>1. PICK pc \in {"releasing", "exited"} : Goto(x, pc)
        BY <3>1 DEF Publish, Exit
      <4>2. worker[x].pc \in {"idle", "publishing"} /\ UNCHANGED <<ordered, result>>
        BY <3>1 DEF Publish, Exit, At, taskVars
      <4>3. ~Free(x)
        BY <4>1, GotoShape, FreeShape
      <4> QED BY <2>2, <4>1, <4>2, <4>3 DEF OpenPcs
    <3>2. CASE Release(x)
      <4>1. /\ Free(x) /\ worker[x].pc = "releasing" /\ UNCHANGED <<ordered, result>>
        BY <3>2 DEF Release, At, taskVars
      <4>2. ~Goto(x, "exited")
        BY <4>1, GotoShape, FreeShape
      <4> QED BY <2>2, <4>1, <4>2 DEF OpenPcs
    <3> QED BY <2>5, <3>1, <3>2, CountKeepsHotLane DEF LaneStep
  <2>6. CASE NoMoves
    <3>1. UNCHANGED <<worker, ordered, result>>
      BY <2>6 DEF NoMoves, Stop, Terminated, vars, taskVars
    <3>2. \A x \in Workers, u \in Tasks, l \in Lanes : InHand(x, u, l)' <=> InHand(x, u, l)
      BY <3>1 DEF InHand
    <3>3. \A u \in Tasks : /\ InLane(u, HotLane)' <=> InLane(u, HotLane)
                           /\ Queued(u, HotLane)' <=> Queued(u, HotLane)
      BY <1>0, <2>1, <3>2, QueuesFixed DEF InLane
    <3> QED BY <1>0, <2>1, <3>1, <3>2, <3>3, LanesAre, HotLaneKept
  <2> QED BY <1>4, <2>3, <2>4, <2>5, <2>6 DEF Others
<1> QED BY <1>1, <1>2, <1>3, <1>4, StepsAre, AdmitKeepsHotLane

(* Only cold_write and hot_update write results.                           *)
LEMMA ResultWriters ==
  ASSUME [Next]_vars, ~\E w \in Writers : FinishCold(w),
         ~\E h \in HotWorkers : CompleteHot(h)
  PROVE  result' = result
BY DEF Next, vars, taskVars, ClientStep, ColdStep, HotStep, LaneStep, Submit,
       Route, Reject, Admit, TakeCold, TakeHot, StartHot, FinishHot, CountLane,
       Publish, Release, Exit, Stop, Terminated

(* Disjoint finite sets add up.                                            *)
LEMMA DisjointCount ==
  ASSUME NEW S, IsFiniteSet(S), NEW T, IsFiniteSet(T), S \cap T = {}
  PROVE  Cardinality(S \cup T) = Cardinality(S) + Cardinality(T)
<1>1. Cardinality(S \cap T) = 0
  BY FS_EmptySet
<1>2. Cardinality(S) \in Nat /\ Cardinality(T) \in Nat
  BY FS_CardinalityType
<1>3. Cardinality(S \cup T) = Cardinality(S) + Cardinality(T) - Cardinality(S \cap T)
  BY FS_Union
<1> QED BY <1>1, <1>2, <1>3

(* Every step keeps the account of the stored points.                      *)
LEMMA StepKeepsAccounts ==
  ASSUME TypeInv, HotInv, LaneInv, StoredAccounted, [Next]_vars
  PROVE  StoredAccounted'
<1>0. \A t \in Tasks : result[t] \in Results /\ result[t].storage \in Storage
  BY DEF TypeInv, TypeOK, Results
<1>1. ASSUME NEW w \in Writers, FinishCold(w) PROVE StoredAccounted'
  <2> SUFFICES ASSUME NEW t, t = worker[w].task PROVE StoredAccounted'
    OBVIOUS
  <2> DEFINE part == ColdBatch(t, w)
  <2>1. /\ t \in Tasks /\ part # {} /\ part \subseteq batch[t]
        /\ part \cap StoredSequences(t) = {}
        /\ StoredSequences(t)' = StoredSequences(t) \cup part
        /\ \A u \in Tasks : u # t => StoredSequences(u)' = StoredSequences(u)
    BY <1>1, FinishColdStores
  <2>2. /\ IsFiniteSet(part) /\ Cardinality(part) \in Nat
        /\ IsFiniteSet(StoredSequences(t)) /\ Cardinality(StoredSequences(t)) \in Nat
    BY <2>1, StoredCountable
  <2>3. Cardinality(part) # 0
    BY <2>1, <2>2, FS_EmptySet
  <2>4. Cardinality(StoredSequences(t) \cup part)
          = Cardinality(StoredSequences(t)) + Cardinality(part)
    <3> HIDE DEF part
    <3> QED BY <2>1, <2>2, DisjointCount
  <2> HIDE DEF part
  <2>5. PICK o \in ColdOutcomes(Cardinality(part)) :
               result' = [result EXCEPT ![t].storage = MergeStorage(@, o)]
    BY <1>1 DEF FinishCold, part
  <2>6. /\ result'[t].storage = MergeStorage(result[t].storage, o)
        /\ \A u \in Tasks : u # t => result'[u] = result[u]
    BY <1>0, <2>1, <2>5 DEF TypeInv, TypeOK, Results
  <2>7. AccountsFor(result'[t].storage, Cardinality(StoredSequences(t) \cup part))
    BY <1>0, <2>1, <2>2, <2>3, <2>4, <2>6, MergeAccounts DEF StoredAccounted
  <2> QED BY <2>1, <2>6, <2>7, ZenonT(30) DEF StoredAccounted, AccountsFor
<1>2. CASE ~\E w \in Writers : FinishCold(w)
  <2>1. \A t \in Tasks : StoredSequences(t)' = StoredSequences(t)
    BY <1>2, StoredSame
  <2>2. \A t \in Tasks : result'[t].storage = result[t].storage
    <3>1. ASSUME NEW h \in HotWorkers, CompleteHot(h)
          PROVE  \A t \in Tasks : result'[t].storage = result[t].storage
      BY <1>0, <3>1 DEF CompleteHot, TypeInv, TypeOK, Results
    <3> QED BY <1>2, <3>1, ResultWriters
  <2> QED BY <2>1, <2>2 DEF StoredAccounted, AccountsFor
<1> QED BY <1>1, <1>2

(* Results are right in every behaviour.                                   *)
LEMMA ResultsInvariant ==
  Spec => [](TypeInv /\ HotInv /\ LaneInv /\ CountInv /\ ResultInv)
<1>1. Init => ResultInv
  <2> SUFFICES ASSUME Init PROVE ResultInv
    OBVIOUS
  <2>1. Admitted = {} /\ ordered = {}
    BY DEF Init, Admitted
  <2>2. \A t \in Tasks : StoredSequences(t) = {} /\ result[t].storage.code = "None"
                         /\ result[t].storage.success = 0
    BY <2>1 DEF StoredSequences, Init, EmptyResult
  <2>3. \A h \in HotWorkers, t \in Tasks : ~InHand(h, t, HotLane)
    BY LanesAre DEF Init, InHand, OpenPcs
  <2> QED BY <2>1, <2>2, <2>3, FS_EmptySet
          DEF ResultInv, HotLaneResult, StoredAccounted, AccountsFor
<1>2. TypeInv /\ HotInv /\ LaneInv /\ CountInv /\ ResultInv /\ [Next]_vars => ResultInv'
  BY StepKeepsHotLane, StepKeepsAccounts DEF ResultInv
<1> QED BY <1>1, <1>2, LanesInvariant, CountsInvariant, PTL DEF Spec

(* A completed task has no lane left: its points went through the store    *)
(* and its windows were updated.                                           *)
LEMMA CompletedIsThrough ==
  ASSUME TypeInv, HotInv, LaneInv, CountInv, ResultInv, NEW t \in Tasks,
         remaining[t] = 0, t \in Admitted
  PROVE  /\ \A l \in Lanes : ~InLane(t, l)
         /\ t \in ordered /\ result[t].hot
         /\ StoredSequences(t) = batch[t]
<1>1. OpenLanes(t) = {}
  BY Countable, FS_EmptySet DEF CountInv, LanesCounted
<1>2. \A l \in Lanes : ~InLane(t, l)
  BY <1>1 DEF OpenLanes
<1>3. t \in ordered /\ result[t].hot
  BY <1>2, LanesAre DEF ResultInv, HotLaneResult
<1>4. ASSUME NEW s \in batch[t] PROVE s \in StoredSequences(t)
  <2>1. PICK w \in Writers : route[t][s] = w
    BY ColdLaneOf
  <2>2. w \in Lanes /\ w \in Workers /\ LaneOf(w) = w
    BY LanesAre
  <2>3. ~InCold(t, w)
    BY <1>2, <2>2 DEF InLane, InCold, Writing, InHand, OpenPcs
  <2> QED BY <2>1, <2>3, ColdLaneIs DEF StoredSequences
<1>5. StoredSequences(t) = batch[t]
  BY <1>4 DEF StoredSequences
<1> QED BY <1>2, <1>3, <1>5

(* The promised completion covers every lane: the hot result is there and  *)
(* the storage result counts all shards, in whatever order they finished.  *)
THEOREM CompletionsAreWhole == Spec => []CompletionWhole
<1>1. TypeInv /\ HotInv /\ LaneInv /\ CountInv /\ ResultInv => CompletionWhole
  <2> SUFFICES ASSUME TypeInv, HotInv, LaneInv, CountInv, ResultInv,
                      NEW t \in completed
               PROVE  LET storage == result[t].storage
                          points == Cardinality(batch[t])
                      IN  /\ result[t].hot
                          /\ storage.success <= points
                          /\ batch[t] # {} =>
                               storage.code = (IF storage.success = points THEN "Ok"
                                               ELSE IF storage.success = 0 THEN "Failed"
                                               ELSE "Partial")
    BY DEF CompletionWhole
  <2>1. t \in Tasks /\ t \in Admitted /\ remaining[t] = 0
    BY DEF TypeInv, TypeOK, CountInv, OneFinisher
  <2>2. result[t].hot /\ StoredSequences(t) = batch[t]
    BY <2>1, CompletedIsThrough
  <2>3. AccountsFor(result[t].storage, Cardinality(batch[t]))
    BY <2>1, <2>2 DEF ResultInv, StoredAccounted
  <2>4. batch[t] # {} => Cardinality(batch[t]) # 0
    BY <2>1, StoredCountable, FS_EmptySet
  <2> QED BY <2>2, <2>3, <2>4 DEF AccountsFor
<1> QED BY <1>1, ResultsInvariant, PTL

(* A worker with an open lane in hand keeps its task from completion.      *)
LEMMA OpenNotCompleted ==
  ASSUME CountInv, NEW x \in Workers, NEW t \in Tasks, NEW l \in Lanes,
         InHand(x, t, l)
  PROVE  t \notin completed
<1>1. l \in OpenLanes(t)
  BY DEF OpenLanes, InLane
<1>2. Cardinality(OpenLanes(t)) # 0
  BY <1>1, Countable, FS_EmptySet
<1> QED BY <1>2 DEF CountInv, LanesCounted, OneFinisher

(* The result moves out with the promise: no lane writes it afterwards.    *)
THEOREM PromisedResultIsFinal == Spec => PromisedResultFinal
<1> DEFINE Final == \A t \in completed : result'[t] = result[t]
<1>1. TypeInv /\ HotInv /\ LaneInv /\ CountInv /\ [Next]_vars => [Final]_vars
  <2> SUFFICES ASSUME TypeInv, HotInv, LaneInv, CountInv, [Next]_vars
               PROVE  Final
    OBVIOUS
  <2>1. ASSUME NEW w \in Writers, FinishCold(w) PROVE Final
    <3> SUFFICES ASSUME NEW t, t = worker[w].task PROVE Final
      OBVIOUS
    <3>1. t \in Tasks /\ t \notin completed
      BY <2>1, FinishColdStores, OpenNotCompleted, LanesAre
    <3> QED BY <2>1, <3>1 DEF FinishCold, TypeInv, TypeOK
  <2>2. ASSUME NEW h \in HotWorkers, CompleteHot(h) PROVE Final
    <3> SUFFICES ASSUME NEW t, t = worker[h].task PROVE Final
      OBVIOUS
    <3>1. worker[h].pc = "announcing" /\ h \in Workers
      BY <2>2, LanesAre DEF CompleteHot, At
    <3>2. t \in Tasks /\ InHand(h, t, HotLane) /\ HotLane \in Lanes
      BY <3>1, LanesAre DEF HotInv, OnlyAdmitted, Admitted, InHand, OpenPcs
    <3>3. t \notin completed
      BY <3>1, <3>2, OpenNotCompleted
    <3> QED BY <2>2, <3>2, <3>3 DEF CompleteHot, TypeInv, TypeOK
  <2> QED BY <2>1, <2>2, ResultWriters
<1> QED BY <1>1, LanesInvariant, CountsInvariant, PTL DEF Spec, PromisedResultFinal
-----------------------------------------------------------------------------
(***************************************************************************)
(* The executor implements IngestPromise: Submit asks, Admit accepts,      *)
(* Reject refuses, FinishCold stores the batch of one lane, FinishHot      *)
(* applies, Publish finishes, Release gives the slot back, Stop closes,    *)
(* and every other step stutters.                                          *)
(***************************************************************************)
PromiseStatus == [t \in Tasks |-> IF submission[t] = "routing" THEN "asking"
                                  ELSE submission[t]]
PromiseStored == [t \in Tasks |-> StoredSequences(t)]

(* The promise counts as the executor does.                                *)
LEMMA PromiseCounts == \A S : Promise!Cardinality(S) = Cardinality(S)
BY DEF Promise!Cardinality, Cardinality

(* Those accepted are the admitted.                                        *)
LEMMA PromiseAccepted == TypeInv => Promise!Accepted = Admitted
BY DEF Promise!Accepted, Admitted, TypeInv, TypeOK

(* The executor starts as the promise does.                                *)
LEMMA PromiseInit == Init => Promise!Init
<1> SUFFICES ASSUME Init PROVE Promise!Init
  OBVIOUS
<1>1. Admitted = {}
  BY DEF Init, Admitted
<1>2. \A t \in Tasks : ~SlotHeld(t) /\ StoredSequences(t) = {}
  BY <1>1 DEF SlotHeld, StoredSequences
<1> QED BY <1>1, <1>2 DEF Init, Promise!Init

(* The invariant of the refinement.                                        *)
PromiseInv == TypeInv /\ HotInv /\ LaneInv /\ CountInv /\ ResultInv

(* A call of trySubmit asks.                                               *)
LEMMA SubmitAsks ==
  ASSUME PromiseInv, NEW t \in Tasks, Submit(t),
         HeldTasks' = HeldTasks, PromiseStored' = PromiseStored
  PROVE  Promise!Ask(t)
<1>1. /\ submission[t] = "new" /\ submission' = [submission EXCEPT ![t] = "routing"]
      /\ \E b \in Batches : batch' = [batch EXCEPT ![t] = b]
      /\ UNCHANGED <<ticket, ordered, completed, stopping>>
  BY DEF Submit, queueVars, taskVars
<1>2. PromiseStatus[t] = "new" /\ PromiseStatus' = [PromiseStatus EXCEPT ![t] = "asking"]
  BY <1>1 DEF PromiseStatus, PromiseInv, TypeInv, TypeOK
<1> QED BY <1>1, <1>2 DEF Promise!Ask, PromiseStatus, PromiseStored, HeldTasks

(* trySubmit turns a request away only while the service is full or        *)
(* going down.                                                             *)
LEMMA RejectRefuses ==
  ASSUME PromiseInv, NEW t \in Tasks, Reject(t),
         HeldTasks' = HeldTasks, PromiseStored' = PromiseStored
  PROVE  Promise!Refuse(t)
<1>1. /\ submission[t] = "routing" /\ submission' = [submission EXCEPT ![t] = "rejected"]
      /\ stopping \/ pending >= Capacity
      /\ UNCHANGED <<batch, ticket, ordered, completed, stopping>>
  BY DEF Reject, queueVars, taskVars
<1>2. PromiseStatus[t] = "asking" /\ PromiseStatus' = [PromiseStatus EXCEPT ![t] = "rejected"]
  BY <1>1 DEF PromiseStatus, PromiseInv, TypeInv, TypeOK
<1>3. stopping \/ Cardinality(HeldTasks) = Capacity
  <2>1. pending = Cardinality(HeldTasks) /\ pending <= Capacity
    BY DEF PromiseInv, CountInv, SlotsExact, HeldTasks
  <2>2. pending \in Nat /\ Capacity \in Nat
    BY ExecutorAssumption DEF PromiseInv, TypeInv, TypeOK
  <2> QED BY <1>1, <2>1, <2>2
<1> QED
  BY <1>1, <1>2, <1>3, PromiseCounts
     DEF Promise!Refuse, PromiseStatus, PromiseStored, HeldTasks

(* An admission takes one of the free slots and the next rank.             *)
LEMMA AdmitAccepts ==
  ASSUME PromiseInv, NEW t \in Tasks, Admit(t),
         HeldTasks' = HeldTasks \cup {t}, PromiseStored' = PromiseStored
  PROVE  Promise!Accept(t)
<1>1. /\ submission[t] = "routing" /\ submission' = [submission EXCEPT ![t] = "accepted"]
      /\ ~stopping /\ pending < Capacity
      /\ ticket' = [ticket EXCEPT ![t] = Cardinality(Admitted) + 1]
      /\ UNCHANGED <<batch, ordered, completed, stopping>>
  BY DEF Admit
<1>2. PromiseStatus[t] = "asking" /\ PromiseStatus' = [PromiseStatus EXCEPT ![t] = "accepted"]
  BY <1>1 DEF PromiseStatus, PromiseInv, TypeInv, TypeOK
<1>3. Cardinality(HeldTasks) < Capacity
  BY <1>1 DEF PromiseInv, CountInv, SlotsExact, HeldTasks
<1>4. Promise!Accepted = Admitted
  BY PromiseAccepted DEF PromiseInv
<1> QED
  BY <1>1, <1>2, <1>3, <1>4, PromiseCounts
     DEF Promise!Accept, PromiseStatus, PromiseStored, HeldTasks

(* cold_write stores the batch of its lane behind the earlier batches of   *)
(* the same sequences.                                                     *)
LEMMA FinishColdStoresPart ==
  ASSUME PromiseInv, NEW w \in Writers, FinishCold(w), HeldTasks' = HeldTasks
  PROVE  \E t \in Tasks :
           \E part \in (SUBSET (batch[t] \ PromiseStored[t])) \ {{}} :
             Promise!Store(t, part)
<1> SUFFICES ASSUME NEW t, t = worker[w].task
             PROVE  /\ t \in Tasks
                    /\ \E p \in (SUBSET (batch[t] \ PromiseStored[t])) \ {{}} :
                         Promise!Store(t, p)
  OBVIOUS
<1> DEFINE part == ColdBatch(t, w)
<1>1. /\ t \in Admitted /\ t \in Tasks /\ InHand(w, t, w)
      /\ part # {} /\ part \subseteq batch[t]
      /\ part \cap StoredSequences(t) = {}
      /\ StoredSequences(t)' = StoredSequences(t) \cup part
      /\ \A u \in Tasks : u # t => StoredSequences(u)' = StoredSequences(u)
  BY FinishColdStores DEF PromiseInv
<1>2. \A s \in part : route[t][s] = w
  BY DEF ColdBatch
<1>3. ~Queued(t, w)
  <2>1. w \in Workers /\ w \in Lanes
    BY LanesAre
  <2>2. Queued(t, w) => ticket[t] < ticket[t]
    BY <1>1, <2>1 DEF PromiseInv, LaneInv, HandsApart
  <2> QED BY <1>1, <2>2 DEF PromiseInv, TypeInv, TypeOK
<1> HIDE DEF part
<1>4. ASSUME NEW u \in Tasks, NEW s \in part, ticket[u] # 0,
             ticket[u] < ticket[t], s \in batch[u] \cap batch[t]
      PROVE  s \in StoredSequences(u)
  <2>1. Earlier(u, t) /\ u \in Admitted
    BY <1>4 DEF Earlier, PromiseInv, HotInv, TicketsCount
  <2>2. ColdQueued(t, s) <=> Queued(t, w)
    BY <1>1, <1>2, <1>4, ColdLaneOf DEF PromiseInv
  <2>3. ColdInOrder
    BY LanesOrderCold DEF PromiseInv
  <2>4. ~ColdQueued(u, s) /\ ~ColdWriting(u, s)
    BY <1>1, <1>3, <1>4, <2>1, <2>2, <2>3 DEF ColdInOrder
  <2> QED BY <1>4, <2>1, <2>4 DEF StoredSequences
<1>5. /\ PromiseStored' = [PromiseStored EXCEPT ![t] = PromiseStored[t] \cup part]
      /\ PromiseStored[t] = StoredSequences(t)
      /\ \A u \in Tasks : PromiseStored[u] = StoredSequences(u)
  BY <1>1 DEF PromiseStored
<1>6. PromiseStatus' = PromiseStatus /\ UNCHANGED <<batch, ticket, ordered, completed, stopping>>
  BY DEF FinishCold, clientVars, queueVars, PromiseStatus
<1>7. t \in Promise!Accepted
  BY <1>1, PromiseAccepted DEF PromiseInv
<1>8. \A u \in Tasks, s \in part : Promise!Before(u, t, s) => s \in PromiseStored[u]
  BY <1>4, <1>5 DEF Promise!Before
<1>9. Promise!Store(t, part)
  <2>1. UNCHANGED <<PromiseStatus, batch, ticket, ordered, completed, HeldTasks,
                    stopping>>
    BY <1>6
  <2>2. \A u \in Tasks, s \in part :
          Promise!Before(u, t, s) => s \in [r \in Tasks |-> StoredSequences(r)][u]
    BY <1>8 DEF PromiseStored
  <2>3. [r \in Tasks |-> StoredSequences(r)]'
          = [[r \in Tasks |-> StoredSequences(r)] EXCEPT
               ![t] = [r \in Tasks |-> StoredSequences(r)][t] \cup part]
    BY <1>5 DEF PromiseStored
  <2> QED BY <1>7, <2>1, <2>2, <2>3 DEF Promise!Store, PromiseStatus, HeldTasks
<1>10. part \in (SUBSET (batch[t] \ PromiseStored[t])) \ {{}}
  BY <1>1, <1>5
<1>11. \E p \in (SUBSET (batch[t] \ PromiseStored[t])) \ {{}} : Promise!Store(t, p)
  BY <1>9, <1>10, Zenon
<1> QED BY <1>1, <1>11, Zenon

(* hot_update applies a batch behind the earlier ones of its sequences.    *)
LEMMA FinishHotApplies ==
  ASSUME PromiseInv, NEW h \in HotWorkers, FinishHot(h),
         HeldTasks' = HeldTasks, PromiseStored' = PromiseStored
  PROVE  \E t \in Tasks : Promise!Apply(t)
<1> SUFFICES ASSUME NEW t, t = worker[h].task
             PROVE  t \in Tasks /\ Promise!Apply(t)
  OBVIOUS
<1>1. /\ worker[h].pc = "running" /\ h \in Workers /\ ordered' = ordered \cup {t}
      /\ PromiseStatus' = PromiseStatus
      /\ UNCHANGED <<batch, ticket, completed, stopping>>
  BY LanesAre DEF FinishHot, At, clientVars, queueVars, PromiseStatus
<1>2. t \in Admitted /\ t \in Tasks /\ InHand(h, t, HotLane)
  BY <1>1, LanesAre DEF PromiseInv, HotInv, OnlyAdmitted, Admitted, InHand, OpenPcs
<1>3. t \notin ordered
  BY <1>1, <1>2 DEF PromiseInv, ResultInv, HotLaneResult
<1>4. HotStarted(t)
  BY <1>1 DEF HotStarted, At
<1>5. ASSUME NEW u \in Tasks, NEW s \in SequenceIds, ticket[u] # 0,
             ticket[u] < ticket[t], s \in batch[u] \cap batch[t]
      PROVE  u \in ordered
  <2>1. Earlier(u, t) /\ batch[u] \cap batch[t] # {}
    BY <1>5 DEF Earlier
  <2> QED BY <1>2, <1>4, <2>1 DEF PromiseInv, HotInv, HotInOrder
<1>6. t \in Promise!Accepted
  BY <1>2, PromiseAccepted DEF PromiseInv
<1>7. \A u \in Tasks, s \in SequenceIds : Promise!Before(u, t, s) => u \in ordered
  BY <1>5 DEF Promise!Before
<1> QED
  BY <1>1, <1>2, <1>3, <1>6, <1>7
     DEF Promise!Apply, PromiseStatus, PromiseStored, HeldTasks

(* The last lane finishes a task whose windows are updated and whose       *)
(* points are all stored.                                                  *)
LEMMA PublishFinishes ==
  ASSUME PromiseInv, NEW x \in Workers, Publish(x),
         HeldTasks' = HeldTasks, PromiseStored' = PromiseStored
  PROVE  \E t \in Tasks : Promise!Finish(t)
<1> SUFFICES ASSUME NEW t, t = worker[x].task
             PROVE  t \in Tasks /\ Promise!Finish(t)
  OBVIOUS
<1>1. /\ worker[x].pc = "publishing" /\ completed' = completed \cup {t}
      /\ PromiseStatus' = PromiseStatus
      /\ UNCHANGED <<batch, ticket, ordered, stopping>>
  BY DEF Publish, At, clientVars, queueVars, PromiseStatus
<1>2. t \in Admitted /\ t \in Tasks /\ Closing(x, t)
  BY <1>1 DEF PromiseInv, HotInv, OnlyAdmitted, Admitted, Closing, LastPcs
<1>3. remaining[t] = 0 /\ t \notin completed
  BY <1>1, <1>2 DEF PromiseInv, CountInv, OneFinisher
<1>4. t \in ordered /\ PromiseStored[t] = batch[t]
  BY <1>2, <1>3, CompletedIsThrough DEF PromiseInv, PromiseStored
<1> QED
  BY <1>1, <1>2, <1>3, <1>4
     DEF Promise!Finish, PromiseStatus, PromiseStored, HeldTasks

(* A slot is given back by a finished task that holds one.                 *)
LEMMA ReleaseGivesBack ==
  ASSUME PromiseInv, NEW x \in Workers, Release(x), PromiseStored' = PromiseStored
  PROVE  \E t \in Tasks : Promise!GiveBack(t)
<1> SUFFICES ASSUME NEW t, t = worker[x].task
             PROVE  t \in Tasks /\ Promise!GiveBack(t)
  OBVIOUS
<1>1. t \in HeldTasks /\ t \in completed /\ HeldTasks' = HeldTasks \ {t}
  BY ReleaseKeepsCounts DEF PromiseInv
<1>2. /\ PromiseStatus' = PromiseStatus
      /\ UNCHANGED <<batch, ticket, ordered, completed, stopping>>
  BY DEF Release, clientVars, taskVars, PromiseStatus
<1>3. t \in Tasks
  BY <1>1 DEF HeldTasks
<1> QED
  BY <1>1, <1>2, <1>3 DEF Promise!GiveBack, PromiseStatus, PromiseStored, HeldTasks

(* Only a step that admits or releases changes who holds a slot, and only  *)
(* one that finishes a cold write what is stored.                          *)
LEMMA PromiseKept ==
  ASSUME PromiseInv, [Next]_vars, Admitted' = Admitted, NEW y \in Workers,
         \A x \in Workers : x # y => worker'[x] = worker[x],
         worker[y].pc # "releasing" \/ worker' = worker
  PROVE  /\ HeldTasks' = HeldTasks
         /\ (y \in Writers => worker[y].pc # "running" \/ worker' = worker)
              => PromiseStored' = PromiseStored
<1>1. ASSUME NEW x \in Workers, Release(x) PROVE FALSE
  <2>1. worker[x].pc = "releasing" /\ worker'[x].pc = "idle"
    BY <1>1, FreeShape DEF Release, At, PromiseInv
  <2> QED BY <2>1
<1>2. ASSUME NEW t \in Tasks, Admit(t) PROVE FALSE
  BY <1>2, AdmitQueues DEF PromiseInv, HotInv
<1>3. ASSUME NEW w \in Writers, FinishCold(w)
      PROVE  y \in Writers /\ worker[y].pc = "running" /\ worker' # worker
  <2>1. /\ worker[w].pc = "running" /\ worker'[w].pc = "counting"
        /\ w \in Workers
    BY <1>3, GotoShape, LanesAre DEF FinishCold, At, PromiseInv
  <2> QED BY <2>1
<1>4. HeldTasks' = HeldTasks
  BY <1>1, <1>2, StepKeepsCounts DEF PromiseInv
<1>5. \/ \E w \in Writers : FinishCold(w)
      \/ \A t \in Tasks : StoredSequences(t)' = StoredSequences(t)
  BY StoredSame DEF PromiseInv
<1> QED BY <1>3, <1>4, <1>5 DEF PromiseStored

(* Every step of the executor is one of the promise, or none.              *)
LEMMA StepKeepsPromise ==
  ASSUME PromiseInv, [Next]_vars
  PROVE  [Promise!Next]_(Promise!vars)
<1> DEFINE Same == HeldTasks' = HeldTasks /\ PromiseStored' = PromiseStored
           Goal == [Promise!Next]_(Promise!vars)
<1>0. OnlyAdmitted /\ TypeInv /\ LaneInv
  BY DEF PromiseInv, HotInv
<1>1. ASSUME Admitted' = Admitted, worker' = worker PROVE Same
  <2>1. PICK y : y \in Workers
    BY ExecutorAssumption DEF Workers
  <2> QED BY <1>1, <2>1, PromiseKept
<1>2. ASSUME PromiseStatus' = PromiseStatus, Same,
             UNCHANGED <<batch, ticket, ordered, completed, stopping>>
      PROVE  Goal
  BY <1>2 DEF Promise!vars, PromiseStatus, PromiseStored, HeldTasks
<1>3. ASSUME NEW t \in Tasks, ClientStep(t) PROVE Goal
  <2>1. CASE Admit(t)
    <3>1. PromiseStored' = PromiseStored
      BY <2>1, StoredAtAdmission DEF PromiseInv, PromiseStored
    <3>2. HeldTasks' = HeldTasks \cup {t}
      BY <2>1, AdmitKeepsCounts DEF PromiseInv
    <3>3. Promise!Accept(t)
      BY <2>1, <3>1, <3>2, AdmitAccepts
    <3> QED BY <3>3 DEF Promise!Next
  <2>2. CASE Submit(t) \/ Route(t) \/ Reject(t)
    <3>1. Admitted' = Admitted /\ worker' = worker
      BY <1>0, <2>2, CallerKeepsLanes DEF AdmittedFixed, Submit, Route, Reject
    <3>2. Same
      BY <1>1, <3>1
    <3>3. CASE Submit(t)
      BY <3>2, <3>3, SubmitAsks DEF Promise!Next
    <3>4. CASE Route(t)
      BY <1>2, <3>2, <3>4 DEF Route, queueVars, taskVars, PromiseStatus
    <3>5. CASE Reject(t)
      BY <3>2, <3>5, RejectRefuses DEF Promise!Next
    <3> QED BY <2>2, <3>3, <3>4, <3>5
  <2> QED BY <1>3, <2>1, <2>2 DEF ClientStep
<1>4. ASSUME NEW w \in Writers, FinishCold(w) PROVE Goal
  <2>1. /\ Admitted' = Admitted /\ w \in Workers /\ worker[w].pc = "running"
        /\ \A x \in Workers : x # w => worker'[x] = worker[x]
    BY <1>0, <1>4, GotoShape, LanesAre
       DEF FinishCold, At, clientVars, Admitted
  <2>2. HeldTasks' = HeldTasks
    BY <2>1, PromiseKept
  <2>3. \E t \in Tasks : \E part \in (SUBSET (batch[t] \ PromiseStored[t])) \ {{}} :
          Promise!Store(t, part)
    BY <1>4, <2>2, FinishColdStoresPart
  <2> QED BY <2>3 DEF Promise!Next, PromiseStored
<1>5. ASSUME NEW x \in Workers, Release(x) PROVE Goal
  <2>1. PromiseStored' = PromiseStored
    <3>1. ~\E w \in Writers : FinishCold(w)
      <4>1. worker[x].pc = "releasing" /\ worker'[x].pc = "idle"
        BY <1>0, <1>5, FreeShape DEF Release, At
      <4>2. \A w \in Writers : FinishCold(w) =>
              /\ worker[w].pc = "running" /\ worker'[w].pc = "counting"
              /\ \A y \in Workers : y # w => worker'[y] = worker[y]
        BY <1>0, GotoShape, LanesAre DEF FinishCold, At
      <4> QED BY <4>1, <4>2
    <3> QED BY <3>1, StoredSame DEF PromiseInv, PromiseStored
  <2> QED BY <1>5, <2>1, ReleaseGivesBack DEF Promise!Next
<1>6. ASSUME NEW y \in Workers, worker[y].pc # "releasing", Admitted' = Admitted,
             \A x \in Workers : x # y => worker'[x] = worker[x],
             y \in Writers => worker[y].pc # "running"
      PROVE  Same
  BY <1>6, PromiseKept
<1>7. ASSUME NEW w \in Writers, TakeCold(w) PROVE Goal
  <2>1. /\ Admitted' = Admitted /\ w \in Workers /\ worker[w].pc = "idle"
        /\ \A x \in Workers : x # w => worker'[x] = worker[x]
    BY <1>0, <1>7, TakeColdIs, LanesAre DEF TakesHead, clientVars, Admitted
  <2>2. Same
    BY <1>6, <2>1
  <2> QED BY <1>2, <1>7, <2>2 DEF TakeCold, clientVars, taskVars, PromiseStatus
<1>8. ASSUME NEW h \in HotWorkers, TakeHot(h) PROVE Goal
  <2>1. /\ Admitted' = Admitted /\ h \in Workers /\ worker[h].pc = "idle"
        /\ \A x \in Workers : x # h => worker'[x] = worker[x]
    BY <1>0, <1>8, TakeHotIs, LanesAre DEF TakesHead, clientVars, Admitted
  <2>2. Same
    BY <1>6, <2>1
  <2> QED BY <1>2, <1>8, <2>2 DEF TakeHot, clientVars, taskVars, PromiseStatus
<1>9. ASSUME NEW h \in HotWorkers, StartHot(h) \/ FinishHot(h) \/ CompleteHot(h)
      PROVE  Goal
  <2>1. /\ Admitted' = Admitted /\ h \in Workers /\ h \notin Writers
        /\ worker[h].pc # "releasing"
        /\ \A x \in Workers : x # h => worker'[x] = worker[x]
        /\ PromiseStatus' = PromiseStatus
        /\ UNCHANGED <<batch, ticket, completed, stopping>>
    BY <1>0, <1>9, GotoShape, LanesAre
       DEF StartHot, FinishHot, CompleteHot, At, clientVars, queueVars,
           taskVars, Admitted, PromiseStatus
  <2>2. Same
    BY <1>6, <2>1
  <2>3. CASE FinishHot(h)
    BY <2>2, <2>3, FinishHotApplies DEF Promise!Next
  <2>4. CASE StartHot(h) \/ CompleteHot(h)
    BY <1>2, <2>1, <2>2, <2>4 DEF StartHot, CompleteHot, taskVars
  <2> QED BY <1>9, <2>3, <2>4
<1>10. ASSUME NEW x \in Workers, CountLane(x) \/ Publish(x) \/ Exit(x) PROVE Goal
  <2>1. /\ Admitted' = Admitted /\ worker[x].pc # "releasing"
        /\ worker[x].pc # "running"
        /\ \A y \in Workers : y # x => worker'[y] = worker[y]
        /\ PromiseStatus' = PromiseStatus
        /\ UNCHANGED <<batch, ticket, ordered, stopping>>
    BY <1>0, <1>10, GotoShape, FreeShape
       DEF CountLane, Publish, Exit, At, clientVars, queueVars, taskVars,
           Admitted, PromiseStatus
  <2>2. Same
    BY <1>6, <2>1
  <2>3. CASE Publish(x)
    BY <2>2, <2>3, PublishFinishes DEF Promise!Next
  <2>4. CASE CountLane(x) \/ Exit(x)
    BY <1>2, <2>1, <2>2, <2>4 DEF CountLane, Exit, taskVars
  <2> QED BY <1>10, <2>3, <2>4
<1>11. CASE NoMoves
  <2>1. /\ Admitted' = Admitted /\ worker' = worker
        /\ PromiseStatus' = PromiseStatus
        /\ UNCHANGED <<batch, ticket, ordered, completed>>
    BY <1>11 DEF NoMoves, Stop, Terminated, vars, clientVars, queueVars,
                 taskVars, Admitted, PromiseStatus
  <2>2. Same
    BY <1>1, <2>1
  <2>3. CASE stopping' = stopping
    BY <1>2, <2>1, <2>2, <2>3
  <2>4. CASE Stop
    <3>1. Promise!Close
      BY <2>1, <2>2, <2>4
         DEF Stop, Promise!Close, PromiseStatus, PromiseStored, HeldTasks
    <3> QED BY <3>1 DEF Promise!Next
  <2> QED BY <1>11, <2>3, <2>4 DEF NoMoves, Terminated, vars, queueVars
<1> QED
  BY <1>3, <1>4, <1>5, <1>7, <1>8, <1>9, <1>10, <1>11
     DEF Next, ColdStep, HotStep, LaneStep, NoMoves

(* Every behaviour of the lanes, queues and workers is one of the promise: *)
(* requests are accepted whole or refused, and applied and stored in the   *)
(* order of acceptance.                                                    *)
THEOREM ExecutorImplementsPromise == Spec => ImplementsPromise
<1>1. Spec => []PromiseInv
  BY ResultsInvariant, PTL DEF PromiseInv
<1> QED
  BY <1>1, PromiseInit, StepKeepsPromise, PTL
     DEF Spec, ImplementsPromise, Promise!Spec

-----------------------------------------------------------------------------
(***************************************************************************)
(* IngestRpc, for any number of requests, sequences, writers and hot       *)
(* workers and any outcomes of the callbacks: what an answer says of the   *)
(* windows holds, and the store follows the windows.                       *)
(***************************************************************************)
(* No two admitted tasks have the same place in the order of admission.    *)
TicketsDistinct ==
  \A t, u \in Admitted : ticket[t] = ticket[u] => t = u

(* A window holds a point of a batch that was applied to it; every applied *)
(* batch has reached its windows; and an outcome is one hot_update has.    *)
WindowFollows ==
  /\ \A t \in ordered : outcome[t] \in PossibleOutcomes
  /\ \A s \in SequenceIds : window[s] # NoTask =>
       /\ window[s] \in ordered /\ s \in batch[window[s]]
  /\ \A t \in ordered : \A s \in batch[t] :
       outcome[t].applied => window[s] # NoTask /\ Reached(window, t, s)

(* The store holds a point of an admitted batch, and while all that a task *)
(* has stored went well, each of its stored points has reached the store.  *)
StoreHolds ==
  /\ \A s \in SequenceIds : store[s] # NoTask =>
       store[s] \in Admitted /\ s \in batch[store[s]]
  /\ \A t \in Tasks : result[t].storage.code = "Ok" =>
       \A s \in StoredSequences(t) : store[s] # NoTask /\ Reached(store, t, s)

(* hot_completion is set after hot_update has returned.                    *)
AnnouncedApplied == announced \subseteq ordered

(* A request carries one of the batches there are.                         *)
BatchesChosen ==
  \A t \in Tasks : submission[t] # "new" => batch[t] \in Batches

RpcInv ==
  /\ BatchesChosen
  /\ TicketsDistinct /\ WindowFollows /\ StoreHolds /\ AnnouncedApplied
  /\ outcome \in [Tasks -> Outcomes \cup {NoOutcome}]
  /\ window \in [SequenceIds -> Tasks \cup {NoTask}]
  /\ store \in [SequenceIds -> Tasks \cup {NoTask}]
-----------------------------------------------------------------------------
(***************************************************************************)
(* The callbacks add to the executor and take nothing away.                *)
(***************************************************************************)
(* The handlers around the executor leave its behaviour as it is.          *)
THEOREM RpcRunsExecutor == RpcSpec => Spec
<1>1. RpcInit => Init
  BY DEF RpcInit
<1>2. [RpcNext]_allVars => [Next]_vars
  <2>1. RpcNext => Next
    BY DEF RpcNext, Next, StoreShard, UpdateHot, ColdStep, HotStep
  <2>2. UNCHANGED allVars => UNCHANGED vars
    BY DEF allVars
  <2> QED BY <2>1, <2>2
<1> QED BY <1>1, <1>2, PTL DEF RpcSpec, Spec

(* A step of IngestRpc that runs no callback.                              *)
PlainStep ==
  /\ \/ \E t \in Tasks : ClientStep(t)
     \/ \E w \in Writers : TakeCold(w)
     \/ \E h \in HotWorkers : TakeHot(h) \/ StartHot(h) \/ CompleteHot(h)
     \/ \E x \in Workers : LaneStep(x)
     \/ NoMoves
  /\ UNCHANGED rpcVars

(* Steps run cold_write, hot_update or no callback at all.                 *)
LEMMA RpcSteps ==
  ASSUME [RpcNext]_allVars
  PROVE  \/ \E w \in Writers : StoreShard(w)
         \/ \E h \in HotWorkers : UpdateHot(h)
         \/ PlainStep
BY DEF RpcNext, PlainStep, NoMoves, allVars

(* Whoever is admitted stays so, with batch and ticket, behind the         *)
(* earlier ones.                                                           *)
LEMMA AdmittedKept ==
  ASSUME TypeInv, HotInv, LaneInv, TicketsDistinct, [Next]_vars
  PROVE  /\ Admitted \subseteq Admitted'
         /\ \A t \in Admitted : batch'[t] = batch[t] /\ ticket'[t] = ticket[t]
         /\ TicketsDistinct'
<1>0. OnlyAdmitted /\ TicketsCount
  BY DEF HotInv
<1>1. ASSUME AdmittedFixed, ticket' = ticket
      PROVE  /\ Admitted \subseteq Admitted'
             /\ \A t \in Admitted : batch'[t] = batch[t] /\ ticket'[t] = ticket[t]
             /\ TicketsDistinct'
  BY <1>1 DEF AdmittedFixed, TicketsDistinct
<1>2. ASSUME NEW t \in Tasks, Submit(t) \/ Route(t) \/ Reject(t)
      PROVE  AdmittedFixed /\ ticket' = ticket
  BY <1>0, <1>2, CallerKeepsLanes DEF Submit, Route, Reject, queueVars
<1>3. ASSUME NEW t \in Tasks, Admit(t)
      PROVE  /\ Admitted \subseteq Admitted'
             /\ \A u \in Admitted : batch'[u] = batch[u] /\ ticket'[u] = ticket[u]
             /\ TicketsDistinct'
  <2>1. /\ Admitted' = Admitted \cup {t} /\ batch' = batch
        /\ \A u \in Admitted : ticket'[u] = ticket[u] /\ ticket'[u] < ticket'[t]
        /\ \A u \in Admitted : ticket[u] \in Nat
    BY <1>0, <1>3, AdmitQueues DEF TypeInv, TypeOK, Admitted
  <2>2. \A u \in Admitted : ticket'[u] # ticket'[t]
    BY <2>1
  <2> QED BY <2>1, <2>2 DEF TicketsDistinct
<1>4. ASSUME NEW w \in Writers, TakeCold(w) PROVE AdmittedFixed /\ ticket' = ticket
  BY <1>4, TakeColdIs DEF TakesHead, clientVars, AdmittedFixed, Admitted
<1>5. ASSUME NEW h \in HotWorkers, TakeHot(h) PROVE AdmittedFixed /\ ticket' = ticket
  BY <1>5, TakeHotIs DEF TakesHead, clientVars, AdmittedFixed, Admitted
<1>6. CASE Others
  BY <1>1, <1>6, OthersQuiet DEF clientVars, AdmittedFixed, Admitted
<1> QED BY <1>1, <1>2, <1>3, <1>4, <1>5, <1>6, StepsAre

(* A plain step ends no cold write and orders nothing.                     *)
LEMMA PlainStepIs ==
  ASSUME TypeInv, HotInv, LaneInv, ResultInv, AnnouncedApplied, PlainStep
  PROVE  /\ \A t \in Tasks : /\ StoredSequences(t)' = StoredSequences(t)
                             /\ result'[t].storage = result[t].storage
         /\ ordered' = ordered /\ AnnouncedApplied'
<1>0. /\ \A t \in Tasks : result[t] \in Results
      /\ [Next]_vars
  BY DEF TypeInv, TypeOK, PlainStep, Next, NoMoves, ColdStep, HotStep
<1>1. ASSUME NEW w \in Writers, FinishCold(w) PROVE FALSE
  <2>1. /\ w \in Workers /\ worker[w].pc = "running" /\ worker'[w].pc = "counting"
    BY <1>1, GotoShape, LanesAre DEF FinishCold, At
  <2>2. ~\E t \in Tasks : ClientStep(t)
    BY <2>1 DEF ClientStep, Submit, Route, Reject, Admit
  <2>3. ~\E v \in Writers : TakeCold(v)
    BY <2>1, TakeColdIs DEF TakesHead
  <2>4. ASSUME NEW h \in HotWorkers, TakeHot(h) \/ StartHot(h) \/ CompleteHot(h)
        PROVE  FALSE
    <3>1. h # w /\ h \in Workers
      BY LanesAre
    <3>2. \A y \in Workers : y # h => worker'[y] = worker[y]
      BY <2>4, <3>1, GotoShape, TakeHotIs DEF StartHot, CompleteHot, TakesHead
    <3> QED BY <2>1, <3>1, <3>2
  <2>5. ASSUME NEW x \in Workers, LaneStep(x) PROVE FALSE
    <3>1. worker[x].pc # "running" /\ \A y \in Workers : y # x => worker'[y] = worker[y]
      BY <2>5, GotoShape, FreeShape
         DEF LaneStep, CountLane, Publish, Release, Exit, At
    <3> QED BY <2>1, <3>1
  <2>6. ~NoMoves
    BY <2>1 DEF NoMoves, Stop, Terminated, vars
  <2> QED BY <2>2, <2>3, <2>4, <2>5, <2>6 DEF PlainStep
<1>2. \A t \in Tasks : StoredSequences(t)' = StoredSequences(t)
  BY <1>0, <1>1, StoredSame
<1>3. \A t \in Tasks : result'[t].storage = result[t].storage
  <2>1. ASSUME NEW h \in HotWorkers, CompleteHot(h)
        PROVE  \A t \in Tasks : result'[t].storage = result[t].storage
    BY <1>0, <2>1 DEF CompleteHot, TypeInv, TypeOK, Results
  <2> QED BY <1>0, <1>1, <2>1, ResultWriters
<1>4. ordered' = ordered /\ AnnouncedApplied'
  <2>1. ASSUME NEW t \in Tasks, ClientStep(t) PROVE UNCHANGED <<ordered, announced>>
    BY <2>1 DEF ClientStep, Submit, Route, Reject, Admit, taskVars
  <2>2. ASSUME NEW w \in Writers, TakeCold(w) PROVE UNCHANGED <<ordered, announced>>
    BY <2>2 DEF TakeCold, taskVars
  <2>3. ASSUME NEW h \in HotWorkers, TakeHot(h) \/ StartHot(h)
        PROVE  UNCHANGED <<ordered, announced>>
    BY <2>3 DEF TakeHot, StartHot, taskVars
  <2>4. ASSUME NEW h \in HotWorkers, CompleteHot(h)
        PROVE  ordered' = ordered /\ AnnouncedApplied'
    <3>1. PICK t : t = worker[h].task
      OBVIOUS
    <3>2. h \in Workers /\ worker[h].pc = "announcing" /\ ordered' = ordered
          /\ announced' = announced \cup {t}
      BY <2>4, <3>1, LanesAre DEF CompleteHot, At
    <3>3. InHand(h, t, HotLane) /\ t \in Tasks
      BY <3>1, <3>2, LanesAre DEF InHand, OpenPcs, HotInv, OnlyAdmitted, Admitted
    <3>4. t \in ordered
      BY <3>2, <3>3 DEF ResultInv, HotLaneResult
    <3> QED BY <3>2, <3>4 DEF AnnouncedApplied
  <2>5. ASSUME NEW x \in Workers, LaneStep(x) PROVE UNCHANGED <<ordered, announced>>
    BY <2>5 DEF LaneStep, CountLane, Publish, Release, Exit, taskVars
  <2>6. CASE NoMoves
    BY <2>6 DEF NoMoves, Stop, Terminated, vars, taskVars, AnnouncedApplied
  <2> QED BY <2>1, <2>2, <2>3, <2>4, <2>5, <2>6 DEF PlainStep, AnnouncedApplied
<1> QED BY <1>2, <1>3, <1>4
-----------------------------------------------------------------------------
(***************************************************************************)
(* The windows.                                                            *)
(***************************************************************************)
(* What the executor guarantees of every state.                            *)
ExecutorInv == PromiseInv /\ RpcInv

(* Reaching a sequence survives admissions.                                *)
LEMMA ReachedKept ==
  ASSUME TypeInv, HotInv, LaneInv, TicketsDistinct, [Next]_vars,
         NEW t \in Admitted, NEW u \in Admitted
  PROVE  Earlier(t, u)' <=> Earlier(t, u)
<1>1. ticket'[t] = ticket[t] /\ ticket'[u] = ticket[u]
  BY AdmittedKept
<1> QED BY <1>1 DEF Earlier

(* Two different admitted tasks are in order.                              *)
LEMMA AdmittedOrdered ==
  ASSUME TypeInv, HotInv, TicketsDistinct, NEW t \in Admitted, NEW u \in Admitted,
         t # u
  PROVE  Earlier(t, u) \/ Earlier(u, t)
<1>1. /\ ticket[t] \in Nat \ {0} /\ ticket[u] \in Nat \ {0}
      /\ ticket[t] # ticket[u]
  BY DEF TypeInv, TypeOK, HotInv, TicketsCount, TicketsDistinct, Admitted
<1> QED BY <1>1 DEF Earlier

(* A step that applies nothing keeps the windows.                          *)
LEMMA WindowsKept ==
  ASSUME ExecutorInv, [Next]_vars, ordered' = ordered, UNCHANGED <<outcome, window>>
  PROVE  WindowFollows'
<1>1. /\ ordered \subseteq Admitted
      /\ \A t \in Admitted : batch'[t] = batch[t]
      /\ WindowFollows
  BY AdmittedKept DEF ExecutorInv, PromiseInv, RpcInv, HotInv, OnlyAdmitted
<1>2. \A s \in SequenceIds : window[s] # NoTask => window[s] \in Admitted
  BY <1>1 DEF WindowFollows
<1>3. ASSUME NEW t \in ordered, NEW s \in batch[t], outcome[t].applied
      PROVE  window[s] # NoTask /\ Reached(window, t, s)'
  <2>1. s \in SequenceIds /\ t \in Admitted
    BY <1>1 DEF ExecutorInv, PromiseInv, TypeInv, TypeOK, Admitted
  <2>2. window[s] # NoTask /\ Reached(window, t, s) /\ window[s] \in Admitted
    BY <1>1, <1>2, <1>3, <2>1 DEF WindowFollows
  <2>3. Earlier(t, window[s]) => Earlier(t, window[s])'
    <3>1. PICK u \in Admitted : u = window[s] /\ u = window'[s]
      BY <2>2
    <3>2. Earlier(t, u)' <=> Earlier(t, u)
      BY <2>1, ReachedKept DEF ExecutorInv, PromiseInv, RpcInv
    <3> QED BY <3>1, <3>2 DEF Earlier
  <2> QED BY <2>2, <2>3 DEF Reached
<1> QED BY <1>1, <1>3 DEF WindowFollows

(* hot_update puts its batch in front of all that was there before.        *)
LEMMA UpdateKeepsWindows ==
  ASSUME ExecutorInv, NEW h \in HotWorkers, UpdateHot(h)
  PROVE  WindowFollows'
<1> SUFFICES ASSUME NEW t, t = worker[h].task PROVE WindowFollows'
  OBVIOUS
<1>1. /\ FinishHot(h) /\ worker[h].pc = "running" /\ h \in Workers
      /\ ordered' = ordered \cup {t} /\ UNCHANGED <<batch, ticket>>
  BY LanesAre DEF UpdateHot, FinishHot, At, clientVars, queueVars
<1>2. PICK o \in HotOutcomes(batch[t]) :
             /\ outcome' = [outcome EXCEPT ![t] = o]
             /\ window' = IF o.applied THEN Overwritten(window, t, batch[t])
                          ELSE window
  BY DEF UpdateHot
<1>3. t \in Admitted /\ t \in Tasks /\ InHand(h, t, HotLane) /\ HotStarted(t)
  BY <1>1, LanesAre DEF ExecutorInv, PromiseInv, HotInv, OnlyAdmitted, Admitted,
                        InHand, OpenPcs, HotStarted, At
<1>4. t \notin ordered /\ ordered \subseteq Admitted
  BY <1>1, <1>3 DEF ExecutorInv, PromiseInv, ResultInv, HotLaneResult, HotInv,
                    OnlyAdmitted
<1>5. /\ o \in PossibleOutcomes /\ batch[t] \subseteq SequenceIds
      /\ outcome'[t] = o /\ \A u \in Tasks : u # t => outcome'[u] = outcome[u]
  <2>1. batch[t] \in Batches
    BY <1>3 DEF ExecutorInv, RpcInv, BatchesChosen, Admitted
  <2> QED
    BY <1>2, <1>3, <2>1, RpcAssumption
       DEF ExecutorInv, RpcInv, PromiseInv, TypeInv, TypeOK
<1>6. /\ \A u \in ordered' : outcome'[u] \in PossibleOutcomes
      /\ \A s \in SequenceIds : window'[s] # NoTask =>
           window'[s] \in ordered' /\ s \in batch[window'[s]]
  <2>1. WindowFollows
    BY DEF ExecutorInv, RpcInv
  <2>2. \A s \in SequenceIds :
          window'[s] = IF o.applied /\ s \in batch[t] THEN t ELSE window[s]
    BY <1>2 DEF Overwritten
  <2>3. ordered \subseteq Tasks
    BY <1>4 DEF Admitted
  <2> QED BY <1>1, <1>4, <1>5, <2>1, <2>2, <2>3 DEF WindowFollows
<1>7. ASSUME NEW u \in ordered', NEW s \in batch[u], outcome'[u].applied
      PROVE  window'[s] # NoTask /\ Reached(window', u, s)
  <2>1. u \in Admitted /\ u \in Tasks /\ s \in SequenceIds /\ NoTask \notin Tasks
    BY <1>1, <1>3, <1>4, ExecutorAssumption
       DEF ExecutorInv, PromiseInv, TypeInv, TypeOK, Admitted
  <2>2. CASE o.applied /\ s \in batch[t]
    <3>1. window'[s] = t
      BY <1>2, <2>1, <2>2 DEF Overwritten
    <3>2. u # t => Earlier(u, t)
      <4>1. ASSUME u # t, Earlier(t, u) PROVE FALSE
        <5>1. u \in ordered /\ HotStarted(u) /\ batch[t] \cap batch[u] # {}
          BY <1>1, <1>7, <2>2, <4>1 DEF HotStarted
        <5> QED
          BY <1>3, <1>4, <2>1, <4>1, <5>1
             DEF ExecutorInv, PromiseInv, HotInv, HotInOrder
      <4> QED
        BY <1>3, <2>1, <4>1, AdmittedOrdered DEF ExecutorInv, PromiseInv, RpcInv
    <3> QED BY <1>3, <2>1, <3>1, <3>2 DEF Reached
  <2>3. CASE ~(o.applied /\ s \in batch[t])
    <3>1. window'[s] = window[s]
      BY <1>2, <2>1, <2>3 DEF Overwritten
    <3>2. u # t /\ u \in ordered /\ outcome[u].applied
      BY <1>1, <1>5, <1>7, <2>1, <2>3
    <3> QED BY <1>7, <3>1, <3>2 DEF ExecutorInv, RpcInv, WindowFollows, Reached
  <2> QED BY <2>2, <2>3
<1> QED BY <1>1, <1>6, <1>7 DEF WindowFollows, Reached, Earlier
-----------------------------------------------------------------------------
(***************************************************************************)
(* The store.                                                              *)
(***************************************************************************)
(* A step that stores nothing keeps what is said of the store.             *)
LEMMA StoreKept ==
  ASSUME ExecutorInv, [Next]_vars, UNCHANGED store,
         \A t \in Tasks : /\ StoredSequences(t)' = StoredSequences(t)
                          /\ result'[t].storage = result[t].storage
  PROVE  StoreHolds'
<1>1. /\ Admitted \subseteq Admitted' /\ Admitted \subseteq Tasks
      /\ \A t \in Admitted : batch'[t] = batch[t]
      /\ StoreHolds
  BY AdmittedKept DEF ExecutorInv, PromiseInv, RpcInv, Admitted
<1>2. ASSUME NEW t \in Tasks, NEW s \in StoredSequences(t),
             result[t].storage.code = "Ok"
      PROVE  store[s] # NoTask /\ Reached(store, t, s)'
  <2>1. s \in SequenceIds /\ t \in Admitted
    BY DEF ExecutorInv, PromiseInv, TypeInv, TypeOK, StoredSequences
  <2>2. store[s] # NoTask /\ Reached(store, t, s) /\ store[s] \in Admitted
    BY <1>1, <1>2, <2>1 DEF StoreHolds
  <2>3. Earlier(t, store[s]) => Earlier(t, store[s])'
    <3>1. PICK u \in Admitted : u = store[s] /\ u = store'[s]
      BY <2>2
    <3>2. Earlier(t, u)' <=> Earlier(t, u)
      BY <2>1, ReachedKept DEF ExecutorInv, PromiseInv, RpcInv
    <3> QED BY <3>1, <3>2 DEF Earlier
  <2> QED BY <2>2, <2>3 DEF Reached
<1> QED BY <1>1, <1>2 DEF StoreHolds

(* A shard that counts all its points as stored has stored them all, and   *)
(* so has every earlier shard of a task whose code is still Ok.            *)
LEMMA ShardWhole ==
  ASSUME ExecutorInv, NEW w \in Writers, StoreShard(w),
         NEW t, t = worker[w].task,
         NEW kept \in SUBSET ColdBatch(t, w),
         result'[t].storage.success - result[t].storage.success
           <= Cardinality(kept),
         result'[t].storage.code = "Ok", StoredAccounted'
  PROVE  /\ kept = ColdBatch(t, w)
         /\ StoredSequences(t) = {} \/ result[t].storage.code = "Ok"
<1> DEFINE part == ColdBatch(t, w)
           before == result[t].storage.success
           after == result'[t].storage.success
<1>1. /\ t \in Tasks /\ part # {} /\ part \subseteq batch[t]
      /\ part \cap StoredSequences(t) = {}
      /\ StoredSequences(t)' = StoredSequences(t) \cup part
  BY FinishColdStores DEF ExecutorInv, PromiseInv, StoreShard
<1>2. /\ IsFiniteSet(part) /\ Cardinality(part) \in Nat
      /\ IsFiniteSet(StoredSequences(t)) /\ Cardinality(StoredSequences(t)) \in Nat
  BY <1>1, StoredCountable DEF ExecutorInv, PromiseInv
<1> HIDE DEF part
<1>3. Cardinality(kept) \in Nat /\ Cardinality(kept) <= Cardinality(part)
      /\ (Cardinality(part) = Cardinality(kept) => part = kept)
  BY <1>2, FS_Subset, FS_CardinalityType DEF part
<1>4. Cardinality(StoredSequences(t) \cup part)
        = Cardinality(StoredSequences(t)) + Cardinality(part)
  BY <1>1, <1>2, DisjointCount
<1>5. Cardinality(part) # 0
  BY <1>1, <1>2, FS_EmptySet
<1>6. AccountsFor(result[t].storage, Cardinality(StoredSequences(t)))
  BY <1>1 DEF ExecutorInv, PromiseInv, ResultInv, StoredAccounted
<1>7. after = Cardinality(StoredSequences(t) \cup part)
  <2>1. AccountsFor(result'[t].storage, Cardinality(StoredSequences(t) \cup part))
    BY <1>1 DEF StoredAccounted, AccountsFor
  <2> QED BY <1>2, <1>4, <1>5, <2>1 DEF AccountsFor
<1>8. before \in Nat /\ before <= Cardinality(StoredSequences(t))
  BY <1>1, <1>6 DEF AccountsFor, ExecutorInv, PromiseInv, TypeInv, TypeOK, Results, Storage
<1>9. after - before <= Cardinality(kept)
  OBVIOUS
<1> HIDE DEF before, after
<1>10. /\ Cardinality(kept) = Cardinality(part)
       /\ before = Cardinality(StoredSequences(t))
  BY <1>2, <1>3, <1>4, <1>7, <1>8, <1>9
<1>11. Cardinality(StoredSequences(t)) = 0 => StoredSequences(t) = {}
  BY <1>2, FS_EmptySet
<1>12. before = result[t].storage.success
  BY DEF before
<1>13. kept = ColdBatch(t, w)
  BY <1>3, <1>10 DEF part
<1>14. StoredSequences(t) = {} \/ result[t].storage.code = "Ok"
  BY <1>6, <1>10, <1>11, <1>12 DEF AccountsFor
<1> QED BY <1>13, <1>14

(* cold_write overwrites what earlier batches stored, and nothing newer.   *)
LEMMA StoreKeepsStore ==
  ASSUME ExecutorInv, NEW w \in Writers, StoreShard(w), StoredAccounted'
  PROVE  StoreHolds'
<1> SUFFICES ASSUME NEW t, t = worker[w].task PROVE StoreHolds'
  OBVIOUS
<1>1. /\ FinishCold(w) /\ worker[w].pc = "running" /\ w \in Workers
      /\ UNCHANGED <<submission, batch, ticket>>
      /\ \A u \in Tasks : u # t => result'[u] = result[u]
  BY LanesAre DEF StoreShard, FinishCold, At, clientVars, queueVars, ExecutorInv,
                  PromiseInv, TypeInv, TypeOK
<1>2. PICK kept \in SUBSET ColdBatch(t, w) :
             /\ result'[t].storage.success - result[t].storage.success
                  <= Cardinality(kept)
             /\ store' = Overwritten(store, t, kept)
  BY DEF StoreShard
<1>3. /\ t \in Admitted /\ t \in Tasks /\ InHand(w, t, w)
      /\ ColdBatch(t, w) \subseteq batch[t]
      /\ ColdBatch(t, w) \cap StoredSequences(t) = {}
      /\ StoredSequences(t)' = StoredSequences(t) \cup ColdBatch(t, w)
      /\ \A u \in Tasks : u # t => StoredSequences(u)' = StoredSequences(u)
  BY <1>1, FinishColdStores DEF ExecutorInv, PromiseInv
<1>4. /\ Admitted' = Admitted /\ Admitted \subseteq Tasks /\ NoTask \notin Tasks
      /\ \A u \in Tasks : batch[u] \subseteq SequenceIds
      /\ \A u \in Tasks : StoredSequences(u) \subseteq batch[u]
  BY <1>1, ExecutorAssumption
     DEF Admitted, ExecutorInv, PromiseInv, TypeInv, TypeOK, StoredSequences
<1>5. \A s \in SequenceIds : store'[s] = IF s \in kept THEN t ELSE store[s]
  BY <1>2 DEF Overwritten
<1>6. \A s \in SequenceIds : store'[s] # NoTask =>
        store'[s] \in Admitted' /\ s \in batch'[store'[s]]
  <2>1. StoreHolds
    BY DEF ExecutorInv, RpcInv
  <2> QED BY <1>1, <1>2, <1>3, <1>4, <1>5, <2>1 DEF StoreHolds
<1>7. ASSUME NEW u \in Tasks, NEW s \in StoredSequences(u), s \in ColdBatch(t, w)
      PROVE  u # t /\ Earlier(u, t)
  <2>1. u # t /\ u \in Admitted /\ s \in batch[u] /\ s \in batch[t]
    BY <1>3, <1>7 DEF StoredSequences
  <2>2. ASSUME Earlier(t, u) PROVE FALSE
    <3>1. ColdWriting(t, s)
      <4>1. route[t][s] = w
        BY <1>7 DEF ColdBatch
      <4> QED BY <1>1, <4>1 DEF ColdWriting, At
    <3>2. ColdInOrder
      BY LanesOrderCold DEF ExecutorInv, PromiseInv
    <3>3. ColdQueued(u, s)
      BY <1>3, <2>1, <2>2, <3>1, <3>2 DEF ColdInOrder
    <3> QED BY <3>3, <1>7 DEF StoredSequences
  <2> QED BY <1>3, <2>1, <2>2, AdmittedOrdered DEF ExecutorInv, PromiseInv, RpcInv
<1>8. ASSUME NEW u \in Tasks, NEW s \in StoredSequences(u)',
             result'[u].storage.code = "Ok"
      PROVE  store'[s] # NoTask /\ Reached(store', u, s)
  <2>1. StoreHolds /\ s \in SequenceIds
    <3>1. s \in batch[u]
      BY <1>1, <1>8 DEF StoredSequences
    <3> QED BY <1>4, <3>1 DEF ExecutorInv, RpcInv
  <2>2. CASE s \in kept
    <3>1. store'[s] = t /\ t # NoTask
      BY <1>3, <1>4, <1>5, <2>1, <2>2
    <3>2. u # t => Earlier(u, t)
      BY <1>2, <1>3, <1>7, <1>8, <2>2
    <3> QED BY <3>1, <3>2 DEF Reached
  <2>3. CASE s \notin kept
    <3>1. store'[s] = store[s]
      BY <1>5, <2>1, <2>3
    <3>2. CASE u = t
      <4>1. /\ kept = ColdBatch(t, w)
            /\ StoredSequences(t) = {} \/ result[t].storage.code = "Ok"
        BY <1>2, <1>8, <3>2, ShardWhole
      <4>2. s \in StoredSequences(t) /\ result[t].storage.code = "Ok"
        BY <1>3, <1>8, <2>3, <3>2, <4>1
      <4> QED BY <1>3, <2>1, <3>1, <3>2, <4>2 DEF StoreHolds, Reached
    <3>3. CASE u # t
      BY <1>1, <1>3, <1>8, <2>1, <3>1, <3>3 DEF StoreHolds, Reached
    <3> QED BY <3>2, <3>3
  <2> QED BY <2>2, <2>3
<1> QED BY <1>1, <1>6, <1>8 DEF StoreHolds, Reached, Earlier
-----------------------------------------------------------------------------
(***************************************************************************)
(* The theorems.                                                           *)
(***************************************************************************)
(* Before the first request, windows and store are empty.                  *)
LEMMA RpcInitHolds == RpcInit => RpcInv
<1> SUFFICES ASSUME RpcInit PROVE RpcInv
  OBVIOUS
<1>1. Admitted = {} /\ \A t \in Tasks : StoredSequences(t) = {}
  BY DEF RpcInit, Init, Admitted, StoredSequences
<1> QED
  BY <1>1 DEF RpcInit, Init, RpcInv, BatchesChosen, TicketsDistinct, WindowFollows,
              StoreHolds, AnnouncedApplied

(* The callbacks keep the types of what they write.                        *)
LEMMA RpcTypes ==
  ASSUME ExecutorInv, [RpcNext]_allVars
  PROVE  /\ BatchesChosen'
         /\ outcome' \in [Tasks -> Outcomes \cup {NoOutcome}]
         /\ window' \in [SequenceIds -> Tasks \cup {NoTask}]
         /\ store' \in [SequenceIds -> Tasks \cup {NoTask}]
<1> USE DEF ExecutorInv, PromiseInv, RpcInv
<1>1. ASSUME NEW w \in Writers, StoreShard(w)
      PROVE  /\ UNCHANGED <<submission, batch, outcome, window>>
             /\ store' \in [SequenceIds -> Tasks \cup {NoTask}]
  <2>1. worker[w].task \in Tasks
    BY <1>1, FinishColdStores DEF StoreShard
  <2> QED
    BY <1>1, <2>1 DEF StoreShard, FinishCold, clientVars, Overwritten
<1>2. ASSUME NEW h \in HotWorkers, UpdateHot(h)
      PROVE  /\ UNCHANGED <<submission, batch, store>>
             /\ outcome' \in [Tasks -> Outcomes \cup {NoOutcome}]
             /\ window' \in [SequenceIds -> Tasks \cup {NoTask}]
  <2>1. PICK t : t = worker[h].task
    OBVIOUS
  <2>2. h \in Workers /\ worker[h].pc = "running"
    BY <1>2, LanesAre DEF UpdateHot, FinishHot, At
  <2>3. t \in Tasks /\ submission[t] = "accepted"
    BY <2>1, <2>2 DEF HotInv, OnlyAdmitted, Admitted
  <2>4. HotOutcomes(batch[t]) \subseteq Outcomes
    BY <2>3, RpcAssumption DEF BatchesChosen, PossibleOutcomes
  <2> QED
    BY <1>2, <2>1, <2>3, <2>4
       DEF UpdateHot, FinishHot, clientVars, Overwritten
<1>3. CASE PlainStep
  <2>1. \/ UNCHANGED <<submission, batch>>
        \/ \E t \in Tasks : Submit(t) \/ Route(t) \/ Reject(t) \/ Admit(t)
    BY <1>3 DEF PlainStep, ClientStep, TakeCold, TakeHot, StartHot, CompleteHot,
                LaneStep, CountLane, Publish, Release, Exit, NoMoves, Stop,
                Terminated, vars, clientVars
  <2>2. ASSUME NEW t \in Tasks, Submit(t) \/ Route(t) \/ Reject(t) \/ Admit(t)
        PROVE  BatchesChosen'
    BY <2>2 DEF Submit, Route, Reject, Admit, BatchesChosen, TypeInv, TypeOK
  <2> QED BY <1>3, <2>1, <2>2 DEF PlainStep, rpcVars, BatchesChosen
<1> QED BY <1>1, <1>2, <1>3, RpcSteps DEF BatchesChosen

(* The invariant of the answers and the store.                             *)
LEMMA RpcInvariant == RpcSpec => []ExecutorInv
<1>1. RpcSpec => []PromiseInv
  BY RpcRunsExecutor, ResultsInvariant, PTL DEF PromiseInv
<1>2. ASSUME ExecutorInv, PromiseInv', [RpcNext]_allVars PROVE RpcInv'
  <2>1. /\ [Next]_vars /\ TypeInv /\ HotInv /\ LaneInv /\ ResultInv
        /\ TicketsDistinct /\ AnnouncedApplied /\ WindowFollows /\ StoreHolds
        /\ StoredAccounted'
    BY <1>2 DEF ExecutorInv, PromiseInv, RpcInv, ResultInv, RpcNext, Next, StoreShard,
                UpdateHot, ColdStep, HotStep, allVars
  <2>2. TicketsDistinct'
    BY <2>1, AdmittedKept
  <2>3. ASSUME NEW w \in Writers, StoreShard(w)
        PROVE  WindowFollows' /\ StoreHolds' /\ AnnouncedApplied'
    <3>1. UNCHANGED <<ordered, announced, outcome, window>>
      BY <2>3 DEF StoreShard, FinishCold
    <3> QED BY <1>2, <2>1, <2>3, <3>1, WindowsKept, StoreKeepsStore DEF AnnouncedApplied
  <2>4. ASSUME NEW h \in HotWorkers, UpdateHot(h)
        PROVE  WindowFollows' /\ StoreHolds' /\ AnnouncedApplied'
    <3>1. /\ FinishHot(h) /\ UNCHANGED <<store, result, announced>>
          /\ ordered \subseteq ordered' /\ h \in Workers /\ h \notin Writers
      BY <2>4, LanesAre DEF UpdateHot, FinishHot
    <3>2. ~\E w \in Writers : FinishCold(w)
      <4>1. \A y \in Workers : y # h => worker'[y] = worker[y]
        BY <2>1, <3>1, GotoShape DEF FinishHot
      <4>2. \A w \in Writers : FinishCold(w) =>
              worker[w].pc = "running" /\ worker'[w].pc = "counting"
        BY <2>1, GotoShape, LanesAre DEF FinishCold, At
      <4> QED BY <3>1, <4>1, <4>2, LanesAre
    <3>3. \A t \in Tasks : StoredSequences(t)' = StoredSequences(t)
      BY <2>1, <3>2, StoredSame
    <3> QED BY <1>2, <2>1, <2>4, <3>1, <3>3, UpdateKeepsWindows, StoreKept
            DEF AnnouncedApplied
  <2>5. ASSUME PlainStep
        PROVE  WindowFollows' /\ StoreHolds' /\ AnnouncedApplied'
    <3>1. /\ \A t \in Tasks : /\ StoredSequences(t)' = StoredSequences(t)
                              /\ result'[t].storage = result[t].storage
          /\ ordered' = ordered /\ AnnouncedApplied'
      BY <2>1, <2>5, PlainStepIs
    <3>2. UNCHANGED <<outcome, window, store>>
      BY <2>5 DEF PlainStep, rpcVars
    <3>3. WindowFollows'
      BY <1>2, <2>1, <3>1, <3>2, WindowsKept
    <3>4. StoreHolds'
      BY <1>2, <2>1, <3>1, <3>2, StoreKept
    <3> QED BY <3>1, <3>3, <3>4
  <2> QED BY <1>2, <2>2, <2>3, <2>4, <2>5, RpcSteps, RpcTypes DEF RpcInv
<1> QED BY <1>1, <1>2, RpcInitHolds, PTL DEF RpcSpec, ExecutorInv

(* When a caller reads that its windows are updated, or that all went      *)
(* well, every point of its request is in its window or was replaced by a  *)
(* later one; a request told Unavailable has left nothing behind.          *)
THEOREM AnswersHold == RpcSpec => []AnswerHolds
<1>1. ASSUME ExecutorInv PROVE AnswerHolds
  <2> USE <1>1 DEF ExecutorInv, PromiseInv, RpcInv
  <2> SUFFICES ASSUME NEW t \in Tasks, Answered(t)
               PROVE  /\ Answer(t).window = "Ok" \/ Answer(t).operation = "Ok" =>
                           \A s \in batch[t] : window[s] # NoTask /\ Reached(window, t, s)
                      /\ Answer(t).operation = "Unavailable" =>
                           \A s \in SequenceIds : window[s] # t /\ store[s] # t
    BY DEF AnswerHolds
  <2>1. CASE submission[t] = "rejected"
    <3>1. Answer(t).window = "Unavailable" /\ Answer(t).operation = "Unavailable"
      BY <2>1 DEF Answer
    <3>2. t \notin Admitted /\ ordered \subseteq Admitted /\ t # NoTask
      BY <2>1, ExecutorAssumption DEF Admitted, HotInv, OnlyAdmitted
    <3>3. \A s \in SequenceIds : window[s] # t /\ store[s] # t
      BY <3>2 DEF WindowFollows, StoreHolds
    <3> QED BY <3>1, <3>3
  <2>2. CASE submission[t] # "rejected"
    <3>1. t \in ordered /\ outcome[t] \in PossibleOutcomes
      BY <2>2 DEF Answered, AnnouncedApplied, WindowFollows
    <3>2. /\ outcome[t].window \in {"Ok", "Failed"}
          /\ outcome[t].window = "Ok" => outcome[t].applied
      BY <3>1 DEF PossibleOutcomes, Outcomes
    <3> DEFINE resolve == IF batch[t] \in Unresolved THEN "Partial" ELSE "Ok"
               base == Combine(resolve, "Ok", outcome[t].window, outcome[t].derived)
    <3>3. /\ base \in {"Failed", "Ok", "Partial"}
          /\ base = "Ok" => outcome[t].window = "Ok"
      <4>1. {"Ok", outcome[t].window, outcome[t].derived} # {"Failed"}
        OBVIOUS
      <4>2. {resolve, "Ok", outcome[t].window, outcome[t].derived} = {"Ok"}
              => outcome[t].window = "Ok"
        OBVIOUS
      <4> QED BY <4>1, <4>2 DEF Combine
    <3> HIDE DEF base
    <3>4. /\ Answer(t).window = outcome[t].window
          /\ Answer(t).operation = WithNotification(base, outcome[t].notification)
      BY <2>2 DEF Answer, base
    <3>5. /\ Answer(t).operation # "Unavailable"
          /\ Answer(t).operation = "Ok" => outcome[t].window = "Ok"
      BY <3>3, <3>4 DEF WithNotification
    <3> QED BY <3>1, <3>2, <3>4, <3>5 DEF WindowFollows
  <2> QED BY <2>1, <2>2
<1> QED BY <1>1, RpcInvariant, PTL

(* Once the request accepted last on a sequence is completed, and unless   *)
(* one of its halves failed, TDengine holds the point the window holds.    *)
THEOREM StoreAndWindowAgree == RpcSpec => []StoreFollowsWindow
<1>1. ASSUME ExecutorInv PROVE StoreFollowsWindow
  <2> USE <1>1 DEF ExecutorInv, PromiseInv, RpcInv
  <2> SUFFICES ASSUME NEW s \in SequenceIds, NEW t \in completed, hotTail[s] = t,
                      outcome[t].applied, result[t].storage.code = "Ok"
               PROVE  store[s] = t /\ window[s] = t
    BY DEF StoreFollowsWindow
  <2>1. t \in Tasks /\ t \in Admitted /\ t # NoTask
    BY ExecutorAssumption DEF CountInv, OneFinisher, Admitted
  <2>2. t \in ordered /\ StoredSequences(t) = batch[t]
    BY <2>1, CompletedIsThrough DEF CountInv, OneFinisher
  <2>3. /\ s \in batch[t]
        /\ \A u \in Admitted : s \in batch[u] => u = t \/ Earlier(u, t)
    BY <2>1 DEF HotInv, TailsLast
  <2>4. \A u \in Admitted : s \in batch[u] => (u = t \/ ~Earlier(t, u))
    BY <2>1, <2>3 DEF Earlier, TypeInv, TypeOK, Admitted
  <2>5. window[s] = t
    <3>1. /\ window[s] # NoTask /\ Reached(window, t, s)
          /\ window[s] \in Admitted /\ s \in batch[window[s]]
      BY <2>2, <2>3 DEF WindowFollows, HotInv, OnlyAdmitted
    <3> QED BY <2>4, <3>1 DEF Reached
  <2>6. store[s] = t
    <3>1. /\ store[s] # NoTask /\ Reached(store, t, s)
          /\ store[s] \in Admitted /\ s \in batch[store[s]]
      BY <2>1, <2>2, <2>3 DEF StoreHolds
    <3> QED BY <2>4, <3>1 DEF Reached
  <2> QED BY <2>5, <2>6
<1> QED BY <1>1, RpcInvariant, PTL
=============================================================================
