----------------------------- MODULE IngestRpc ------------------------------
(***************************************************************************)
(* IngestData from the accepted request to its answer: IngestExecutor with *)
(* the callbacks TimeseriesCoreGrpcService gives it.  cold_write stores a  *)
(* shard through StorageService, hot_update runs processHotIngest, and the *)
(* handler answers once hot_completion is there, or at once if the task is *)
(* refused.  Points of one sequence share one time, so that a window and   *)
(* the store hold at most one of them: that of the task written last.      *)
(***************************************************************************)
EXTENDS IngestExecutor

CONSTANTS
  HotOutcomes(_), (* the outcomes of hot_update to consider for a batch    *)
  Unresolved      (* the requests that also had points nobody knows        *)

(* hot_update returns what the window update, the derived refresh and the  *)
(* notification came to.  Without an update the refresh is skipped; an     *)
(* exception fails all three, whether the windows had been updated or not. *)
Outcomes == [applied : BOOLEAN, window : {"Ok", "Failed"},
             derived : {"Ok", "Failed"}, notification : {"Ok", "Failed"}]
PossibleOutcomes ==
  {o \in Outcomes :
     IF o.window = "Ok" THEN o.applied
     ELSE /\ o.derived = "Failed"
          /\ o.notification = "Ok" => ~o.applied}

ASSUME RpcAssumption ==
  /\ \A b \in Batches : HotOutcomes(b) \subseteq PossibleOutcomes
  /\ Unresolved \subseteq Batches

VARIABLES
  outcome,   (* of each task's hot_update                                  *)
  window,    (* the task whose point is in the window of a sequence        *)
  store      (* the task whose point TDengine holds                        *)

rpcVars == <<outcome, window, store>>
allVars == <<vars, rpcVars>>

NoOutcome ==
  [applied |-> FALSE, window |-> "None", derived |-> "None",
   notification |-> "None"]

RpcInit ==
  /\ Init
  /\ outcome = [t \in Tasks |-> NoOutcome]
  /\ window = [s \in SequenceIds |-> NoTask]
  /\ store = [s \in SequenceIds |-> NoTask]
-----------------------------------------------------------------------------
Overwritten(values, t, keys) ==
  [s \in SequenceIds |-> IF s \in keys THEN t ELSE values[s]]

(* hot_update: processHotIngest updates the windows first of all.          *)
UpdateHot(h) ==
  LET t == worker[h].task IN
  /\ FinishHot(h)
  /\ \E o \in HotOutcomes(batch[t]) :
       /\ outcome' = [outcome EXCEPT ![t] = o]
       /\ window' = IF o.applied THEN Overwritten(window, t, batch[t])
                    ELSE window
  /\ UNCHANGED store

(* cold_write: writeRawDataOnConnection stores the whole shard, or fails   *)
(* after it has stored any part of it.                                     *)
StoreShard(w) ==
  LET t == worker[w].task
      shard == ColdBatch(t, w)
  IN
  /\ FinishCold(w)
  /\ \E kept \in SUBSET shard :
       /\ result'[t].storage.success - result[t].storage.success
            <= Cardinality(kept)
       /\ store' = Overwritten(store, t, kept)
  /\ UNCHANGED <<outcome, window>>

RpcNext ==
  \/ \E w \in Writers : StoreShard(w)
  \/ \E h \in HotWorkers : UpdateHot(h)
  \/ /\ \/ \E t \in Tasks : ClientStep(t)
        \/ \E w \in Writers : TakeCold(w)
        \/ \E h \in HotWorkers : TakeHot(h) \/ StartHot(h) \/ CompleteHot(h)
        \/ \E x \in Workers : LaneStep(x)
        \/ Stop
        \/ Terminated
     /\ UNCHANGED rpcVars

RpcSpec == RpcInit /\ [][RpcNext]_allVars
-----------------------------------------------------------------------------
(***************************************************************************)
(* The answer of ingestData.                                               *)
(***************************************************************************)
(* combineIngestResults, for a request that was resolved at least in part. *)
Combine(resolve, storage, hotWindow, derived) ==
  CASE {storage, hotWindow, derived} = {"Failed"} -> "Failed"
    [] {resolve, storage, hotWindow, derived} = {"Ok"} -> "Ok"
    [] OTHER -> "Partial"

(* withConstraintNotificationFailure.                                      *)
WithNotification(base, notification) ==
  IF notification = "Failed" /\ base = "Ok" THEN "Partial" ELSE base

Answered(t) == submission[t] = "rejected" \/ t \in announced

(* storage_result only says that the shards are queued.                    *)
Answer(t) ==
  LET resolve == IF batch[t] \in Unresolved THEN "Partial" ELSE "Ok"
      storage == "Ok"
  IN IF submission[t] = "rejected"
     THEN [operation |-> "Unavailable", window |-> "Unavailable",
           queued |-> FALSE]
     ELSE [operation |-> WithNotification(
                           Combine(resolve, storage, outcome[t].window,
                                   outcome[t].derived),
                           outcome[t].notification),
           window |-> outcome[t].window,
           queued |-> TRUE]
-----------------------------------------------------------------------------
(***************************************************************************)
(* Properties.                                                             *)
(***************************************************************************)
(* The point of s in t, or one that was accepted after it.                 *)
Reached(values, t, s) == values[s] = t \/ Earlier(t, values[s])

(* When a caller reads that its windows are updated, or that all went      *)
(* well, every point of the request is in its window or has been replaced  *)
(* by that of a request accepted later, never by an older one; and a       *)
(* request that is told Unavailable has left nothing behind.               *)
AnswerHolds ==
  \A t \in Tasks : Answered(t) =>
    /\ Answer(t).window = "Ok" \/ Answer(t).operation = "Ok" =>
         \A s \in batch[t] : window[s] # NoTask /\ Reached(window, t, s)
    /\ Answer(t).operation = "Unavailable" =>
         \A s \in SequenceIds : window[s] # t /\ store[s] # t

(* The two halves of the system agree on the last value: once the request  *)
(* accepted last on a sequence has been completed, and unless one of its   *)
(* halves failed, TDengine holds the point the window holds, although the  *)
(* two are written by different threads from different queues.             *)
StoreFollowsWindow ==
  \A s \in SequenceIds : \A t \in completed :
    /\ hotTail[s] = t
    /\ outcome[t].applied
    /\ result[t].storage.code = "Ok"
    => store[s] = t /\ window[s] = t
=============================================================================
