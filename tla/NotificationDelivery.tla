------------------------ MODULE NotificationDelivery ------------------------
(***************************************************************************)
(* ConstraintResultNotificationExecutor and ConstraintResultReceiverClient:*)
(* hot workers put violation events into a bounded queue, one worker takes *)
(* them and calls the remote receiver, retrying transport failures with    *)
(* growing delays inside a total budget.  The network may lose a request,  *)
(* lose its answer, or deliver the request after the call was given up.    *)
(* Time is counted in seconds from the first attempt of the event in hand. *)
(* Every event has at least one violated constraint id: tryEnqueue and the *)
(* client return at once, and change nothing, when there is none.          *)
(***************************************************************************)
EXTENDS Integers, Sequences, FiniteSets

CONSTANTS
  Events,        (* the calls of tryEnqueue                                *)
  Capacity,      (* capacity_                                              *)
  Deadline,      (* kAttemptDeadline                                       *)
  Budget,        (* kTotalRetryBudget                                      *)
  Delays,        (* kRetryDelays                                           *)
  Oversleep,     (* how much longer than asked a sleep may take            *)
  InFlightBound, (* bound: requests under way at once                      *)
  NoEvent

MaxAttempts == Len(Delays) + 1

ASSUME DeliveryAssumption ==
  /\ IsFiniteSet(Events) /\ NoEvent \notin Events
  /\ Capacity \in Nat \ {0} /\ Deadline \in Nat \ {0}
  /\ Budget \in Nat \ {0} /\ Oversleep \in Nat
  /\ Delays \in Seq(Nat) /\ InFlightBound \in Nat \ {0}

VARIABLES
  queue,      (* queue_                                                    *)
  stopping,   (* stopping_                                                 *)
  worker,     (* where the worker thread is                                *)
  current,    (* the event the worker holds                                *)
  attempt,    (* attempts made for it, the one under way included          *)
  elapsed,    (* seconds since retry_deadline was computed                 *)
  answer,     (* what came back for the attempt under way                  *)
  outcome,    (* what became of each event                                 *)
  inFlight,   (* requests on the network: <<event, attempt>>               *)
  handled,    (* history: the requests the receiver handled, each with the *)
              (* verdict it returned                                       *)
  rank        (* history: the place of every queued event among them       *)

clientVars == <<current, attempt, elapsed>>
queueVars == <<queue, stopping>>
vars == <<queueVars, worker, clientVars, answer, outcome, inFlight, handled,
          rank>>

Verdicts == {"accept", "reject"}
Outcomes == {"none", "refused", "queued", "delivered", "rejected", "abandoned"}

Init ==
  /\ queue = <<>> /\ stopping = FALSE
  /\ worker = "idle" /\ current = NoEvent
  /\ attempt = 0 /\ elapsed = 0
  /\ answer = "none"
  /\ outcome = [e \in Events |-> "none"]
  /\ inFlight = {}
  /\ handled = {}
  /\ rank = [e \in Events |-> 0]
-----------------------------------------------------------------------------
(***************************************************************************)
(* tryEnqueue, a critical section of mutex_.                               *)
(***************************************************************************)
Enqueue(e) ==
  /\ outcome[e] = "none"
  /\ ~stopping /\ Len(queue) < Capacity
  /\ queue' = Append(queue, e)
  /\ outcome' = [outcome EXCEPT ![e] = "queued"]
  /\ rank' = [rank EXCEPT ![e] = Cardinality({d \in Events : rank[d] # 0}) + 1]
  /\ UNCHANGED <<stopping, worker, clientVars, answer, inFlight, handled>>

Refuse(e) ==
  /\ outcome[e] = "none"
  /\ stopping \/ Len(queue) >= Capacity
  /\ outcome' = [outcome EXCEPT ![e] = "refused"]
  /\ UNCHANGED <<queueVars, worker, clientVars, answer, inFlight, handled, rank>>
-----------------------------------------------------------------------------
(***************************************************************************)
(* workerLoop takes an event and enters receiveConstraintResult.           *)
(***************************************************************************)
(* Mutant of Take: the newest event first.                                 *)
TakeNewest ==
  /\ worker = "idle" /\ queue # <<>>
  /\ current' = queue[Len(queue)] /\ queue' = SubSeq(queue, 1, Len(queue) - 1)
  /\ worker' = "trying" /\ attempt' = 0 /\ elapsed' = 0
  /\ UNCHANGED <<stopping, answer, outcome, inFlight, handled, rank>>

Take ==
  /\ worker = "idle" /\ queue # <<>>
  /\ current' = Head(queue) /\ queue' = Tail(queue)
  /\ worker' = "trying" /\ attempt' = 0 /\ elapsed' = 0
  /\ UNCHANGED <<stopping, answer, outcome, inFlight, handled, rank>>

Exit ==
  /\ worker = "idle" /\ queue = <<>> /\ stopping
  /\ worker' = "exited"
  /\ UNCHANGED <<queueVars, clientVars, answer, outcome, inFlight, handled, rank>>

Settle(result) ==
  /\ outcome' = [outcome EXCEPT ![current] = result]
  /\ worker' = "idle" /\ current' = NoEvent
  /\ attempt' = 0 /\ elapsed' = 0

Remaining == Budget - elapsed

AttemptTimeout == IF Remaining < Deadline THEN Remaining ELSE Deadline

(* The head of the retry loop.                                             *)
OutOfBudget ==
  /\ worker = "trying" /\ Remaining <= 0
  /\ Settle("abandoned")
  /\ UNCHANGED <<queueVars, answer, inFlight, handled, rank>>

Call ==
  /\ worker = "trying" /\ Remaining > 0
  /\ Cardinality(inFlight) < InFlightBound
  /\ worker' = "calling" /\ attempt' = attempt + 1
  /\ inFlight' = inFlight \cup {<<current, attempt + 1>>}
  /\ UNCHANGED <<queueVars, current, elapsed, answer, outcome, handled, rank>>

(* Mutant of Answered: a status that is OK counts as a delivery, whether   *)
(* the receiver accepted the event or not.                                 *)
AnsweredAlways ==
  /\ worker = "calling" /\ answer # "none"
  /\ Settle("delivered")
  /\ answer' = "none"
  /\ UNCHANGED <<queueVars, inFlight, handled, rank>>

(* The receiver answered before the deadline: accepted, or an explicit     *)
(* business rejection, which is not retried.                               *)
Answered ==
  /\ worker = "calling" /\ answer # "none"
  /\ Settle(IF answer = "accept" THEN "delivered" ELSE "rejected")
  /\ answer' = "none"
  /\ UNCHANGED <<queueVars, inFlight, handled, rank>>

(* Mutant of SleepAfter: the delay is not cut to the remaining budget.     *)
SleepInFull(k, now) == Delays[k] .. (Delays[k] + Oversleep)

(* The attempt fails after at most its timeout, then the client sleeps.    *)
SleepAfter(k, now) ==
  LET left == Budget - now
      delay == IF Delays[k] < left THEN Delays[k] ELSE left
  IN IF delay > 0 THEN delay .. (delay + Oversleep) ELSE {0}

(* Mutant of Failed: an event that used up its attempts is queued again.   *)
FailedRequeued ==
  /\ worker = "calling"
  /\ answer' = "none" /\ worker' = "idle" /\ current' = NoEvent
  /\ attempt' = 0 /\ elapsed' = 0
  /\ queue' = Append(queue, current)
  /\ UNCHANGED <<stopping, outcome, inFlight, handled, rank>>

Failed ==
  /\ worker = "calling"
  /\ answer' = "none"
  /\ \E took \in 0 .. AttemptTimeout :
       IF attempt > Len(Delays)
       THEN Settle("abandoned")
       ELSE /\ \E slept \in SleepAfter(attempt, elapsed + took) :
                 elapsed' = elapsed + took + slept
            /\ worker' = "trying"
            /\ UNCHANGED <<current, attempt, outcome>>
  /\ UNCHANGED <<queueVars, inFlight, handled, rank>>
-----------------------------------------------------------------------------
(***************************************************************************)
(* The network and the receiver (external).  The answer reaches the client *)
(* only while the attempt it belongs to is still under way.                *)
(***************************************************************************)
Lose(request) ==
  /\ request \in inFlight
  /\ inFlight' = inFlight \ {request}
  /\ UNCHANGED <<queueVars, worker, clientVars, answer, outcome, handled, rank>>

Handle(request) ==
  /\ request \in inFlight
  /\ inFlight' = inFlight \ {request}
  /\ \E verdict \in Verdicts :
       /\ handled' = handled \cup {<<request, verdict>>}
       /\ answer' \in IF worker = "calling" /\ request = <<current, attempt>>
                      THEN {verdict, answer}
                      ELSE {answer}
  /\ UNCHANGED <<queueVars, worker, clientVars, outcome, rank>>
-----------------------------------------------------------------------------
Stop ==
  /\ ~stopping
  /\ stopping' = TRUE
  /\ UNCHANGED <<queue, worker, clientVars, answer, outcome, inFlight, handled, rank>>

Terminated ==
  /\ worker = "exited" /\ UNCHANGED vars

WorkerStep == Take \/ Exit \/ OutOfBudget \/ Call \/ Answered \/ Failed

Next ==
  \/ \E e \in Events : Enqueue(e) \/ Refuse(e)
  \/ WorkerStep
  \/ \E request \in inFlight : Lose(request) \/ Handle(request)
  \/ Stop
  \/ Terminated

Spec == Init /\ [][Next]_vars

(* The worker thread runs, a call returns by its deadline and a request    *)
(* does not stay on the network for ever; nothing obliges the receiver to  *)
(* handle one.                                                             *)
FairSpec ==
  /\ Spec /\ WF_vars(WorkerStep)
  /\ WF_vars(\E request \in inFlight : Lose(request) \/ Handle(request))
-----------------------------------------------------------------------------
TypeOK ==
  /\ queue \in Seq(Events) /\ stopping \in BOOLEAN
  /\ worker \in {"idle", "trying", "calling", "exited"}
  /\ current \in Events \cup {NoEvent}
  /\ attempt \in 0 .. MaxAttempts
  /\ elapsed \in Nat
  /\ answer \in Verdicts \cup {"none"}
  /\ outcome \in [Events -> Outcomes]
  /\ inFlight \subseteq Events \X (1 .. MaxAttempts)
  /\ handled \subseteq (Events \X (1 .. MaxAttempts)) \X Verdicts
  /\ rank \in [Events -> 0 .. Cardinality(Events)]

Handlings(e) == {h \in handled : h[1][1] = e}

(* An event that the client reports as delivered or rejected was handled   *)
(* with that verdict: a late answer to an earlier attempt, or to another   *)
(* event, is never taken for it.                                           *)
VerdictIsReal ==
  \A e \in Events :
    /\ outcome[e] = "delivered" =>
         \E h \in Handlings(e) : h[2] = "accept"
    /\ outcome[e] = "rejected" =>
         \E h \in Handlings(e) : h[2] = "reject"

(* The single worker keeps the order of the queue through retries and      *)
(* timeouts: no request of an event is sent before every event that was    *)
(* queued ahead of it has been settled.                                    *)
NotOvertaken ==
  \A d, e \in Events :
    /\ rank[d] # 0 /\ rank[d] < rank[e]
    /\ Handlings(e) # {} \/ \E r \in inFlight : r[1] = e
    => outcome[d] # "queued"

(* The client keeps to its retry budget: an attempt starts before the      *)
(* deadline, ends by it, and the wait between two attempts overruns it by  *)
(* no more than one sleep may oversleep.                                   *)
BudgetKept ==
  /\ worker = "calling" => elapsed + AttemptTimeout <= Budget
  /\ elapsed <= Budget + Oversleep

(* A queued event is settled in the end, also while the receiver is down.  *)
QueuedSettles ==
  \A e \in Events : outcome[e] = "queued" ~> outcome[e] # "queued"

(* Shutdown ends although the receiver may be unreachable.                 *)
StopEnds == stopping ~> worker = "exited"
=============================================================================
