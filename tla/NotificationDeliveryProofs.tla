--------------------- MODULE NotificationDeliveryProofs ---------------------
(***************************************************************************)
(* Proofs about NotificationDelivery for any number of events, any queue   *)
(* capacity, any delays and any budget: the client keeps to its budget,    *)
(* reports only verdicts that were returned for the event in hand, and     *)
(* keeps the order of the queue.                                           *)
(***************************************************************************)
EXTENDS NotificationDelivery, FiniteSetTheorems, SequenceTheorems, TLAPS

Settled == {"delivered", "rejected", "abandoned"}

(* The worker holds an event exactly while it is in the client, which      *)
(* starts a further attempt only while a delay is left for the one before. *)
WorkerOK ==
  /\ worker \in {"trying", "calling"} <=> current # NoEvent
  /\ worker \in {"idle", "exited"} => attempt = 0 /\ elapsed = 0
  /\ worker = "trying" => attempt < MaxAttempts
  /\ worker = "calling" => attempt > 0

(* The clock of the event in hand: an attempt begins inside the budget, a  *)
(* sleep ends at most Oversleep after it.                                  *)
ClockOK ==
  /\ worker = "calling" => elapsed < Budget
  /\ elapsed <= Budget + Oversleep

(* An answer that waits for the worker is one the receiver gave to the     *)
(* attempt under way.                                                      *)
AnswerOK ==
  answer # "none" =>
    /\ worker = "calling"
    /\ <<<<current, attempt>>, answer>> \in handled

RankedEvents == {d \in Events : rank[d] # 0}

(* Ranks number the queued events in order of tryEnqueue.                  *)
RankOK ==
  /\ \A e \in Events : rank[e] = 0 <=> outcome[e] \in {"none", "refused"}
  /\ \A e \in Events : rank[e] <= Cardinality(RankedEvents)

(* The events that are not settled are the one in hand and, behind it, the *)
(* ones in the queue in order of rank; all settled ones are before them.   *)
LineOK ==
  /\ current # NoEvent => outcome[current] = "queued"
  /\ \A i \in 1 .. Len(queue) : outcome[queue[i]] = "queued"
  /\ \A i, j \in 1 .. Len(queue) : i < j => rank[queue[i]] < rank[queue[j]]
  /\ current # NoEvent =>
       \A i \in 1 .. Len(queue) : rank[current] < rank[queue[i]]
  /\ \A e \in Events :
       outcome[e] = "queued" =>
         e = current \/ \E i \in 1 .. Len(queue) : queue[i] = e
  /\ \A d, e \in Events :
       outcome[d] \in Settled /\ outcome[e] = "queued" => rank[d] < rank[e]

(* Only the event in hand and the settled ones were ever on the network.   *)
NetworkOK ==
  /\ \A r \in inFlight : r[1] = current \/ outcome[r[1]] \in Settled
  /\ \A h \in handled : h[1][1] = current \/ outcome[h[1][1]] \in Settled

(* The inductive invariant.                                                *)
DeliveryInv ==
  /\ TypeOK /\ WorkerOK /\ ClockOK /\ AnswerOK
  /\ RankOK /\ LineOK /\ NetworkOK /\ VerdictIsReal
-----------------------------------------------------------------------------
(* What the constants are, in the form the provers use.                    *)
LEMMA DelaysType ==
  /\ Len(Delays) \in Nat /\ MaxAttempts \in Nat
  /\ \A k \in 1 .. Len(Delays) : Delays[k] \in Nat
BY DeliveryAssumption DEF MaxAttempts

(* The queued events are finitely many.                                    *)
LEMMA RankedCount ==
  ASSUME TypeOK
  PROVE  /\ IsFiniteSet(RankedEvents)
         /\ Cardinality(RankedEvents) \in 0 .. Cardinality(Events)
         /\ Cardinality(Events) \in Nat
BY DeliveryAssumption, FS_Subset, FS_CardinalityType DEF RankedEvents

(* The elements of a queue after an event was added at its end.            *)
LEMMA AppendElements ==
  ASSUME NEW q \in Seq(Events), NEW e \in Events
  PROVE  /\ Append(q, e) \in Seq(Events)
         /\ Len(Append(q, e)) = Len(q) + 1
         /\ \A i \in 1 .. Len(q) : Append(q, e)[i] = q[i]
         /\ Append(q, e)[Len(q) + 1] = e
BY AppendProperties

(* The elements of a queue behind its head.                                *)
LEMMA TailElements ==
  ASSUME NEW q \in Seq(Events), q # <<>>
  PROVE  /\ Head(q) = q[1] /\ Head(q) \in Events
         /\ Tail(q) \in Seq(Events) /\ Len(Tail(q)) = Len(q) - 1
         /\ Len(q) \in Nat \ {0}
         /\ \A i \in 1 .. Len(Tail(q)) : Tail(q)[i] = q[i + 1]
BY HeadTailProperties, EmptySeq

(* The executor starts with nothing queued and an idle worker.             *)
LEMMA InitDelivery == Init => DeliveryInv
<1> SUFFICES ASSUME Init PROVE DeliveryInv
  OBVIOUS
<1>1. Cardinality(Events) \in Nat
  BY DeliveryAssumption, FS_CardinalityType
<1>2. TypeOK
  <2>1. /\ rank \in [Events -> 0 .. Cardinality(Events)]
        /\ outcome \in [Events -> Outcomes]
    BY <1>1 DEF Init, Outcomes
  <2>2. queue \in Seq(Events) /\ attempt \in 0 .. MaxAttempts /\ elapsed \in Nat
    BY EmptySeq, DelaysType DEF Init
  <2> QED BY <2>1, <2>2 DEF Init, TypeOK
<1>3. Cardinality(RankedEvents) \in Nat
  BY <1>2, RankedCount
<1>4. RankOK
  <2>1. \A e \in Events : rank[e] = 0 /\ outcome[e] = "none"
    BY DEF Init
  <2> QED BY <1>3, <2>1 DEF RankOK
<1>5. WorkerOK /\ ClockOK /\ AnswerOK
  BY DeliveryAssumption DEF Init, WorkerOK, ClockOK, AnswerOK
<1>6. LineOK /\ NetworkOK /\ VerdictIsReal
  BY DEF Init, LineOK, NetworkOK, VerdictIsReal, Settled
<1> QED BY <1>2, <1>4, <1>5, <1>6 DEF DeliveryInv
-----------------------------------------------------------------------------
(* tryEnqueue puts a new event behind every other one.                     *)
LEMMA EnqueueStep ==
  ASSUME DeliveryInv, NEW e \in Events, Enqueue(e)
  PROVE  DeliveryInv'
<1> USE DEF DeliveryInv
<1> DEFINE n == Cardinality(RankedEvents)
<1>1. TypeOK /\ n \in 0 .. Cardinality(Events) /\ Cardinality(Events) \in Nat
  BY RankedCount
<1>2. /\ rank[e] = 0 /\ outcome[e] = "none" /\ e # current
      /\ \A i \in 1 .. Len(queue) : queue[i] # e
  BY DeliveryAssumption DEF Enqueue, RankOK, LineOK
<1>3. /\ rank' = [rank EXCEPT ![e] = n + 1]
      /\ outcome' = [outcome EXCEPT ![e] = "queued"]
      /\ queue' = Append(queue, e)
      /\ UNCHANGED <<stopping, worker, current, attempt, elapsed, answer,
                     inFlight, handled>>
  BY DEF Enqueue, RankedEvents, clientVars
<1> HIDE DEF n
<1>4. /\ RankedEvents' = RankedEvents \cup {e} /\ e \notin RankedEvents
      /\ \A d \in Events : d # e => rank'[d] = rank[d] /\ outcome'[d] = outcome[d]
      /\ rank'[e] = n + 1 /\ outcome'[e] = "queued"
  <2>1. /\ \A d \in Events : d # e => rank'[d] = rank[d] /\ outcome'[d] = outcome[d]
        /\ rank'[e] = n + 1 /\ outcome'[e] = "queued"
    BY <1>1, <1>3 DEF TypeOK
  <2>2. n + 1 # 0
    BY <1>1
  <2> QED BY <1>2, <2>1, <2>2 DEF RankedEvents
<1>5. Cardinality(RankedEvents') = n + 1 /\ n + 1 <= Cardinality(Events)
  <2>1. Cardinality(RankedEvents') = n + 1
    BY <1>4, <1>1, RankedCount, FS_AddElement DEF n
  <2>2. RankedEvents' \subseteq Events
    BY DEF RankedEvents
  <2> QED BY <2>1, <2>2, FS_Subset, DeliveryAssumption
<1>6. /\ queue' \in Seq(Events) /\ Len(queue') = Len(queue) + 1
      /\ \A i \in 1 .. Len(queue) : queue'[i] = queue[i] /\ queue[i] \in Events
      /\ queue'[Len(queue) + 1] = e /\ Len(queue) \in Nat
  BY <1>1, <1>3, AppendElements, ElementOfSeq, LenProperties DEF TypeOK
<1>7. TypeOK'
  <2>1. rank' \in [Events -> 0 .. Cardinality(Events)]
    BY <1>1, <1>3, <1>5 DEF TypeOK
  <2> QED BY <1>1, <1>3, <1>6, <2>1 DEF TypeOK, Outcomes
<1>8. WorkerOK' /\ ClockOK' /\ AnswerOK'
  BY <1>3 DEF WorkerOK, ClockOK, AnswerOK, AttemptTimeout, Remaining
<1>9. RankOK'
  <2>1. \A d \in Events : rank[d] <= n /\ rank[d] \in Nat
    BY <1>1 DEF RankOK, TypeOK, n
  <2>2. \A d \in Events : rank'[d] <= n + 1
    BY <1>1, <1>4, <2>1
  <2>3. \A d \in Events : rank'[d] = 0 <=> outcome'[d] \in {"none", "refused"}
    BY <1>1, <1>4 DEF RankOK
  <2> QED BY <1>5, <2>2, <2>3 DEF RankOK
<1>10. LineOK'
  <2>1. /\ \A d \in Events : rank[d] <= n
        /\ \A d \in Events : rank[d] \in Nat
    BY <1>1 DEF RankOK, TypeOK, n
  <2>2. current # NoEvent => /\ current \in Events /\ outcome'[current] = "queued"
                             /\ rank'[current] = rank[current]
    BY <1>1, <1>2, <1>4 DEF LineOK, TypeOK
  <2>3. /\ \A i \in 1 .. Len(queue') : outcome'[queue'[i]] = "queued"
        /\ \A i, j \in 1 .. Len(queue') : i < j => rank'[queue'[i]] < rank'[queue'[j]]
    <3>1. \A i \in 1 .. Len(queue) :
            /\ outcome'[queue'[i]] = "queued"
            /\ rank'[queue'[i]] = rank[queue[i]] /\ rank[queue[i]] <= n
      BY <1>2, <1>4, <1>6, <2>1 DEF LineOK
    <3>2. \A i \in 1 .. Len(queue') : i \in 1 .. Len(queue) \/ i = Len(queue) + 1
      BY <1>6
    <3>3. \A i \in 1 .. Len(queue') : outcome'[queue'[i]] = "queued"
      BY <1>4, <1>6, <3>1, <3>2
    <3>4. ASSUME NEW i \in 1 .. Len(queue'), NEW j \in 1 .. Len(queue'), i < j
          PROVE  rank'[queue'[i]] < rank'[queue'[j]]
      <4>1. i \in 1 .. Len(queue)
        BY <3>4, <1>6
      <4>2. CASE j = Len(queue) + 1
        BY <4>1, <4>2, <1>1, <1>4, <1>6, <2>1, <3>1
      <4>3. CASE j \in 1 .. Len(queue)
        BY <4>1, <4>3, <3>1, <3>4 DEF LineOK
      <4> QED BY <3>2, <4>2, <4>3
    <3> QED BY <3>3, <3>4
  <2>4. current # NoEvent =>
          \A i \in 1 .. Len(queue') : rank'[current] < rank'[queue'[i]]
    BY <1>1, <1>2, <1>4, <1>6, <2>1, <2>2 DEF LineOK
  <2>5. ASSUME NEW d \in Events, outcome'[d] = "queued"
        PROVE  d = current \/ \E i \in 1 .. Len(queue') : queue'[i] = d
    <3>1. CASE d = e
      BY <3>1, <1>6
    <3>2. CASE d # e
      <4>1. d = current \/ \E i \in 1 .. Len(queue) : queue[i] = d
        BY <2>5, <3>2, <1>4 DEF LineOK
      <4> QED BY <4>1, <1>6
    <3> QED BY <3>1, <3>2
  <2>6. ASSUME NEW c \in Events, NEW d \in Events,
               outcome'[c] \in Settled, outcome'[d] = "queued"
        PROVE  rank'[c] < rank'[d]
    <3>1. c # e
      BY <2>6, <1>4 DEF Settled
    <3> QED BY <2>6, <3>1, <2>1, <1>1, <1>4 DEF LineOK
  <2> QED BY <1>3, <2>2, <2>3, <2>4, <2>5, <2>6 DEF LineOK
<1>11. NetworkOK' /\ VerdictIsReal'
  <2>1. \A d \in Events : outcome[d] \in Settled => outcome'[d] = outcome[d]
    BY <1>2, <1>4 DEF Settled
  <2>2. \A h \in handled : h[1][1] \in Events
    BY <1>1 DEF TypeOK
  <2>3. \A r \in inFlight : r[1] \in Events
    BY <1>1 DEF TypeOK
  <2>4. NetworkOK'
    BY <1>3, <2>1, <2>2, <2>3 DEF NetworkOK
  <2>5. VerdictIsReal'
    BY <1>3, <1>4 DEF VerdictIsReal, Handlings
  <2> QED BY <2>4, <2>5
<1> QED BY <1>7, <1>8, <1>9, <1>10, <1>11

(* tryEnqueue refuses an event, which is never seen again.                 *)
LEMMA RefuseStep ==
  ASSUME DeliveryInv, NEW e \in Events, Refuse(e)
  PROVE  DeliveryInv'
<1> USE DEF DeliveryInv
<1>1. /\ outcome[e] = "none" /\ outcome' = [outcome EXCEPT ![e] = "refused"]
      /\ UNCHANGED <<queue, stopping, worker, current, attempt, elapsed, answer,
                     inFlight, handled, rank>>
  BY DEF Refuse, queueVars, clientVars
<1>2. /\ outcome' \in [Events -> Outcomes] /\ outcome'[e] = "refused"
      /\ \A d \in Events : d # e => outcome'[d] = outcome[d]
  BY <1>1 DEF TypeOK, Outcomes
<1>3. TypeOK' /\ WorkerOK' /\ ClockOK' /\ AnswerOK'
  BY <1>1, <1>2 DEF TypeOK, WorkerOK, ClockOK, AnswerOK
<1>4. RankOK'
  BY <1>1, <1>2 DEF RankOK, RankedEvents
<1>5. LineOK'
  <2>1. /\ current # NoEvent => current \in Events /\ current # e
        /\ \A i \in 1 .. Len(queue) : queue[i] \in Events /\ queue[i] # e
    BY <1>1, ElementOfSeq DEF LineOK, TypeOK
  <2>2. /\ \A d \in Events : outcome'[d] = "queued" => outcome[d] = "queued"
        /\ \A d \in Events : outcome'[d] \in Settled => outcome[d] \in Settled
    BY <1>2 DEF Settled
  <2> QED BY <1>1, <1>2, <2>1, <2>2 DEF LineOK
<1>6. NetworkOK' /\ VerdictIsReal'
  <2>1. \A d \in Events : outcome[d] \in Settled => outcome'[d] = outcome[d]
    BY <1>1, <1>2 DEF Settled
  <2>2. /\ \A h \in handled : h[1][1] \in Events
        /\ \A r \in inFlight : r[1] \in Events
    BY DEF TypeOK
  <2> QED BY <1>1, <1>2, <2>1, <2>2 DEF NetworkOK, VerdictIsReal, Handlings
<1> QED BY <1>3, <1>4, <1>5, <1>6

(* The worker takes the head of the queue, the next event in line.         *)
LEMMA TakeStep ==
  ASSUME DeliveryInv, Take
  PROVE  DeliveryInv'
<1> USE DEF DeliveryInv
<1>1. /\ worker = "idle" /\ queue # <<>> /\ current = NoEvent
      /\ current' = Head(queue) /\ queue' = Tail(queue)
      /\ worker' = "trying" /\ attempt' = 0 /\ elapsed' = 0
      /\ UNCHANGED <<stopping, answer, outcome, inFlight, handled, rank>>
  BY DEF Take, WorkerOK
<1>2. /\ current' = queue[1] /\ current' \in Events /\ current' # NoEvent
      /\ queue' \in Seq(Events) /\ Len(queue') = Len(queue) - 1
      /\ Len(queue) \in Nat \ {0}
      /\ \A i \in 1 .. Len(queue') : queue'[i] = queue[i + 1]
  BY <1>1, TailElements, DeliveryAssumption DEF TypeOK
<1>3. TypeOK' /\ WorkerOK' /\ AnswerOK' /\ RankOK'
  BY <1>1, <1>2, DelaysType
     DEF TypeOK, WorkerOK, AnswerOK, RankOK, RankedEvents, MaxAttempts
<1>4. ClockOK'
  BY <1>1, DeliveryAssumption DEF ClockOK
<1>5. LineOK'
  <2>1. \A i \in 1 .. Len(queue') : i + 1 \in 1 .. Len(queue)
    BY <1>2
  <2>2. ASSUME NEW d \in Events, outcome[d] = "queued"
        PROVE  d = current' \/ \E i \in 1 .. Len(queue') : queue'[i] = d
    <3>1. PICK i \in 1 .. Len(queue) : queue[i] = d
      BY <1>1, <2>2, DeliveryAssumption DEF LineOK
    <3>2. CASE i = 1
      BY <1>2, <3>1, <3>2
    <3>3. CASE i # 1
      <4>1. i - 1 \in 1 .. Len(queue') /\ (i - 1) + 1 = i
        BY <1>2, <3>3
      <4> QED BY <4>1, <1>2, <3>1
    <3> QED BY <3>2, <3>3
  <2>3. /\ \A i \in 1 .. Len(queue') : outcome[queue'[i]] = "queued"
        /\ \A i, j \in 1 .. Len(queue') : i < j => rank[queue'[i]] < rank[queue'[j]]
        /\ \A i \in 1 .. Len(queue') : rank[current'] < rank[queue'[i]]
        /\ outcome[current'] = "queued"
    <3>1. outcome[current'] = "queued" /\ 1 \in 1 .. Len(queue)
      BY <1>2 DEF LineOK
    <3>2. \A i \in 1 .. Len(queue') : /\ queue'[i] = queue[i + 1]
                                     /\ i + 1 \in 1 .. Len(queue)
                                     /\ 1 < i + 1
      BY <1>2, <2>1
    <3>3. \A i \in 1 .. Len(queue') : rank[queue[1]] < rank[queue[i + 1]]
      BY <3>1, <3>2 DEF LineOK
    <3>4. \A i, j \in 1 .. Len(queue') :
            i < j => rank[queue[i + 1]] < rank[queue[j + 1]]
      BY <1>2, <3>2 DEF LineOK
    <3>5. \A i \in 1 .. Len(queue') : outcome[queue'[i]] = "queued"
      BY <3>2 DEF LineOK
    <3>6. \A i \in 1 .. Len(queue') : rank[current'] < rank[queue'[i]]
      BY <1>2, <3>2, <3>3
    <3>7. \A i, j \in 1 .. Len(queue') : i < j => rank[queue'[i]] < rank[queue'[j]]
      BY <3>2, <3>4
    <3> QED BY <3>1, <3>5, <3>6, <3>7
  <2> QED BY <1>1, <2>2, <2>3 DEF LineOK
<1>6. NetworkOK' /\ VerdictIsReal'
  <2>1. /\ \A h \in handled : h[1][1] \in Events
        /\ \A r \in inFlight : r[1] \in Events
    BY DEF TypeOK
  <2>2. /\ \A h \in handled : outcome[h[1][1]] \in Settled
        /\ \A r \in inFlight : outcome[r[1]] \in Settled
    <3>1. \A h \in handled : h[1][1] # current
      BY <1>1, <2>1, DeliveryAssumption
    <3>2. \A r \in inFlight : r[1] # current
      BY <1>1, <2>1, DeliveryAssumption
    <3> QED BY <3>1, <3>2 DEF NetworkOK
  <2>3. NetworkOK'
    BY <1>1, <2>2 DEF NetworkOK
  <2>4. VerdictIsReal'
    BY <1>1 DEF VerdictIsReal, Handlings
  <2> QED BY <2>3, <2>4
<1> QED BY <1>3, <1>4, <1>5, <1>6

(* The event in hand is settled with a verdict that its attempt got, or is *)
(* given up.                                                               *)
LEMMA SettleStep ==
  ASSUME DeliveryInv, NEW result \in Settled, current # NoEvent, Settle(result),
         answer' = "none", UNCHANGED <<queueVars, inFlight, handled, rank>>,
         result = "delivered" =>
           \E n \in 1 .. MaxAttempts : <<<<current, n>>, "accept">> \in handled,
         result = "rejected" =>
           \E n \in 1 .. MaxAttempts : <<<<current, n>>, "reject">> \in handled
  PROVE  DeliveryInv'
<1> USE DEF DeliveryInv
<1>1. /\ outcome' = [outcome EXCEPT ![current] = result]
      /\ worker' = "idle" /\ current' = NoEvent /\ attempt' = 0 /\ elapsed' = 0
      /\ answer' = "none"
      /\ UNCHANGED <<queue, stopping, inFlight, handled, rank>>
  BY DEF Settle, queueVars
<1>2. current \in Events /\ outcome[current] = "queued"
  BY DEF TypeOK, LineOK
<1>3. /\ outcome' \in [Events -> Outcomes] /\ outcome'[current] = result
      /\ \A d \in Events : d # current => outcome'[d] = outcome[d]
  BY <1>1, <1>2 DEF TypeOK, Outcomes, Settled
<1>4. TypeOK' /\ WorkerOK' /\ AnswerOK' /\ ClockOK'
  <2>1. TypeOK'
    BY <1>1, <1>3, DelaysType DEF TypeOK
  <2>2. WorkerOK' /\ AnswerOK' /\ ClockOK'
    BY <1>1, DeliveryAssumption DEF WorkerOK, AnswerOK, ClockOK
  <2> QED BY <2>1, <2>2
<1>5. RankOK'
  BY <1>1, <1>2, <1>3 DEF RankOK, RankedEvents, Settled
<1>6. LineOK'
  <2>1. \A i \in 1 .. Len(queue) : queue[i] \in Events /\ queue[i] # current
    <3>1. ASSUME NEW i \in 1 .. Len(queue) PROVE queue[i] \in Events /\ queue[i] # current
      <4>1. queue[i] \in Events /\ rank[current] < rank[queue[i]]
        BY ElementOfSeq DEF TypeOK, LineOK
      <4>2. rank[current] \in Nat
        BY <1>2, RankedCount DEF TypeOK
      <4> QED BY <4>1, <4>2
    <3> QED BY <3>1
  <2>2. ASSUME NEW d \in Events, outcome'[d] = "queued"
        PROVE  d # current /\ outcome[d] = "queued"
               /\ \E i \in 1 .. Len(queue) : queue[i] = d
    BY <1>3, <2>2 DEF LineOK, Settled
  <2>3. ASSUME NEW c \in Events, NEW d \in Events,
               outcome'[c] \in Settled, outcome'[d] = "queued"
        PROVE  rank[c] < rank[d]
    <3>1. CASE c = current
      BY <2>2, <2>3, <3>1 DEF LineOK
    <3>2. CASE c # current
      BY <1>3, <2>2, <2>3, <3>2 DEF LineOK
    <3> QED BY <3>1, <3>2
  <2> QED BY <1>1, <1>3, <2>1, <2>2, <2>3 DEF LineOK
<1>7. NetworkOK'
  <2>1. /\ \A h \in handled : h[1][1] \in Events
        /\ \A r \in inFlight : r[1] \in Events
    BY DEF TypeOK
  <2>2. \A d \in Events : d = current \/ outcome[d] \in Settled
                          => outcome'[d] \in Settled
    BY <1>3
  <2> QED BY <1>1, <2>1, <2>2 DEF NetworkOK
<1>8. VerdictIsReal'
  <2>1. ASSUME NEW d \in Events, outcome'[d] = "delivered"
        PROVE  \E h \in Handlings(d)' : h[2] = "accept"
    <3>1. CASE d = current
      <4>1. PICK n \in 1 .. MaxAttempts : <<<<current, n>>, "accept">> \in handled
        BY <1>3, <2>1, <3>1
      <4> QED BY <4>1, <1>1, <3>1 DEF Handlings
    <3>2. CASE d # current
      BY <1>1, <1>3, <2>1, <3>2 DEF VerdictIsReal, Handlings
    <3> QED BY <3>1, <3>2
  <2>2. ASSUME NEW d \in Events, outcome'[d] = "rejected"
        PROVE  \E h \in Handlings(d)' : h[2] = "reject"
    <3>1. CASE d = current
      <4>1. PICK n \in 1 .. MaxAttempts : <<<<current, n>>, "reject">> \in handled
        BY <1>3, <2>2, <3>1
      <4> QED BY <4>1, <1>1, <3>1 DEF Handlings
    <3>2. CASE d # current
      BY <1>1, <1>3, <2>2, <3>2 DEF VerdictIsReal, Handlings
    <3> QED BY <3>1, <3>2
  <2> QED BY <2>1, <2>2 DEF VerdictIsReal
<1> QED BY <1>4, <1>5, <1>6, <1>7, <1>8

(* The calls of the retry loop leave the line of the events as it is.      *)
LEMMA LineKept ==
  ASSUME LineOK, RankOK, UNCHANGED <<queue, current, outcome, rank>>
  PROVE  LineOK' /\ RankOK'
BY DEF LineOK, RankOK, RankedEvents

(* An attempt begins before the deadline and while attempts are left.      *)
LEMMA CallStep ==
  ASSUME DeliveryInv, Call
  PROVE  DeliveryInv'
<1> USE DEF DeliveryInv
<1>1. /\ worker = "trying" /\ Budget - elapsed > 0
      /\ worker' = "calling" /\ attempt' = attempt + 1
      /\ inFlight' = inFlight \cup {<<current, attempt + 1>>}
      /\ UNCHANGED <<queue, stopping, current, elapsed, answer, outcome, handled,
                     rank>>
  BY DEF Call, Remaining, queueVars
<1>2. /\ current \in Events /\ answer = "none"
      /\ attempt + 1 \in 1 .. MaxAttempts
  BY <1>1, DelaysType DEF TypeOK, WorkerOK, AnswerOK
<1>3. TypeOK'
  <2>1. inFlight' \subseteq Events \X (1 .. MaxAttempts)
    BY <1>1, <1>2 DEF TypeOK
  <2>2. attempt' \in 0 .. MaxAttempts
    BY <1>1, <1>2, DelaysType
  <2> QED BY <1>1, <2>1, <2>2 DEF TypeOK
<1>4. WorkerOK' /\ ClockOK' /\ AnswerOK'
  BY <1>1, <1>2, DelaysType, DeliveryAssumption DEF TypeOK, WorkerOK, ClockOK, AnswerOK
<1>5. NetworkOK'
  BY <1>1 DEF NetworkOK
<1>6. VerdictIsReal'
  BY <1>1 DEF VerdictIsReal, Handlings
<1> QED BY <1>1, <1>3, <1>4, <1>5, <1>6, LineKept

(* How long the client waits after an attempt that ended inside the budget.*)
LEMMA SleepBounds ==
  ASSUME NEW k \in 1 .. Len(Delays), NEW now \in Nat, now <= Budget,
         NEW slept \in SleepAfter(k, now)
  PROVE  slept \in Nat /\ now + slept <= Budget + Oversleep
<1> DEFINE left == Budget - now
           delay == IF Delays[k] < left THEN Delays[k] ELSE left
<1>1. /\ Delays[k] \in Nat /\ Budget \in Nat /\ Oversleep \in Nat
  BY DelaysType, DeliveryAssumption
<1>2. delay \in Nat /\ delay <= left /\ left \in Nat
  BY <1>1
<1>3. slept \in IF delay > 0 THEN delay .. (delay + Oversleep) ELSE {0}
  BY DEF SleepAfter
<1> HIDE DEF delay
<1>4. slept \in Nat /\ slept <= delay + Oversleep
  BY <1>1, <1>2, <1>3
<1> QED BY <1>1, <1>2, <1>4

(* A transport failure or a timeout: the event is tried again after a      *)
(* sleep, or given up when no delay is left.                               *)
LEMMA FailedStep ==
  ASSUME DeliveryInv, Failed
  PROVE  DeliveryInv'
<1> USE DEF DeliveryInv
<1>1. /\ worker = "calling" /\ answer' = "none"
      /\ UNCHANGED <<queueVars, inFlight, handled, rank>>
  BY DEF Failed
<1>2. current # NoEvent /\ current \in Events
  BY <1>1 DEF WorkerOK, TypeOK
<1>3. PICK took \in 0 .. AttemptTimeout :
        IF attempt > Len(Delays)
        THEN Settle("abandoned")
        ELSE /\ \E slept \in SleepAfter(attempt, elapsed + took) :
                  elapsed' = elapsed + took + slept
             /\ worker' = "trying"
             /\ UNCHANGED <<current, attempt, outcome>>
  BY DEF Failed
<1>4. CASE attempt > Len(Delays)
  BY <1>1, <1>2, <1>3, <1>4, SettleStep DEF Settled
<1>5. CASE ~(attempt > Len(Delays))
  <2>1. attempt \in 1 .. Len(Delays) /\ attempt < MaxAttempts
    BY <1>1, <1>5, DelaysType DEF TypeOK, WorkerOK, MaxAttempts
  <2>2. PICK slept \in SleepAfter(attempt, elapsed + took) :
          elapsed' = elapsed + took + slept
    BY <1>3, <1>5
  <2>3. elapsed + took \in Nat /\ elapsed + took <= Budget
    <3>1. /\ elapsed \in Nat /\ elapsed < Budget
          /\ Budget \in Nat /\ Deadline \in Nat
      BY <1>1, DeliveryAssumption DEF TypeOK, ClockOK
    <3> QED BY <3>1 DEF AttemptTimeout, Remaining
  <2>4. elapsed' \in Nat /\ elapsed' <= Budget + Oversleep
    BY <2>1, <2>2, <2>3, SleepBounds
  <2>5. /\ worker' = "trying"
        /\ UNCHANGED <<queue, stopping, current, attempt, outcome, inFlight,
                       handled, rank>>
    BY <1>1, <1>3, <1>5 DEF queueVars
  <2>6. TypeOK'
    BY <1>1, <2>4, <2>5 DEF TypeOK
  <2>7. WorkerOK' /\ ClockOK' /\ AnswerOK'
    BY <1>1, <1>2, <2>1, <2>4, <2>5 DEF WorkerOK, ClockOK, AnswerOK
  <2>8. NetworkOK' /\ VerdictIsReal'
    BY <2>5 DEF NetworkOK, VerdictIsReal, Handlings
  <2> QED BY <2>5, <2>6, <2>7, <2>8, LineKept
<1> QED BY <1>4, <1>5

(* The answer of the attempt under way settles the event.                  *)
LEMMA AnsweredStep ==
  ASSUME DeliveryInv, Answered
  PROVE  DeliveryInv'
<1> USE DEF DeliveryInv
<1>1. /\ worker = "calling" /\ answer \in Verdicts /\ answer' = "none"
      /\ Settle(IF answer = "accept" THEN "delivered" ELSE "rejected")
      /\ UNCHANGED <<queueVars, inFlight, handled, rank>>
  BY DEF Answered, TypeOK
<1>2. /\ current # NoEvent /\ <<<<current, attempt>>, answer>> \in handled
      /\ attempt \in 1 .. MaxAttempts
  BY <1>1, DelaysType DEF WorkerOK, AnswerOK, TypeOK, Verdicts
<1>3. CASE answer = "accept"
  BY <1>1, <1>2, <1>3, SettleStep DEF Settled
<1>4. CASE answer = "reject"
  BY <1>1, <1>2, <1>4, SettleStep DEF Settled
<1> QED BY <1>1, <1>3, <1>4 DEF Verdicts

(* The deadline passed before a further attempt: the event is given up.    *)
LEMMA OutOfBudgetStep ==
  ASSUME DeliveryInv, OutOfBudget
  PROVE  DeliveryInv'
<1>1. answer = "none" /\ current # NoEvent
  BY DEF OutOfBudget, DeliveryInv, WorkerOK, AnswerOK
<1> QED BY <1>1, SettleStep DEF OutOfBudget, Settled

(* The network delivers or loses a request; an answer is kept for the      *)
(* worker only while the attempt it belongs to is under way.               *)
LEMMA NetworkStep ==
  ASSUME DeliveryInv, NEW request \in inFlight, Lose(request) \/ Handle(request)
  PROVE  DeliveryInv'
<1> USE DEF DeliveryInv
<1>1. /\ inFlight' = inFlight \ {request}
      /\ UNCHANGED <<queue, stopping, worker, current, attempt, elapsed, outcome,
                     rank>>
  BY DEF Lose, Handle, queueVars, clientVars
<1>2. request \in Events \X (1 .. MaxAttempts)
  BY DEF TypeOK
<1>3. CASE Lose(request)
  <2>1. answer' = answer /\ handled' = handled
    BY <1>3 DEF Lose
  <2>2. TypeOK' /\ WorkerOK' /\ ClockOK' /\ AnswerOK' /\ NetworkOK'
    BY <1>1, <2>1 DEF TypeOK, WorkerOK, ClockOK, AnswerOK, NetworkOK
  <2>3. VerdictIsReal'
    BY <1>1, <2>1 DEF VerdictIsReal, Handlings
  <2> QED BY <1>1, <2>2, <2>3, LineKept
<1>4. CASE Handle(request)
  <2>1. PICK verdict \in Verdicts :
          /\ handled' = handled \cup {<<request, verdict>>}
          /\ answer' \in IF worker = "calling" /\ request = <<current, attempt>>
                        THEN {verdict, answer}
                        ELSE {answer}
    BY <1>4 DEF Handle
  <2>2. TypeOK'
    <3>1. handled' \subseteq (Events \X (1 .. MaxAttempts)) \X Verdicts
      BY <1>2, <2>1 DEF TypeOK
    <3>2. answer' \in Verdicts \cup {"none"}
      BY <2>1 DEF TypeOK
    <3> QED BY <1>1, <3>1, <3>2 DEF TypeOK
  <2>3. AnswerOK'
    BY <1>1, <2>1 DEF AnswerOK
  <2>4. WorkerOK' /\ ClockOK'
    BY <1>1 DEF WorkerOK, ClockOK
  <2>5. NetworkOK'
    BY <1>1, <1>2, <2>1 DEF NetworkOK
  <2>6. VerdictIsReal'
    <3>1. \A d \in Events : Handlings(d) \subseteq Handlings(d)'
      BY <2>1 DEF Handlings
    <3> QED BY <1>1, <3>1 DEF VerdictIsReal
  <2> QED BY <1>1, <2>2, <2>3, <2>4, <2>5, <2>6, LineKept
<1> QED BY <1>3, <1>4

(* The worker's exit and the destructor's flag touch no event.             *)
LEMMA IdleStep ==
  ASSUME DeliveryInv, Exit \/ Stop \/ Terminated \/ UNCHANGED vars
  PROVE  DeliveryInv'
<1> USE DEF DeliveryInv
<1>1. /\ UNCHANGED <<queue, current, attempt, elapsed, answer, outcome, inFlight,
                     handled, rank>>
      /\ stopping' = stopping \/ stopping' = TRUE
      /\ worker' = worker \/ (worker = "idle" /\ worker' = "exited")
  BY DEF Exit, Stop, Terminated, vars, queueVars, clientVars
<1>2. TypeOK' /\ WorkerOK' /\ ClockOK' /\ AnswerOK' /\ NetworkOK'
  BY <1>1 DEF TypeOK, WorkerOK, ClockOK, AnswerOK, NetworkOK
<1>3. VerdictIsReal'
  BY <1>1 DEF VerdictIsReal, Handlings
<1> QED BY <1>1, <1>2, <1>3, LineKept
-----------------------------------------------------------------------------
(* Every step of a hot worker, the worker thread, the network and the      *)
(* destructor keeps the inductive invariant.                               *)
LEMMA StepDelivery == DeliveryInv /\ [Next]_vars => DeliveryInv'
BY EnqueueStep, RefuseStep, TakeStep, CallStep, AnsweredStep, FailedStep,
   OutOfBudgetStep, NetworkStep, IdleStep DEF Next, WorkerStep

(* The inductive invariant holds in every behaviour.                       *)
LEMMA DeliveryInvariant == Spec => []DeliveryInv
<1> QED BY InitDelivery, StepDelivery, PTL DEF Spec

(* The state of the notification executor and its client is always well    *)
(* typed.                                                                  *)
THEOREM DeliveryTypeOK == Spec => []TypeOK
<1>1. DeliveryInv => TypeOK
  BY DEF DeliveryInv
<1> QED BY <1>1, DeliveryInvariant, PTL

(* What the client reports as delivered or rejected, the receiver accepted *)
(* or rejected: however requests and answers are lost, late or repeated,   *)
(* no answer is taken for another attempt or another event.                *)
THEOREM VerdictsAreReal == Spec => []VerdictIsReal
<1>1. DeliveryInv => VerdictIsReal
  BY DEF DeliveryInv
<1> QED BY <1>1, DeliveryInvariant, PTL

(* The client stays inside its retry budget for any deadline, delays and   *)
(* budget.                                                                 *)
THEOREM BudgetIsKept == Spec => []BudgetKept
<1>1. DeliveryInv => BudgetKept
  <2> SUFFICES ASSUME DeliveryInv PROVE BudgetKept
    OBVIOUS
  <2>1. elapsed \in Nat /\ Budget \in Nat /\ Deadline \in Nat /\ ClockOK
    BY DeliveryAssumption DEF DeliveryInv, TypeOK
  <2> QED BY <2>1 DEF BudgetKept, ClockOK, AttemptTimeout, Remaining
<1> QED BY <1>1, DeliveryInvariant, PTL

(* No request of an event goes out while one that was queued before it is  *)
(* still unsettled.                                                        *)
THEOREM EventsNotOvertaken == Spec => []NotOvertaken
<1>1. DeliveryInv => NotOvertaken
  <2> SUFFICES ASSUME DeliveryInv, NEW d \in Events, NEW e \in Events,
                      rank[d] # 0, rank[d] < rank[e],
                      Handlings(e) # {} \/ \E r \in inFlight : r[1] = e,
                      outcome[d] = "queued"
               PROVE  FALSE
    BY DEF NotOvertaken
  <2>1. e = current \/ outcome[e] \in Settled
    BY DEF DeliveryInv, NetworkOK, Handlings
  <2>2. rank[d] \in Nat /\ rank[e] \in Nat
    BY RankedCount DEF DeliveryInv, TypeOK
  <2>3. CASE e = current
    <3>1. \E i \in 1 .. Len(queue) : queue[i] = d
      BY <2>2, <2>3 DEF DeliveryInv, LineOK
    <3>2. rank[e] < rank[d]
      BY <2>3, <3>1, DeliveryAssumption DEF DeliveryInv, LineOK
    <3> QED BY <2>2, <3>2
  <2>4. CASE outcome[e] \in Settled
    BY <2>2, <2>4 DEF DeliveryInv, LineOK
  <2> QED BY <2>1, <2>3, <2>4
<1> QED BY <1>1, DeliveryInvariant, PTL
=============================================================================
