--------------------------- MODULE IngestPromise ----------------------------
(***************************************************************************)
(* What IngestTaskExecutor promises the gRPC layer, without lanes, queues  *)
(* or workers: a request is accepted whole or refused, at most Capacity    *)
(* accepted requests are unfinished, and on every sequence both the window *)
(* update and the store happen in the order of acceptance.  It finishes    *)
(* when its windows are updated and all its points are stored.             *)
(***************************************************************************)
EXTENDS Naturals, FiniteSets

CONSTANTS Tasks, SequenceIds, Batches, Capacity

VARIABLES
  status,    (* of each request: new, asking, accepted or rejected         *)
  batch,     (* the sequences it carries                                   *)
  rank,      (* its place in the order of acceptance, 0 before             *)
  applied,   (* requests whose hot windows are updated                     *)
  stored,    (* the sequences of each request that went through the store  *)
  finished,  (* requests whose completion is promised                      *)
  held,      (* requests that count against Capacity                       *)
  closed     (* the service is going down                                  *)

vars == <<status, batch, rank, applied, stored, finished, held, closed>>

Accepted == {t \in Tasks : status[t] = "accepted"}

Before(t, u, s) ==
  rank[t] # 0 /\ rank[t] < rank[u] /\ s \in batch[t] \cap batch[u]

Init ==
  /\ status = [t \in Tasks |-> "new"]
  /\ batch = [t \in Tasks |-> {}]
  /\ rank = [t \in Tasks |-> 0]
  /\ applied = {} /\ finished = {} /\ held = {}
  /\ stored = [t \in Tasks |-> {}]
  /\ closed = FALSE

Ask(t) ==
  /\ status[t] = "new"
  /\ \E b \in Batches : batch' = [batch EXCEPT ![t] = b]
  /\ status' = [status EXCEPT ![t] = "asking"]
  /\ UNCHANGED <<rank, applied, stored, finished, held, closed>>

Accept(t) ==
  /\ status[t] = "asking"
  /\ ~closed /\ Cardinality(held) < Capacity
  /\ status' = [status EXCEPT ![t] = "accepted"]
  /\ rank' = [rank EXCEPT ![t] = Cardinality(Accepted) + 1]
  /\ held' = held \cup {t}
  /\ UNCHANGED <<batch, applied, stored, finished, closed>>

Refuse(t) ==
  /\ status[t] = "asking"
  /\ closed \/ Cardinality(held) = Capacity
  /\ status' = [status EXCEPT ![t] = "rejected"]
  /\ UNCHANGED <<batch, rank, applied, stored, finished, held, closed>>

Apply(t) ==
  /\ t \in Accepted \ applied
  /\ \A u \in Tasks, s \in SequenceIds : Before(u, t, s) => u \in applied
  /\ applied' = applied \cup {t}
  /\ UNCHANGED <<status, batch, rank, stored, finished, held, closed>>

Store(t, part) ==
  /\ t \in Accepted
  /\ \A u \in Tasks, s \in part : Before(u, t, s) => s \in stored[u]
  /\ stored' = [stored EXCEPT ![t] = @ \cup part]
  /\ UNCHANGED <<status, batch, rank, applied, finished, held, closed>>

Finish(t) ==
  /\ t \in applied \ finished
  /\ stored[t] = batch[t]
  /\ finished' = finished \cup {t}
  /\ UNCHANGED <<status, batch, rank, applied, stored, held, closed>>

GiveBack(t) ==
  /\ t \in held \cap finished
  /\ held' = held \ {t}
  /\ UNCHANGED <<status, batch, rank, applied, stored, finished, closed>>

Close ==
  /\ closed' = TRUE
  /\ UNCHANGED <<status, batch, rank, applied, stored, finished, held>>

Next ==
  \/ \E t \in Tasks :
       \/ Ask(t) \/ Accept(t) \/ Refuse(t) \/ Apply(t) \/ Finish(t)
       \/ GiveBack(t)
       \/ \E part \in (SUBSET (batch[t] \ stored[t])) \ {{}} : Store(t, part)
  \/ Close

Spec == Init /\ [][Next]_vars
=============================================================================
