---------------------------- MODULE MCAlignedCheck ----------------------------
(* The instances of AlignedCheck that TLC checks: a and b are continuous,  *)
(* c is discrete and e has no kind.                                        *)
EXTENDS AlignedCheck, TLC

MCKindOf == [a |-> "continuous", b |-> "continuous", c |-> "discrete",
             e |-> "unspecified"]
Term(s, k) == [sequence |-> s, offset |-> k]

(* A rule of one sequence with an offset, and one of two without.          *)
MCRules == {[terms |-> <<Term("a", 0), Term("a", 1)>>, bound |-> 6],
            [terms |-> <<Term("a", 0), Term("b", 0)>>, bound |-> 6]}

(* A rule of two sequences with an offset.                                 *)
MCOffsetRule == {[terms |-> <<Term("a", 0), Term("b", 1)>>, bound |-> 6]}
MCAlignedRule == {[terms |-> <<Term("a", 0), Term("b", 0)>>, bound |-> 6]}

(* Values of which a third and a half are whole.                           *)
MCBatches(times) ==
  {[a |-> (t :> x)] : t \in times, x \in {0, 6}}
    \cup {[a |-> (t :> x), b |-> (t :> y)] : t \in times, x \in {0, 6}, y \in {0, 6}}
    \cup {[a |-> (t :> 6) @@ (t + 2 :> 0), b |-> (t :> x) @@ (t + 2 :> 6)] :
            t \in times, x \in {0, 6}}
    \cup {[a |-> (t :> NotNumeric)] : t \in times}
MCBatchesSmall == MCBatches(1 .. 4)

(* Two sequences sampled apart.                                            *)
MCBatchesApart == {[s \in {q} |-> (t :> 6)] : q \in {"a", "b"}, t \in 1 .. 4}

(* Windows of three sequences at six times in which the value of a point   *)
(* is its own, so that a wrong neighbour shows; c and e are sampled        *)
(* together, at two times at most.                                         *)
PointsAt(times, x) == [t \in times |-> 12 * t + x]
MCWindows ==
  {[start |-> 0, end |-> 6,
    points |-> [s \in {"a", "c", "e"} |->
                  IF s = "a" THEN PointsAt(A, 0)
                  ELSE IF s = "c" THEN PointsAt(B, 1) ELSE PointsAt(B, 2)]]
     : A \in SUBSET (0 .. 5), B \in {C \in SUBSET (0 .. 5) : Cardinality(C) <= 2}}
MCRequests == {[start |-> t, end |-> u, prefix |-> p] : t \in 0 .. 5, u \in 0 .. 5, p \in 0 .. 1}
MCRequestsOrdered == {r \in MCRequests : r.start <= r.end /\ r.end <= r.start + 1}
=============================================================================
