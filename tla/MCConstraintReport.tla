-------------------------- MODULE MCConstraintReport --------------------------
(* The instances of ConstraintReport that TLC checks.  In the largest,     *)
(* rule r on a and rule q on b stand alone, u on a and v on b are one OR   *)
(* clause.  A point above its limit has value 2.                           *)
EXTENDS ConstraintReport, TLC

MCRules == {"r", "q", "u", "v"}
MCSequenceOf == [r |-> "a", q |-> "b", u |-> "a", v |-> "b"]
MCGroupOf == [r |-> NoGroup, q |-> NoGroup, u |-> "g", v |-> "g"]

MCValues == {1, 2}
MCBatches ==
  {[a |-> t :> x] : t \in 1 .. 4, x \in MCValues}
    \cup {[b |-> t :> x] : t \in 1 .. 4, x \in MCValues}
    \cup {[a |-> 2 :> 2, b |-> 3 :> 2]}

(* One rule on one sequence.                                               *)
MCOneRule == {"r"}
MCOneSequenceOf == [r |-> "a"]
MCOneGroupOf == [r |-> NoGroup]
MCOneBatches == {[a |-> t :> x] : t \in 1 .. 4, x \in MCValues}

(* Rules r and q stand alone on two sequences.                             *)
MCTwoRules == {"r", "q"}
MCTwoSequenceOf == [r |-> "a", q |-> "b"]
MCTwoGroupOf == [r |-> NoGroup, q |-> NoGroup]
(* Sequence b may carry a value that is no number.                         *)
MCFailingBatches ==
  MCBatches \cup {[b |-> 3 :> NotNumeric], [a |-> 2 :> 2, b |-> 4 :> NotNumeric]}
(* The same with points of one time only, so that none comes ahead of the  *)
(* watermark.                                                              *)
MCSameTimeBatches == MCOneBatches \cup {[a |-> 2 :> 2, b |-> 2 :> NotNumeric]}

(* More ingests one at a time than overlapping, and fewest once limits and *)
(* sizes change; the same number in any case.                              *)
MCDecreasing == [alone |-> 4, overlapped |-> 3, changed |-> 2]
MCThreeUpdates == [m \in Modes |-> 3]

MCSymmetry == Permutations(Callers)
=============================================================================
