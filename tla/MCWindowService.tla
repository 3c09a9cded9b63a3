--------------------------- MODULE MCWindowService ---------------------------
(* The instances of WindowService that TLC checks.                         *)
EXTENDS WindowService

MCPoint(s, t, v) == [sequence |-> s, time |-> t, value |-> v]

(* One sequence: every update of one point, and of a point of value 1 and  *)
(* one of value 2 in either order or at the same time, over four times; a  *)
(* value without statistics comes alone.                                   *)
MCTimes == 1 .. 4
MCValues == {1, 2}
MCOnePoints == {MCPoint("s", t, v) : t \in MCTimes, v \in MCValues}
MCSequenceBatches ==
  {<<p>> : p \in MCOnePoints}
    \cup {<<MCPoint("s", t, 1), MCPoint("s", u, 2)>> : t, u \in MCTimes}
    \cup {<<MCPoint("s", t, NonNumeric)>> : t \in MCTimes}

MCDerivedBatches ==
  {<<>>, <<[time |-> 2, value |-> 1]>>,
   <<[time |-> 3, value |-> 2], [time |-> 2, value |-> 2]>>}
MCPatches == {<<2, 3>>, <<3, 4>>}
MCNoPatches == {}

(* Two sequences: points early, in the middle and late, alone or together; *)
(* their values do not matter.                                             *)
MCSharedBatches ==
  {<<MCPoint("r", 1, 1)>>, <<MCPoint("s", 4, 1)>>,
   <<MCPoint("r", 3, 1), MCPoint("s", 2, 1), MCPoint("r", 2, 1)>>}

MCSymmetry == Permutations(Callers)
=============================================================================
