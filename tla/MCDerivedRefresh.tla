-------------------------- MODULE MCDerivedRefresh --------------------------
(* The instances of DerivedRefresh that TLC checks: source a alone feeds   *)
(* series e, a and b feed series d; source x of project q feeds series y.  *)
EXTENDS DerivedRefresh, TLC

MCProjectOf == [a |-> "p", b |-> "p", d |-> "p", e |-> "p"]
MCFormula == [d |-> {"a", "b"}, e |-> {"a"}]

MCTwoProjectsOf == [a |-> "p", d |-> "p", x |-> "q", y |-> "q"]
MCTwoFormula == [d |-> {"a"}, y |-> {"x"}]

MCBoth(f) == [a |-> f, b |-> f]

(* The sources are sampled apart from each other.                          *)
MCUnevenBatches ==
  {[a |-> t :> 1] : t \in 1 .. 4} \cup {[b |-> t :> 1] : t \in 1 .. 4}
    \cup {MCBoth(1 :> 1), MCBoth(4 :> 2)}

(* A longer window: the range of an update leaves out a derived point that *)
(* loses its left neighbour.  A request may end at its older point.        *)
MCEvictedBatches ==
  MCUnevenBatches
    \cup {[a |-> 5 :> 1], [b |-> 5 :> 1],
          [a |-> 3 :> 1, b |-> 2 :> 1],
          [a |-> 1 :> 1 @@ 3 :> 1, b |-> 2 :> 1 @@ 3 :> 1]}

MCProjectBatches ==
  {[a |-> t :> 1] : t \in 1 .. 2} \cup {[x |-> t :> 1] : t \in 1 .. 2}

MCSymmetry == Permutations(Callers)
=============================================================================
