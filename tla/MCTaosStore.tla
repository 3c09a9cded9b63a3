---------------------------- MODULE MCTaosStore -----------------------------
(* The instances of TaosStore that TLC checks.  Sequence 1 is registered   *)
(* as "double" but holds integers, sequence 2 holds doubles.               *)
EXTENDS TaosStore

MCRegistered == (1 :> "double") @@ (2 :> "double") @@ (3 :> Unknown)
MCHashOf == [s \in {1, 2, 3} |-> s]

MCPoint(s, t, kind) == [sequence |-> s, time |-> t, kind |-> kind]
MCWrite(project, k, points) ==
  [op |-> "write", project |-> project, connection |-> k, points |-> points]
MCRead(op, project, sequences, start, end, granularity) ==
  [op |-> op, project |-> project, sequences |-> sequences, start |-> start,
   end |-> end, granularity |-> granularity]

(* Writes to two projects, one of both sequences, one with a duplicate;    *)
(* reads that fall back to the generic projection, in the reverse order.   *)
MCBoth == <<MCPoint(2, 1, "double"), MCPoint(1, 1, "int"), MCPoint(1, 2, "int")>>
MCTwice == <<MCPoint(2, 1, "double"), MCPoint(2, 1, "double")>>
MCRequests ==
  {MCWrite("p", 1, MCBoth), MCWrite("q", Hashed, MCTwice),
   MCRead("read", "p", <<2, 1>>, 0, 3, 0),
   MCRead("read", "p", <<2, 1>>, 0, 3, 2),
   MCRead("overview", "p", <<>>, 0, 3, 0),
   [op |-> "drop", project |-> "p"]}

(* Also requests that are refused, before or after the schema is ensured:  *)
(* two kinds for one sequence, no time, a negative granularity, a sequence *)
(* nobody registered.                                                      *)
MCHistoryRequests ==
  MCRequests \cup
  {MCWrite("p", 0, <<MCPoint(2, 1, "double"), MCPoint(2, 2, "int")>>),
   MCRead("overview", "p", <<1>>, 1, 1, 0),
   MCRead("read", "p", <<1>>, 0, 3, -1),
   MCRead("read", "p", <<4>>, 0, 3, 0)}

(* And a connection outside the pool.                                      *)
MCAllRequests ==
  MCHistoryRequests \cup {MCWrite("p", 2, <<MCPoint(2, 1, "double")>>)}

(* Sequence 3, whose kind is not known, takes an integer and a double.     *)
MCRetypedRequests ==
  {MCWrite("p", 0, <<MCPoint(3, 1, "int")>>),
   MCWrite("p", 0, <<MCPoint(3, 2, "double")>>),
   MCRead("read", "p", <<3>>, 0, 3, 0)}

MCOpen == {{0, 1, 2}, {0, 1}}

MCSymmetry == Permutations(Callers)
=============================================================================
