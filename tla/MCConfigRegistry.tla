-------------------------- MODULE MCConfigRegistry --------------------------
EXTENDS ConfigRegistry, FiniteSets

CONSTANTS c1, c2, p1, p2, a, b, r, k1, k2, real, label

(* Requests of one or two items in the first project, of one in the other. *)
UpTo(n, S) == UNION {[1 .. m -> S] : m \in 1 .. n}
InstanceRequests(p, n, S) == [kind : {"instance"}, project : {p}, items : UpTo(n, S)]

MCNumericTypes == {real}
MCRequests ==
  InstanceRequests(p1, 2, [id : {a, b}, key : {k1, k2}, type : {real, label}])
    \cup InstanceRequests(p2, 1, [id : {a}, key : {k1, NoKey}, type : {real}])
    \cup [kind : {"constraint"}, project : {p1},
          items : UpTo(2, [id : {r}, refs : {{}, {a}, {a, b}}])]
    \cup [kind : {"derived"}, project : {p1},
          items : UpTo(1, [id : {b}, refs : {{a}, {a, b}}])]
    \cup [kind : {"relation"}, project : {p1},
          items : UpTo(1, [id : {r}, refs : {{}, {b}}])]
MCPoints ==
  [project : {p1}, id : {NoSequence, a}, key : {NoKey, k1}, type : {real, label}]
=============================================================================
