--------------------------- MODULE MCMRNetFabric ---------------------------
(***************************************************************************)
(* MRNetFabric on small trees.                                             *)
(***************************************************************************)
EXTENDS MRNetFabric

CONSTANT host    \* a communication node

MCBytes(S) == Cardinality(S)

TwoUris == 1 .. 2
TwoServers == [u \in TwoUris |-> 10 + u]
OneServer == [u \in TwoUris |-> 10]

(* Two back ends under a communication node, one right under the front     *)
(* end; and the first of these without the other.                          *)
ThreeLeaves == 1 .. 3
MixedTree == [n \in {1, 2, 3, host} |-> IF n \in {1, 2} THEN host ELSE FrontEnd]
TwoLeaves == 1 .. 2
DeepTree == [n \in {1, 2, host} |-> IF n = host THEN FrontEnd ELSE host]

AllKinds == <<"hello", "debug", "init", "bor", "map", "min", "mapElim", "bcast",
              "finalize">>
BorWithoutMemory == {4}
Distinct == <<"max", "bor", "map", "bcast", "sum">>

(* Ranks 1 and 2 can be exchanged in every behaviour: both are leaves of   *)
(* the same node, and their packets come to it in either order.            *)
TreeInit == Init /\ item[1] <= item[2]

TreeSpec == TreeInit /\ [][Next]_vars /\ Fairness

AnyoneMayFail == (0 .. 2) \X (1 .. 5)
=============================================================================
