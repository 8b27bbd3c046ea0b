------------------------------ MODULE Grouping ------------------------------
(***************************************************************************)
(* What CommFabric::grouping promises, whatever fabric carries it: every   *)
(* process for which it succeeds learns the number of distinct items, and  *)
(* of its own item the size of the group and the lowest rank in it, which  *)
(* is the group's id and its representative.                               *)
(***************************************************************************)
EXTENDS Integers, FiniteSets

CONSTANT N            \* number of processes
CONSTANT Item         \* what can be grouped

VARIABLES
  item,               \* the item each process brings
  result              \* what each process has learnt, Pending before that

vars == <<item, result>>

Rank == 0 .. N-1
Pending == [pending |-> TRUE]

Group(r) == {q \in Rank : item[q] = item[r]}

GroupOf(r) ==
  LET lowest == CHOOSE q \in Group(r) : \A p \in Group(r) : q <= p
  IN  [numOfGroups |-> Cardinality({item[q] : q \in Rank}),
       groupId     |-> lowest,
       rankInGroup |-> r,
       groupSize   |-> Cardinality(Group(r)),
       repInGroup  |-> lowest]

Init == /\ item \in [Rank -> Item]
        /\ result = [r \in Rank |-> Pending]

Learn(r) == /\ result[r] = Pending
            /\ result' = [result EXCEPT ![r] = GroupOf(r)]
            /\ UNCHANGED item

Next == \E r \in Rank : Learn(r)

Spec == Init /\ [][Next]_vars
=============================================================================
