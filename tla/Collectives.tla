---------------------------- MODULE Collectives ----------------------------
(***************************************************************************)
(* What CommFabric promises of a sequence of global collective operations: *)
(* every process enters them one after the other, the root's result is one *)
(* of the outcomes of everybody's operands, no reduction has a result      *)
(* before everybody is in it, and every process leaves with the root's.    *)
(***************************************************************************)
EXTENDS Naturals, Sequences

CONSTANTS
  Process,        \* the processes
  Root,           \* the one that reduces
  Script,         \* the operations, the same for every process
  Waits,          \* the operations whose result depends on all operands
  Outcome(_, _)   \* possible results of the k-th operation on the operands

VARIABLES
  operand,        \* what each process brings
  entered,        \* number of operations each has entered
  result          \* results each has left with, in order

vars == <<operand, entered, result>>

Init ==
  /\ entered = [p \in Process |-> 0]
  /\ result = [p \in Process |-> <<>>]

Pending(p) == entered[p] = Len(result[p]) + 1

Enter(p) ==
  /\ entered[p] = Len(result[p])
  /\ entered[p] < Len(Script)
  /\ entered' = [entered EXCEPT ![p] = @ + 1]
  /\ UNCHANGED <<operand, result>>

Decide ==
  LET k == entered[Root]
  IN  /\ Pending(Root)
      /\ Script[k] \in Waits => \A p \in Process : entered[p] >= k
      /\ \E v \in Outcome(k, operand) : result' = [result EXCEPT ![Root] = Append(@, v)]
      /\ UNCHANGED <<operand, entered>>

Learn(p) ==
  /\ p # Root
  /\ Pending(p)
  /\ Len(result[Root]) >= entered[p]
  /\ result' = [result EXCEPT ![p] = Append(@, result[Root][entered[p]])]
  /\ UNCHANGED <<operand, entered>>

Next == Decide \/ \E p \in Process : Enter(p) \/ Learn(p)

Spec == Init /\ [][Next]_vars
=============================================================================
