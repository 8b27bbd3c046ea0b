------------------------------- MODULE Survey -------------------------------
(***************************************************************************)
(* Abstract: what triage and the grouping of one file are for.  Whoever    *)
(* triages learns what the URIs of all processes amount to, everybody      *)
(* learns the groups at once, and what is learnt does not change.  The     *)
(* storage classifier uses both as such single steps.  What they make of   *)
(* the URIs is a parameter: of SyncStatus, what FileStatusBase works out.  *)
(***************************************************************************)
CONSTANTS
  Rank, Uri,              \* the processes, and what they may find
  NotFilled, NoGroupInfo, \* what they hold before they have learnt anything
  CardinalityEst(_, _),   \* what triage makes of the URIs and anyRemote
  GroupInfoOf(_, _, _)    \* what grouping makes of the URIs on one process

VARIABLES
  uri, remote,     \* what each process finds on its node
  card, nodeLocal, \* what triage has told it
  info             \* what grouping has told it

vars == <<uri, remote, card, nodeLocal, info>>

AnyRemote == \E r \in Rank : remote[r]

Init ==
  /\ uri \in [Rank -> Uri] /\ remote \in [Rank -> BOOLEAN]
  /\ card = [r \in Rank |-> NotFilled]
  /\ nodeLocal = [r \in Rank |-> FALSE]
  /\ info = [r \in Rank |-> NoGroupInfo]

Triage(r) ==
  /\ card[r] = NotFilled
  /\ card' = [card EXCEPT ![r] = CardinalityEst(uri, AnyRemote)]
  /\ nodeLocal' = [nodeLocal EXCEPT ![r] = ~AnyRemote]
  /\ UNCHANGED <<uri, remote, info>>

Group ==
  /\ info = [r \in Rank |-> NoGroupInfo]
  /\ info' = [r \in Rank |-> GroupInfoOf(NoGroupInfo, uri, r)]
  /\ UNCHANGED <<uri, remote, card, nodeLocal>>

Next == Group \/ \E r \in Rank : Triage(r)

Spec == Init /\ [][Next]_vars
=============================================================================
