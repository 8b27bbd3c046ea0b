---------------------------- MODULE MCSyncStatus ----------------------------
(***************************************************************************)
(* SyncStatus on small jobs.                                               *)
(***************************************************************************)
EXTENDS SyncStatus, SequencesExt

MCBytes(S) == Cardinality(S)

TwoUris == 1 .. 2
ThreeUris == 1 .. 3
TwoServers == [u \in TwoUris |-> 10 + u]
ThreeServers == [u \in ThreeUris |-> 10 + u]
OneServer == [u \in TwoUris |-> 10]

(* Hash values by which every URI has two bits of its own; and by which    *)
(* URIs 2 and 3 have the same two, so that the estimate is too low.        *)
Odd == [u \in Uri |-> 2 * u + 1]
Even == [u \in Uri |-> 2 * u]
OddCollide == [u \in Uri |-> 2 * (u \div 2) + 1]
EvenCollide == [u \in Uri |-> 2 * (u \div 2)]

AllCalls == <<"initialize", "triage", "isPoorlyDistributed", "isUnique", "isConsistent",
              "signiture">>
Forced == <<"initializeStorage", "initialize", "triage", "isFullyDistributed",
            "isWellDistributed", "forceComputeParallelInfo", "isConsistent",
            "isUnique">>
JobPrograms == {AllCalls, Forced}

(* The contents of a file are only compared, so the two signatures can be  *)
(* exchanged in every behaviour: it is enough that rank 0 has the first.   *)
JobInit == Init /\ file[0] = 1

JobSpec == JobInit /\ [][Next]_vars /\ Fairness

Serial == <<"initialize", "triage", "isConsistentSerial", "isConsistent">>
StorageLast == <<"initialize", "initializeStorage", "triage", "isConsistent">>
FailurePrograms == {Serial, StorageLast}
StoragePrograms == {StorageLast}
SignPrograms == {<<"initialize", "triage", "signiture">>}
=============================================================================
