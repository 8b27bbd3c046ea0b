--------------------------- MODULE MCMPIMapReduce ---------------------------
(***************************************************************************)
(* MPIMapReduce on small jobs.                                             *)
(***************************************************************************)
EXTENDS MPIMapReduce, FiniteSetsExt

(* Keys are packed with the two words of their descriptor and their text;  *)
(* the texts differ in length.                                             *)
MCBytes(S) == MapThenSumSet(LAMBDA u : 8 + u, S)

TwoUris == 1 .. 2
ThreeUris == 1 .. 3

(* Every URI names a server of its own.                                    *)
TwoServers == [u \in TwoUris |-> 10 + u]

(* Both URIs name one server; of three, the last two do.                   *)
OneServer == [u \in TwoUris |-> 10]
AliasedTail == [u \in ThreeUris |-> IF u = 1 THEN 11 ELSE 12]
=============================================================================
