------------------------ MODULE MCStorageClassifier ------------------------
(***************************************************************************)
(* StorageClassifier and AsyncStatus on small jobs.                        *)
(***************************************************************************)
EXTENDS AsyncStatus

MCBytes(S) == Cardinality(S)

TwoUris == 1 .. 2
TwoServers == [u \in TwoUris |-> 10 + u]
TwoPaths == 1 .. 2

(* Every URI has two bits of the Bloom filter of its own.                  *)
Odd == [u \in Uri |-> 2 * u + 1]
Even == [u \in Uri |-> 2 * u]

(* A file under mount point 2, which is a directory of mount point 1, and  *)
(* one that is elsewhere under 1.                                          *)
TwoFiles == {1, 2}
Nested == [f \in TwoFiles |-> IF f = 1 THEN <<1>> ELSE <<1, 2>>]

(* URI 1 is the slow file system that does not scale.                      *)
Ascending == [u \in Uri |-> u]

(* Two processes on a server need more than it has, one just what it has;  *)
(* or one gives back.                                                      *)
NeedValues == {-1, 2}
RoomValues == {Unavailable, 2}

NoneAsked == [speed |-> "none", dist |-> "none", scal |-> "none"]
NothingAsked == {NoneAsked}

(* Nothing; one requirement, also the low ones; and all the high ones.     *)
Asked == {NoneAsked, [speed |-> "high", dist |-> "high", scal |-> "multi"]}
           \cup {[NoneAsked EXCEPT !.dist = d] : d \in {"unique", "low"}}
           \cup {[NoneAsked EXCEPT !.speed = "low"], [NoneAsked EXCEPT !.scal = "single"]}
(* The server of a path that is not a mount point of the rank is looked at *)
(* by nobody: only what all have mounted is surveyed.                      *)
JobInit == Init /\ \A r \in Rank : \A p \in Path \ mounts[r] : server[r][p] = 1

JobSpec == JobInit /\ [][Next]_vars /\ Fairness
=============================================================================
