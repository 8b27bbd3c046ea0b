----------------------------- MODULE AsyncStatus -----------------------------
(***************************************************************************)
(* AsyncGlobalFileStatus: the queries of SyncGlobalFileStatus without      *)
(* communication, answered on each process from what runClassification     *)
(* has left there.  A query looks up the mount point its own mount table   *)
(* has for the path, "a bit approximation" in the words of the code, and   *)
(* then the properties of that mount point; it changes no state, so the    *)
(* queries are operators over the states of StorageClassifier.             *)
(***************************************************************************)
EXTENDS StorageClassifier

CONSTANTS
  File,        \* paths that are asked about
  Above        \* File -> the mount points it may be under, deepest last

ASSUME AboveAssumption == Above \in [File -> Seq(Path)]

(* The entry isRemoteFileSystem finds: the deepest of the process's own    *)
(* mount points above the path.  dir_branch stays empty without one.       *)
Mounted(r, f) == {i \in DOMAIN Above[f] : Above[f][i] \in mounts[r]}

(* Fault: the first mount point of the table that is above the path.       *)
MountPoint_First(r, f) == Above[f][Min(Mounted(r, f))]
MountPoint(r, f) == Above[f][Max(Mounted(r, f))]

Annotated(r, f) == Mounted(r, f) # {} /\ MountPoint(r, f) \in DOMAIN props[r]

Query == {"isUnique", "isPoorlyDistributed", "isWellDistributed", "isFullyDistributed"}

Property(p, query) == CASE query = "isUnique" -> p.unique
                        [] query = "isPoorlyDistributed" -> p.poorly
                        [] query = "isWellDistributed" -> ~p.poorly
                        [] query = "isFullyDistributed" -> p.fully

Answer(r, f, query) ==
  IF ~Annotated(r, f) THEN "error"
  ELSE IF Property(props[r][MountPoint(r, f)], query) THEN "yes" ELSE "no"

-----------------------------------------------------------------------------
(* Queries are asked once the classification has returned.                 *)
Classification == {"list", "survey", "traits"}
Answers(f, query) == {Answer(r, f, query) : r \in {q \in Rank : pc[q] \notin Classification}}

(* Processes that get an answer get the same one, although each looks the  *)
(* path up in its own mount table and some may already ask while others    *)
(* still classify (AsyncFastGlobalFileStat.C:118-199).                     *)
AsyncAgreement ==
  \A f \in File, query \in Query : Cardinality(Answers(f, query) \ {"error"}) <= 1

(* Where every process gets an answer, what it says is true of the servers *)
(* that the processes really reach the path on: a mount point that hides   *)
(* another on all of them is the one that is classified                    *)
(* (AsyncFastGlobalFileStat.C:118-199, MountPointsClassifier.C:319-399).   *)
Reached(r, f) == server[r][Above[f][Max(Mounted(r, f))]]

AsyncRight ==
  \A f \in File : (\A r \in Rank : pc[r] \notin Classification /\ Annotated(r, f)) =>
    LET servers == {Reached(r, f) : r \in Rank}
        crowded == N >= Threshold * Cardinality(servers)
    IN  /\ "yes" \in Answers(f, "isUnique") => \A u, v \in servers : SameServer(u, v)
        /\ "yes" \in Answers(f, "isFullyDistributed") <=> servers \cap Remote = {}
        /\ "yes" \in Answers(f, "isPoorlyDistributed") => crowded
        /\ "yes" \in Answers(f, "isWellDistributed") =>
             ~crowded \/ servers \cap Remote = {}
=============================================================================
