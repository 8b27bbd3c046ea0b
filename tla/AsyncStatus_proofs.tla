--------------------------- MODULE AsyncStatus_proofs -------------------------
(***************************************************************************)
(* The queries of AsyncGlobalFileStatus for every number of processes,     *)
(* every mount table and every nesting of mount points.                    *)
(***************************************************************************)
EXTENDS AsyncStatus, StorageClassifier_proofs

(* A path that is under some mount point is under a deepest one.           *)
LEMMA DeepestFacts ==
  ASSUME NEW r \in Rank, NEW f \in File, Mounted(r, f) # {}
  PROVE  /\ Max(Mounted(r, f)) \in Mounted(r, f) /\ Max(Mounted(r, f)) \in Nat
         /\ \A j \in Mounted(r, f) : j <= Max(Mounted(r, f))
         /\ MountPoint(r, f) \in Path /\ MountPoint(r, f) \in mounts[r]
<1> DEFINE depth == Len(Above[f])
           S == Mounted(r, f)
<1>1. Above[f] \in Seq(Path) /\ DOMAIN Above[f] = 1 .. depth /\ depth \in Nat
  BY AboveAssumption
<1>2. S \subseteq 1 .. depth
  BY <1>1 DEF Mounted
<1> HIDE DEF S, depth
<1>3. {depth - i : i \in S} \in SUBSET Nat /\ {depth - i : i \in S} # {}
  BY <1>1, <1>2 DEF S
<1>4. \E n \in {depth - i : i \in S} : \A m \in {depth - i : i \in S} : n <= m
  BY <1>3, LowestNumber
<1>5. \E i \in S : \A j \in S : depth - i <= depth - j
  BY <1>4
<1>6. \E i \in S : \A j \in S : i >= j
  <2>1. PICK i \in S : \A j \in S : depth - i <= depth - j
    BY <1>5
  <2>2. \A j \in S : j \in Int
    BY <1>2
  <2>3. ASSUME NEW j \in S PROVE i >= j
    BY <1>1, <2>1, <2>2
  <2>4. QED
    BY <2>3
<1>7. Max(S) \in S /\ \A j \in S : Max(S) >= j
  BY <1>6 DEF Max
<1>8. Max(S) \in 1 .. depth /\ \A j \in S : j <= Max(S)
  BY <1>1, <1>2, <1>7
<1>9. Above[f][Max(S)] \in Path
  BY <1>1, <1>8
<1>10. Above[f][Max(S)] \in mounts[r]
  BY <1>7 DEF S, Mounted
<1>11. QED
  BY <1>1, <1>7, <1>8, <1>9, <1>10 DEF S, MountPoint

(* Whoever has classified the deepest mount point it has for the path: it  *)
(* is one that all processes have, and its properties are the told ones.   *)
LEMMA AnnotatedFacts ==
  ASSUME DataInv, NEW r \in Rank, NEW f \in File, pc[r] \notin Classification,
         Annotated(r, f)
  PROVE  /\ MountPoint(r, f) \in Common /\ MountPoint(r, f) \in Path
         /\ props[r][MountPoint(r, f)] = Told(MountPoint(r, f))
<1>1. DOMAIN props[r] = Common /\ ToldAt(r)
  BY DEF DataInv, RankOK, ListAt, Classification, Surveying
<1>2. QED
  BY <1>1 DEF Annotated, ToldAt, Common

(* Two that have classified their deepest mount point for the path have    *)
(* classified the same: each has the other's, and so none that is deeper.  *)
LEMMA SameMountPoint ==
  ASSUME DataInv, NEW r \in Rank, NEW q \in Rank, NEW f \in File,
         pc[r] \notin Classification, pc[q] \notin Classification,
         Annotated(r, f), Annotated(q, f)
  PROVE  Max(Mounted(r, f)) = Max(Mounted(q, f)) /\ MountPoint(r, f) = MountPoint(q, f)
<1>1. /\ Max(Mounted(r, f)) \in Nat /\ Max(Mounted(r, f)) \in DOMAIN Above[f]
      /\ Max(Mounted(q, f)) \in Nat /\ Max(Mounted(q, f)) \in DOMAIN Above[f]
  BY DeepestFacts DEF Annotated, Mounted
<1>2. MountPoint(r, f) \in mounts[q] /\ MountPoint(q, f) \in mounts[r]
  BY AnnotatedFacts DEF Common
<1>3. Max(Mounted(r, f)) \in Mounted(q, f) /\ Max(Mounted(q, f)) \in Mounted(r, f)
  BY <1>1, <1>2 DEF Mounted, MountPoint
<1>4. /\ Max(Mounted(r, f)) <= Max(Mounted(q, f))
      /\ Max(Mounted(q, f)) <= Max(Mounted(r, f))
  BY <1>3, DeepestFacts DEF Annotated
<1>5. QED
  BY <1>1, <1>4 DEF MountPoint

(* Answers are those that the classification told of the mount point.      *)
LEMMA AnswerIsTold ==
  ASSUME DataInv, NEW r \in Rank, NEW f \in File, NEW query,
         pc[r] \notin Classification, Annotated(r, f)
  PROVE  Answer(r, f, query) =
           IF Property(Told(MountPoint(r, f)), query) THEN "yes" ELSE "no"
BY AnnotatedFacts DEF Answer

(* Processes that answer at all give one answer.                           *)
LEMMA AsyncAgree == DataInv => AsyncAgreement
<1> SUFFICES ASSUME DataInv, NEW f \in File, NEW query \in Query
             PROVE  Cardinality(Answers(f, query) \ {"error"}) <= 1
  BY DEF AsyncAgreement
<1> DEFINE S == Answers(f, query) \ {"error"}
<1>1. ASSUME NEW a \in S
      PROVE  \E r \in Rank : /\ pc[r] \notin Classification /\ Annotated(r, f)
                             /\ a = Answer(r, f, query)
  BY <1>1 DEF Answers, Answer
<1>2. ASSUME NEW a \in S, NEW b \in S PROVE a = b
  <2>1. PICK r \in Rank : /\ pc[r] \notin Classification /\ Annotated(r, f)
                          /\ a = Answer(r, f, query)
    BY <1>1
  <2>2. PICK q \in Rank : /\ pc[q] \notin Classification /\ Annotated(q, f)
                          /\ b = Answer(q, f, query)
    BY <1>1
  <2>3. MountPoint(r, f) = MountPoint(q, f)
    BY <2>1, <2>2, SameMountPoint
  <2>4. QED
    BY <2>1, <2>2, <2>3, AnswerIsTold
<1> HIDE DEF S
<1>3. CASE S = {}
  BY <1>3, FS_EmptySet DEF S
<1>4. CASE S # {}
  <2>1. PICK a : S = {a}
    BY <1>2, <1>4
  <2>2. Cardinality(S) = 1
    BY <2>1, FS_Singleton
  <2>3. QED
    BY <2>2 DEF S
<1>5. QED
  BY <1>3, <1>4

(* What all processes answer is so of the servers they reach.              *)
LEMMA AsyncIsRight == EstimateSeparates /\ DataInv => AsyncRight
<1> SUFFICES ASSUME EstimateSeparates, DataInv, NEW f \in File,
                    \A r \in Rank : pc[r] \notin Classification /\ Annotated(r, f)
             PROVE
    LET servers == {Reached(r, f) : r \in Rank}
        crowded == N >= Threshold * Cardinality(servers)
    IN  /\ "yes" \in Answers(f, "isUnique") => \A u, v \in servers : SameServer(u, v)
        /\ "yes" \in Answers(f, "isFullyDistributed") <=> servers \cap Remote = {}
        /\ "yes" \in Answers(f, "isPoorlyDistributed") => crowded
        /\ "yes" \in Answers(f, "isWellDistributed") =>
             ~crowded \/ servers \cap Remote = {}
  BY DEF AsyncRight
<1>1. PICK p : p = MountPoint(0, f)
  OBVIOUS
<1>2. p \in Path /\ \A r \in Rank : MountPoint(r, f) = p
  BY <1>1, RankZero, AnnotatedFacts, SameMountPoint
<1> DEFINE servers == {server[q][p] : q \in Rank}
           crowded == N >= Threshold * Cardinality(servers)
<1>3. {Reached(r, f) : r \in Rank} = servers
  <2>1. \A r \in Rank : Reached(r, f) = server[r][p]
    BY <1>2 DEF Reached, MountPoint
  <2>2. QED
    BY <2>1
<1>4. ASSUME NEW query
      PROVE  "yes" \in Answers(f, query) <=> Property(Told(p), query)
  <2>1. \A r \in Rank : Answer(r, f, query) =
                          IF Property(Told(p), query) THEN "yes" ELSE "no"
    BY <1>2, AnswerIsTold
  <2>2. Answers(f, query) = {Answer(r, f, query) : r \in Rank}
    BY DEF Answers
  <2>3. QED
    BY <2>1, <2>2, RankZero
<1>5. /\ Property(Told(p), "isUnique") = Told(p).unique
      /\ Property(Told(p), "isPoorlyDistributed") = Told(p).poorly
      /\ Property(Told(p), "isWellDistributed") = ~Told(p).poorly
      /\ Property(Told(p), "isFullyDistributed") = Told(p).fully
  BY DEF Property
<1>6. /\ Told(p).unique => \A u, v \in servers : SameServer(u, v)
      /\ Told(p).poorly => crowded
      /\ ~Told(p).poorly => ~crowded \/ servers \cap Remote = {}
  <2>1. /\ Told(p).unique => \A u, v \in servers : SameServer(u, v)
        /\ Told(p).poorly => N >= Threshold * Cardinality(servers)
        /\ ~Told(p).poorly => N < Threshold * Cardinality(servers)
                                \/ servers \cap Remote = {}
    BY <1>2, ToldIsSo DEF DataInv
  <2>2. N \in Int /\ Threshold * Cardinality(servers) \in Int
    <3>1. UrisAt(p) \in [Rank -> Uri] /\ servers = {UrisAt(p)[q] : q \in Rank}
      BY <1>2, UrisType DEF DataInv, UrisAt
    <3>2. Cardinality(servers) \in 0 .. N
      BY <3>1, FewUris
    <3> HIDE DEF servers
    <3>3. QED
      BY <3>2, BaseAssumption
  <2> HIDE DEF servers
  <2>3. QED
    BY <2>1, <2>2
<1>7. Told(p).fully <=> servers \cap Remote = {}
  BY DEF Told, RemoteAt
<1> HIDE DEF servers, crowded
<1>8. QED
  BY <1>3, <1>4, <1>5, <1>6, <1>7, Zenon DEF crowded

(* Processes that get an answer get the same one, whatever their mount     *)
(* tables, and while others still classify                                 *)
(* (AsyncFastGlobalFileStat.C:118-199).                                    *)
THEOREM AnswersAgree == Spec => []AsyncAgreement
BY DataAlways, AsyncAgree, PTL

(* Where every process gets an answer it is true of the servers that the   *)
(* processes reach the path on, with aliases too, as far as the Bloom      *)
(* filter separates few servers from many                                  *)
(* (AsyncFastGlobalFileStat.C:118-199, MountPointsClassifier.C:319-399).   *)
THEOREM AnswersAreRight ==
  ASSUME EstimateSeparates
  PROVE  Spec => []AsyncRight
BY DataAlways, AsyncIsRight, PTL
=============================================================================
