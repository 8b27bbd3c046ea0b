------------------------- MODULE StorageClassifier -------------------------
(***************************************************************************)
(* MountPointsClassifier::runClassification and then one call of           *)
(* GlobalFileSystemsStatus::provideBestFileSystems, over MPICommFabric: N  *)
(* processes agree on the mount points they all have, survey each of them, *)
(* and choose those that meet the criteria and have the space.             *)
(*                                                                         *)
(* As in SyncStatus, pc[r] is the collective that rank r has entered, with *)
(* ready[r] once its result is there.  Collectives that follow each other  *)
(* without a decision in between are one: "survey" and "regroup" are the   *)
(* triage and the grouping of a new object (SyncStatus has their detail),  *)
(* "traits" the minima of speed and scalability, "needs" the global and    *)
(* the group-wise sum.  Group-wise operations begin with an MPI_Comm_split *)
(* of all ranks, so they too wait for everybody.                           *)
(***************************************************************************)
EXTENDS FileStatusBase, Sequences, SequencesExt

CONSTANTS
  Path,             \* mount points, numbered in map order
  Remote,           \* the URIs of remote file servers
  Speed, Scal,      \* Uri -> getSpeed, getScalability of its file system
  Room,             \* values of the free space of a server, Unavailable too
  Need,             \* values of bytesNeeded - bytesToFree, as integers
  Word,             \* 2^w for the nbytes_t of the code
  NprocToSaturate, BaseSpeed, BaseScal,
  Criteria          \* the criteria the processes may ask for

Unavailable == -1   \* statvfs fails

Criterion == [speed : {"none", "low", "high"},
              dist : {"none", "unique", "low", "high", "full"},
              scal : {"none", "single", "multi"}]

ASSUME ClassifierAssumption ==
  /\ Word \in Nat \ {0} /\ Path \subseteq Nat
  /\ NprocToSaturate \in Nat /\ BaseSpeed \in Nat /\ BaseScal \in Nat
  /\ Remote \subseteq Uri
  /\ Speed \in [Uri -> Nat \ {0}] /\ Scal \in [Uri -> Nat \ {0}]
  /\ Room \subseteq (0 .. Word - 1) \cup {Unavailable}
  /\ Need \subseteq Int
  /\ Criteria \subseteq Criterion

VARIABLES
  mounts, server, room,   \* mount table, URI of a path per rank; space per URI
  need, criteria,         \* the request, the space it needs per rank
  pc, ready, got,         \* control, and the result of the collective
  todo,                   \* mount points of the loop that are still to do
  object,                 \* the status object of the current mount point
  rc, groupNeed,          \* locals of meetSpaceRequirement
  props,                  \* mAnnoteMountPoints
  match, best             \* the matches, and the vector returned of them

input == <<mounts, server, room, need, criteria>>
locals == <<todo, object, rc, groupNeed, props, match, best>>
vars == <<input, pc, ready, got, locals>>

Fresh == [info |-> NoGroupInfo, map |-> EmptyMap, card |-> NotFilled, nodeLocal |-> FALSE]
Point == {"list", "survey", "traits", "initialized", "regroup", "statvfs", "needs",
          "space", "fits", "done"}

(* An estimate that is not N is that of the servers of some mount point.   *)
Estimates ==
  {Estimate(PopCount(Filter([q \in Rank |-> server[q][p]]))) : p \in Path}

TypeOK ==
  /\ mounts \in [Rank -> SUBSET Path] /\ server \in [Rank -> [Path -> Uri]]
  /\ room \in [Uri -> Room] /\ need \in [Rank -> Need] /\ criteria \in Criteria
  /\ pc \in [Rank -> Point] /\ ready \in [Rank -> BOOLEAN]
  /\ got \in [Rank -> Seq(Int)] /\ todo \in [Rank -> SUBSET Path]
  /\ rc \in [Rank -> {-1, 0, 1}] /\ groupNeed \in [Rank -> 0 .. Word - 1]
  /\ DOMAIN object = Rank /\ DOMAIN props = Rank
  /\ DOMAIN match = Rank /\ DOMAIN best = Rank
  /\ \A r \in Rank :
       /\ pc[r] \in {"survey", "traits", "regroup", "statvfs", "needs", "space", "fits"} =>
            todo[r] # {}
       /\ object[r].info \in GroupInfo /\ object[r].nodeLocal \in BOOLEAN
       /\ IsGroupingMap(object[r].map)
       /\ object[r].card \in {NotFilled, N} \cup Estimates
       /\ DOMAIN props[r] \subseteq Path
       /\ match[r] \subseteq [path : DOMAIN props[r], score : Nat]

Init ==
  /\ mounts \in [Rank -> SUBSET Path]
  /\ server \in [Rank -> [Path -> Uri]]
  /\ room \in [Uri -> Room]
  /\ \A u, v \in Uri : Aliased(u, v) => /\ room[u] = room[v]
                                        /\ u \in Remote <=> v \in Remote
  /\ need \in [Rank -> Need]
  /\ criteria \in Criteria
  /\ pc = [r \in Rank |-> "list"] /\ ready = [r \in Rank |-> FALSE]
  /\ got = [r \in Rank |-> <<>>]
  /\ todo = [r \in Rank |-> {}]
  /\ object = [r \in Rank |-> Fresh]
  /\ rc = [r \in Rank |-> 0] /\ groupNeed = [r \in Rank |-> 0]
  /\ props = [r \in Rank |-> <<>>]
  /\ match = [r \in Rank |-> {}] /\ best = [r \in Rank |-> <<>>]

-----------------------------------------------------------------------------
(* One mount point of the loops, in the order of the map.                  *)

Current(r) == CHOOSE p \in todo[r] : \A q \in todo[r] : p <= q
Rest(r) == todo[r] \ {Current(r)}
UriOf(r) == server[r][Current(r)]

In(r, point) == pc[r] = point /\ ready[r]

GoTo(r, point) ==
  /\ pc' = [pc EXCEPT ![r] = point]
  /\ ready' = [ready EXCEPT ![r] = FALSE]

(* What triage and grouping leave in the status object (Survey).           *)
Uris == [r \in Rank |-> UriOf(r)]
AnyRemote == \E r \in Rank : UriOf(r) \in Remote

Surveyed(r) ==
  [info |-> GroupInfoOf(NoGroupInfo, Uris, r),
   map |-> GroupingMap(Uris),
   card |-> CardinalityEst(Uris, AnyRemote),
   nodeLocal |-> ~AnyRemote]

GroupWise(r) == IsGroupingDone(object[r].info) /\ ~IsSingleGroup(object[r].info)

Group(r) == IF GroupWise(r)
            THEN {q \in Rank : object[q].info.groupId = object[r].info.groupId}
            ELSE Rank

(* The representative in a split communicator, else process 0.             *)
Root(r) == IF GroupWise(r) THEN object[r].info.repInGroup ELSE 0

Degree(r) == N \div object[r].info.numOfGroups

-----------------------------------------------------------------------------
(* runClassification.                                                      *)

Listed(r) ==
  /\ In(r, "list")
  /\ GoTo(r, IF todo[r] = {} THEN "initialized" ELSE "survey")
  /\ UNCHANGED <<input, got, locals>>

(* Fault: the loop does not get on.                                        *)
Survey_Again(r) ==
  /\ In(r, "survey")
  /\ GoTo(r, "survey")
  /\ UNCHANGED <<input, got, locals>>

Survey(r) ==
  /\ In(r, "survey")
  /\ GoTo(r, "traits")
  /\ UNCHANGED <<input, got, locals>>

(* What the status object tells of the distribution, with the speed and    *)
(* the scalability that the fabric has found.  The descriptor is copied to *)
(* the parameter of setParDesc, to mParDesc and to mAnnoteMountPoints.     *)
Annotation(r, speed, scal) ==
  LET few == object[r].card <= Limit
  IN  [unique |-> IsSingleGroup(object[r].info) /\ (few \/ object[r].card < NprocToSaturate),
       poorly |-> few,
       fully |-> object[r].nodeLocal,
       degree |-> Degree(r),
       map |-> CopyMap(CopyMap(CopyMap(object[r].map))),
       speed |-> speed,
       scal |-> scal]

(* Fault: speed and scalability are the rank's own.                        *)
Properties_Own(r) == Annotation(r, Speed[UriOf(r)], Scal[UriOf(r)])

Properties(r) == Annotation(r, got[r][1], got[r][2])

Classified(r) ==
  /\ In(r, "traits")
  /\ props' = [props EXCEPT ![r] =
       [p \in DOMAIN @ \cup {Current(r)} |-> IF p = Current(r) THEN Properties(r) ELSE @[p]]]
  /\ todo' = [todo EXCEPT ![r] = Rest(r)]
  /\ GoTo(r, IF Rest(r) = {} THEN "initialized" ELSE "survey")
  /\ UNCHANGED <<input, got, object, rc, groupNeed, match, best>>

-----------------------------------------------------------------------------
(* provideBestFileSystems.                                                 *)

Provide(r) ==
  /\ pc[r] = "initialized"
  /\ todo' = [todo EXCEPT ![r] = DOMAIN props[r]]
  /\ GoTo(r, IF DOMAIN props[r] = {} THEN "done" ELSE "regroup")
  /\ UNCHANGED <<input, got, object, rc, groupNeed, props, match, best>>

Statvfs(r) ==
  /\ In(r, "regroup")
  /\ rc' = [rc EXCEPT ![r] =
              IF IsRep(object[r].info) /\ room[UriOf(r)] = Unavailable THEN -1 ELSE 0]
  /\ GoTo(r, "statvfs")
  /\ UNCHANGED <<input, got, todo, object, groupNeed, props, match, best>>

(* Scores are 0 (met) or -1 (unmet), but where nothing is required the     *)
(* speed out of 10 in 10000ths, lowered by processes per server the file   *)
(* system does not scale to.  A "full" distribution is met by none.        *)
Met(p) ==
  /\ CASE criteria.speed = "none" -> TRUE
       [] criteria.speed = "low"  -> p.speed = BaseSpeed
       [] criteria.speed = "high" -> p.speed > BaseSpeed
  /\ CASE criteria.dist = "none"   -> TRUE
       [] criteria.dist = "unique" -> p.unique
       [] criteria.dist = "low"    -> p.poorly
       [] criteria.dist = "high"   -> ~p.poorly
       [] OTHER -> FALSE
  /\ CASE criteria.scal = "none"   -> TRUE
       [] criteria.scal = "single" -> p.scal = BaseScal
       [] criteria.scal = "multi"  -> p.scal > BaseScal

RequireNone == criteria = [speed |-> "none", dist |-> "none", scal |-> "none"]

ScoreStorage(p, distEst) ==
  LET users == IF p.scal > distEst THEN p.scal ELSE distEst
  IN  IF RequireNone THEN (1000 * p.speed * p.scal) \div users
      ELSE IF Met(p) THEN 0 ELSE -1

Descending(S) == SetToSortSeq(S, LAMBDA a, b : \/ a.score > b.score
                                               \/ a.score = b.score /\ a.path < b.path)

Score(r, score) ==
  LET scored == IF score >= 0 THEN match[r] \cup {[path |-> Current(r), score |-> score]}
                              ELSE match[r]
  IN  /\ match' = [match EXCEPT ![r] = scored]
      /\ todo' = [todo EXCEPT ![r] = Rest(r)]
      /\ IF Rest(r) = {}
         THEN GoTo(r, "done") /\ best' = [best EXCEPT ![r] = Descending(scored)]
         ELSE GoTo(r, "regroup") /\ UNCHANGED best
      /\ UNCHANGED <<input, got, object, rc, groupNeed, props>>

StatvfsFailed(r) == In(r, "statvfs") /\ got[r][1] # 0 /\ Score(r, -1)

StatvfsGood(r) ==
  /\ In(r, "statvfs") /\ got[r][1] = 0
  /\ GoTo(r, "needs")
  /\ UNCHANGED <<input, got, locals>>

(* Fault: the space is compared with what the rank itself needs.           *)
Needed_Own(r) ==
  /\ In(r, "needs")
  /\ groupNeed' = [groupNeed EXCEPT ![r] = need[r] % Word]
  /\ GoTo(r, "space")
  /\ UNCHANGED <<input, got, todo, object, rc, props, match, best>>

Needed(r) ==
  /\ In(r, "needs")
  /\ groupNeed' = [groupNeed EXCEPT ![r] = got[r][2]]
  /\ GoTo(r, "space")
  /\ UNCHANGED <<input, got, todo, object, rc, props, match, best>>

(* Fault: space that is just enough does not fit.                          *)
Fits_Strictly(r) ==
  /\ In(r, "space")
  /\ rc' = [rc EXCEPT ![r] = IF got[r][1] > groupNeed[r] THEN 0 ELSE 1]
  /\ GoTo(r, "fits")
  /\ UNCHANGED <<input, got, todo, object, groupNeed, props, match, best>>

Fits(r) ==
  /\ In(r, "space")
  /\ rc' = [rc EXCEPT ![r] = IF got[r][1] >= groupNeed[r] THEN 0 ELSE 1]
  /\ GoTo(r, "fits")
  /\ UNCHANGED <<input, got, todo, object, groupNeed, props, match, best>>

Scored(r) ==
  /\ In(r, "fits")
  /\ Score(r, IF got[r][1] = 0 THEN ScoreStorage(props[r][Current(r)], Degree(r)) ELSE -1)

-----------------------------------------------------------------------------
(* The collectives.                                                        *)

Collective(point, value) ==
  /\ \A r \in Rank : pc[r] = point /\ ~ready[r]
  /\ point # "list" => \A r, q \in Rank : Current(r) = Current(q)
  /\ got' = value
  /\ ready' = [r \in Rank |-> TRUE]

Everywhere(s) == [r \in Rank |-> s]

Smallest(f) == CHOOSE m \in {f[UriOf(r)] : r \in Rank} : \A r \in Rank : m <= f[UriOf(r)]

(* mapReduce counts the processes that list a path (MPIMapReduce).  Fault: *)
(* a mount point counts as global if anybody has it.                       *)
List_Any ==
  /\ \A r \in Rank : pc[r] = "list" /\ ~ready[r]
  /\ todo' = [r \in Rank |-> UNION {mounts[q] : q \in Rank}]
  /\ ready' = [r \in Rank |-> TRUE]
  /\ UNCHANGED <<input, pc, got, object, rc, groupNeed, props, match, best>>

(* The map reduction of the mount tables gives every process its result:   *)
(* the malloc that may fail in it is that of MPIMapReduce, and the return  *)
(* of runClassification for it (MountPointsClassifier.C:317) is left out.  *)
List ==
  /\ Collective("list", got)
  /\ todo' = [r \in Rank |-> {p \in Path : Cardinality(Holders(mounts, p, Rank)) = N}]
  /\ UNCHANGED <<input, pc, object, rc, groupNeed, props, match, best>>

Grouping ==
  /\ Collective("survey", got) \/ Collective("regroup", got)
  /\ object' = [r \in Rank |-> Surveyed(r)]
  /\ UNCHANGED <<input, pc, todo, rc, groupNeed, props, match, best>>

Traits ==
  /\ Collective("traits", Everywhere(<<Smallest(Speed), Smallest(Scal)>>))
  /\ UNCHANGED <<input, pc, locals>>

SumRc ==
  /\ Collective("statvfs", Everywhere(<<SumOver(Rank, rc)>>))
  /\ UNCHANGED <<input, pc, locals>>

(* Unsigned differences, summed in a word.                                 *)
Requirement == [r \in Rank |-> need[r] % Word]

(* Fault: the sums are wider than the word.                                *)
Needs_Wide ==
  /\ Collective("needs",
       [r \in Rank |-> <<SumOver(Rank, Requirement), SumOver(Group(r), Requirement)>>])
  /\ UNCHANGED <<input, pc, locals>>

Needs ==
  /\ Collective("needs",
       [r \in Rank |-> <<SumOver(Rank, Requirement) % Word,
                         SumOver(Group(r), Requirement) % Word>>])
  /\ UNCHANGED <<input, pc, locals>>

(* A root that has not called statvfs broadcasts what its stack holds.     *)
Space ==
  /\ \E garbage \in 0 .. Word - 1 :
       Collective("space",
         [r \in Rank |-> <<IF IsRep(object[Root(r)].info)
                           THEN room[UriOf(Root(r))] ELSE garbage>>])
  /\ UNCHANGED <<input, pc, locals>>

(* Fault: every rank goes by its own comparison.                           *)
Verdict_Own ==
  /\ Collective("fits", [r \in Rank |-> <<rc[r]>>])
  /\ UNCHANGED <<input, pc, locals>>

Verdict ==
  /\ Collective("fits", Everywhere(<<IF \E r \in Rank : rc[r] = 1 THEN 1 ELSE 0>>))
  /\ UNCHANGED <<input, pc, locals>>

World == List \/ Grouping \/ Traits \/ SumRc \/ Needs \/ Space \/ Verdict

Local(r) ==
  \/ Listed(r) \/ Survey(r) \/ Classified(r) \/ Provide(r)
  \/ Statvfs(r) \/ StatvfsFailed(r) \/ StatvfsGood(r) \/ Needed(r) \/ Fits(r) \/ Scored(r)

Returned == \A r \in Rank : pc[r] = "done"

Next == World \/ (\E r \in Rank : Local(r)) \/ (Returned /\ UNCHANGED vars)

Spec == Init /\ [][Next]_vars

(* The processes run, and MPI completes what all of them have entered.     *)
Fairness == WF_vars(World) /\ \A r \in Rank : WF_vars(Local(r))

FairSpec == Spec /\ Fairness

-----------------------------------------------------------------------------
(* What the call should have answered.                                     *)

Matched(r) == {m.path : m \in match[r]}

Users(p, u) == {q \in Rank : SameServer(server[q][p], u)}
Wanted(p, u) == SumOver(Users(p, u), need)

(* All processes return the same mount points with the same scores in the  *)
(* same order: they go on to use the first one together                    *)
(* (StorageClassifier.C:404-433).  They also hold the same properties of   *)
(* them, but for the copied maps, whose counts are indeterminate.          *)
Known(r) == [p \in DOMAIN props[r] |-> [props[r][p] EXCEPT !.map = DOMAIN @]]
Agreement == Returned => \A r, q \in Rank : best[r] = best[q] /\ Known(r) = Known(q)

(* What a process is offered is mounted on all the others too              *)
(* (MountPointsClassifier.C:319-345).                                      *)
MatchedEverywhere == \A r, q \in Rank : Matched(r) \subseteq mounts[q]

(* On an offered mount point every server has the space that the processes *)
(* that use it need together (StorageClassifier.C:211-365): "if space not  *)
(* there, all bets are off", StorageClassifier.C:456.                      *)
SpaceRight ==
  \A r, q \in Rank : \A p \in Matched(r) :
    Wanted(p, server[q][p]) <= room[server[q][p]]

(* Where nothing but space is asked for, no mount point is withheld of     *)
(* which every server has it; unless a group gives back more than it needs,*)
(* which is a huge requirement in nbytes_t (StorageClassifier.C:211-365).  *)
NotWithheld ==
  Returned /\ RequireNone =>
    \A p \in Path :
      (\A q \in Rank : /\ p \in mounts[q]
                       /\ room[server[q][p]] # Unavailable
                       /\ Wanted(p, server[q][p]) \in 0 .. room[server[q][p]])
      => \A r \in Rank : p \in Matched(r)

(* An offered mount point is what the criteria ask for, whatever kind of   *)
(* file system a process itself has there: fast, or scalable, is what is so*)
(* on every process, slow or serial what is so on any                      *)
(* (StorageClassifier.C:524-623, MountPointsClassifier.C:351-396).         *)
MeetsCriteria ==
  \A r \in Rank : \A p \in Matched(r) :
    LET servers == {server[q][p] : q \in Rank}
    IN  /\ criteria.speed = "low" => \E u \in servers : Speed[u] = BaseSpeed
        /\ criteria.speed = "high" => \A u \in servers : Speed[u] > BaseSpeed
        /\ criteria.scal = "single" => \E u \in servers : Scal[u] = BaseScal
        /\ criteria.scal = "multi" => \A u \in servers : Scal[u] > BaseScal
        /\ criteria.dist = "unique" => \A u, v \in servers : SameServer(u, v)
        /\ criteria.dist = "low" => N >= Threshold * Cardinality(servers)
        /\ criteria.dist = "high" => N < Threshold * Cardinality(servers)
                                       \/ servers \cap Remote = {}

(* The classifier object keeps the groups of every mount point: it "has    *)
(* grouping information on all of the mount points",                       *)
(* StorageClassifier.h:240-241.                                            *)
GroupsKept ==
  \A r \in Rank : \A p \in DOMAIN props[r] :
    props[r][p].map = EliminateUriAlias(MapOf([q \in Rank |-> {server[q][p]}], Rank))

(* The call returns on every process.                                      *)
Terminates == <>Returned
=============================================================================
