----------------------- MODULE StorageClassifier_proofs ---------------------
(***************************************************************************)
(* StorageClassifier for every number of processes, every mount table,     *)
(* every request and every free space.                                     *)
(***************************************************************************)
EXTENDS StorageClassifier, FileStatusBase_lemmas

-----------------------------------------------------------------------------
(* Sums over ranks, as the fabric's MPI_SUM adds them up.                  *)

(* Adding a multiple leaves the remainder.                                 *)
LEMMA ModShift ==
  ASSUME NEW w \in Nat \ {0}, NEW x \in Int, NEW k \in Int
  PROVE  (x + k * w) % w = x % w
<1> DEFINE y == x + k * w
           d == y \div w
           e == x \div w
           s == y % w
           t == x % w
<1>1. y = d * w + s /\ s \in 0 .. w-1 /\ d \in Int
  OBVIOUS
<1>2. x = e * w + t /\ t \in 0 .. w-1 /\ e \in Int
  OBVIOUS
<1> HIDE DEF d, e, s, t
<1>3. s - t = (e + k - d) * w
  BY <1>1, <1>2
<1>4. s - t < w /\ s - t > -w
  BY <1>1, <1>2
<1> DEFINE j == e + k - d
<1>5. j \in Int
  BY <1>1, <1>2
<1> HIDE DEF j
<1>6. j = 0
  <2>1. CASE j >= 1
    BY <1>3, <1>4, <1>5, <2>1 DEF j
  <2>2. CASE j <= -1
    BY <1>3, <1>4, <1>5, <2>2 DEF j
  <2>3. QED
    BY <1>5, <2>1, <2>2
<1>7. s = t
  BY <1>1, <1>2, <1>3, <1>6 DEF j
<1>8. QED
  BY <1>7 DEF s, t

(* A sum of numbers none of which is positive is 0 just when they all are. *)
LEMMA SumOfErrors ==
  ASSUME NEW S, IsFiniteSet(S), NEW f, \A x \in S : f[x] \in Int /\ f[x] <= 0
  PROVE  SumOver(S, f) = 0 <=> \A x \in S : f[x] = 0
<1>1. PICK g : PartialSums(g, SUBSET S, f) /\ SumOver(S, f) = g[S]
  BY SumIsPartial
<1>2. \A T \in SUBSET S : g[T] \in Int
  BY <1>1, PartialType
<1> DEFINE Right(T) == g[T] <= 0 /\ (g[T] = 0 <=> \A x \in T : f[x] = 0)
           Bad == {T \in SUBSET S : ~Right(T)}
<1>3. Bad = {}
  <2>1. SUFFICES ASSUME Bad # {} PROVE FALSE
    OBVIOUS
  <2>2. PICK T \in Bad : \A U \in Bad : Cardinality(T) <= Cardinality(U)
    BY <2>1, SmallestSet
  <2> DEFINE c == CHOOSE x \in T : TRUE
             U == T \ {c}
  <2>3. T \in SUBSET S /\ ~Right(T)
    BY <2>2
  <2>4. T # {}
    BY <1>1, <2>3 DEF PartialSums
  <2>5. c \in T /\ U \in SUBSET S /\ U \notin Bad
    BY <2>2, <2>3, <2>4, TakeOne
  <2>6. g[T] = f[c] + g[U]
    BY <1>1, <2>3, <2>4 DEF PartialSums
  <2>7. g[U] <= 0 /\ (g[U] = 0 <=> \A x \in U : f[x] = 0)
    BY <2>5
  <2>8. f[c] \in Int /\ f[c] <= 0 /\ g[U] \in Int
    BY <1>2, <2>3, <2>5
  <2>9. (\A x \in T : f[x] = 0) <=> f[c] = 0 /\ (\A x \in U : f[x] = 0)
    BY <2>5
  <2> HIDE DEF c, U
  <2>10. Right(T)
    BY <2>6, <2>7, <2>8, <2>9
  <2>11. QED
    BY <2>3, <2>10
<1>4. QED
  BY <1>1, <1>3

(* Remainders of a sum.                                                    *)
LEMMA ModSum ==
  ASSUME NEW w \in Nat \ {0}, NEW a \in Int, NEW b \in Int, NEW c \in Int,
         b % w = c % w
  PROVE  ((a % w) + b) % w = (a + c) % w
<1>1. PICK k \in Int : a = k * w + (a % w)
  <2>1. a = (a \div w) * w + (a % w) /\ a \div w \in Int
    OBVIOUS
  <2>2. QED
    BY <2>1
<1>2. PICK l \in Int : b = l * w + (b % w)
  <2>1. b = (b \div w) * w + (b % w) /\ b \div w \in Int
    OBVIOUS
  <2>2. QED
    BY <2>1
<1>3. PICK m \in Int : c = m * w + (c % w)
  <2>1. c = (c \div w) * w + (c % w) /\ c \div w \in Int
    OBVIOUS
  <2>2. QED
    BY <2>1
<1> DEFINE x == (a % w) + b
           y == a + c
<1>4. a % w \in Int /\ b % w \in Int /\ x \in Int /\ y \in Int
  OBVIOUS
<1>5. (k + m - l) * w = k * w + m * w - l * w
  BY <1>1, <1>2, <1>3
<1>6. y = x + (k + m - l) * w
  <2> DEFINE kw == k * w
             lw == l * w
             mw == m * w
  <2>1. kw \in Int /\ lw \in Int /\ mw \in Int
    BY <1>1, <1>2, <1>3
  <2>2. /\ a = kw + (a % w) /\ b = lw + (b % w) /\ c = mw + (c % w)
        /\ (k + m - l) * w = kw + mw - lw
    BY <1>1, <1>2, <1>3, <1>5
  <2> HIDE DEF kw, lw, mw
  <2>3. a + c = ((a % w) + b) + (kw + mw - lw)
    BY <1>4, <2>1, <2>2
  <2>4. QED
    BY <2>2, <2>3
<1>7. k + m - l \in Int
  BY <1>1, <1>2, <1>3
<1> HIDE DEF x, y
<1>8. y % w = x % w
  BY <1>4, <1>6, <1>7, ModShift
<1>9. QED
  BY <1>8 DEF x, y

(* Summing remainders gives, up to a multiple, what summing the numbers    *)
(* gives: nothing is lost by the width of a word but the word's carry.     *)
LEMMA SumOfRemainders ==
  ASSUME NEW S, IsFiniteSet(S), NEW f, NEW h, NEW w \in Nat \ {0},
         \A x \in S : f[x] \in Int /\ h[x] = f[x] % w
  PROVE  SumOver(S, h) % w = SumOver(S, f) % w
<1>1. PICK g : PartialSums(g, SUBSET S, f) /\ SumOver(S, f) = g[S]
  BY SumIsPartial
<1>2. PICK k : PartialSums(k, SUBSET S, h) /\ SumOver(S, h) = k[S]
  BY SumIsPartial
<1>3. \A x \in S : h[x] \in Int
  OBVIOUS
<1>4. \A T \in SUBSET S : g[T] \in Int /\ k[T] \in Int
  BY <1>1, <1>2, <1>3, PartialType
<1> DEFINE Bad == {T \in SUBSET S : k[T] % w # g[T] % w}
<1>5. Bad = {}
  <2>1. SUFFICES ASSUME Bad # {} PROVE FALSE
    OBVIOUS
  <2>2. PICK T \in Bad : \A U \in Bad : Cardinality(T) <= Cardinality(U)
    BY <2>1, SmallestSet
  <2> DEFINE c == CHOOSE x \in T : TRUE
             U == T \ {c}
  <2>3. T \in SUBSET S /\ k[T] % w # g[T] % w
    BY <2>2
  <2>4. T # {}
    BY <1>1, <1>2, <2>3 DEF PartialSums
  <2>5. c \in T /\ U \in SUBSET S /\ U \notin Bad
    BY <2>2, <2>3, <2>4, TakeOne
  <2>6. g[T] = f[c] + g[U] /\ k[T] = h[c] + k[U]
    BY <1>1, <1>2, <2>3, <2>4 DEF PartialSums
  <2>7. k[U] % w = g[U] % w
    BY <2>5
  <2>8. /\ f[c] \in Int /\ h[c] = f[c] % w
        /\ g[U] \in Int /\ k[U] \in Int
    BY <1>4, <2>3, <2>5
  <2> HIDE DEF c, U, Bad
  <2>9. ((f[c] % w) + k[U]) % w = (f[c] + g[U]) % w
    BY <2>7, <2>8, ModSum
  <2>10. QED
    BY <2>3, <2>6, <2>8, <2>9
<1>6. QED
  BY <1>1, <1>2, <1>5

-----------------------------------------------------------------------------
(* The mount points every process has, and of each of them: the servers of *)
(* the processes, what triage and grouping tell process r, and what the    *)
(* classification tells everybody.                                         *)
Common == {p \in Path : \A q \in Rank : p \in mounts[q]}

UrisAt(p) == [q \in Rank |-> server[q][p]]
RemoteAt(p) == \E q \in Rank : server[q][p] \in Remote
EstimateAt(p) == CardinalityEst(UrisAt(p), RemoteAt(p))
GroupsAt(p) == Cardinality(DOMAIN GroupingMap(UrisAt(p)))

StatusAt(p, r) ==
  [info |-> GroupInfoAt(UrisAt(p), r), map |-> GroupingMap(UrisAt(p)),
   card |-> EstimateAt(p), nodeLocal |-> ~RemoteAt(p)]

LeastAt(p, f) == CHOOSE m \in {f[server[r][p]] : r \in Rank} :
                   \A r \in Rank : m <= f[server[r][p]]

Told(p) ==
  [unique |-> GroupsAt(p) = 1 /\ (EstimateAt(p) <= Limit \/ EstimateAt(p) < NprocToSaturate),
   poorly |-> EstimateAt(p) <= Limit,
   fully |-> ~RemoteAt(p),
   degree |-> N \div GroupsAt(p),
   map |-> CopyMap(CopyMap(CopyMap(GroupingMap(UrisAt(p))))),
   speed |-> LeastAt(p, Speed),
   scal |-> LeastAt(p, Scal)]

ScoreAt(p) == ScoreStorage(Told(p), N \div GroupsAt(p))

-----------------------------------------------------------------------------
Surveying == {"survey", "traits"}
Judging == {"regroup", "statvfs", "needs", "space", "fits"}

(* What a process knows follows from the mount points it has behind it.    *)
ListAt(r) ==
  /\ pc[r] = "list" => DOMAIN props[r] = {} /\ (ready[r] => todo[r] = Common)
  /\ pc[r] \in Surveying => todo[r] \subseteq Common /\ DOMAIN props[r] = Common \ todo[r]
  /\ pc[r] \notin {"list"} \cup Surveying => DOMAIN props[r] = Common
  /\ pc[r] \in {"initialized", "done"} => todo[r] = {} /\ ~ready[r]
  /\ pc[r] \in Judging => todo[r] \subseteq Common

StatusOK(r) ==
  /\ (In(r, "survey") \/ pc[r] = "traits" \/ In(r, "regroup")
        \/ pc[r] \in Judging \ {"regroup"}) =>
       object[r] = StatusAt(Current(r), r)
  /\ In(r, "traits") => got[r] = <<LeastAt(Current(r), Speed), LeastAt(Current(r), Scal)>>

ToldAt(r) == \A p \in DOMAIN props[r] : props[r][p] = Told(p)

MatchAt(r) ==
  /\ pc[r] \notin Judging \cup {"done"} => match[r] = {}
  /\ Matched(r) \subseteq Common \ todo[r]
  /\ \A m \in match[r] : m.score = ScoreAt(m.path)
  /\ pc[r] = "done" => best[r] = IF Common = {} THEN <<>> ELSE Descending(match[r])
  /\ pc[r] # "done" => best[r] = <<>>

DataOK == \A r \in Rank : ListAt(r) /\ StatusOK(r) /\ ToldAt(r) /\ MatchAt(r)

-----------------------------------------------------------------------------
(* Where the process waits next, with what to do and what has matched, when *)
(* it does what it can do alone.                                            *)
Wait(point, left, matches) == [point |-> point, left |-> left, matches |-> matches]

WaitToJudge(left, matches) ==
  Wait(IF left = {} THEN "done" ELSE "regroup", left, matches)

Scoring(r, score) ==
  IF score >= 0 THEN match[r] \cup {[path |-> Current(r), score |-> score]} ELSE match[r]

Ahead(r) ==
  CASE In(r, "list") -> IF todo[r] = {} THEN WaitToJudge({}, match[r])
                        ELSE Wait("survey", todo[r], match[r])
    [] In(r, "survey") -> Wait("traits", todo[r], match[r])
    [] In(r, "traits") -> IF Rest(r) = {} THEN WaitToJudge(Common, match[r])
                          ELSE Wait("survey", Rest(r), match[r])
    [] pc[r] = "initialized" -> WaitToJudge(Common, match[r])
    [] In(r, "regroup") -> Wait("statvfs", todo[r], match[r])
    [] In(r, "statvfs") -> IF got[r][1] = 0 THEN Wait("needs", todo[r], match[r])
                           ELSE WaitToJudge(Rest(r), match[r])
    [] In(r, "needs") -> Wait("space", todo[r], match[r])
    [] In(r, "space") -> Wait("fits", todo[r], match[r])
    [] In(r, "fits") ->
         WaitToJudge(Rest(r), Scoring(r, IF got[r][1] = 0 THEN ScoreAt(Current(r)) ELSE -1))
    [] OTHER -> Wait(pc[r], todo[r], match[r])

InStep == \A r, q \in Rank : Ahead(r) = Ahead(q)

-----------------------------------------------------------------------------
NeedAt(p, r) == SumOver(Sharers(UrisAt(p), r), Requirement) % Word

Reachable(p) == \A q \in Rank : room[server[q][p]] # Unavailable
HasRoom(p) == \A q \in Rank : NeedAt(p, q) <= room[server[q][p]]

SpaceAt(r) ==
  LET p == Current(r)
      space == room[server[r][p]]
  IN  /\ pc[r] = "statvfs" =>
           rc[r] = IF IsLowest(UrisAt(p), r) /\ space = Unavailable THEN -1 ELSE 0
      /\ In(r, "statvfs") => (got[r][1] = 0 <=> Reachable(p))
      /\ pc[r] \in {"needs", "space", "fits"} => Reachable(p)
      /\ In(r, "needs") => got[r][2] = NeedAt(p, r)
      /\ pc[r] = "space" => groupNeed[r] = NeedAt(p, r)
      /\ In(r, "space") => got[r][1] = space
      /\ pc[r] = "fits" => rc[r] = IF space >= NeedAt(p, r) THEN 0 ELSE 1
      /\ In(r, "fits") => (got[r][1] = 0 <=> HasRoom(p))
      /\ pc[r] \in Judging \cup {"done"} =>
           Matched(r) = {o \in Common \ todo[r] :
                           Reachable(o) /\ HasRoom(o) /\ ScoreAt(o) >= 0}

SpaceOK == \A r \in Rank : SpaceAt(r)

-----------------------------------------------------------------------------
(* What the operators of the invariant return.                             *)

(* The types of the request and of the nodes, which never change.          *)
InputsOK ==
  /\ mounts \in [Rank -> SUBSET Path] /\ server \in [Rank -> [Path -> Uri]]
  /\ room \in [Uri -> Room] /\ need \in [Rank -> Need] /\ criteria \in Criteria

(* The servers of a mount point are one per rank.                          *)
LEMMA UrisType ==
  ASSUME InputsOK, NEW p \in Path
  PROVE  UrisAt(p) \in [Rank -> Uri]
BY DEF InputsOK, UrisAt

(* Rank 0 takes part.                                                      *)
LEMMA RankZero == /\ 0 \in Rank /\ Rank \subseteq Nat /\ IsFiniteSet(Rank)
                  /\ N \in Nat \ {0} /\ Cardinality(Rank) = N
BY BaseAssumption, FS_Interval DEF Rank

(* The mount point whose turn it is is one that is left.                   *)
LEMMA CurrentIsLeft ==
  ASSUME NEW r, todo[r] \subseteq Path, todo[r] # {}
  PROVE  Current(r) \in todo[r]
<1>1. todo[r] \in SUBSET Nat
  BY ClassifierAssumption
<1>2. \E p \in todo[r] : \A q \in todo[r] : p <= q
  BY <1>1, LowestNumber
<1>3. QED
  BY <1>2 DEF Current

(* There is at least one group.                                            *)
LEMMA GroupsType ==
  ASSUME InputsOK, NEW p \in Path
  PROVE  GroupsAt(p) \in Nat \ {0}
<1> DEFINE uris == UrisAt(p)
           m == UriMap(uris)
<1>1. uris \in [Rank -> Uri]
  BY UrisType
<1>2. DOMAIN m = {uris[q] : q \in Rank} /\ DOMAIN m \subseteq Uri
  BY <1>1, UriMapKeys
<1>3. uris[0] \in DOMAIN m
  BY <1>2, RankZero
<1>4. GroupingMap(uris) = EliminateUriAlias(m)
  BY DEF GroupingMap, UriMap
<1>5. DOMAIN GroupingMap(uris) # {}
  BY <1>3, <1>4 DEF EliminateUriAlias
<1>6. IsGroupingMap(GroupingMap(uris))
  BY <1>1, UriMapType
<1>7. IsFiniteSet(DOMAIN GroupingMap(uris)) /\ Cardinality(DOMAIN GroupingMap(uris)) \in Nat
  BY <1>6, MapKeys
<1>8. QED
  BY <1>5, <1>7, FS_EmptySet DEF GroupsAt

(* Every process is told the number of groups.                             *)
LEMMA GroupsTold ==
  ASSUME NEW p, NEW r
  PROVE  GroupInfoAt(UrisAt(p), r).numOfGroups = GroupsAt(p)
BY DEF GroupInfoAt, GroupInfoOf, SetGroupInfo, NoGroupInfo, GroupsAt

(* The least of the values at the servers is one of them.                  *)
LEMMA LeastFacts ==
  ASSUME InputsOK, NEW p \in Path, NEW f \in [Uri -> Nat \ {0}]
  PROVE  /\ LeastAt(p, f) \in Nat \ {0}
         /\ \A r \in Rank : LeastAt(p, f) <= f[server[r][p]]
         /\ \E r \in Rank : LeastAt(p, f) = f[server[r][p]]
<1> DEFINE V == {f[server[r][p]] : r \in Rank}
<1>1. \A r \in Rank : server[r][p] \in Uri
  BY DEF InputsOK
<1>2. V \in SUBSET Nat /\ V \subseteq Nat \ {0}
  BY <1>1
<1>3. f[server[0][p]] \in V
  BY RankZero
<1>4. \E m \in V : \A n \in V : m <= n
  BY <1>2, <1>3, LowestNumber
<1>5. \E m \in V : \A r \in Rank : m <= f[server[r][p]]
  BY <1>4
<1>6. LeastAt(p, f) \in V /\ \A r \in Rank : LeastAt(p, f) <= f[server[r][p]]
  BY <1>5 DEF LeastAt
<1>7. QED
  BY <1>2, <1>6

(* A score is a number, and is not negative where nothing is required.     *)
LEMMA ScoreType ==
  ASSUME InputsOK, NEW p \in Path
  PROVE  /\ ScoreAt(p) \in Int
         /\ RequireNone => ScoreAt(p) >= 0
         /\ ~RequireNone /\ ScoreAt(p) >= 0 => Met(Told(p))
<1> DEFINE speed == Told(p).speed
           scal == Told(p).scal
           deg == N \div GroupsAt(p)
           users == IF scal > deg THEN scal ELSE deg
<1>1. speed \in Nat \ {0} /\ scal \in Nat \ {0}
  BY LeastFacts, ClassifierAssumption DEF Told
<1>2. deg \in Nat
  BY GroupsType, RankZero
<1> HIDE DEF speed, scal, deg
<1>3. users \in Nat \ {0}
  BY <1>1, <1>2
<1>4. 1000 * speed * scal \in Nat
  BY <1>1
<1> HIDE DEF users
<1>5. (1000 * speed * scal) \div users \in Nat
  <2> DEFINE x == 1000 * speed * scal
  <2>1. x \in Nat
    BY <1>4
  <2> HIDE DEF x
  <2>2. x \div users \in Nat
    BY <1>3, <2>1
  <2>3. QED
    BY <2>2 DEF x
<1>6. ScoreAt(p) = IF RequireNone THEN (1000 * speed * scal) \div users
                   ELSE IF Met(Told(p)) THEN 0 ELSE -1
  BY DEF ScoreAt, ScoreStorage, speed, scal, deg, users
<1>7. QED
  BY <1>5, <1>6

(* What a process has surveyed is well formed.                             *)
LEMMA StatusType ==
  ASSUME InputsOK, NEW p \in Path, NEW r \in Rank
  PROVE  /\ StatusAt(p, r).info \in GroupInfo
         /\ StatusAt(p, r).nodeLocal \in BOOLEAN
         /\ IsGroupingMap(StatusAt(p, r).map)
         /\ StatusAt(p, r).card \in {NotFilled, N} \cup Estimates
<1>1. UrisAt(p) \in [Rank -> Uri]
  BY UrisType
<1>2. EstimateAt(p) \in {NotFilled, N} \cup Estimates
  <2>1. Estimate(PopCount(Filter(UrisAt(p)))) \in Estimates
    BY DEF Estimates, UrisAt
  <2>2. QED
    BY <2>1 DEF EstimateAt, CardinalityEst
<1>3. QED
  BY <1>1, <1>2, GroupInfoType, UriMapType DEF StatusAt, RemoteAt


(* A group is known by its representative.                                 *)
LEMMA Represented ==
  ASSUME NEW uris, NEW r
  PROVE  GroupInfoAt(uris, r).repInGroup = GroupInfoAt(uris, r).groupId
BY DEF GroupInfoAt, GroupInfoOf, SetGroupInfo, NoGroupInfo

(* The root of a group is a process, where the groups are of one mount     *)
(* point.                                                                  *)
LEMMA RootIsRank ==
  ASSUME NEW uris \in [Rank -> Uri], NEW r \in Rank,
         object[r].info = GroupInfoAt(uris, r)
  PROVE  Root(r) \in Rank
<1>1. CASE AliasDetected(UriMap(uris))
  BY <1>1, EliminatedFacts, RankZero DEF Root, GroupWise
<1>2. CASE ~AliasDetected(UriMap(uris))
  BY <1>2, GroupInfoFacts, Represented, RankZero DEF Root, Sharers
<1>3. QED
  BY <1>1, <1>2
-----------------------------------------------------------------------------
(* A rank's own state, and what a step of another rank leaves of it.       *)

(* The types of the state a rank has of its own.                           *)
OwnType(r) ==
  /\ pc[r] \in Point /\ ready[r] \in BOOLEAN
  /\ got[r] \in Seq(Int) /\ todo[r] \subseteq Path
  /\ rc[r] \in {-1, 0, 1} /\ groupNeed[r] \in 0 .. Word - 1
  /\ In(r, "needs") => got[r][2] \in 0 .. Word - 1
  /\ pc[r] \in Surveying \cup Judging => todo[r] # {}
  /\ object[r].info \in GroupInfo /\ object[r].nodeLocal \in BOOLEAN
  /\ IsGroupingMap(object[r].map)
  /\ object[r].card \in {NotFilled, N} \cup Estimates
  /\ DOMAIN props[r] \subseteq Path
  /\ match[r] \subseteq [path : DOMAIN props[r], score : Nat]

RankOK(r) == OwnType(r) /\ ListAt(r) /\ StatusOK(r) /\ ToldAt(r) /\ MatchAt(r)

(* Every variable has a value for every rank.                              *)
PerRank ==
  /\ pc = [r \in Rank |-> pc[r]] /\ ready = [r \in Rank |-> ready[r]]
  /\ got = [r \in Rank |-> got[r]] /\ todo = [r \in Rank |-> todo[r]]
  /\ rc = [r \in Rank |-> rc[r]] /\ groupNeed = [r \in Rank |-> groupNeed[r]]
  /\ DOMAIN object = Rank /\ DOMAIN props = Rank
  /\ DOMAIN match = Rank /\ DOMAIN best = Rank

DataInv == InputsOK /\ PerRank /\ \A r \in Rank : RankOK(r)

(* The invariant includes the types.                                       *)
LEMMA DataTypes == DataInv => TypeOK
<1> SUFFICES ASSUME DataInv PROVE TypeOK
  OBVIOUS
<1>1. InputsOK /\ PerRank /\ \A r \in Rank : OwnType(r)
  BY DEF DataInv, RankOK
<1>2. /\ pc \in [Rank -> Point] /\ ready \in [Rank -> BOOLEAN]
      /\ got \in [Rank -> Seq(Int)] /\ todo \in [Rank -> SUBSET Path]
      /\ rc \in [Rank -> {-1, 0, 1}] /\ groupNeed \in [Rank -> 0 .. Word - 1]
  BY <1>1 DEF PerRank, OwnType
<1>3. QED
  BY <1>1, <1>2 DEF TypeOK, InputsOK, PerRank, OwnType, Surveying, Judging

(* What is the same of rank q after a step.                                *)
Same(q) ==
  /\ pc'[q] = pc[q] /\ ready'[q] = ready[q] /\ got'[q] = got[q]
  /\ todo'[q] = todo[q] /\ object'[q] = object[q] /\ rc'[q] = rc[q]
  /\ groupNeed'[q] = groupNeed[q] /\ props'[q] = props[q]
  /\ match'[q] = match[q] /\ best'[q] = best[q]

(* A rank's own step changes its own state only.                           *)
LEMMA OwnStep ==
  ASSUME PerRank, NEW r \in Rank, Local(r)
  PROVE  PerRank' /\ UNCHANGED input /\ \A q \in Rank \ {r} : Same(q)
<1> USE DEF PerRank, GoTo, Same, locals
<1>1. CASE Listed(r)
  BY <1>1 DEF Listed
<1>2. CASE Survey(r)
  BY <1>2 DEF Survey
<1>3. CASE Classified(r)
  BY <1>3 DEF Classified
<1>4. CASE Provide(r)
  BY <1>4 DEF Provide
<1>5. CASE Statvfs(r)
  BY <1>5 DEF Statvfs
<1>6. ASSUME NEW s, Score(r, s) PROVE PerRank' /\ UNCHANGED input /\ \A q \in Rank \ {r} : Same(q)
  BY <1>6 DEF Score
<1>7. CASE StatvfsFailed(r) \/ Scored(r)
  BY <1>6, <1>7 DEF StatvfsFailed, Scored
<1>8. CASE StatvfsGood(r)
  BY <1>8 DEF StatvfsGood
<1>9. CASE Needed(r)
  BY <1>9 DEF Needed
<1>10. CASE Fits(r)
  BY <1>10 DEF Fits
<1>11. QED
  BY <1>1, <1>2, <1>3, <1>4, <1>5, <1>7, <1>8, <1>9, <1>10 DEF Local

(* A collective gives every rank its result.                               *)
LEMMA WorldStep ==
  ASSUME PerRank, World
  PROVE  /\ PerRank' /\ UNCHANGED <<input, pc, rc, groupNeed, props, match, best>>
         /\ \A r \in Rank : ~ready[r] /\ ready'[r]
         /\ UNCHANGED object \/ \E v : object' = [r \in Rank |-> v[r]]
<1> USE DEF PerRank, Collective, locals, Everywhere
<1>1. CASE List
  BY <1>1 DEF List
<1>2. CASE Grouping
  <2> DEFINE v == [r \in Rank |-> Surveyed(r)]
  <2>1. object' = [r \in Rank |-> v[r]]
    BY <1>2 DEF Grouping
  <2> HIDE DEF v
  <2>2. QED
    BY <1>2, <2>1 DEF Grouping
<1>3. CASE Traits
  BY <1>3 DEF Traits
<1>4. CASE SumRc
  BY <1>4 DEF SumRc
<1>5. CASE Needs
  BY <1>5 DEF Needs
<1>6. CASE Space
  BY <1>6 DEF Space
<1>7. CASE Verdict
  BY <1>7 DEF Verdict
<1>8. QED
  BY <1>1, <1>2, <1>3, <1>4, <1>5, <1>6, <1>7 DEF World

(* What is told of a mount point does not change while nodes do not.       *)
LEMMA InputFrame ==
  ASSUME UNCHANGED input
  PROVE  /\ Common' = Common /\ InputsOK' = InputsOK
         /\ Estimates' = Estimates /\ RequireNone' = RequireNone
         /\ \A p : /\ UrisAt(p)' = UrisAt(p) /\ RemoteAt(p)' = RemoteAt(p)
                   /\ Told(p)' = Told(p) /\ ScoreAt(p)' = ScoreAt(p)
                   /\ Reachable(p)' = Reachable(p) /\ HasRoom(p)' = HasRoom(p)
         /\ \A p, f : LeastAt(p, f)' = LeastAt(p, f)
         /\ \A p, r : /\ StatusAt(p, r)' = StatusAt(p, r)
                      /\ NeedAt(p, r)' = NeedAt(p, r)
<1>1. mounts' = mounts /\ server' = server /\ room' = room /\ need' = need
      /\ criteria' = criteria
  BY DEF input
<1>2. /\ Common' = Common /\ InputsOK' = InputsOK
      /\ Estimates' = Estimates /\ RequireNone' = RequireNone
  BY <1>1 DEF Common, InputsOK, Estimates, RequireNone
<1>3. ASSUME NEW p PROVE UrisAt(p)' = UrisAt(p) /\ RemoteAt(p)' = RemoteAt(p)
  BY <1>1 DEF UrisAt, RemoteAt
<1>4. ASSUME NEW p, NEW f PROVE LeastAt(p, f)' = LeastAt(p, f)
  BY <1>1 DEF LeastAt
<1>5. ASSUME NEW p
      PROVE  EstimateAt(p)' = EstimateAt(p) /\ GroupsAt(p)' = GroupsAt(p)
  BY <1>3 DEF EstimateAt, GroupsAt
<1>6. ASSUME NEW p PROVE Told(p)' = Told(p)
  BY <1>3, <1>4, <1>5 DEF Told
<1>7. ASSUME NEW p PROVE ScoreAt(p)' = ScoreAt(p)
  <2>1. Met(Told(p))' <=> Met(Told(p))
    BY <1>1, <1>6 DEF Met
  <2>2. QED
    BY <1>2, <1>5, <1>6, <2>1 DEF ScoreAt, ScoreStorage
<1>8. ASSUME NEW p, NEW r
      PROVE  StatusAt(p, r)' = StatusAt(p, r) /\ NeedAt(p, r)' = NeedAt(p, r)
  BY <1>1, <1>3, <1>5 DEF StatusAt, NeedAt, Requirement
<1>9. ASSUME NEW p PROVE Reachable(p)' = Reachable(p) /\ HasRoom(p)' = HasRoom(p)
  BY <1>1, <1>8 DEF Reachable, HasRoom
<1>10. QED
  BY <1>2, <1>3, <1>4, <1>6, <1>7, <1>8, <1>9

(* A rank that nothing happens to stays as it should be.                   *)
LEMMA RankFrame ==
  ASSUME UNCHANGED input, NEW q, RankOK(q), Same(q)
  PROVE  RankOK(q)'
<1>1. Current(q)' = Current(q) /\ Matched(q)' = Matched(q)
  BY DEF Same, Current, Matched
<1>2. OwnType(q)'
  BY InputFrame DEF RankOK, OwnType, Same, In
<1>3. ListAt(q)'
  BY InputFrame DEF RankOK, ListAt, Same
<1>4. StatusOK(q)'
  BY <1>1, InputFrame DEF RankOK, StatusOK, Same, In
<1>5. ToldAt(q)'
  BY InputFrame DEF RankOK, ToldAt, Same
<1>6. MatchAt(q)'
  BY <1>1, InputFrame DEF RankOK, MatchAt, Same
<1>7. QED
  BY <1>2, <1>3, <1>4, <1>5, <1>6 DEF RankOK


-----------------------------------------------------------------------------
(* What a rank does alone keeps it as it should be.                        *)

(* The rank whose control goes on does not have the next result yet.       *)
LEMMA GoesOn ==
  ASSUME PerRank, NEW r \in Rank, NEW point, GoTo(r, point)
  PROVE  pc'[r] = point /\ ready'[r] = FALSE
BY DEF PerRank, GoTo

(* What is noted of a mount point is what the classification tells of it.  *)
LEMMA NotedIsTold ==
  ASSUME NEW r \in Rank, object[r] = StatusAt(Current(r), r),
         got[r] = <<LeastAt(Current(r), Speed), LeastAt(Current(r), Scal)>>
  PROVE  Properties(r) = Told(Current(r))
<1> DEFINE p == Current(r)
<1>1. object[r].info.numOfGroups = GroupsAt(p)
  BY GroupsTold DEF StatusAt
<1>2. /\ object[r].card = EstimateAt(p) /\ object[r].nodeLocal = ~RemoteAt(p)
      /\ object[r].map = GroupingMap(UrisAt(p))
  BY DEF StatusAt
<1>3. got[r][1] = LeastAt(p, Speed) /\ got[r][2] = LeastAt(p, Scal)
  OBVIOUS
<1> HIDE DEF p
<1>4. Properties(r) = Told(p)
  BY <1>1, <1>2, <1>3 DEF Properties, Annotation, Told, Degree, IsSingleGroup
<1>5. QED
  BY <1>4 DEF p

(* The mount point under judgement is one that every process has, and its  *)
(* score is the same everywhere.                                           *)
LEMMA JudgedFacts ==
  ASSUME NEW r \in Rank, RankOK(r), pc[r] \in Judging
  PROVE  /\ Current(r) \in todo[r] /\ Current(r) \in Common /\ Current(r) \in Path
         /\ DOMAIN props[r] = Common /\ todo[r] \subseteq Common
         /\ pc[r] # "regroup" =>
              ScoreStorage(props[r][Current(r)], Degree(r)) = ScoreAt(Current(r))
<1> DEFINE p == Current(r)
<1>1. todo[r] \subseteq Path /\ todo[r] # {} /\ todo[r] \subseteq Common
  BY DEF RankOK, OwnType, ListAt
<1>2. p \in todo[r]
  BY <1>1, CurrentIsLeft
<1>3. DOMAIN props[r] = Common
  BY DEF RankOK, ListAt, Judging, Surveying
<1>4. ASSUME pc[r] # "regroup"
      PROVE  ScoreStorage(props[r][p], Degree(r)) = ScoreAt(p)
  <2>1. object[r] = StatusAt(p, r)
    BY <1>4 DEF RankOK, StatusOK, Judging
  <2>2. Degree(r) = N \div GroupsAt(p)
    BY <2>1, GroupsTold DEF Degree, StatusAt
  <2>3. props[r][p] = Told(p)
    BY <1>1, <1>2, <1>3 DEF RankOK, ToldAt
  <2>4. QED
    BY <2>2, <2>3 DEF ScoreAt
<1>5. QED
  BY <1>1, <1>2, <1>3, <1>4

(* Scoring the mount point whose turn it is.                               *)
LEMMA ScoreKeeps ==
  ASSUME InputsOK, PerRank, NEW r \in Rank, RankOK(r),
         pc[r] \in Judging, NEW s \in {-1, ScoreAt(Current(r))}, Score(r, s)
  PROVE  RankOK(r)'
<1> DEFINE p == Current(r)
           scored == Scoring(r, s)
<1>1. /\ UNCHANGED input /\ got' = got /\ object' = object /\ rc' = rc
      /\ groupNeed' = groupNeed /\ props' = props
  BY DEF Score
<1>2. /\ match'[r] = scored /\ todo'[r] = Rest(r) /\ ready'[r] = FALSE
      /\ pc'[r] = IF Rest(r) = {} THEN "done" ELSE "regroup"
      /\ best'[r] = IF Rest(r) = {} THEN Descending(scored) ELSE best[r]
  BY DEF Score, Scoring, PerRank, GoTo
<1>3. /\ p \in todo[r] /\ p \in Common /\ p \in Path
      /\ DOMAIN props[r] = Common /\ todo[r] \subseteq Common
  BY JudgedFacts
<1>4. ScoreAt(p) \in Int
  BY <1>3, ScoreType
<1>5. /\ Rest(r) \subseteq todo[r] /\ Rest(r) \subseteq Path /\ Rest(r) \subseteq Common
      /\ p \notin Rest(r) /\ Common # {}
  BY <1>3 DEF Rest, Common
<1>6. /\ match[r] \subseteq [path : DOMAIN props[r], score : Nat]
      /\ Matched(r) \subseteq Common \ todo[r]
      /\ \A m \in match[r] : m.score = ScoreAt(m.path)
      /\ best[r] = <<>>
  BY DEF RankOK, OwnType, MatchAt, Judging
<1>7. s >= 0 => s = ScoreAt(p) /\ s \in Nat
  BY <1>4
<1>8. /\ scored \subseteq [path : DOMAIN props[r], score : Nat]
      /\ \A m \in scored : m.score = ScoreAt(m.path)
      /\ {m.path : m \in scored} \subseteq Common \ Rest(r)
  <2>1. CASE s >= 0
    <3> DEFINE m0 == [path |-> p, score |-> s]
    <3>1. scored = match[r] \cup {m0}
      BY <2>1 DEF Scoring
    <3>2. m0 \in [path : DOMAIN props[r], score : Nat] /\ m0.score = ScoreAt(m0.path)
          /\ m0.path \in Common \ Rest(r)
      BY <1>3, <1>5, <1>7, <2>1
    <3>3. \A m \in match[r] : m.path \in Common \ Rest(r)
      BY <1>5, <1>6 DEF Matched
    <3> HIDE DEF scored, m0
    <3>4. QED
      BY <1>6, <3>1, <3>2, <3>3
  <2>2. CASE ~(s >= 0)
    BY <1>5, <1>6, <2>2 DEF Scoring, Matched
  <2>3. QED
    BY <2>1, <2>2
<1> HIDE DEF p, scored
<1>9. OwnType(r)'
  BY <1>1, <1>2, <1>5, <1>8, InputFrame DEF RankOK, OwnType, In, Point, Surveying, Judging
<1>10. ListAt(r)'
  BY <1>1, <1>2, <1>3, <1>5, InputFrame DEF ListAt, Surveying, Judging
<1>11. StatusOK(r)'
  BY <1>2 DEF StatusOK, In, Judging
<1>12. ToldAt(r)'
  BY <1>1, InputFrame DEF RankOK, ToldAt
<1>13. MatchAt(r)'
  <2>1. Matched(r)' = {m.path : m \in scored}
    BY <1>2 DEF Matched
  <2>2. QED
    BY <1>1, <1>2, <1>5, <1>6, <1>8, <2>1, InputFrame DEF MatchAt, Judging
<1>14. QED
  BY <1>9, <1>10, <1>11, <1>12, <1>13 DEF RankOK

(* Every other step a rank takes alone.                                    *)
LEMMA LocalKeeps ==
  ASSUME InputsOK, PerRank, NEW r \in Rank, RankOK(r), Local(r)
  PROVE  RankOK(r)'
<1>0. PerRank' /\ UNCHANGED input
  BY OwnStep
<1>1. /\ OwnType(r) /\ ListAt(r) /\ StatusOK(r) /\ ToldAt(r) /\ MatchAt(r)
  BY DEF RankOK
<1>2. CASE Listed(r)
  <2>1. /\ pc'[r] = IF todo[r] = {} THEN "initialized" ELSE "survey"
        /\ ready'[r] = FALSE /\ pc[r] = "list" /\ ready[r]
        /\ UNCHANGED <<got, locals>>
    BY <1>2, GoesOn DEF Listed, In
  <2>2. OwnType(r)'
    BY <1>0, <1>1, <2>1, InputFrame DEF OwnType, In, Point, Surveying, Judging, locals
  <2>3. ListAt(r)'
    BY <1>0, <1>1, <2>1, InputFrame DEF ListAt, Surveying, Judging, locals
  <2>4. StatusOK(r)'
    BY <2>1 DEF StatusOK, In, Judging
  <2>5. ToldAt(r)'
    BY <1>0, <1>1, <2>1, InputFrame DEF ToldAt, locals
  <2>6. MatchAt(r)'
    BY <1>0, <1>1, <2>1, InputFrame DEF MatchAt, Matched, Judging, locals
  <2>7. QED
    BY <2>2, <2>3, <2>4, <2>5, <2>6 DEF RankOK
<1>3. CASE Survey(r)
  <2>1. /\ pc'[r] = "traits" /\ ready'[r] = FALSE /\ pc[r] = "survey" /\ ready[r]
        /\ UNCHANGED <<got, locals>>
    BY <1>3, GoesOn DEF Survey, In
  <2>2. OwnType(r)'
    BY <1>0, <1>1, <2>1, InputFrame DEF OwnType, In, Point, Surveying, Judging, locals
  <2>3. ListAt(r)'
    BY <1>0, <1>1, <2>1, InputFrame DEF ListAt, Surveying, Judging, locals
  <2>4. StatusOK(r)'
    <3>1. Current(r)' = Current(r)
      BY <2>1 DEF Current, locals
    <3>2. QED
      BY <1>0, <1>1, <2>1, <3>1, InputFrame DEF StatusOK, In, Judging, locals
  <2>5. ToldAt(r)'
    BY <1>0, <1>1, <2>1, InputFrame DEF ToldAt, locals
  <2>6. MatchAt(r)'
    BY <1>0, <1>1, <2>1, InputFrame DEF MatchAt, Matched, Judging, locals
  <2>7. QED
    BY <2>2, <2>3, <2>4, <2>5, <2>6 DEF RankOK
<1>4. CASE Classified(r)
  <2> DEFINE p == Current(r)
  <2>1. /\ pc'[r] = IF Rest(r) = {} THEN "initialized" ELSE "survey"
        /\ ready'[r] = FALSE /\ pc[r] = "traits" /\ ready[r]
        /\ UNCHANGED <<got, object, rc, groupNeed, match, best>>
    BY <1>4, GoesOn DEF Classified, In
  <2>2. todo'[r] = Rest(r)
    BY <1>4 DEF Classified, PerRank
  <2>3. props'[r] = [o \in DOMAIN props[r] \cup {p} |->
                       IF o = p THEN Properties(r) ELSE props[r][o]]
    BY <1>4 DEF Classified, PerRank
  <2>4. /\ todo[r] # {} /\ todo[r] \subseteq Path /\ todo[r] \subseteq Common
        /\ DOMAIN props[r] = Common \ todo[r] /\ match[r] = {} /\ best[r] = <<>>
    BY <1>1, <2>1 DEF OwnType, ListAt, MatchAt, Surveying, Judging
  <2>5. p \in todo[r]
    BY <2>4, CurrentIsLeft
  <2>6. Properties(r) = Told(p)
    BY <1>1, <2>1, NotedIsTold DEF StatusOK, In
  <2> HIDE DEF p
  <2>7. /\ Rest(r) \subseteq Path /\ Rest(r) \subseteq Common
        /\ DOMAIN props'[r] = Common \ Rest(r)
        /\ DOMAIN props'[r] \subseteq Path
    BY <2>3, <2>4, <2>5 DEF Rest, p, Common
  <2>8. OwnType(r)'
    BY <1>0, <1>1, <2>1, <2>2, <2>4, <2>7, InputFrame
       DEF OwnType, In, Point, Surveying, Judging
  <2>9. ListAt(r)'
    BY <1>0, <2>1, <2>2, <2>7, InputFrame DEF ListAt, Surveying, Judging
  <2>10. StatusOK(r)'
    BY <2>1 DEF StatusOK, In, Judging
  <2>11. ToldAt(r)'
    <3>1. \A o \in DOMAIN props'[r] : props'[r][o] = Told(o)
      BY <1>1, <2>3, <2>6 DEF ToldAt
    <3>2. QED
      BY <1>0, <3>1, InputFrame DEF ToldAt
  <2>12. MatchAt(r)'
    BY <2>1, <2>4 DEF MatchAt, Matched, Judging
  <2>13. QED
    BY <2>8, <2>9, <2>10, <2>11, <2>12 DEF RankOK
<1>5. CASE Provide(r)
  <2>1. /\ pc'[r] = IF DOMAIN props[r] = {} THEN "done" ELSE "regroup"
        /\ ready'[r] = FALSE /\ pc[r] = "initialized"
        /\ UNCHANGED <<got, object, rc, groupNeed, props, match, best>>
    BY <1>5, GoesOn DEF Provide
  <2>2. todo'[r] = DOMAIN props[r]
    BY <1>5 DEF Provide, PerRank
  <2>3. DOMAIN props[r] = Common /\ match[r] = {} /\ best[r] = <<>>
        /\ DOMAIN props[r] \subseteq Path
    BY <1>1, <2>1 DEF OwnType, ListAt, MatchAt, Surveying, Judging
  <2>4. OwnType(r)'
    BY <1>0, <1>1, <2>1, <2>2, <2>3, InputFrame
       DEF OwnType, In, Point, Surveying, Judging
  <2>5. ListAt(r)'
    BY <1>0, <2>1, <2>2, <2>3, InputFrame DEF ListAt, Surveying, Judging
  <2>6. StatusOK(r)'
    BY <2>1 DEF StatusOK, In, Judging
  <2>7. ToldAt(r)'
    BY <1>0, <1>1, <2>1, InputFrame DEF ToldAt
  <2>8. MatchAt(r)'
    BY <1>0, <2>1, <2>3, InputFrame DEF MatchAt, Matched, Judging
  <2>9. QED
    BY <2>4, <2>5, <2>6, <2>7, <2>8 DEF RankOK
<1>6. CASE Statvfs(r) \/ StatvfsGood(r) \/ Needed(r) \/ Fits(r)
  <2>1. /\ ready'[r] = FALSE /\ pc[r] \in Judging /\ pc'[r] \in Judging \ {"regroup"}
        /\ pc[r] = "regroup" => ready[r]
        /\ UNCHANGED <<got, todo, object, props, match, best>>
    <3>1. /\ ready'[r] = FALSE
          /\ \/ pc[r] = "regroup" /\ ready[r] /\ pc'[r] = "statvfs"
             \/ pc[r] = "statvfs" /\ pc'[r] = "needs"
             \/ pc[r] = "needs" /\ pc'[r] = "space"
             \/ pc[r] = "space" /\ pc'[r] = "fits"
      <4>1. CASE Statvfs(r)
        BY <4>1, GoesOn DEF Statvfs, In
      <4>2. CASE StatvfsGood(r)
        BY <4>2, GoesOn DEF StatvfsGood, In
      <4>3. CASE Needed(r)
        BY <4>3, GoesOn DEF Needed, In
      <4>4. CASE Fits(r)
        BY <4>4, GoesOn DEF Fits, In
      <4>5. QED
        BY <1>6, <4>1, <4>2, <4>3, <4>4
    <3>2. UNCHANGED <<got, todo, object, props, match, best>>
      BY <1>6 DEF Statvfs, StatvfsGood, Needed, Fits, locals
    <3>3. QED
      BY <3>1, <3>2 DEF Judging
  <2>2. rc'[r] \in {-1, 0, 1} /\ groupNeed'[r] \in 0 .. Word - 1
    <3>1. CASE Statvfs(r)
      BY <1>1, <3>1 DEF Statvfs, PerRank, OwnType
    <3>2. CASE StatvfsGood(r)
      BY <1>1, <3>2 DEF StatvfsGood, OwnType, locals
    <3>3. CASE Needed(r)
      BY <1>1, <3>3 DEF Needed, PerRank, OwnType
    <3>4. CASE Fits(r)
      BY <1>1, <3>4 DEF Fits, PerRank, OwnType
    <3>5. QED
      BY <1>6, <3>1, <3>2, <3>3, <3>4
  <2>3. OwnType(r)'
    BY <1>0, <1>1, <2>1, <2>2, InputFrame DEF OwnType, In, Point, Surveying, Judging
  <2>4. ListAt(r)'
    BY <1>0, <1>1, <2>1, InputFrame DEF ListAt, Surveying, Judging
  <2>5. StatusOK(r)'
    <3>1. Current(r)' = Current(r)
      BY <2>1 DEF Current
    <3>2. object[r] = StatusAt(Current(r), r)
      BY <1>1, <2>1 DEF StatusOK, In, Judging
    <3>3. QED
      BY <1>0, <2>1, <3>1, <3>2, InputFrame DEF StatusOK, In, Judging
  <2>6. ToldAt(r)'
    BY <1>0, <1>1, <2>1, InputFrame DEF ToldAt
  <2>7. MatchAt(r)'
    BY <1>0, <1>1, <2>1, InputFrame DEF MatchAt, Matched, Judging
  <2>8. QED
    BY <2>3, <2>4, <2>5, <2>6, <2>7 DEF RankOK
<1>7. CASE StatvfsFailed(r)
  BY <1>7, ScoreKeeps DEF StatvfsFailed, In, Judging
<1>8. CASE Scored(r)
  <2>1. pc[r] = "fits" /\ pc[r] \in Judging
    BY <1>8 DEF Scored, In, Judging
  <2>2. ScoreStorage(props[r][Current(r)], Degree(r)) = ScoreAt(Current(r))
    BY <2>1, JudgedFacts
  <2>3. QED
    BY <1>8, <2>1, <2>2, ScoreKeeps DEF Scored
<1>9. QED
  BY <1>2, <1>3, <1>4, <1>5, <1>6, <1>7, <1>8 DEF Local

-----------------------------------------------------------------------------
(* What the collectives leave is as it should be.                          *)

(* The mount points listed are those that every process has.               *)
LEMMA ListedIsCommon ==
  ASSUME InputsOK
  PROVE  {p \in Path : Cardinality(Holders(mounts, p, Rank)) = N} = Common
<1>1. ASSUME NEW p \in Path
      PROVE  Cardinality(Holders(mounts, p, Rank)) = N <=> \A q \in Rank : p \in mounts[q]
  <2> DEFINE H == Holders(mounts, p, Rank)
  <2>1. H \subseteq Rank
    BY DEF Holders
  <2>2. Cardinality(H) = Cardinality(Rank) <=> H = Rank
    BY <2>1, RankZero, FS_Subset
  <2>3. H = Rank <=> \A q \in Rank : p \in mounts[q]
    BY DEF Holders
  <2>4. QED
    BY <2>2, <2>3, RankZero
<1>2. QED
  BY <1>1 DEF Common

(* At a collective of one mount point every rank surveys the same servers. *)
LEMMA SurveyedIsStatus ==
  ASSUME NEW p, \A q \in Rank : Current(q) = p, NEW r \in Rank
  PROVE  Surveyed(r) = StatusAt(p, r)
<1>1. \A q \in Rank : UriOf(q) = server[q][p]
  BY DEF UriOf
<1>2. Uris = UrisAt(p)
  BY <1>1 DEF Uris, UrisAt
<1>3. AnyRemote = RemoteAt(p)
  BY <1>1 DEF AnyRemote, RemoteAt
<1>4. QED
  BY <1>2, <1>3, Zenon DEF Surveyed, StatusAt, EstimateAt, GroupInfoAt

(* At a collective of one mount point the minimum is that of its servers.  *)
LEMMA SmallestIsLeast ==
  ASSUME NEW p, \A q \in Rank : Current(q) = p, NEW f
  PROVE  Smallest(f) = LeastAt(p, f)
<1>1. \A q \in Rank : UriOf(q) = server[q][p]
  BY DEF UriOf
<1> DEFINE V == {f[UriOf(r)] : r \in Rank}
           W == {f[server[r][p]] : r \in Rank}
           Below(m) == \A r \in Rank : m <= f[UriOf(r)]
           Under(m) == \A r \in Rank : m <= f[server[r][p]]
<1>2. V = W
  BY <1>1
<1>3. \A m : Below(m) <=> Under(m)
  BY <1>1
<1> HIDE DEF V, W, Below, Under
<1>4. (CHOOSE m \in V : Below(m)) = (CHOOSE m \in W : Under(m))
  BY <1>2, <1>3
<1>5. QED
  BY <1>4 DEF V, W, Below, Under, Smallest, LeastAt

(* The results that ranks are given keep the rank as it should be, where   *)
(* they have their type and, at "traits", are the minima.                  *)
LEMMA ResultKeeps ==
  ASSUME NEW r \in Rank, RankOK(r), ~ready[r], ready'[r] = TRUE,
         UNCHANGED <<input, pc, todo, object, rc, groupNeed, props, match, best>>,
         pc[r] \in ({"traits"} \cup Judging) \ {"regroup"},
         got'[r] \in Seq(Int),
         pc[r] = "needs" => got'[r][2] \in 0 .. Word - 1,
         pc[r] = "traits" =>
           got'[r] = <<LeastAt(Current(r), Speed), LeastAt(Current(r), Scal)>>
  PROVE  RankOK(r)'
<1>1. Current(r)' = Current(r) /\ Matched(r)' = Matched(r)
  BY DEF Current, Matched
<1>2. OwnType(r)'
  BY InputFrame DEF RankOK, OwnType, In
<1>3. ListAt(r)'
  BY InputFrame DEF RankOK, ListAt, Judging
<1>4. StatusOK(r)'
  BY <1>1, InputFrame DEF RankOK, StatusOK, In, Judging
<1>5. ToldAt(r)'
  BY InputFrame DEF RankOK, ToldAt
<1>6. MatchAt(r)'
  BY <1>1, InputFrame DEF RankOK, MatchAt
<1>7. QED
  BY <1>2, <1>3, <1>4, <1>5, <1>6 DEF RankOK

(* Where processes enter a collective together they are at one mount point.*)
LEMMA TogetherAt ==
  ASSUME NEW point \in Surveying \cup Judging, NEW v, Collective(point, v),
         \A r \in Rank : RankOK(r)
  PROVE  \E p \in Path : \A r \in Rank : Current(r) = p
<1>1. \A r, q \in Rank : Current(r) = Current(q)
  BY DEF Collective, Surveying, Judging
<1>2. pc[0] = point /\ 0 \in Rank
  BY RankZero DEF Collective
<1>3. todo[0] \subseteq Path /\ todo[0] # {}
  BY <1>2 DEF RankOK, OwnType
<1>4. Current(0) \in Path
  BY <1>3, CurrentIsLeft
<1>5. QED
  BY <1>1, <1>2, <1>4

(* The values that the space is told and summed by are numbers.            *)
LEMMA ResultTypes ==
  ASSUME DataInv
  PROVE  /\ SumOver(Rank, rc) \in Int
         /\ \A S \in SUBSET Rank : /\ SumOver(S, Requirement) \in Int
                                   /\ SumOver(S, Requirement) % Word \in 0 .. Word - 1
<1>1. \A r \in Rank : rc[r] \in Int
  BY DEF DataInv, RankOK, OwnType
<1>2. \A r \in Rank : Requirement[r] \in Int
  <2>1. \A r \in Rank : need[r] \in Int
    BY ClassifierAssumption DEF DataInv, InputsOK
  <2>2. ASSUME NEW x \in Int PROVE x % Word \in Int
    BY ClassifierAssumption
  <2>3. QED
    BY <2>1, <2>2 DEF Requirement
<1>3. ASSUME NEW S \in SUBSET Rank
      PROVE  SumOver(S, Requirement) \in Int
  <2>1. IsFiniteSet(S)
    BY RankZero, FS_Subset
  <2>2. QED
    BY <1>2, <2>1, SumType
<1>4. ASSUME NEW x \in Int PROVE x % Word \in 0 .. Word - 1
  BY ClassifierAssumption
<1>5. QED
  BY <1>1, <1>3, <1>4, RankZero, SumType

(* The collectives keep every rank as it should be.                        *)
LEMMA WorldKeeps ==
  ASSUME DataInv, World
  PROVE  \A r \in Rank : RankOK(r)'
<1>1. InputsOK /\ PerRank /\ \A r \in Rank : RankOK(r)
  BY DEF DataInv
<1>2. /\ UNCHANGED <<input, pc, rc, groupNeed, props, match, best>>
      /\ \A r \in Rank : ~ready[r] /\ ready'[r] = TRUE
  <2>1. \A r \in Rank : ready[r] \in BOOLEAN
    BY <1>1 DEF RankOK, OwnType
  <2>2. World => ready' = [r \in Rank |-> TRUE]
    BY DEF World, List, Grouping, Traits, SumRc, Needs, Space, Verdict, Collective
  <2>3. QED
    BY <1>1, <2>2, WorldStep
<1>3. CASE List
  <2>1. /\ got' = got /\ object' = object /\ \A r \in Rank : pc[r] = "list"
        /\ \A r \in Rank : todo'[r] = Common
    BY <1>1, <1>3, ListedIsCommon DEF List, Collective
  <2>2. ASSUME NEW r \in Rank PROVE RankOK(r)'
    <3>1. OwnType(r) /\ ListAt(r) /\ ToldAt(r) /\ MatchAt(r)
      BY <1>1 DEF RankOK
    <3>2. Common \subseteq Path
      BY DEF Common
    <3>3. OwnType(r)'
      BY <1>2, <2>1, <3>1, <3>2, InputFrame DEF OwnType, In, Surveying, Judging
    <3>4. ListAt(r)'
      BY <1>2, <2>1, <3>1, InputFrame DEF ListAt, Surveying, Judging
    <3>5. StatusOK(r)'
      BY <1>2, <2>1 DEF StatusOK, In, Judging
    <3>6. ToldAt(r)'
      BY <1>2, <3>1, InputFrame DEF ToldAt
    <3>7. MatchAt(r)'
      BY <1>2, <2>1, <3>1, InputFrame DEF MatchAt, Matched, Judging
    <3>8. QED
      BY <3>3, <3>4, <3>5, <3>6, <3>7 DEF RankOK
  <2>3. QED
    BY <2>2
<1>4. CASE Grouping
  <2>1. /\ got' = got /\ todo' = todo /\ \A r \in Rank : object'[r] = Surveyed(r)
        /\ \A r \in Rank : pc[r] \in {"survey", "regroup"}
    BY <1>4 DEF Grouping, Collective
  <2>2. PICK p \in Path : \A r \in Rank : Current(r) = p
    <3>1. CASE Collective("survey", got)
      BY <1>1, <3>1, TogetherAt DEF Surveying
    <3>2. CASE Collective("regroup", got)
      BY <1>1, <3>2, TogetherAt DEF Judging
    <3>3. QED
      BY <1>4, <3>1, <3>2 DEF Grouping
  <2>3. ASSUME NEW r \in Rank PROVE RankOK(r)'
    <3>1. OwnType(r) /\ ListAt(r) /\ ToldAt(r) /\ MatchAt(r)
      BY <1>1 DEF RankOK
    <3>2. object'[r] = StatusAt(p, r)
      BY <2>1, <2>2, SurveyedIsStatus
    <3>3. OwnType(r)'
      <4>1. /\ object'[r].info \in GroupInfo /\ object'[r].nodeLocal \in BOOLEAN
            /\ IsGroupingMap(object'[r].map)
            /\ object'[r].card \in {NotFilled, N} \cup Estimates
        BY <1>1, <3>2, StatusType
      <4>2. QED
        BY <1>2, <2>1, <3>1, <4>1, InputFrame DEF OwnType, In, Surveying, Judging
    <3>4. ListAt(r)'
      BY <1>2, <2>1, <3>1, InputFrame DEF ListAt, Surveying, Judging
    <3>5. StatusOK(r)'
      <4>1. Current(r)' = p
        BY <2>1, <2>2 DEF Current
      <4>2. QED
        BY <1>2, <2>1, <3>2, <4>1, InputFrame DEF StatusOK, In, Judging
    <3>6. ToldAt(r)'
      BY <1>2, <3>1, InputFrame DEF ToldAt
    <3>7. MatchAt(r)'
      BY <1>2, <2>1, <3>1, InputFrame DEF MatchAt, Matched, Judging
    <3>8. QED
      BY <3>3, <3>4, <3>5, <3>6, <3>7 DEF RankOK
  <2>4. QED
    BY <2>3
<1>5. CASE Traits
  <2> DEFINE v == <<Smallest(Speed), Smallest(Scal)>>
  <2>1. Collective("traits", Everywhere(v)) /\ todo' = todo /\ object' = object
    BY <1>5 DEF Traits, locals
  <2>2. PICK p \in Path : \A r \in Rank : Current(r) = p
    BY <1>1, <2>1, TogetherAt DEF Surveying
  <2>3. v = <<LeastAt(p, Speed), LeastAt(p, Scal)>>
    BY <2>2, SmallestIsLeast
  <2>4. v \in Seq(Int)
    BY <1>1, <2>3, LeastFacts, ClassifierAssumption
  <2> HIDE DEF v
  <2>5. \A r \in Rank : got'[r] = v /\ pc[r] = "traits"
    BY <2>1 DEF Collective, Everywhere
  <2>6. QED
    BY <1>1, <1>2, <2>1, <2>2, <2>3, <2>4, <2>5, ResultKeeps
<1>6. CASE SumRc
  <2> DEFINE v == <<SumOver(Rank, rc)>>
  <2>1. v \in Seq(Int)
    BY ResultTypes
  <2> HIDE DEF v
  <2>2. /\ todo' = todo /\ object' = object
        /\ \A r \in Rank : got'[r] = v /\ pc[r] = "statvfs"
    BY <1>6 DEF SumRc, Collective, Everywhere, locals, v
  <2>3. QED
    BY <1>1, <1>2, <2>1, <2>2, ResultKeeps DEF Judging
<1>7. CASE Needs
  <2>1. /\ todo' = todo /\ object' = object
        /\ \A r \in Rank : /\ pc[r] = "needs"
                           /\ got'[r] = <<SumOver(Rank, Requirement) % Word,
                                          SumOver(Group(r), Requirement) % Word>>
    BY <1>7 DEF Needs, Collective, locals
  <2>2. ASSUME NEW r \in Rank
        PROVE  got'[r] \in Seq(Int) /\ got'[r][2] \in 0 .. Word - 1
    <3> DEFINE all == SumOver(Rank, Requirement) % Word
               own == SumOver(Group(r), Requirement) % Word
    <3>1. Group(r) \in SUBSET Rank /\ Rank \in SUBSET Rank
      BY DEF Group
    <3>2. all \in 0 .. Word - 1 /\ own \in 0 .. Word - 1
      BY <3>1, ResultTypes
    <3>3. got'[r] = <<all, own>>
      BY <2>1
    <3> HIDE DEF all, own
    <3>4. QED
      BY <3>2, <3>3, ClassifierAssumption
  <2>3. QED
    BY <1>1, <1>2, <2>1, <2>2, ResultKeeps DEF Judging
<1>8. CASE Space
  <2>1. PICK garbage \in 0 .. Word - 1 :
          Collective("space",
            [r \in Rank |-> <<IF IsRep(object[Root(r)].info)
                              THEN room[UriOf(Root(r))] ELSE garbage>>])
    BY <1>8 DEF Space
  <2>2. PICK p \in Path : \A r \in Rank : Current(r) = p
    BY <1>1, <2>1, TogetherAt DEF Judging
  <2>3. todo' = todo /\ object' = object /\ \A r \in Rank : pc[r] = "space"
    BY <1>8 DEF Space, locals, Collective
  <2>4. ASSUME NEW r \in Rank PROVE got'[r] \in Seq(Int)
    <3>1. object[r] = StatusAt(p, r) /\ UrisAt(p) \in [Rank -> Uri]
      BY <1>1, <2>2, <2>3, UrisType DEF RankOK, StatusOK, Judging
    <3>2. Root(r) \in Rank
      BY <3>1, RootIsRank DEF StatusAt
    <3>3. room[UriOf(Root(r))] \in Int
      <4>1. server[Root(r)][p] \in Uri
        BY <1>1, <3>2 DEF InputsOK
      <4>2. Room \subseteq Int
        BY ClassifierAssumption DEF Unavailable
      <4>3. QED
        BY <1>1, <2>2, <3>2, <4>1, <4>2 DEF InputsOK, UriOf
    <3>4. garbage \in Int
      BY ClassifierAssumption
    <3>5. QED
      BY <2>1, <3>3, <3>4 DEF Collective
  <2>5. QED
    BY <1>1, <1>2, <2>3, <2>4, ResultKeeps DEF Judging
<1>9. CASE Verdict
  <2> DEFINE v == <<IF \E r \in Rank : rc[r] = 1 THEN 1 ELSE 0>>
  <2>1. v \in Seq(Int)
    OBVIOUS
  <2> HIDE DEF v
  <2>2. /\ todo' = todo /\ object' = object
        /\ \A r \in Rank : got'[r] = v /\ pc[r] = "fits"
    BY <1>9 DEF Verdict, Collective, Everywhere, locals, v
  <2>3. QED
    BY <1>1, <1>2, <2>1, <2>2, ResultKeeps DEF Judging
<1>10. QED
  BY <1>3, <1>4, <1>5, <1>6, <1>7, <1>8, <1>9 DEF World

-----------------------------------------------------------------------------
(* The invariant of what the processes know.                               *)

(* It holds when the classifier starts.                                    *)
LEMMA DataInit == Init => DataInv
<1> SUFFICES ASSUME Init PROVE DataInv
  OBVIOUS
<1>1. InputsOK /\ PerRank
  BY DEF Init, InputsOK, PerRank
<1>2. ASSUME NEW r \in Rank PROVE RankOK(r)
  <2>1. /\ pc[r] = "list" /\ ready[r] = FALSE /\ got[r] = <<>> /\ todo[r] = {}
        /\ object[r] = Fresh /\ rc[r] = 0 /\ groupNeed[r] = 0
        /\ props[r] = <<>> /\ match[r] = {} /\ best[r] = <<>>
    BY DEF Init
  <2>2. DOMAIN props[r] = {}
    BY <2>1
  <2>3. OwnType(r)
    <3>1. Fresh.info \in GroupInfo /\ Fresh.nodeLocal \in BOOLEAN
          /\ IsGroupingMap(Fresh.map) /\ Fresh.card = NotFilled
      BY EmptyMapType DEF Fresh, NoGroupInfo, GroupInfo, FilledId
    <3>2. Word \in Nat \ {0} /\ got[r] \in Seq(Int)
      BY <2>1, ClassifierAssumption
    <3>3. groupNeed[r] \in 0 .. Word - 1
      BY <2>1, <3>2
    <3>4. object[r].info \in GroupInfo /\ object[r].nodeLocal \in BOOLEAN
          /\ IsGroupingMap(object[r].map) /\ object[r].card = NotFilled
      BY <2>1, <3>1
    <3>5. QED
      BY <2>1, <2>2, <3>2, <3>3, <3>4 DEF OwnType, In, Point, Surveying, Judging
  <2>4. ListAt(r)
    BY <2>1, <2>2 DEF ListAt, Surveying, Judging
  <2>5. StatusOK(r)
    BY <2>1 DEF StatusOK, In, Judging
  <2>6. ToldAt(r)
    BY <2>2 DEF ToldAt
  <2>7. MatchAt(r)
    BY <2>1 DEF MatchAt, Matched, Judging
  <2>8. QED
    BY <2>3, <2>4, <2>5, <2>6, <2>7 DEF RankOK
<1>3. QED
  BY <1>1, <1>2 DEF DataInv

(* Every step keeps it.                                                    *)
LEMMA DataStep == DataInv /\ [Next]_vars => DataInv'
<1> SUFFICES ASSUME DataInv, [Next]_vars PROVE DataInv'
  OBVIOUS
<1>1. InputsOK /\ PerRank /\ \A r \in Rank : RankOK(r)
  BY DEF DataInv
<1>2. CASE World
  <2>1. PerRank' /\ UNCHANGED input
    BY <1>1, <1>2, WorldStep
  <2>2. QED
    BY <1>1, <1>2, <2>1, WorldKeeps, InputFrame DEF DataInv
<1>3. ASSUME NEW r \in Rank, Local(r) PROVE DataInv'
  <2>1. PerRank' /\ UNCHANGED input /\ \A q \in Rank \ {r} : Same(q)
    BY <1>1, <1>3, OwnStep
  <2>2. RankOK(r)'
    BY <1>1, <1>3, LocalKeeps
  <2>3. ASSUME NEW q \in Rank \ {r} PROVE RankOK(q)'
    BY <1>1, <2>1, RankFrame
  <2>4. QED
    BY <1>1, <2>1, <2>2, <2>3, InputFrame DEF DataInv
<1>4. CASE UNCHANGED vars
  <2>1. UNCHANGED input /\ PerRank' /\ \A q \in Rank : Same(q)
    BY <1>1, <1>4 DEF vars, locals, PerRank, Same
  <2>2. ASSUME NEW q \in Rank PROVE RankOK(q)'
    BY <1>1, <2>1, RankFrame
  <2>3. QED
    BY <1>1, <2>1, <2>2, InputFrame DEF DataInv
<1>5. QED
  BY <1>2, <1>3, <1>4 DEF Next

(* What a process is offered every process has.                            *)
LEMMA DataOffers == DataInv => MatchedEverywhere
BY DEF DataInv, RankOK, MatchAt, MatchedEverywhere, Common

(* So it always holds.                                                    *)
LEMMA DataAlways == Spec => []DataInv
BY DataInit, DataStep, PTL DEF Spec

(* Every variable always has its type: the loops over mount points never   *)
(* run out of what they take the next one from, the bounds of a word are   *)
(* kept, and no estimate is anything but that of a mount point's servers   *)
(* (MountPointsClassifier.C:319-398, StorageClassifier.C:211-519).         *)
THEOREM TypeIsInvariant == Spec => []TypeOK
BY DataAlways, DataTypes, PTL

(* What a process is offered is mounted on all the others, whatever each   *)
(* has in its mount table (MountPointsClassifier.C:319-345).               *)
THEOREM OfferedIsMounted == Spec => []MatchedEverywhere
BY DataAlways, DataOffers, PTL

-----------------------------------------------------------------------------
(* The processes go the same way.                                          *)

(* What a rank does alone is what it was ahead of.                         *)
LEMMA LocalIsAhead ==
  ASSUME InputsOK, PerRank, NEW r \in Rank, RankOK(r), Local(r)
  PROVE  Ahead(r)' = Ahead(r)
<1>0. PerRank' /\ UNCHANGED input /\ Common' = Common
  BY OwnStep, InputFrame
<1>1. CASE Listed(r)
  <2>1. /\ pc'[r] = IF todo[r] = {} THEN "initialized" ELSE "survey"
        /\ ready'[r] = FALSE /\ pc[r] = "list" /\ ready[r]
        /\ UNCHANGED <<todo, match>>
    BY <1>1, GoesOn DEF Listed, In, locals
  <2>2. todo[r] = Common
    BY <2>1 DEF RankOK, ListAt
  <2>3. Ahead(r) = IF Common = {} THEN WaitToJudge({}, match[r])
                   ELSE Wait("survey", todo[r], match[r])
    BY <2>1, <2>2 DEF Ahead, In
  <2>4. Ahead(r)' = IF Common = {} THEN WaitToJudge(Common, match[r])
                    ELSE Wait("survey", todo[r], match[r])
    BY <1>0, <2>1, <2>2 DEF Ahead, In, Wait, WaitToJudge
  <2>5. QED
    BY <2>3, <2>4
<1>2. CASE Survey(r)
  <2>1. /\ pc'[r] = "traits" /\ ready'[r] = FALSE /\ pc[r] = "survey" /\ ready[r]
        /\ UNCHANGED <<todo, match>>
    BY <1>2, GoesOn DEF Survey, In, locals
  <2>2. QED
    BY <2>1 DEF Ahead, In, Wait
<1>3. CASE Classified(r)
  <2>1. /\ pc'[r] = IF Rest(r) = {} THEN "initialized" ELSE "survey"
        /\ ready'[r] = FALSE /\ pc[r] = "traits" /\ ready[r]
        /\ UNCHANGED match
    BY <1>3, GoesOn DEF Classified, In
  <2>2. todo'[r] = Rest(r)
    BY <1>3 DEF Classified, PerRank
  <2>3. Ahead(r) = IF Rest(r) = {} THEN WaitToJudge(Common, match[r])
                   ELSE Wait("survey", Rest(r), match[r])
    BY <2>1 DEF Ahead, In
  <2>4. Ahead(r)' = IF Rest(r) = {} THEN WaitToJudge(Common, match[r])
                    ELSE Wait("survey", Rest(r), match[r])
    BY <1>0, <2>1, <2>2 DEF Ahead, In, Wait, WaitToJudge
  <2>5. QED
    BY <2>3, <2>4
<1>4. CASE Provide(r)
  <2>1. /\ pc'[r] = IF DOMAIN props[r] = {} THEN "done" ELSE "regroup"
        /\ ready'[r] = FALSE /\ pc[r] = "initialized"
        /\ UNCHANGED match
    BY <1>4, GoesOn DEF Provide
  <2>2. todo'[r] = DOMAIN props[r]
    BY <1>4 DEF Provide, PerRank
  <2>3. DOMAIN props[r] = Common
    BY <2>1 DEF RankOK, ListAt, Surveying
  <2>4. Ahead(r) = WaitToJudge(Common, match[r])
    BY <2>1 DEF Ahead, In
  <2>5. Ahead(r)' = WaitToJudge(Common, match[r])
    BY <2>1, <2>2, <2>3 DEF Ahead, In, Wait, WaitToJudge
  <2>6. QED
    BY <2>4, <2>5
<1>5. CASE Statvfs(r)
  <2>1. /\ pc'[r] = "statvfs" /\ ready'[r] = FALSE /\ pc[r] = "regroup" /\ ready[r]
        /\ UNCHANGED <<todo, match>>
    BY <1>5, GoesOn DEF Statvfs, In
  <2>2. QED
    BY <2>1 DEF Ahead, In, Wait
<1>6. ASSUME NEW s, Score(r, s)
      PROVE  Ahead(r)' = WaitToJudge(Rest(r), Scoring(r, s))
  <2>1. /\ match'[r] = Scoring(r, s) /\ todo'[r] = Rest(r) /\ ready'[r] = FALSE
        /\ pc'[r] = IF Rest(r) = {} THEN "done" ELSE "regroup"
    BY <1>6 DEF Score, Scoring, PerRank, GoTo
  <2>2. QED
    BY <2>1 DEF Ahead, In, Wait, WaitToJudge
<1>7. CASE StatvfsFailed(r)
  <2>1. pc[r] = "statvfs" /\ ready[r] /\ got[r][1] # 0 /\ Score(r, -1)
    BY <1>7 DEF StatvfsFailed, In
  <2>2. Ahead(r) = WaitToJudge(Rest(r), match[r])
    BY <2>1 DEF Ahead, In
  <2>3. Scoring(r, -1) = match[r]
    BY DEF Scoring
  <2>4. QED
    BY <1>6, <2>1, <2>2, <2>3
<1>8. CASE StatvfsGood(r)
  <2>1. /\ pc'[r] = "needs" /\ ready'[r] = FALSE /\ pc[r] = "statvfs" /\ ready[r]
        /\ got[r][1] = 0 /\ UNCHANGED <<todo, match>>
    BY <1>8, GoesOn DEF StatvfsGood, In, locals
  <2>2. QED
    BY <2>1 DEF Ahead, In, Wait
<1>9. CASE Needed(r)
  <2>1. /\ pc'[r] = "space" /\ ready'[r] = FALSE /\ pc[r] = "needs" /\ ready[r]
        /\ UNCHANGED <<todo, match>>
    BY <1>9, GoesOn DEF Needed, In
  <2>2. QED
    BY <2>1 DEF Ahead, In, Wait
<1>10. CASE Fits(r)
  <2>1. /\ pc'[r] = "fits" /\ ready'[r] = FALSE /\ pc[r] = "space" /\ ready[r]
        /\ UNCHANGED <<todo, match>>
    BY <1>10, GoesOn DEF Fits, In
  <2>2. QED
    BY <2>1 DEF Ahead, In, Wait
<1>11. CASE Scored(r)
  <2> DEFINE s == IF got[r][1] = 0 THEN ScoreAt(Current(r)) ELSE -1
  <2>1. pc[r] = "fits" /\ ready[r] /\ pc[r] \in Judging
    BY <1>11 DEF Scored, In, Judging
  <2>2. ScoreStorage(props[r][Current(r)], Degree(r)) = ScoreAt(Current(r))
    BY <2>1, JudgedFacts
  <2>3. Score(r, s)
    BY <1>11, <2>2 DEF Scored
  <2>4. Ahead(r) = WaitToJudge(Rest(r), Scoring(r, s))
    BY <2>1 DEF Ahead, In
  <2>5. QED
    BY <1>6, <2>3, <2>4
<1>12. QED
  BY <1>1, <1>2, <1>3, <1>4, <1>5, <1>7, <1>8, <1>9, <1>10, <1>11 DEF Local

(* A rank that nothing happens to is ahead of the same.                    *)
LEMMA AheadFrame ==
  ASSUME UNCHANGED input, NEW q, Same(q)
  PROVE  Ahead(q)' = Ahead(q)
<1>1. /\ pc'[q] = pc[q] /\ ready'[q] = ready[q] /\ got'[q] = got[q]
      /\ todo'[q] = todo[q] /\ match'[q] = match[q]
  BY DEF Same
<1>2. /\ Current(q)' = Current(q) /\ Rest(q)' = Rest(q)
      /\ \A point : In(q, point)' = In(q, point)
  BY <1>1 DEF Current, Rest, In
<1>3. Common' = Common /\ ScoreAt(Current(q))' = ScoreAt(Current(q))
  <2>1. Common' = Common /\ \A p : ScoreAt(p)' = ScoreAt(p)
    BY InputFrame
  <2>2. QED
    BY <1>2, <2>1
<1>4. \A s : Scoring(q, s)' = Scoring(q, s)
  BY <1>1, <1>2 DEF Scoring
<1>5. QED
  BY <1>1, <1>2, <1>3, <1>4 DEF Ahead, In, Wait, WaitToJudge

(* Who waits for a collective is ahead of nothing but it.                  *)
LEMMA WaitingIsAhead ==
  ASSUME NEW r, ~ready[r], pc[r] # "initialized"
  PROVE  Ahead(r) = Wait(pc[r], todo[r], match[r])
BY DEF Ahead, In

(* Collectives take all the same way.                                      *)
LEMMA WorldInStep ==
  ASSUME DataInv, InStep, World
  PROVE  InStep'
<1>1. /\ UNCHANGED <<input, pc, match>>
      /\ \A r \in Rank : ~ready[r] /\ ready'[r]
      /\ Common' = Common
  BY WorldStep, InputFrame DEF DataInv
<1>2. PICK point : /\ point \in Point \ {"initialized"}
                   /\ \A r \in Rank : pc[r] = point
  BY DEF World, List, Grouping, Traits, SumRc, Needs, Space, Verdict, Collective, Point
<1>3. ASSUME NEW r \in Rank, NEW q \in Rank
      PROVE  todo[r] = todo[q] /\ match[r] = match[q]
  <2>1. /\ Ahead(r) = Wait(point, todo[r], match[r])
        /\ Ahead(q) = Wait(point, todo[q], match[q])
    BY <1>1, <1>2, WaitingIsAhead
  <2>2. QED
    BY <2>1 DEF InStep, Wait
<1>4. ASSUME NEW r \in Rank, NEW q \in Rank
      PROVE  /\ todo'[r] = todo'[q] /\ match'[r] = match'[q]
             /\ point \in {"statvfs", "fits"} => got'[r][1] = got'[q][1]
  <2>1. CASE List
    BY <1>1, <1>2, <1>3, <2>1 DEF List, Collective
  <2>2. CASE Grouping \/ Traits \/ Needs \/ Space
    BY <1>1, <1>2, <1>3, <2>2
       DEF Grouping, Traits, Needs, Space, Collective, locals
  <2>3. CASE SumRc
    BY <1>1, <1>3, <2>3 DEF SumRc, Collective, Everywhere, locals
  <2>4. CASE Verdict
    BY <1>1, <1>3, <2>4 DEF Verdict, Collective, Everywhere, locals
  <2>5. QED
    BY <2>1, <2>2, <2>3, <2>4 DEF World
<1>5. ASSUME NEW r \in Rank, NEW q \in Rank
      PROVE  (Ahead(r) = Ahead(q))'
  <2>1. /\ pc'[r] = point /\ pc'[q] = point /\ ready'[r] /\ ready'[q]
    BY <1>1, <1>2
  <2>2. /\ Current(r)' = Current(q)' /\ Rest(r)' = Rest(q)'
    BY <1>4 DEF Current, Rest
  <2>3. ScoreAt(Current(r))' = ScoreAt(Current(q))'
    BY <2>2
  <2>4. \A s : Scoring(r, s)' = Scoring(q, s)'
    BY <1>4, <2>2 DEF Scoring
  <2>5. /\ todo'[r] = todo'[q] /\ match'[r] = match'[q]
        /\ point \in {"statvfs", "fits"} => got'[r][1] = got'[q][1]
    BY <1>4
  <2>6. CASE point = "fits"
    BY <2>1, <2>2, <2>3, <2>4, <2>5, <2>6 DEF Ahead, In, WaitToJudge
  <2>7. CASE point = "statvfs"
    BY <2>1, <2>2, <2>5, <2>7 DEF Ahead, In, WaitToJudge
  <2>8. CASE point \in {"list", "survey", "traits"}
    BY <2>1, <2>2, <2>5, <2>8 DEF Ahead, In, WaitToJudge
  <2>9. CASE point \in {"regroup", "needs", "space", "done"}
    BY <2>1, <2>5, <2>9 DEF Ahead, In
  <2>10. QED
    BY <1>2, <2>6, <2>7, <2>8, <2>9 DEF Point
<1>6. QED
  BY <1>5 DEF InStep

(* The processes start together and stay so.                               *)
LEMMA InStepInit == Init => InStep
<1> SUFFICES ASSUME Init PROVE InStep
  OBVIOUS
<1>1. \A r \in Rank : pc[r] = "list" /\ ~ready[r] /\ todo[r] = {} /\ match[r] = {}
  BY DEF Init
<1>2. \A r \in Rank : Ahead(r) = Wait("list", {}, {})
  BY <1>1, WaitingIsAhead
<1>3. QED
  BY <1>2 DEF InStep

(* No step takes some of them another way.                                 *)
LEMMA InStepStep == DataInv /\ InStep /\ [Next]_vars => InStep'
<1> SUFFICES ASSUME DataInv, InStep, [Next]_vars PROVE InStep'
  OBVIOUS
<1>1. InputsOK /\ PerRank /\ \A r \in Rank : RankOK(r)
  BY DEF DataInv
<1>2. CASE World
  BY <1>2, WorldInStep
<1>3. ASSUME NEW r \in Rank, Local(r) PROVE InStep'
  <2>1. UNCHANGED input /\ \A q \in Rank \ {r} : Same(q)
    BY <1>1, <1>3, OwnStep
  <2>2. Ahead(r)' = Ahead(r)
    BY <1>1, <1>3, LocalIsAhead
  <2>3. \A q \in Rank : Ahead(q)' = Ahead(q)
    BY <2>1, <2>2, AheadFrame
  <2>4. QED
    BY <2>3 DEF InStep
<1>4. CASE UNCHANGED vars
  <2>1. UNCHANGED input /\ \A q \in Rank : Same(q)
    BY <1>4 DEF vars, locals, Same
  <2>2. \A q \in Rank : Ahead(q)' = Ahead(q)
    BY <2>1, AheadFrame
  <2>3. QED
    BY <2>2 DEF InStep
<1>5. QED
  BY <1>2, <1>3, <1>4 DEF Next

(* Whatever they wait for, the processes wait for the same collective with *)
(* the same mount points to do and the same matches behind them.           *)
LEMMA InStepAlways == Spec => [](DataInv /\ InStep)
BY DataInit, DataStep, InStepInit, InStepStep, PTL DEF Spec

(* Processes in step that have all returned hold the same vector and know  *)
(* the same of the mount points.                                           *)
LEMMA InStepAgree == DataInv /\ InStep => Agreement
<1> SUFFICES ASSUME DataInv, InStep, Returned, NEW r \in Rank, NEW q \in Rank
             PROVE  best[r] = best[q] /\ Known(r) = Known(q)
  BY DEF Agreement
<1>1. \A o \in Rank : pc[o] = "done" /\ ~ready[o] /\ RankOK(o)
  BY DEF Returned, DataInv, RankOK, ListAt
<1>2. match[r] = match[q]
  <2>1. /\ Ahead(r) = Wait("done", todo[r], match[r])
        /\ Ahead(q) = Wait("done", todo[q], match[q])
    BY <1>1, WaitingIsAhead
  <2>2. QED
    BY <2>1 DEF InStep, Wait
<1>3. best[r] = best[q]
  BY <1>1, <1>2 DEF RankOK, MatchAt
<1>4. /\ DOMAIN props[r] = Common /\ DOMAIN props[q] = Common
      /\ \A p \in Common : props[r][p] = Told(p) /\ props[q][p] = Told(p)
  BY <1>1 DEF RankOK, ListAt, ToldAt, Surveying
<1>5. Known(r) = Known(q)
  BY <1>4 DEF Known
<1>6. QED
  BY <1>3, <1>5

(* All processes return the same mount points with the same scores in the  *)
(* same order, and know the same of them, even where two URIs name one     *)
(* server (StorageClassifier.C:404-433).                                   *)
THEOREM ProcessesAgree == Spec => []Agreement
BY InStepAlways, InStepAgree, PTL

-----------------------------------------------------------------------------
(* The space of the servers, where no two URIs name one.                   *)

NoAliases == \A u, v \in Uri : u # v => ~Aliased(u, v)

(* What all who could share a server need together is counted in a word.   *)
SumsFit == \A n \in [Rank -> Need] : \A S \in SUBSET Rank : SumOver(S, n) < Word

(* The space of a server is a number in a word, or is not to be had.       *)
LEMMA RoomType ==
  ASSUME InputsOK, NEW p \in Path, NEW q \in Rank
  PROVE  room[server[q][p]] \in (0 .. Word - 1) \cup {Unavailable}
<1>1. server[q][p] \in Uri
  BY DEF InputsOK
<1>2. room[server[q][p]] \in Room
  BY <1>1 DEF InputsOK
<1>3. QED
  BY <1>2, ClassifierAssumption

(* The group information of a surveyed status object.                      *)
LEMMA StatusInfo == \A p, q : StatusAt(p, q).info = GroupInfoAt(UrisAt(p), q)
BY DEF StatusAt

(* Nothing is eliminated of the servers of a mount point.                  *)
LEMMA NoneEliminated ==
  ASSUME NoAliases, NEW uris \in [Rank -> Uri]
  PROVE  ~AliasDetected(UriMap(uris))
BY NoneDetected DEF NoAliases

(* Among those that share a server there is a lowest.                      *)
LEMMA LowestSharer ==
  ASSUME NEW uris, NEW r \in Rank
  PROVE  \E q \in Sharers(uris, r) : IsLowest(uris, q) /\ q \in Rank
<1>1. Sharers(uris, r) \in SUBSET Nat /\ Sharers(uris, r) # {}
  BY RankZero DEF Sharers
<1>2. PICK q \in Sharers(uris, r) : \A p \in Sharers(uris, r) : q <= p
  BY <1>1, LowestNumber
<1>3. Sharers(uris, q) = Sharers(uris, r) /\ q \in Rank
  BY <1>2 DEF Sharers
<1>4. QED
  BY <1>2, <1>3 DEF IsLowest

(* Two that are lowest of one group are one.                               *)
LEMMA OneLowest ==
  ASSUME NEW uris, NEW q \in Rank, NEW o \in Rank, uris[q] = uris[o],
         IsLowest(uris, q), IsLowest(uris, o)
  PROVE  q = o
<1>1. q <= o /\ o <= q
  BY DEF IsLowest, Sharers
<1>2. QED
  BY <1>1, RankZero

(* A group of the fabric are those that share the server, and its root is  *)
(* the lowest of them.                                                     *)
LEMMA GroupIsSharers ==
  ASSUME NoAliases, NEW uris \in [Rank -> Uri], NEW r \in Rank,
         \A q \in Rank : object[q].info = GroupInfoAt(uris, q)
  PROVE  /\ Group(r) = Sharers(uris, r)
         /\ Root(r) \in Sharers(uris, r) /\ IsLowest(uris, Root(r))
<1> DEFINE id(q) == GroupInfoAt(uris, q).groupId
<1>1. \A q \in Rank : /\ IsGroupingDone(GroupInfoAt(uris, q))
                      /\ IsSingleGroup(GroupInfoAt(uris, q)) <=> IsOneUri(uris)
                      /\ id(q) \in Sharers(uris, q) /\ IsLowest(uris, id(q))
  BY NoneEliminated, GroupInfoFacts
<1>2. CASE IsOneUri(uris)
  <2>1. Group(r) = Rank /\ Root(r) = 0
    BY <1>1, <1>2 DEF Group, Root, GroupWise
  <2>2. Sharers(uris, r) = Rank /\ Sharers(uris, 0) = Rank
    BY <1>2, RankZero DEF Sharers, IsOneUri
  <2>3. \A q \in Rank : 0 <= q
    BY RankZero
  <2>4. QED
    BY <2>1, <2>2, <2>3, RankZero DEF IsLowest
<1>3. CASE ~IsOneUri(uris)
  <2>1. /\ Group(r) = {q \in Rank : id(q) = id(r)}
        /\ Root(r) = id(r)
    BY <1>1, <1>3, Represented DEF Group, Root, GroupWise
  <2>2. ASSUME NEW q \in Rank PROVE id(q) = id(r) <=> uris[q] = uris[r]
    <3>1. /\ uris[id(q)] = uris[q] /\ id(q) \in Rank
          /\ uris[id(r)] = uris[r] /\ id(r) \in Rank
      BY <1>1 DEF Sharers
    <3> HIDE DEF id
    <3>2. QED
      BY <1>1, <3>1, OneLowest
  <2>3. Group(r) = Sharers(uris, r)
    BY <2>1, <2>2 DEF Sharers
  <2>4. QED
    BY <1>1, <2>1, <2>3
<1>4. QED
  BY <1>2, <1>3

(* Every server of a mount point answers if those that are asked do.       *)
LEMMA AllAnswer ==
  ASSUME NEW p
  PROVE  Reachable(p) <=>
           \A q \in Rank : ~(IsLowest(UrisAt(p), q) /\ room[server[q][p]] = Unavailable)
<1>1. ASSUME NEW q \in Rank, room[server[q][p]] = Unavailable
      PROVE  \E o \in Rank : IsLowest(UrisAt(p), o) /\ room[server[o][p]] = Unavailable
  <2>1. PICK o \in Sharers(UrisAt(p), q) : IsLowest(UrisAt(p), o) /\ o \in Rank
    BY LowestSharer
  <2>2. server[o][p] = server[q][p]
    BY <2>1 DEF Sharers, UrisAt
  <2>3. QED
    BY <1>1, <2>1, <2>2
<1>2. QED
  BY <1>1 DEF Reachable

(* What the representative of a surveyed status object is.                 *)
LEMMA RepIsLowest ==
  ASSUME NoAliases, InputsOK, NEW p \in Path, NEW r \in Rank
  PROVE  IsRep(StatusAt(p, r).info) <=> IsLowest(UrisAt(p), r)
<1>1. UrisAt(p) \in [Rank -> Uri]
  BY UrisType
<1>2. QED
  BY <1>1, NoneEliminated, GroupInfoFacts DEF StatusAt

(* Where the space of a mount point is judged it is one of the table.      *)
LEMMA JudgedStatus ==
  ASSUME NEW r \in Rank, RankOK(r), In(r, "regroup") \/ pc[r] \in Judging \ {"regroup"}
  PROVE  object[r] = StatusAt(Current(r), r) /\ Current(r) \in Path
<1>1. pc[r] \in Judging
  BY DEF In, Judging
<1>2. Current(r) \in Path
  BY <1>1, JudgedFacts
<1>3. QED
  BY <1>2 DEF RankOK, StatusOK

(* A rank that nothing happens to keeps what it knows of the space.        *)
LEMMA SpaceFrame ==
  ASSUME UNCHANGED input, NEW q, SpaceAt(q), Same(q)
  PROVE  SpaceAt(q)'
<1>1. /\ Current(q)' = Current(q) /\ Matched(q)' = Matched(q)
      /\ room' = room /\ server' = server
      /\ \A point : In(q, point)' = In(q, point)
  BY DEF Same, Current, Matched, In, input
<1>2. /\ pc'[q] = pc[q] /\ ready'[q] = ready[q] /\ got'[q] = got[q]
      /\ todo'[q] = todo[q] /\ rc'[q] = rc[q] /\ groupNeed'[q] = groupNeed[q]
  BY DEF Same
<1>3. QED
  BY <1>1, <1>2, InputFrame DEF SpaceAt

(* Steps before the judgement know nothing of the space.                   *)
LEMMA SpaceNotYet ==
  ASSUME NEW r, pc'[r] \in {"list", "initialized"} \cup Surveying
  PROVE  SpaceAt(r)'
BY DEF SpaceAt, Surveying, Judging, In

(* Scoring a mount point that has its space.                               *)
LEMMA ScoreSpace ==
  ASSUME InputsOK, PerRank, NEW r \in Rank, RankOK(r), SpaceAt(r), pc[r] \in Judging,
         NEW s \in {-1, ScoreAt(Current(r))}, Score(r, s),
         s >= 0 <=> Reachable(Current(r)) /\ HasRoom(Current(r)) /\ ScoreAt(Current(r)) >= 0
  PROVE  SpaceAt(r)'
<1> DEFINE p == Current(r)
           Good(o) == Reachable(o) /\ HasRoom(o) /\ ScoreAt(o) >= 0
<1>1. UNCHANGED input
  BY DEF Score
<1>2. /\ match'[r] = Scoring(r, s) /\ todo'[r] = Rest(r)
      /\ ready'[r] = FALSE /\ pc'[r] \in {"done", "regroup"}
  BY DEF Score, Scoring, PerRank, GoTo
<1>3. p \in todo[r] /\ todo[r] \subseteq Common
  BY JudgedFacts
<1>4. Matched(r) = {o \in Common \ todo[r] : Good(o)}
  BY DEF SpaceAt
<1>5. Matched(r)' = Matched(r) \cup (IF s >= 0 THEN {p} ELSE {})
  <2>1. Matched(r)' = {m.path : m \in Scoring(r, s)}
    BY <1>2 DEF Matched
  <2>2. CASE s >= 0
    <3> DEFINE m0 == [path |-> p, score |-> s]
    <3>1. Scoring(r, s) = match[r] \cup {m0} /\ m0.path = p
      BY <2>2 DEF Scoring
    <3> HIDE DEF m0
    <3>2. {m.path : m \in Scoring(r, s)} = Matched(r) \cup {p}
      BY <3>1 DEF Matched
    <3>3. QED
      BY <2>1, <2>2, <3>2
  <2>3. CASE ~(s >= 0)
    BY <2>1, <2>3 DEF Scoring, Matched
  <2>4. QED
    BY <2>2, <2>3
<1>6. s >= 0 <=> Good(p)
  OBVIOUS
<1> HIDE DEF Good
<1>7. Matched(r)' = {o \in Common \ Rest(r) : Good(o)}
  BY <1>3, <1>4, <1>5, <1>6 DEF Rest
<1>8. Matched(r)' = {o \in Common' \ todo'[r] :
                        Reachable(o)' /\ HasRoom(o)' /\ ScoreAt(o)' >= 0}
  BY <1>1, <1>2, <1>7, InputFrame DEF Good
<1>9. QED
  BY <1>2, <1>8 DEF SpaceAt, In

(* What a rank does alone keeps what it knows of the space.                *)
LEMMA LocalSpace ==
  ASSUME NoAliases, InputsOK, PerRank, NEW r \in Rank, RankOK(r), SpaceAt(r), Local(r)
  PROVE  SpaceAt(r)'
<1> PICK p : p = Current(r)
  OBVIOUS
<1> DEFINE Good(o) == Reachable(o) /\ HasRoom(o) /\ ScoreAt(o) >= 0
<1>0. UNCHANGED input /\ UNCHANGED <<room, server>>
  BY OwnStep DEF input
<1>1. CASE Listed(r) \/ Survey(r) \/ Classified(r)
  <2>1. CASE Listed(r)
    BY <2>1, GoesOn, SpaceNotYet DEF Listed, Surveying
  <2>2. CASE Survey(r)
    BY <2>2, GoesOn, SpaceNotYet DEF Survey, Surveying
  <2>3. CASE Classified(r)
    BY <2>3, GoesOn, SpaceNotYet DEF Classified, Surveying
  <2>4. QED
    BY <1>1, <2>1, <2>2, <2>3
<1>2. CASE Provide(r)
  <2>1. pc'[r] \in {"done", "regroup"} /\ ready'[r] = FALSE /\ match' = match
        /\ pc[r] = "initialized"
    BY <1>2, GoesOn DEF Provide
  <2>2. todo'[r] = Common
    BY <1>2, <2>1 DEF Provide, PerRank, RankOK, ListAt, Surveying
  <2>3. Matched(r)' = {}
    BY <2>1 DEF RankOK, MatchAt, Matched, Judging
  <2>4. Common' = Common
    BY <1>0, InputFrame
  <2>5. QED
    BY <2>1, <2>2, <2>3, <2>4 DEF SpaceAt, In
<1>3. ASSUME UNCHANGED <<todo, match>>, pc[r] \in Judging, pc'[r] \in Judging,
             ready'[r] = FALSE,
             pc'[r] = "statvfs" =>
               rc'[r] = IF IsLowest(UrisAt(p), r) /\ room[server[r][p]] = Unavailable
                        THEN -1 ELSE 0,
             pc'[r] \in {"needs", "space", "fits"} => Reachable(p),
             pc'[r] = "space" => groupNeed'[r] = NeedAt(p, r),
             pc'[r] = "fits" => rc'[r] = IF room[server[r][p]] >= NeedAt(p, r) THEN 0 ELSE 1
      PROVE  SpaceAt(r)'
  <2>1. Current(r)' = p /\ Matched(r)' = Matched(r)
    BY <1>3 DEF Current, Matched
  <2>2. Matched(r) = {o \in Common \ todo[r] : Good(o)}
    BY <1>3 DEF SpaceAt
  <2>3. Matched(r)' = {o \in Common' \ todo'[r] :
                          Reachable(o)' /\ HasRoom(o)' /\ ScoreAt(o)' >= 0}
    <3> HIDE DEF Good
    <3>1. Matched(r)' = {o \in Common \ todo[r] : Good(o)}
      BY <2>1, <2>2
    <3>2. QED
      BY <1>0, <1>3, <3>1, InputFrame DEF Good
  <2>4. Reachable(p)' = Reachable(p) /\ UrisAt(p)' = UrisAt(p)
        /\ NeedAt(p, r)' = NeedAt(p, r)
    BY <1>0, InputFrame
  <2>5. IsLowest(UrisAt(p), r)' = IsLowest(UrisAt(p), r)
    BY <2>4 DEF IsLowest, Sharers
  <2>6. pc'[r] # "regroup" => Reachable(p)' \/ pc'[r] = "statvfs"
    BY <1>3, <2>4 DEF Judging
  <2>7. pc'[r] = "statvfs" =>
          rc'[r] = IF IsLowest(UrisAt(p), r)' /\ room'[server'[r][p]] = Unavailable
                   THEN -1 ELSE 0
    BY <1>0, <1>3, <2>5
  <2>8. /\ pc'[r] = "space" => groupNeed'[r] = NeedAt(p, r)'
        /\ pc'[r] = "fits" => rc'[r] = IF room'[server'[r][p]] >= NeedAt(p, r)'
                                       THEN 0 ELSE 1
    BY <1>0, <1>3, <2>4
  <2>9. QED
    BY <1>3, <2>1, <2>3, <2>6, <2>7, <2>8 DEF SpaceAt, In
<1>4. CASE Statvfs(r)
  <2>1. /\ pc[r] = "regroup" /\ ready[r] /\ pc'[r] = "statvfs" /\ ready'[r] = FALSE
        /\ UNCHANGED <<todo, match>>
        /\ rc'[r] = IF IsRep(object[r].info) /\ room[UriOf(r)] = Unavailable THEN -1 ELSE 0
    BY <1>4, GoesOn DEF Statvfs, In, PerRank
  <2>2. object[r] = StatusAt(p, r) /\ p \in Path
    BY <2>1, JudgedStatus DEF In
  <2>3. IsRep(object[r].info) <=> IsLowest(UrisAt(p), r)
    BY <2>2, RepIsLowest
  <2>4. UriOf(r) = server[r][p]
    BY DEF UriOf
  <2>5. rc'[r] = IF IsLowest(UrisAt(p), r) /\ room[server[r][p]] = Unavailable
                 THEN -1 ELSE 0
    BY <2>1, <2>3, <2>4
  <2>6. QED
    BY <1>3, <2>1, <2>5 DEF Judging
<1>5. CASE StatvfsFailed(r)
  <2>1. pc[r] = "statvfs" /\ ready[r] /\ got[r][1] # 0 /\ Score(r, -1)
    BY <1>5 DEF StatvfsFailed, In
  <2>2. ~Reachable(p)
    BY <2>1 DEF SpaceAt, In
  <2>3. QED
    BY <2>1, <2>2, ScoreSpace DEF Judging
<1>6. CASE StatvfsGood(r)
  <2>1. /\ pc[r] = "statvfs" /\ ready[r] /\ got[r][1] = 0 /\ pc'[r] = "needs"
        /\ ready'[r] = FALSE /\ UNCHANGED <<todo, match>>
    BY <1>6, GoesOn DEF StatvfsGood, In, locals
  <2>2. Reachable(p)
    BY <2>1 DEF SpaceAt, In
  <2>3. QED
    BY <1>3, <2>1, <2>2 DEF Judging
<1>7. CASE Needed(r)
  <2>1. /\ pc[r] = "needs" /\ ready[r] /\ pc'[r] = "space"
        /\ ready'[r] = FALSE /\ UNCHANGED <<todo, match>>
        /\ groupNeed'[r] = got[r][2]
    BY <1>7, GoesOn DEF Needed, In, PerRank
  <2>2. Reachable(p) /\ got[r][2] = NeedAt(p, r)
    BY <2>1 DEF SpaceAt, In
  <2>3. QED
    BY <1>3, <2>1, <2>2 DEF Judging
<1>8. CASE Fits(r)
  <2>1. /\ pc[r] = "space" /\ ready[r] /\ pc'[r] = "fits"
        /\ ready'[r] = FALSE /\ UNCHANGED <<todo, match>>
        /\ rc'[r] = IF got[r][1] >= groupNeed[r] THEN 0 ELSE 1
    BY <1>8, GoesOn DEF Fits, In, PerRank
  <2>2. /\ Reachable(p) /\ groupNeed[r] = NeedAt(p, r)
        /\ got[r][1] = room[server[r][p]]
    BY <2>1 DEF SpaceAt, In
  <2>3. QED
    BY <1>3, <2>1, <2>2 DEF Judging
<1>9. CASE Scored(r)
  <2> DEFINE s == IF got[r][1] = 0 THEN ScoreAt(p) ELSE -1
  <2>1. pc[r] = "fits" /\ ready[r] /\ pc[r] \in Judging
    BY <1>9 DEF Scored, In, Judging
  <2>2. ScoreStorage(props[r][Current(r)], Degree(r)) = ScoreAt(p)
    BY <2>1, JudgedFacts
  <2>3. Score(r, s)
    BY <1>9, <2>2 DEF Scored
  <2>4. Reachable(p) /\ (got[r][1] = 0 <=> HasRoom(p))
    BY <2>1 DEF SpaceAt, In
  <2>5. s \in {-1, ScoreAt(p)} /\ (s >= 0 <=> Reachable(p) /\ HasRoom(p) /\ ScoreAt(p) >= 0)
    BY <2>4
  <2> HIDE DEF s
  <2>6. QED
    BY <2>1, <2>3, <2>5, ScoreSpace
<1>10. QED
  BY <1>1, <1>2, <1>4, <1>5, <1>6, <1>7, <1>8, <1>9 DEF Local

(* Collectives that give a result keep what is known of the space, where   *)
(* the result is what it should be.                                        *)
LEMMA ResultSpace ==
  ASSUME NEW r \in Rank, SpaceAt(r), ~ready[r], NEW p, p = Current(r),
         UNCHANGED <<input, pc, todo, rc, groupNeed, match>>,
         pc[r] = "statvfs" => (got'[r][1] = 0 <=> Reachable(p)),
         pc[r] = "needs" => got'[r][2] = NeedAt(p, r),
         pc[r] = "space" => got'[r][1] = room[server[r][p]],
         pc[r] = "fits" => (got'[r][1] = 0 <=> HasRoom(p))
  PROVE  SpaceAt(r)'
<1>1. /\ Current(r)' = p /\ Matched(r)' = Matched(r) /\ room' = room /\ server' = server
      /\ pc' = pc /\ todo' = todo /\ rc' = rc /\ groupNeed' = groupNeed
  BY DEF Current, Matched, input
<1>2. /\ Reachable(p)' = Reachable(p) /\ UrisAt(p)' = UrisAt(p)
      /\ NeedAt(p, r)' = NeedAt(p, r) /\ HasRoom(p)' = HasRoom(p)
  BY InputFrame
<1>3. IsLowest(UrisAt(p), r)' = IsLowest(UrisAt(p), r)
  BY <1>2 DEF IsLowest, Sharers
<1> DEFINE Good(o) == Reachable(o) /\ HasRoom(o) /\ ScoreAt(o) >= 0
<1>4. pc[r] \in Judging \cup {"done"} =>
        Matched(r)' = {o \in Common' \ todo'[r] :
                         Reachable(o)' /\ HasRoom(o)' /\ ScoreAt(o)' >= 0}
  <2>1. pc[r] \in Judging \cup {"done"} =>
          Matched(r) = {o \in Common \ todo[r] : Good(o)}
    BY DEF SpaceAt
  <2> HIDE DEF Good
  <2>2. QED
    BY <1>1, <2>1, InputFrame DEF Good
<1> HIDE DEF Good
<1>5. /\ pc'[r] = "statvfs" =>
           rc'[r] = IF IsLowest(UrisAt(p), r)' /\ room'[server'[r][p]] = Unavailable
                    THEN -1 ELSE 0
      /\ pc'[r] \in {"needs", "space", "fits"} => Reachable(p)'
      /\ pc'[r] = "space" => groupNeed'[r] = NeedAt(p, r)'
      /\ pc'[r] = "fits" => rc'[r] = IF room'[server'[r][p]] >= NeedAt(p, r)'
                                     THEN 0 ELSE 1
  BY <1>1, <1>2, <1>3 DEF SpaceAt
<1>6. /\ pc'[r] = "statvfs" => (got'[r][1] = 0 <=> Reachable(p)')
      /\ pc'[r] = "needs" => got'[r][2] = NeedAt(p, r)'
      /\ pc'[r] = "space" => got'[r][1] = room'[server'[r][p]]
      /\ pc'[r] = "fits" => (got'[r][1] = 0 <=> HasRoom(p)')
  BY <1>1, <1>2
<1>7. QED
  BY <1>1, <1>4, <1>5, <1>6 DEF SpaceAt, In

(* The sum of what statvfs returned is 0 if and only if all servers        *)
(* answered: no error can cancel another, as errors have one sign.         *)
LEMMA SumTellsAnswers ==
  ASSUME NEW p, \A q \in Rank : rc[q] = IF IsLowest(UrisAt(p), q)
                                            /\ room[server[q][p]] = Unavailable
                                        THEN -1 ELSE 0
  PROVE  SumOver(Rank, rc) = 0 <=> Reachable(p)
<1>1. \A q \in Rank : rc[q] \in Int /\ rc[q] <= 0
  OBVIOUS
<1>2. SumOver(Rank, rc) = 0 <=> \A q \in Rank : rc[q] = 0
  BY <1>1, RankZero, SumOfErrors
<1>3. (\A q \in Rank : rc[q] = 0) <=>
        \A q \in Rank : ~(IsLowest(UrisAt(p), q) /\ room[server[q][p]] = Unavailable)
  OBVIOUS
<1>4. QED
  BY <1>2, <1>3, AllAnswer

(* What collectives tell of the space is right of every server.            *)
LEMMA WorldSpace ==
  ASSUME NoAliases, DataInv, SpaceOK, World
  PROVE  SpaceOK'
<1>1. InputsOK /\ PerRank /\ \A r \in Rank : RankOK(r) /\ SpaceAt(r)
  BY DEF DataInv, SpaceOK
<1>2. /\ UNCHANGED <<input, pc, rc, groupNeed, match>>
      /\ \A r \in Rank : ~ready[r]
  BY <1>1, WorldStep
<1>3. CASE List
  BY <1>2, <1>3, SpaceNotYet DEF List, Collective, SpaceOK
<1>4. CASE Grouping \/ Traits
  <2>1. todo' = todo /\ \A r \in Rank : pc[r] \in {"survey", "regroup", "traits"}
    BY <1>4 DEF Grouping, Traits, Collective, locals
  <2>2. ASSUME NEW r \in Rank PROVE SpaceAt(r)'
    <3>1. PICK p : p = Current(r)
      OBVIOUS
    <3>2. QED
      BY <1>1, <1>2, <2>1, <3>1, ResultSpace
  <2>3. QED
    BY <2>2 DEF SpaceOK
<1>5. CASE SumRc
  <2>1. Collective("statvfs", Everywhere(<<SumOver(Rank, rc)>>)) /\ todo' = todo
    BY <1>5 DEF SumRc, locals
  <2>2. PICK p \in Path : \A r \in Rank : Current(r) = p
    BY <1>1, <2>1, TogetherAt DEF Judging
  <2>3. \A r \in Rank : pc[r] = "statvfs" /\ got'[r][1] = SumOver(Rank, rc)
    BY <2>1 DEF Collective, Everywhere
  <2>4. SumOver(Rank, rc) = 0 <=> Reachable(p)
    BY <1>1, <2>2, <2>3, SumTellsAnswers DEF SpaceAt
  <2>5. QED
    BY <1>1, <1>2, <2>1, <2>2, <2>3, <2>4, ResultSpace DEF SpaceOK
<1>6. CASE Needs
  <2>1. /\ todo' = todo
        /\ Collective("needs", [r \in Rank |-> <<SumOver(Rank, Requirement) % Word,
                                                 SumOver(Group(r), Requirement) % Word>>])
    BY <1>6 DEF Needs, locals
  <2>2. PICK p \in Path : \A r \in Rank : Current(r) = p
    BY <1>1, <2>1, TogetherAt DEF Judging
  <2>3. \A r \in Rank : pc[r] = "needs" /\ got'[r][2] = SumOver(Group(r), Requirement) % Word
    BY <2>1 DEF Collective
  <2>4. \A q \in Rank : object[q].info = GroupInfoAt(UrisAt(p), q)
    <3>1. \A q \in Rank : object[q] = StatusAt(p, q)
      BY <1>1, <2>2, <2>3, JudgedStatus DEF Judging
    <3>2. QED
      BY <3>1, StatusInfo
  <2>5. \A r \in Rank : Group(r) = Sharers(UrisAt(p), r)
    BY <1>1, <2>4, UrisType, GroupIsSharers
  <2>6. \A r \in Rank : got'[r][2] = NeedAt(p, r)
    BY <2>3, <2>5 DEF NeedAt
  <2>7. QED
    BY <1>1, <1>2, <2>1, <2>2, <2>3, <2>6, ResultSpace DEF SpaceOK
<1>7. CASE Space
  <2>1. PICK garbage \in 0 .. Word - 1 :
          Collective("space",
            [r \in Rank |-> <<IF IsRep(object[Root(r)].info)
                              THEN room[UriOf(Root(r))] ELSE garbage>>])
    BY <1>7 DEF Space
  <2>2. PICK p \in Path : \A r \in Rank : Current(r) = p
    BY <1>1, <2>1, TogetherAt DEF Judging
  <2>3. /\ todo' = todo
        /\ \A r \in Rank : /\ pc[r] = "space"
                           /\ got'[r][1] = IF IsRep(object[Root(r)].info)
                                           THEN room[UriOf(Root(r))] ELSE garbage
    BY <1>7, <2>1 DEF Space, locals, Collective
  <2>4. \A q \in Rank : object[q] = StatusAt(p, q)
    BY <1>1, <2>2, <2>3, JudgedStatus DEF Judging
  <2>5. \A q \in Rank : object[q].info = GroupInfoAt(UrisAt(p), q)
    BY <2>4, StatusInfo
  <2>6. ASSUME NEW r \in Rank PROVE got'[r][1] = room[server[r][p]]
    <3>1. Root(r) \in Sharers(UrisAt(p), r) /\ IsLowest(UrisAt(p), Root(r))
      BY <1>1, <2>5, UrisType, GroupIsSharers
    <3>2. Root(r) \in Rank /\ server[Root(r)][p] = server[r][p]
      BY <3>1 DEF Sharers, UrisAt
    <3>3. IsRep(object[Root(r)].info)
      BY <1>1, <2>4, <3>1, <3>2, RepIsLowest
    <3>4. UriOf(Root(r)) = server[r][p]
      BY <2>2, <3>2 DEF UriOf
    <3>5. QED
      BY <2>3, <3>3, <3>4
  <2>7. QED
    BY <1>1, <1>2, <2>2, <2>3, <2>6, ResultSpace DEF SpaceOK
<1>8. CASE Verdict
  <2>1. /\ todo' = todo
        /\ Collective("fits", Everywhere(<<IF \E r \in Rank : rc[r] = 1 THEN 1 ELSE 0>>))
    BY <1>8 DEF Verdict, locals
  <2>2. PICK p \in Path : \A r \in Rank : Current(r) = p
    BY <1>1, <2>1, TogetherAt DEF Judging
  <2>3. \A r \in Rank : /\ pc[r] = "fits"
                        /\ got'[r][1] = IF \E q \in Rank : rc[q] = 1 THEN 1 ELSE 0
    BY <2>1 DEF Collective, Everywhere
  <2>4. \A q \in Rank : rc[q] = IF room[server[q][p]] >= NeedAt(p, q) THEN 0 ELSE 1
    BY <1>1, <2>2, <2>3 DEF SpaceAt
  <2>5. \A q \in Rank : room[server[q][p]] \in Int /\ NeedAt(p, q) \in Int
    <3>1. ASSUME NEW q \in Rank PROVE NeedAt(p, q) \in Int
      <4>1. Sharers(UrisAt(p), q) \in SUBSET Rank
        BY DEF Sharers
      <4>2. SumOver(Sharers(UrisAt(p), q), Requirement) % Word \in 0 .. Word - 1
        BY <4>1, ResultTypes
      <4>3. QED
        BY <4>2, ClassifierAssumption DEF NeedAt
    <3>2. ASSUME NEW q \in Rank PROVE room[server[q][p]] \in Int
      BY <1>1, RoomType, ClassifierAssumption DEF Unavailable
    <3>3. QED
      BY <3>1, <3>2
  <2>6. (\E q \in Rank : rc[q] = 1) <=> ~HasRoom(p)
    BY <2>4, <2>5 DEF HasRoom
  <2>7. QED
    BY <1>1, <1>2, <2>1, <2>2, <2>3, <2>6, ResultSpace DEF SpaceOK
<1>9. QED
  BY <1>3, <1>4, <1>5, <1>6, <1>7, <1>8 DEF World

(* At the start nothing is known of the space.                             *)
LEMMA SpaceInit == Init => SpaceOK
<1> SUFFICES ASSUME Init, NEW r \in Rank PROVE SpaceAt(r)
  BY DEF SpaceOK
<1>1. pc[r] = "list"
  BY DEF Init
<1>2. QED
  BY <1>1 DEF SpaceAt, In, Judging

(* Every step keeps what is known of the space.                            *)
LEMMA SpaceStep == NoAliases /\ DataInv /\ SpaceOK /\ [Next]_vars => SpaceOK'
<1> SUFFICES ASSUME NoAliases, DataInv, SpaceOK, [Next]_vars PROVE SpaceOK'
  OBVIOUS
<1>1. InputsOK /\ PerRank /\ \A r \in Rank : RankOK(r) /\ SpaceAt(r)
  BY DEF DataInv, SpaceOK
<1>2. CASE World
  BY <1>2, WorldSpace
<1>3. ASSUME NEW r \in Rank, Local(r) PROVE SpaceOK'
  <2>1. UNCHANGED input /\ \A q \in Rank \ {r} : Same(q)
    BY <1>1, <1>3, OwnStep
  <2>2. SpaceAt(r)'
    BY <1>1, <1>3, LocalSpace
  <2>3. \A q \in Rank \ {r} : SpaceAt(q)'
    BY <1>1, <2>1, SpaceFrame
  <2>4. QED
    BY <2>2, <2>3 DEF SpaceOK
<1>4. CASE UNCHANGED vars
  <2>1. UNCHANGED input /\ \A q \in Rank : Same(q)
    BY <1>4 DEF vars, locals, Same
  <2>2. QED
    BY <1>1, <2>1, SpaceFrame DEF SpaceOK
<1>5. QED
  BY <1>2, <1>3, <1>4 DEF Next

(* So it is always right, where no two URIs name one server.               *)
LEMMA SpaceAlways ==
  ASSUME NoAliases
  PROVE  Spec => [](DataInv /\ SpaceOK)
BY DataInit, DataStep, SpaceInit, SpaceStep, PTL DEF Spec

-----------------------------------------------------------------------------
(* What the processes of a server want of it, and what the fabric summed.  *)

(* What is summed is what is wanted, but for the width of the word.        *)
LEMMA WantedIsSummed ==
  ASSUME NoAliases, DataInv, NEW p \in Path, NEW q \in Rank
  PROVE  /\ Wanted(p, server[q][p]) = SumOver(Sharers(UrisAt(p), q), need)
         /\ Wanted(p, server[q][p]) \in Int
         /\ NeedAt(p, q) = Wanted(p, server[q][p]) % Word
<1> DEFINE S == Sharers(UrisAt(p), q)
<1>1. \A o \in Rank : server[o][p] \in Uri
  BY DEF DataInv, InputsOK
<1>2. Users(p, server[q][p]) = S
  <2>1. \A o \in Rank : SameServer(server[o][p], server[q][p]) <=>
                        server[o][p] = server[q][p]
    BY <1>1 DEF SameServer, NoAliases
  <2>2. QED
    BY <2>1 DEF Users, Sharers, UrisAt
<1>3. S \in SUBSET Rank /\ IsFiniteSet(S)
  BY RankZero, FS_Subset DEF Sharers
<1>4. \A o \in S : need[o] \in Int /\ Requirement[o] = need[o] % Word
  BY <1>3, ClassifierAssumption DEF DataInv, InputsOK, Requirement
<1>5. SumOver(S, Requirement) % Word = SumOver(S, need) % Word
  BY <1>3, <1>4, ClassifierAssumption, SumOfRemainders
<1>6. SumOver(S, need) \in Int
  BY <1>3, <1>4, SumType
<1>7. QED
  BY <1>2, <1>5, <1>6 DEF Wanted, NeedAt

(* A number below the modulus is its own remainder.                        *)
LEMMA SmallRemainder ==
  ASSUME NEW w \in Nat \ {0}, NEW x \in 0 .. w - 1
  PROVE  x % w = x
OBVIOUS

(* Matches have been found to have the space.                              *)
LEMMA MatchedHasRoom ==
  ASSUME DataInv, SpaceOK, NEW r \in Rank, NEW p \in Matched(r)
  PROVE  p \in Common /\ Reachable(p) /\ HasRoom(p)
<1>1. MatchAt(r) /\ SpaceAt(r)
  BY DEF DataInv, RankOK, SpaceOK
<1>2. pc[r] \in Judging \cup {"done"}
  BY <1>1 DEF MatchAt, Matched
<1>3. QED
  BY <1>1, <1>2 DEF SpaceAt

(* What fits in the word and was found to have room has it.                *)
LEMMA SpaceIsRight == NoAliases /\ SumsFit /\ DataInv /\ SpaceOK => SpaceRight
<1> SUFFICES ASSUME NoAliases, SumsFit, DataInv, SpaceOK,
                    NEW r \in Rank, NEW q \in Rank, NEW p \in Matched(r)
             PROVE  Wanted(p, server[q][p]) <= room[server[q][p]]
  BY DEF SpaceRight
<1>1. p \in Path /\ Reachable(p) /\ HasRoom(p)
  BY MatchedHasRoom DEF Common
<1> DEFINE W == Wanted(p, server[q][p])
           space == room[server[q][p]]
<1>2. W \in Int /\ NeedAt(p, q) = W % Word /\ W < Word
  <2>1. W = SumOver(Sharers(UrisAt(p), q), need) /\ W \in Int /\ NeedAt(p, q) = W % Word
    BY <1>1, WantedIsSummed
  <2>2. SumOver(Sharers(UrisAt(p), q), need) < Word
    BY DEF SumsFit, DataInv, InputsOK, Sharers
  <2>3. QED
    BY <2>1, <2>2
<1>3. NeedAt(p, q) <= space
  BY <1>1 DEF HasRoom
<1>4. space \in 0 .. Word - 1
  BY <1>1, RoomType DEF Reachable, DataInv
<1> HIDE DEF W, space
<1>5. CASE W >= 0
  <2>1. W \in 0 .. Word - 1
    BY <1>2, <1>5, ClassifierAssumption
  <2>2. NeedAt(p, q) = W
    BY <1>2, <2>1, SmallRemainder, ClassifierAssumption
  <2>3. QED
    BY <1>3, <2>2 DEF W, space
<1>6. CASE W < 0
  <2>1. W <= space
    BY <1>2, <1>4, <1>6, ClassifierAssumption
  <2>2. QED
    BY <2>1 DEF W, space
<1>7. QED
  BY <1>2, <1>5, <1>6

(* A mount point whose servers all have what is wanted matches.            *)
LEMMA SpaceIsOffered == NoAliases /\ DataInv /\ SpaceOK => NotWithheld
<1> SUFFICES ASSUME NoAliases, DataInv, SpaceOK, Returned, RequireNone, NEW p \in Path,
                    \A q \in Rank : /\ p \in mounts[q]
                                    /\ room[server[q][p]] # Unavailable
                                    /\ Wanted(p, server[q][p]) \in 0 .. room[server[q][p]],
                    NEW r \in Rank
             PROVE  p \in Matched(r)
  BY DEF NotWithheld
<1>1. p \in Common /\ Reachable(p)
  BY DEF Common, Reachable
<1>2. ASSUME NEW q \in Rank PROVE NeedAt(p, q) <= room[server[q][p]]
  <2> DEFINE W == Wanted(p, server[q][p])
             space == room[server[q][p]]
  <2>1. space \in 0 .. Word - 1 /\ W \in 0 .. space
    BY RoomType DEF DataInv
  <2>2. NeedAt(p, q) = W % Word
    BY WantedIsSummed
  <2> HIDE DEF W, space
  <2>3. W \in 0 .. Word - 1 /\ W <= space
    BY <2>1, ClassifierAssumption
  <2>4. NeedAt(p, q) = W
    BY <2>2, <2>3, SmallRemainder, ClassifierAssumption
  <2>5. QED
    BY <2>3, <2>4 DEF space
<1>3. HasRoom(p)
  BY <1>2 DEF HasRoom
<1>4. ScoreAt(p) >= 0
  BY ScoreType DEF DataInv
<1>5. pc[r] = "done" /\ todo[r] = {}
  BY DEF Returned, DataInv, RankOK, ListAt
<1>6. QED
  BY <1>1, <1>3, <1>4, <1>5 DEF SpaceOK, SpaceAt

(* On an offered mount point every server has the space that the processes *)
(* that use it need together, where the sums are within a word and no two  *)
(* URIs name one server (StorageClassifier.C:211-365).                     *)
THEOREM SpaceIsThere ==
  ASSUME NoAliases, SumsFit
  PROVE  Spec => []SpaceRight
BY SpaceAlways, SpaceIsRight, PTL

(* Nothing that has the space is withheld for it, whatever the width of    *)
(* the word (StorageClassifier.C:211-365).                                 *)
THEOREM SpaceIsNotWithheld ==
  ASSUME NoAliases
  PROVE  Spec => []NotWithheld
BY SpaceAlways, SpaceIsOffered, PTL

-----------------------------------------------------------------------------
(* The criteria.                                                           *)

(* The filter tells few URIs from many: no two servers' bits coincide so   *)
(* far that the estimate falls on the other side of the limit.             *)
EstimateSeparates ==
  \A uris \in [Rank -> Uri] :
    Estimate(PopCount(Filter(uris))) <= Limit <=>
      Cardinality({uris[r] : r \in Rank}) <= Limit

(* What the classification tells of a mount point is so of its servers.    *)
LEMMA ToldIsSo ==
  ASSUME InputsOK, NEW p \in Path
  PROVE  LET servers == {server[q][p] : q \in Rank}
         IN  /\ \A u \in servers : /\ Told(p).speed <= Speed[u]
                                   /\ Told(p).scal <= Scal[u]
             /\ \E u \in servers : Told(p).speed = Speed[u]
             /\ \E u \in servers : Told(p).scal = Scal[u]
             /\ Told(p).unique => \A u, v \in servers : SameServer(u, v)
             /\ EstimateSeparates /\ Told(p).poorly => N >= Threshold * Cardinality(servers)
             /\ EstimateSeparates /\ ~Told(p).poorly =>
                  N < Threshold * Cardinality(servers) \/ servers \cap Remote = {}
<1> DEFINE servers == {server[q][p] : q \in Rank}
           c == Cardinality(servers)
<1>1. UrisAt(p) \in [Rank -> Uri] /\ servers = {UrisAt(p)[q] : q \in Rank}
  BY UrisType DEF UrisAt
<1>2. c \in 0 .. N /\ c # 0
  <2>1. IsFiniteSet(servers) /\ c \in 0 .. N
    BY <1>1, FewUris
  <2>2. server[0][p] \in servers
    BY RankZero
  <2>3. QED
    BY <2>1, <2>2, FS_EmptySet
<1>3. /\ \A u \in servers : Told(p).speed <= Speed[u] /\ Told(p).scal <= Scal[u]
      /\ \E u \in servers : Told(p).speed = Speed[u]
      /\ \E u \in servers : Told(p).scal = Scal[u]
  <2>1. Told(p).speed = LeastAt(p, Speed) /\ Told(p).scal = LeastAt(p, Scal)
    BY DEF Told
  <2>2. Speed \in [Uri -> Nat \ {0}] /\ Scal \in [Uri -> Nat \ {0}]
    BY ClassifierAssumption
  <2>3. /\ \A r \in Rank : LeastAt(p, Speed) <= Speed[server[r][p]]
        /\ \E r \in Rank : LeastAt(p, Speed) = Speed[server[r][p]]
    BY <2>2, LeastFacts
  <2>4. /\ \A r \in Rank : LeastAt(p, Scal) <= Scal[server[r][p]]
        /\ \E r \in Rank : LeastAt(p, Scal) = Scal[server[r][p]]
    BY <2>2, LeastFacts
  <2>5. QED
    BY <2>1, <2>3, <2>4
<1>4. ASSUME Told(p).unique PROVE \A u, v \in servers : SameServer(u, v)
  <2>1. GroupsAt(p) = 1
    BY <1>4 DEF Told
  <2>2. CASE AliasDetected(UriMap(UrisAt(p)))
    BY <1>1, <2>2, EliminatedFacts
  <2>3. CASE ~AliasDetected(UriMap(UrisAt(p)))
    <3>1. IsSingleGroup(GroupInfoAt(UrisAt(p), 0))
      BY <2>1, GroupsTold DEF IsSingleGroup
    <3>2. IsOneUri(UrisAt(p))
      BY <1>1, <2>3, <3>1, RankZero, GroupInfoFacts
    <3>3. QED
      BY <1>1, <3>2 DEF IsOneUri, SameServer
  <2>4. QED
    BY <2>2, <2>3
<1>5. /\ N \in Nat \ {0} /\ Threshold \in Nat \ {0} /\ Limit = N \div Threshold
      /\ Limit \in Nat
  BY BaseAssumption, LimitType DEF Limit
<1>6. Told(p).poorly <=> EstimateAt(p) <= Limit
  BY DEF Told
<1>7. c <= Limit <=> Threshold * c <= N
  <2> HIDE DEF c
  <2>1. N = Threshold * Limit + (N % Threshold) /\ N % Threshold \in 0 .. Threshold - 1
    BY <1>5
  <2>2. c \in Nat
    BY <1>2, <1>5
  <2>3. CASE c <= Limit
    <3>1. Threshold * c <= Threshold * Limit
      BY <1>5, <2>2, <2>3
    <3>2. QED
      BY <1>5, <2>1, <2>2, <2>3, <3>1
  <2>4. CASE c >= Limit + 1
    <3>1. Threshold * c >= Threshold * (Limit + 1)
      BY <1>5, <2>2, <2>4
    <3>2. Threshold * (Limit + 1) = Threshold * Limit + Threshold
      BY <1>5
    <3>3. QED
      BY <1>5, <2>1, <2>2, <2>4, <3>1, <3>2
  <2>5. QED
    BY <1>5, <2>2, <2>3, <2>4
<1>8. CASE RemoteAt(p) /\ Limit > 0
  <2>1. EstimateAt(p) = Estimate(PopCount(Filter(UrisAt(p))))
    BY <1>8 DEF EstimateAt, CardinalityEst
  <2>2. EstimateSeparates => (EstimateAt(p) <= Limit <=> c <= Limit)
    BY <1>1, <2>1 DEF EstimateSeparates
  <2>3. Threshold * c \in Nat
    BY <1>2, <1>5
  <2> HIDE DEF c, servers
  <2>4. /\ EstimateSeparates /\ Told(p).poorly => N >= Threshold * c
        /\ EstimateSeparates /\ ~Told(p).poorly => N < Threshold * c
    BY <1>5, <1>6, <1>7, <2>2, <2>3
  <2>5. QED
    BY <1>3, <1>4, <2>4 DEF c, servers
<1>9. CASE ~(RemoteAt(p) /\ Limit > 0)
  <2>1. EstimateAt(p) = N
    BY <1>9 DEF EstimateAt, CardinalityEst
  <2>2. Told(p).poorly => N >= Threshold * c
    BY <1>2, <1>5, <1>6, <1>7, <2>1
  <2>3. ~Told(p).poorly => N < Threshold * c \/ servers \cap Remote = {}
    <3>1. CASE Limit = 0
      <4>1. ~(c <= Limit)
        BY <1>2, <1>5, <3>1
      <4>2. Threshold * c \in Nat
        BY <1>2, <1>5
      <4>3. QED
        BY <1>5, <1>7, <4>1, <4>2
    <3>2. CASE ~RemoteAt(p)
      BY <3>2 DEF RemoteAt
    <3>3. QED
      BY <1>5, <1>9, <3>1, <3>2
  <2>4. QED
    BY <1>3, <1>4, <2>2, <2>3
<1>10. QED
  BY <1>8, <1>9

(* What matches meets the criteria.                                        *)
LEMMA MatchIsMet == EstimateSeparates /\ DataInv => MeetsCriteria
<1> SUFFICES ASSUME EstimateSeparates, DataInv, NEW r \in Rank, NEW p \in Matched(r)
             PROVE
    LET servers == {server[q][p] : q \in Rank}
    IN  /\ criteria.speed = "low" => \E u \in servers : Speed[u] = BaseSpeed
        /\ criteria.speed = "high" => \A u \in servers : Speed[u] > BaseSpeed
        /\ criteria.scal = "single" => \E u \in servers : Scal[u] = BaseScal
        /\ criteria.scal = "multi" => \A u \in servers : Scal[u] > BaseScal
        /\ criteria.dist = "unique" => \A u, v \in servers : SameServer(u, v)
        /\ criteria.dist = "low" => N >= Threshold * Cardinality(servers)
        /\ criteria.dist = "high" => N < Threshold * Cardinality(servers)
                                       \/ servers \cap Remote = {}
  BY DEF MeetsCriteria
<1>1. p \in Path /\ ScoreAt(p) >= 0
  <2>1. PICK m \in match[r] : p = m.path
    BY DEF Matched
  <2>2. m.score \in Nat /\ m.score = ScoreAt(p)
    BY <2>1 DEF DataInv, RankOK, OwnType, MatchAt
  <2>3. p \in Common
    BY DEF DataInv, RankOK, MatchAt
  <2>4. QED
    BY <2>2, <2>3 DEF Common
<1>2. CASE RequireNone
  BY <1>2 DEF RequireNone
<1>3. CASE ~RequireNone
  <2>1. Met(Told(p))
    BY <1>1, <1>3, ScoreType DEF DataInv
  <2>2. /\ criteria.speed = "low" => Told(p).speed = BaseSpeed
        /\ criteria.speed = "high" => Told(p).speed > BaseSpeed
        /\ criteria.scal = "single" => Told(p).scal = BaseScal
        /\ criteria.scal = "multi" => Told(p).scal > BaseScal
        /\ criteria.dist = "unique" => Told(p).unique
        /\ criteria.dist = "low" => Told(p).poorly
        /\ criteria.dist = "high" => ~Told(p).poorly
    BY <2>1 DEF Met
  <2> DEFINE servers == {server[q][p] : q \in Rank}
  <2>3. /\ Told(p).speed \in Nat /\ Told(p).scal \in Nat
        /\ BaseSpeed \in Nat /\ BaseScal \in Nat
    BY <1>1, LeastFacts, ClassifierAssumption DEF DataInv, Told
  <2>4. \A u \in servers : Speed[u] \in Nat /\ Scal[u] \in Nat
    BY <1>1, ClassifierAssumption DEF DataInv, InputsOK
  <2>5. /\ \A u \in servers : /\ Told(p).speed <= Speed[u]
                              /\ Told(p).scal <= Scal[u]
        /\ \E u \in servers : Told(p).speed = Speed[u]
        /\ \E u \in servers : Told(p).scal = Scal[u]
        /\ Told(p).unique => \A u, v \in servers : SameServer(u, v)
        /\ Told(p).poorly => N >= Threshold * Cardinality(servers)
        /\ ~Told(p).poorly => N < Threshold * Cardinality(servers)
                                \/ servers \cap Remote = {}
    BY <1>1, ToldIsSo DEF DataInv
  <2> HIDE DEF servers
  <2>6. /\ criteria.speed = "low" => \E u \in servers : Speed[u] = BaseSpeed
        /\ criteria.speed = "high" => \A u \in servers : Speed[u] > BaseSpeed
        /\ criteria.scal = "single" => \E u \in servers : Scal[u] = BaseScal
        /\ criteria.scal = "multi" => \A u \in servers : Scal[u] > BaseScal
    BY <2>2, <2>3, <2>4, <2>5
  <2>7. QED
    BY <2>2, <2>5, <2>6 DEF servers
<1>4. QED
  BY <1>2, <1>3

(* An offered mount point is what the criteria ask for, with aliases too,  *)
(* as far as the Bloom filter separates few servers from many              *)
(* (StorageClassifier.C:524-623, MountPointsClassifier.C:351-396).         *)
THEOREM CriteriaAreMet ==
  ASSUME EstimateSeparates
  PROVE  Spec => []MeetsCriteria
BY DataAlways, MatchIsMet, PTL
=============================================================================
