----------------------- MODULE FileStatusBase_lemmas -----------------------
(***************************************************************************)
(* What the operators of FileStatusBase return: how full the Bloom filter  *)
(* gets, and what the grouping tells a process, for every assignment of    *)
(* URIs to processes.                                                      *)
(***************************************************************************)
EXTENDS FileStatusBase, DistDesc_lemmas

(* The threshold of the number of groups is a number.                      *)
LEMMA LimitType == Limit \in Nat
BY BaseAssumption DEF Limit

-----------------------------------------------------------------------------
(* The size of the filter.                                                 *)

(* Rounding up to a multiple never gives less than the number.             *)
LEMMA CeilDivBound ==
  ASSUME NEW a \in Nat, NEW b \in Nat \ {0}
  PROVE  CeilDiv(a, b) \in Nat /\ a <= b * CeilDiv(a, b)
<1> DEFINE x == a + b - 1
<1>1. x \in Nat /\ x \div b \in Nat /\ x % b \in 0 .. b-1
  OBVIOUS
<1>2. x = b * (x \div b) + (x % b)
  OBVIOUS
<1>3. b * (x \div b) \in Nat
  BY <1>1
<1>4. QED
  BY <1>1, <1>2, <1>3 DEF CeilDiv

(* The number of elements the filter is made for.                          *)
Elements == IF MaxDegree = 0 THEN N ELSE MaxDegree

(* A filter for n elements has more than 2n bits.                          *)
LEMMA FilterLarge == NumBits \in Nat /\ 2 * Elements < NumBits
<1>1. Elements \in Nat \ {0}
  BY BaseAssumption DEF Elements
<1> DEFINE scaled == 2 * Elements * 1000000
<1>2. OptimalBits = CeilDiv(scaled, 693147) /\ scaled \in Nat
  BY <1>1 DEF OptimalBits, Elements
<1>3. OptimalBits \in Nat /\ scaled <= 693147 * OptimalBits
  BY <1>2, CeilDivBound
<1>4. 2 * Elements < OptimalBits
  BY <1>1, <1>3
<1>5. /\ CeilDiv(OptimalBits, WordBits) \in Nat
      /\ OptimalBits <= WordBits * CeilDiv(OptimalBits, WordBits)
  BY <1>3, BaseAssumption, CeilDivBound
<1>6. NumBits \in Nat /\ OptimalBits <= NumBits
  BY <1>5, BaseAssumption DEF NumBits
<1>7. QED
  BY <1>1, <1>3, <1>4, <1>6

(* Each hash function sets at most one bit per URI.                        *)
LEMMA BitsOfOneHash ==
  ASSUME NEW S, IsFiniteSet(S), NEW hash
  PROVE  LET bits == {hash[u] % NumBits : u \in S}
         IN  IsFiniteSet(bits) /\ Cardinality(bits) <= Cardinality(S)
<1> DEFINE bits == {hash[u] % NumBits : u \in S}
           bit == [u \in S |-> hash[u] % NumBits]
<1>1. bit \in Surjection(S, bits)
  BY DEF Surjection
<1>2. QED
  BY <1>1, FS_Surjection

(* There are no more URIs than processes.                                  *)
LEMMA FewUris ==
  ASSUME NEW uris \in [Rank -> Uri]
  PROVE  /\ IsFiniteSet({uris[r] : r \in Rank})
         /\ Cardinality({uris[r] : r \in Rank}) \in 0 .. N
<1> DEFINE used == {uris[r] : r \in Rank}
<1>1. IsFiniteSet(Rank) /\ Cardinality(Rank) = N
  BY BaseAssumption, FS_Interval DEF Rank
<1>2. uris \in Surjection(Rank, used)
  BY DEF Surjection
<1>3. QED
  BY <1>1, <1>2, FS_Surjection, FS_CardinalityType

(* The bits of a filter can be counted.                                    *)
LEMMA FilterFinite ==
  ASSUME NEW uris \in [Rank -> Uri]
  PROVE  PopCount(Filter(uris)) \in Nat
<1> DEFINE used == {uris[r] : r \in Rank}
           sax == {Sax[u] % NumBits : u \in used}
           sdbm == {Sdbm[u] % NumBits : u \in used}
<1>1. IsFiniteSet(used)
  BY FewUris
<1>2. IsFiniteSet(sax) /\ IsFiniteSet(sdbm)
  BY <1>1, BitsOfOneHash
<1>3. Filter(uris) = sax \cup sdbm
  BY DEF Filter, BloomAdd
<1> HIDE DEF sax, sdbm
<1>4. IsFiniteSet(sax \cup sdbm)
  BY <1>2, FS_Union
<1>5. QED
  BY <1>3, <1>4, FS_CardinalityType DEF PopCount

(* With no more URIs than the filter was made for some bit stays 0.        *)
LEMMA NeverFull ==
  ASSUME NEW uris \in [Rank -> Uri],
         MaxDegree > 0 => Cardinality({uris[r] : r \in Rank}) <= MaxDegree
  PROVE  PopCount(Filter(uris)) \in Nat /\ PopCount(Filter(uris)) < NumBits
<1> DEFINE used == {uris[r] : r \in Rank}
           sax == {Sax[u] % NumBits : u \in used}
           sdbm == {Sdbm[u] % NumBits : u \in used}
<1>1. IsFiniteSet(used) /\ Cardinality(used) \in Nat /\ Cardinality(used) <= Elements
  <2>1. IsFiniteSet(used) /\ Cardinality(used) \in 0 .. N
    BY FewUris
  <2>2. QED
    BY <2>1, BaseAssumption DEF Elements
<1>2. /\ IsFiniteSet(sax) /\ Cardinality(sax) <= Cardinality(used)
      /\ IsFiniteSet(sdbm) /\ Cardinality(sdbm) <= Cardinality(used)
  BY <1>1, BitsOfOneHash
<1>3. Filter(uris) = sax \cup sdbm
  BY DEF Filter, BloomAdd
<1>4. /\ IsFiniteSet(Filter(uris))
      /\ Cardinality(Filter(uris)) =
           Cardinality(sax) + Cardinality(sdbm) - Cardinality(sax \cap sdbm)
  BY <1>2, <1>3, FS_Union
<1>5. /\ Cardinality(sax) \in Nat /\ Cardinality(sdbm) \in Nat
      /\ Cardinality(sax \cap sdbm) \in Nat /\ Cardinality(Filter(uris)) \in Nat
  BY <1>2, <1>4, FS_CardinalityType, FS_Intersection
<1>6. Elements \in Nat
  BY BaseAssumption DEF Elements
<1>7. QED
  BY <1>1, <1>2, <1>4, <1>5, <1>6, FilterLarge DEF PopCount

-----------------------------------------------------------------------------
(* What grouping tells a process, where no alias is eliminated.            *)

UriMap(uris) == MapOf([q \in Rank |-> {uris[q]}], Rank)
GroupInfoAt(uris, r) == GroupInfoOf(NoGroupInfo, uris, r)

Sharers(uris, r) == {q \in Rank : uris[q] = uris[r]}
IsLowest(uris, r) == \A q \in Sharers(uris, r) : r <= q
IsOneUri(uris) == \A r \in Rank : uris[r] = uris[0]

(* The keys of the map are the URIs in use.                                *)
LEMMA UriMapKeys ==
  ASSUME NEW uris \in [Rank -> Uri]
  PROVE  /\ DOMAIN UriMap(uris) = {uris[q] : q \in Rank}
         /\ DOMAIN UriMap(uris) \subseteq Uri
<1> DEFINE lists == [q \in Rank |-> {uris[q]}]
<1>1. \A u \in Uri : Holders(lists, u, Rank) = {q \in Rank : uris[q] = u}
  BY DEF Holders
<1>2. DOMAIN UriMap(uris) = {u \in Uri : Holders(lists, u, Rank) # {}}
  BY DEF UriMap, MapOf
<1> HIDE DEF lists
<1>3. DOMAIN UriMap(uris) = {uris[q] : q \in Rank}
  BY <1>1, <1>2
<1>4. QED
  BY <1>3

(* There is one group if and only if there is one URI.                     *)
LEMMA OneKey ==
  ASSUME NEW uris \in [Rank -> Uri]
  PROVE  IsOneUri(uris) <=> Cardinality({uris[q] : q \in Rank}) = 1
<1> DEFINE used == {uris[q] : q \in Rank}
<1>1. 0 \in Rank
  BY BaseAssumption DEF Rank
<1>2. ASSUME IsOneUri(uris) PROVE Cardinality(used) = 1
  <2>1. used = {uris[0]}
    BY <1>1, <1>2 DEF IsOneUri
  <2>2. QED
    BY <2>1, FS_Singleton
<1>3. ASSUME Cardinality(used) = 1 PROVE IsOneUri(uris)
  <2>1. IsFiniteSet(used)
    BY FewUris
  <2>2. PICK u : used = {u}
    BY <1>3, <2>1, FS_Singleton
  <2>3. QED
    BY <1>1, <2>2 DEF IsOneUri
<1>4. QED
  BY <1>2, <1>3

(* Processes with one URI form a group, which the lowest of them, the only *)
(* one for which IsRep holds, represents; it also names the group.         *)
LEMMA GroupInfoFacts ==
  ASSUME NEW uris \in [Rank -> Uri], ~AliasDetected(UriMap(uris)), NEW r \in Rank
  PROVE  /\ IsGroupingDone(GroupInfoAt(uris, r))
         /\ IsSingleGroup(GroupInfoAt(uris, r)) <=> IsOneUri(uris)
         /\ IsRep(GroupInfoAt(uris, r)) <=> IsLowest(uris, r)
         /\ GroupInfoAt(uris, r).groupId \in Sharers(uris, r)
         /\ IsLowest(uris, GroupInfoAt(uris, r).groupId)
         /\ GroupInfoAt(uris, r) \in GroupInfo
         /\ r \in Sharers(uris, r)
<1> DEFINE lists == [q \in Rank |-> {uris[q]}]
           m == MapOf(lists, Rank)
           used == {uris[q] : q \in Rank}
           H == Sharers(uris, r)
           low == CHOOSE q \in H : \A p \in H : q <= p
<1>1. \A u \in Uri : Holders(lists, u, Rank) = {q \in Rank : uris[q] = u}
  BY DEF Holders
<1>2. DOMAIN m = used
  BY UriMapKeys DEF UriMap
<1>3. r \in H /\ H \subseteq Nat /\ H \subseteq Rank
  BY DEF Sharers, Rank
<1>4. \E q \in H : \A p \in H : q <= p
  BY <1>3, LowestNumber
<1>5. low \in H /\ \A p \in H : low <= p
  BY <1>4
<1>6. uris[r] \in used /\ Holders(lists, uris[r], Rank) = H /\ uris[r] \in Uri
  BY <1>1 DEF Sharers
<1>7. m[uris[r]].first = low /\ m[uris[r]].count = Cardinality(H)
  BY <1>2, <1>6 DEF MapOf
<1>8. GroupingMap(uris) = m
  BY DEF GroupingMap, UriMap, EliminateUriAlias
<1>9. GroupInfoAt(uris, r) = SetGroupInfo(NoGroupInfo, r, uris[r], m)
  <2>1. AdjustUri(uris[r], m) = uris[r]
    BY <1>2, <1>6 DEF AdjustUri
  <2> HIDE DEF m
  <2>3. CASE r = 0
    BY <1>8, <2>1, <2>3 DEF GroupInfoAt, GroupInfoOf
  <2>4. CASE r # 0
    BY <1>8, <2>4 DEF GroupInfoAt, GroupInfoOf
  <2>5. QED
    BY <2>3, <2>4
<1>10. GroupInfoAt(uris, r) =
         [numOfGroups |-> Cardinality(used), groupId |-> low, rankInGroup |-> r,
          groupSize |-> Cardinality(H), repInGroup |-> low]
  <2> HIDE DEF m, low
  <2>1. SetGroupInfo(NoGroupInfo, r, uris[r], m) =
          [numOfGroups |-> Cardinality(DOMAIN m), groupId |-> m[uris[r]].first,
           rankInGroup |-> r, groupSize |-> m[uris[r]].count,
           repInGroup |-> m[uris[r]].first]
    BY <1>2, <1>6, FirstGroupInfo
  <2>2. QED
    BY <1>2, <1>7, <1>9, <2>1
<1>11. low \in Nat /\ low # NotFilled
  BY <1>3, <1>5 DEF NotFilled
<1>12. IsOneUri(uris) <=> Cardinality(used) = 1
  BY OneKey
<1>13. IsLowest(uris, r) <=> r = low
  BY <1>3, <1>5 DEF IsLowest
<1>14. IsLowest(uris, low)
  <2>1. Sharers(uris, low) = H
    BY <1>5 DEF Sharers
  <2>2. QED
    BY <1>5, <2>1 DEF IsLowest
<1>15. Cardinality(used) \in Nat /\ Cardinality(H) \in Nat
  <2>1. Cardinality(used) \in 0 .. N
    BY FewUris
  <2>2. IsFiniteSet(Rank)
    BY BaseAssumption, FS_Interval DEF Rank
  <2>3. Cardinality(H) \in Nat
    BY <1>3, <2>2, FS_Subset, FS_CardinalityType
  <2>4. QED
    BY <2>1, <2>3, BaseAssumption
<1> HIDE DEF m, low, H, used
<1>16. GroupInfoAt(uris, r) \in GroupInfo
  BY <1>3, <1>10, <1>11, <1>15 DEF GroupInfo, FilledId
<1>17. QED
  BY <1>3, <1>5, <1>10, <1>11, <1>12, <1>13, <1>14, <1>16
     DEF IsGroupingDone, IsSingleGroup, IsRep, H

(* The map is one of reduce descriptors.                                   *)
LEMMA UriMapType ==
  ASSUME NEW uris \in [Rank -> Uri]
  PROVE  IsGroupingMap(UriMap(uris)) /\ IsGroupingMap(GroupingMap(uris))
<1> DEFINE lists == [q \in Rank |-> {uris[q]}]
           H(u) == Holders(lists, u, Rank)
<1>1. DOMAIN UriMap(uris) \subseteq Uri
  BY UriMapKeys
<1>2. ASSUME NEW u \in DOMAIN UriMap(uris)
      PROVE  UriMap(uris)[u] \in ReduceDesc
  <2>1. H(u) # {} /\ H(u) \subseteq Rank /\ H(u) \subseteq Nat
    <3>1. PICK q \in Rank : u = uris[q]
      BY <1>2, UriMapKeys
    <3>2. q \in H(u)
      BY <3>1 DEF Holders
    <3>3. QED
      BY <3>2 DEF Holders, Rank
  <2>2. \E q \in H(u) : \A p \in H(u) : q <= p
    BY <2>1, LowestNumber
  <2>3. (CHOOSE q \in H(u) : \A p \in H(u) : q <= p) \in Nat
    BY <2>1, <2>2
  <2>4. Cardinality(H(u)) \in Nat
    <3>1. IsFiniteSet(Rank)
      BY BaseAssumption, FS_Interval DEF Rank
    <3>2. QED
      BY <2>1, <3>1, FS_Subset, FS_CardinalityType
  <2>5. UriMap(uris)[u] = [first |-> CHOOSE q \in H(u) : \A p \in H(u) : q <= p,
                           count |-> Cardinality(H(u))]
    BY <1>2 DEF UriMap, MapOf
  <2> HIDE DEF H
  <2>6. QED
    BY <2>3, <2>4, <2>5 DEF ReduceDesc
<1>3. UriMap(uris) \in [DOMAIN UriMap(uris) -> ReduceDesc]
  <2>1. UriMap(uris) = [u \in DOMAIN UriMap(uris) |-> UriMap(uris)[u]]
    BY DEF UriMap, MapOf
  <2>2. QED
    BY <1>2, <2>1
<1>4. IsGroupingMap(UriMap(uris))
  BY <1>1, <1>3 DEF IsGroupingMap
<1>5. GroupingMap(uris) = EliminateUriAlias(UriMap(uris))
  BY DEF GroupingMap, UriMap
<1>6. QED
  BY <1>4, <1>5, EliminateType

(* What grouping tells a process is group information.                     *)
LEMMA GroupInfoType ==
  ASSUME NEW uris \in [Rank -> Uri], NEW r \in Rank
  PROVE  GroupInfoAt(uris, r) \in GroupInfo
<1>1. r \in Nat /\ NoGroupInfo \in GroupInfo
  BY DEF Rank, NoGroupInfo, GroupInfo, FilledId
<1>2. IsGroupingMap(GroupingMap(uris))
  BY UriMapType
<1>3. QED
  BY <1>1, <1>2, SetGroupInfoType DEF GroupInfoAt, GroupInfoOf

(* An alias is eliminated only of two URIs of one server, and leaves one   *)
(* group (DistDesc.C:321-392).                                             *)
LEMMA EliminatedFacts ==
  ASSUME NEW uris \in [Rank -> Uri], AliasDetected(UriMap(uris))
  PROVE  /\ \A r \in Rank : IsSingleGroup(GroupInfoAt(uris, r))
         /\ \A r, q \in Rank : SameServer(uris[r], uris[q])
<1> DEFINE m == UriMap(uris)
<1>1. /\ DOMAIN m = {uris[q] : q \in Rank} /\ DOMAIN m \subseteq Uri
  BY UriMapKeys
<1>2. Cardinality(DOMAIN m) = 2 /\ Aliased(FirstKey(m), LastKey(m))
  BY DEF AliasDetected
<1>3. DOMAIN m = {Survivor(m), Erased(m)}
  BY <1>1, <1>2, TwoKeys
<1>4. DOMAIN m = {FirstKey(m), LastKey(m)}
  BY <1>3 DEF Survivor, Erased
<1>5. ASSUME NEW r \in Rank, NEW q \in Rank PROVE SameServer(uris[r], uris[q])
  <2>1. uris[r] \in {FirstKey(m), LastKey(m)} /\ uris[q] \in {FirstKey(m), LastKey(m)}
    BY <1>1, <1>4
  <2>2. QED
    BY <1>2, <2>1 DEF SameServer, Aliased
<1>6. Cardinality(DOMAIN GroupingMap(uris)) = 1
  <2>1. GroupingMap(uris) = EliminateUriAlias(m)
    BY DEF GroupingMap, UriMap
  <2>2. DOMAIN EliminateUriAlias(m) = {Survivor(m)}
    BY DEF EliminateUriAlias
  <2>3. QED
    BY <2>1, <2>2, FS_Singleton
<1>7. ASSUME NEW r \in Rank PROVE IsSingleGroup(GroupInfoAt(uris, r))
  <2>1. GroupInfoAt(uris, r).numOfGroups = Cardinality(DOMAIN GroupingMap(uris))
    BY DEF GroupInfoAt, GroupInfoOf, SetGroupInfo, NoGroupInfo
  <2>2. QED
    BY <1>6, <2>1 DEF IsSingleGroup
<1>8. QED
  BY <1>5, <1>7

(* Nothing is eliminated where no two URIs in use are aliases.             *)
LEMMA NoneDetected ==
  ASSUME NEW uris \in [Rank -> Uri],
         \A r, q \in Rank : uris[r] # uris[q] => ~Aliased(uris[r], uris[q])
  PROVE  ~AliasDetected(UriMap(uris))
<1> DEFINE m == UriMap(uris)
<1> SUFFICES ASSUME AliasDetected(m) PROVE FALSE
  OBVIOUS
<1>1. /\ DOMAIN m = {uris[q] : q \in Rank} /\ DOMAIN m \subseteq Uri
  BY UriMapKeys
<1>2. Cardinality(DOMAIN m) = 2 /\ Aliased(FirstKey(m), LastKey(m))
  BY DEF AliasDetected
<1>3. /\ Survivor(m) \in DOMAIN m /\ Erased(m) \in DOMAIN m /\ Survivor(m) # Erased(m)
  BY <1>1, <1>2, TwoKeys
<1>4. /\ FirstKey(m) \in DOMAIN m /\ LastKey(m) \in DOMAIN m /\ FirstKey(m) # LastKey(m)
  BY <1>3 DEF Survivor, Erased
<1>5. QED
  BY <1>1, <1>2, <1>4
-----------------------------------------------------------------------------
(* The estimate.                                                           *)

(* Taking the fraction (m-1)/m of a number, and rounding down, takes away  *)
(* the m-th part of it, rounded up.                                        *)
LEMMA TakeFraction ==
  ASSUME NEW x \in Nat \ {0}, NEW m \in Nat \ {0}
  PROVE  LET y == (x * (m - 1)) \div m
         IN  /\ y \in Nat /\ y < x
             /\ x <= m * (x - y) /\ m * (x - y) <= x + m - 1
<1> DEFINE p == x * (m - 1)
           y == p \div m
           rest == p % m
<1>1. p \in Nat /\ p = x * m - x
  OBVIOUS
<1>2. y \in Nat /\ rest \in 0 .. m-1 /\ p = m * y + rest
  BY <1>1
<1> HIDE DEF p, y, rest
<1>3. m * (x - y) = x + rest
  <2>1. m * (x - y) = m * x - m * y /\ m * x = x * m
    BY <1>2
  <2>2. m * y \in Int /\ x * m \in Int
    BY <1>2
  <2>3. QED
    BY <1>1, <1>2, <2>1, <2>2
<1>4. y < x
  <2>1. SUFFICES ASSUME x <= y PROVE FALSE
    BY <1>2
  <2>2. m * (x - y) <= 0
    BY <1>2, <2>1
  <2>3. QED
    BY <1>2, <1>3, <2>2
<1>5. QED
  BY <1>2, <1>3, <1>4 DEF p, y

(* The recursive function of Estimate, for the numbers up to top.          *)
Counts(f, top, m, least) ==
  f = [x \in 0 .. top |-> IF x < least THEN 0 ELSE 1 + f[(x * (m - 1)) \div m]]

(* There is such a function: each step goes down, so were there a least    *)
(* top up to which there is none, that of one less could be continued.     *)
LEMMA CountsExist ==
  ASSUME NEW m \in Nat \ {0}, NEW least \in Nat \ {0}, NEW top \in Nat
  PROVE  \E f : Counts(f, top, m, least)
<1> DEFINE Bad == {n \in Nat : ~ \E f : Counts(f, n, m, least)}
           step(x) == (x * (m - 1)) \div m
<1>1. Bad = {}
  <2>1. SUFFICES ASSUME Bad # {} PROVE FALSE
    OBVIOUS
  <2>2. PICK n \in Bad : \A k \in Bad : n <= k
    BY <2>1, LowestNumber
  <2>3. n \in Nat /\ ~ \E f : Counts(f, n, m, least)
    BY <2>2
  <2>4. CASE n = 0
    <3> DEFINE f == [x \in 0 .. 0 |-> 0]
    <3>1. f = [x \in 0 .. 0 |-> IF x < least THEN 0 ELSE 1 + f[step(x)]]
      OBVIOUS
    <3>2. Counts(f, 0, m, least)
      BY <3>1 DEF Counts
    <3>3. QED
      BY <2>3, <2>4, <3>2
  <2>5. CASE n # 0
    <3>1. n - 1 \in Nat /\ n - 1 \notin Bad
      <4>1. n - 1 \in Nat
        BY <2>3, <2>5
      <4> HIDE DEF Bad
      <4>2. n - 1 \in Bad => n <= n - 1
        BY <2>2
      <4>3. QED
        BY <2>3, <4>1, <4>2
    <3>2. PICK h : Counts(h, n - 1, m, least)
      BY <3>1
    <3> DEFINE g == [x \in 0 .. n |-> IF x < least THEN 0 ELSE 1 + h[step(x)]]
    <3>3. ASSUME NEW x \in 0 .. n, ~(x < least)
          PROVE  step(x) \in 0 .. n-1 /\ step(x) \in 0 .. n
      <4>1. x \in Nat \ {0} /\ x <= n
        BY <2>3, <3>3
      <4>2. step(x) \in Nat /\ step(x) < x
        BY <4>1, TakeFraction
      <4> HIDE DEF step
      <4>3. QED
        BY <2>3, <4>1, <4>2
    <3>4. ASSUME NEW y \in 0 .. n-1, y \in 0 .. n PROVE g[y] = h[y]
      BY <3>2, <3>4 DEF Counts
    <3>5. \A x \in 0 .. n : ~(x < least) => g[step(x)] = h[step(x)]
      BY <3>3, <3>4
    <3> DEFINE next(x) == IF x < least THEN 0 ELSE 1 + h[step(x)]
               own(x)  == IF x < least THEN 0 ELSE 1 + g[step(x)]
    <3>6. g = [x \in 0 .. n |-> own(x)]
      <4>1. g = [x \in 0 .. n |-> next(x)]
        OBVIOUS
      <4> HIDE DEF g, step
      <4>2. \A x \in 0 .. n : next(x) = own(x)
        BY <3>5
      <4> HIDE DEF next, own
      <4>3. QED
        BY <4>1, <4>2
    <3>7. Counts(g, n, m, least)
      BY <3>6 DEF Counts
    <3>8. QED
      BY <2>3, <3>7
  <2>6. QED
    BY <2>4, <2>5
<1>2. QED
  BY <1>1

(* What it counts are numbers.                                             *)
LEMMA CountsType ==
  ASSUME NEW m \in Nat \ {0}, NEW least \in Nat \ {0}, NEW top \in Nat,
         NEW f, Counts(f, top, m, least)
  PROVE  \A x \in 0 .. top : f[x] \in Nat
<1> DEFINE Bad == {x \in 0 .. top : f[x] \notin Nat}
           step(x) == (x * (m - 1)) \div m
<1>1. Bad = {}
  <2>1. SUFFICES ASSUME Bad # {} PROVE FALSE
    OBVIOUS
  <2>2. Bad \in SUBSET Nat
    OBVIOUS
  <2>3. PICK x \in Bad : \A y \in Bad : x <= y
    BY <2>1, <2>2, LowestNumber
  <2>4. x \in 0 .. top /\ f[x] \notin Nat
    BY <2>3
  <2>5. ~(x < least) /\ f[x] = 1 + f[step(x)]
    <3> DEFINE next(y) == IF y < least THEN 0 ELSE 1 + f[step(y)]
    <3>1. f = [y \in 0 .. top |-> next(y)]
      BY DEF Counts
    <3> HIDE DEF next
    <3>2. f[x] = next(x)
      BY <2>4, <3>1
    <3>3. f[x] = IF x < least THEN 0 ELSE 1 + f[step(x)]
      BY <3>2 DEF next
    <3>4. QED
      BY <2>4, <3>3
  <2>6. x \in Nat \ {0}
    BY <2>4, <2>5
  <2>7. step(x) \in Nat /\ step(x) < x
    BY <2>6, TakeFraction
  <2> HIDE DEF step
  <2>8. step(x) \in 0 .. top /\ step(x) \notin Bad
    <3>1. step(x) \in 0 .. top
      BY <2>4, <2>7
    <3> HIDE DEF Bad
    <3>2. step(x) \in Bad => x <= step(x)
      BY <2>3
    <3>3. QED
      BY <2>6, <2>7, <3>1, <3>2
  <2>9. f[step(x)] \in Nat
    BY <2>8
  <2>10. QED
    BY <2>4, <2>5, <2>9
<1>2. QED
  BY <1>1

(* Where it is defined the estimate is half of such a count.               *)
LEMMA EstimateCounts ==
  ASSUME NEW t, t # NumBits, NumBits \in Nat \ {0},
         (Scale * (NumBits - t)) \div NumBits \in Nat \ {0}
  PROVE  \E f : /\ Counts(f, Scale, NumBits, (Scale * (NumBits - t)) \div NumBits)
                /\ Estimate(t) = f[Scale] \div 2
<1> DEFINE least == (Scale * (NumBits - t)) \div NumBits
           f == CHOOSE g : Counts(g, Scale, NumBits, least)
<1>1. Scale \in Nat
  BY DEF Scale
<1>2. Counts(f, Scale, NumBits, least)
  BY <1>1, CountsExist
<1>3. Estimate(t) = f[Scale] \div 2
  BY DEF Estimate, Counts
<1>4. QED
  BY <1>2, <1>3

(* The smaller of two multiples has the smaller factor.                    *)
LEMMA SmallerFactor ==
  ASSUME NEW m \in Nat \ {0}, NEW j \in Int, NEW k \in Int, m * j < m * k
  PROVE  j < k
<1>1. SUFFICES ASSUME k <= j PROVE FALSE
  OBVIOUS
<1>2. m * k <= m * j
  BY <1>1
<1>3. m * k \in Int /\ m * j \in Int
  OBVIOUS
<1>4. QED
  BY <1>2, <1>3

(* Three times the m-th part is more than twice it, also in whole numbers: *)
(* after three steps down from Scale less is left than Scale less its two  *)
(* m-th parts.                                                             *)
LEMMA ThreeParts ==
  ASSUME NEW m \in Nat, m >= 3, NEW e \in Int, m * e <= 2 * Scale + m - 1,
         NEW a \in Nat \ {0}, Scale <= m * a, m * a <= Scale + m - 1,
         NEW b \in Nat \ {0}, Scale - a <= m * b, m * b <= Scale - a + m - 1,
         NEW c \in Nat \ {0}, Scale - a - b <= m * c
  PROVE  e < a + b + c
<1> USE DEF Scale
<1>1. SUFFICES ASSUME a + b + c <= e PROVE FALSE
  OBVIOUS
<1>2. Scale <= m - 1 + 2 * a + b
  <2>1. m * (a + b + c) <= m * e
    BY <1>1
  <2>2. m * (a + b + c) = m * a + m * b + m * c
    OBVIOUS
  <2>3. m * a \in Int /\ m * b \in Int /\ m * c \in Int /\ m * e \in Int
    OBVIOUS
  <2>4. m * a + m * b + m * c <= m * e
    BY <2>1, <2>2
  <2>5. QED
    BY <2>3, <2>4
<1>3. CASE m >= Scale
  <2>1. m * e < m * 3
    BY <1>3
  <2>2. e < 3
    BY <2>1, SmallerFactor
  <2>3. QED
    BY <1>1, <2>2
<1>4. CASE m < Scale /\ 2 * Scale <= 3 * m
  <2>1. m * e < m * 4
    BY <1>4
  <2>2. m * 1 < m * a
    BY <1>4
  <2>3. e < 4 /\ 1 < a
    BY <2>1, <2>2, SmallerFactor
  <2>4. QED
    BY <1>1, <2>3
<1>5. CASE 2 * Scale > 3 * m /\ Scale < 3 * m
  <2>1. m * a < m * 4
    BY <1>5
  <2>2. m * b < m * 4
    BY <1>5
  <2>3. a < 4 /\ b < 4
    BY <2>1, <2>2, SmallerFactor
  <2>4. QED
    BY <1>2, <1>5, <2>3
<1>6. CASE Scale >= 3 * m /\ m >= 6
  <2>1. 6 * a <= m * a /\ 6 * b <= m * b
    BY <1>6
  <2>2. 6 * a <= Scale + m - 1 /\ 6 * b <= Scale + m - 1
    <3>1. m * a \in Int /\ m * b \in Int
      OBVIOUS
    <3>2. QED
      BY <2>1, <3>1
  <2>3. QED
    BY <1>2, <1>6, <2>2
<1>7. CASE m = 3
  <2>1. Scale <= 3 * a /\ 3 * a <= Scale + 2 /\ 3 * b <= Scale - a + 2
    BY <1>7
  <2>2. Scale <= 2 + 2 * a + b
    BY <1>2, <1>7
  <2>3. QED
    BY <2>1, <2>2
<1>8. CASE m = 4
  <2>1. Scale <= 4 * a /\ 4 * a <= Scale + 3 /\ 4 * b <= Scale - a + 3
    BY <1>8
  <2>2. Scale <= 3 + 2 * a + b
    BY <1>2, <1>8
  <2>3. QED
    BY <2>1, <2>2
<1>9. CASE m = 5
  <2>1. Scale <= 5 * a /\ 5 * a <= Scale + 4 /\ 5 * b <= Scale - a + 4
    BY <1>9
  <2>2. Scale <= 4 + 2 * a + b
    BY <1>2, <1>9
  <2>3. QED
    BY <2>1, <2>2
<1>10. QED
  BY <1>3, <1>4, <1>5, <1>6, <1>7, <1>8, <1>9

(* One URI, which has set one bit or two, is estimated to be one.          *)
LEMMA EstimateOfOne ==
  ASSUME NEW t \in {1, 2}
  PROVE  Estimate(t) = 1
<1> DEFINE m == NumBits
           least == (Scale * (m - t)) \div m
           step(x) == (x * (m - 1)) \div m
           x1 == step(Scale)
           x2 == step(x1)
           x3 == step(x2)
<1>1. m \in Nat /\ m >= 3
  BY FilterLarge, BaseAssumption DEF Elements
<1>2. least \in Nat \ {0} /\ m * (Scale - least) <= t * Scale + m - 1
      /\ t * Scale <= m * (Scale - least)
  <2> DEFINE p == Scale * (m - t)
             rest == p % m
  <2>1. p \in Nat /\ p = Scale * m - t * Scale /\ p >= m
    BY <1>1 DEF Scale
  <2>2. least \in Nat /\ rest \in 0 .. m-1 /\ p = m * least + rest
    BY <1>1, <2>1
  <2> HIDE DEF p, rest, least
  <2>3. least # 0
    BY <1>1, <2>1, <2>2
  <2>4. m * (Scale - least) = t * Scale + rest
    <3>1. m * (Scale - least) = Scale * m - m * least
      BY <1>1, <2>2 DEF Scale
    <3>2. QED
      BY <1>1, <2>1, <2>2, <3>1 DEF Scale
  <2>5. QED
    BY <1>1, <2>2, <2>3, <2>4 DEF Scale
<1>3. PICK f : Counts(f, Scale, m, least) /\ Estimate(t) = f[Scale] \div 2
  <2>1. t # m /\ m \in Nat \ {0}
    BY <1>1
  <2>2. QED
    BY <1>2, <2>1, EstimateCounts
<1>4. ASSUME NEW x \in 0 .. Scale
      PROVE  /\ x < least => f[x] = 0
             /\ ~(x < least) => f[x] = 1 + f[step(x)]
  <2> DEFINE next(y) == IF y < least THEN 0 ELSE 1 + f[step(y)]
  <2>1. f = [y \in 0 .. Scale |-> next(y)]
    BY <1>3 DEF Counts
  <2> HIDE DEF next
  <2>2. f[x] = next(x)
    BY <2>1
  <2>3. QED
    BY <2>2 DEF next
<1>5. ASSUME NEW x \in Nat \ {0}
      PROVE  /\ step(x) \in Nat /\ step(x) < x
             /\ x <= m * (x - step(x)) /\ m * (x - step(x)) <= x + m - 1
  <2>1. m \in Nat \ {0}
    BY <1>1
  <2> HIDE DEF m
  <2>2. QED
    BY <2>1, TakeFraction
<1>6. Scale \in Nat \ {0}
  BY DEF Scale
<1> HIDE DEF step, least, m
<1>7. /\ x1 \in Nat /\ x1 < Scale
      /\ Scale <= m * (Scale - x1) /\ m * (Scale - x1) <= Scale + m - 1
  BY <1>5, <1>6
<1>8. least <= x1
  <2>1. m * (Scale - x1) < m * (Scale - least + 1)
    <3>1. m * (Scale - least + 1) = m * (Scale - least) + m
      BY <1>1, <1>2, <1>6
    <3>2. Scale <= t * Scale
      BY <1>6
    <3>3. m * (Scale - x1) \in Int /\ m * (Scale - least) \in Int /\ t * Scale \in Int
      BY <1>1, <1>2, <1>6, <1>7
    <3> HIDE DEF x1
    <3>4. QED
      BY <1>1, <1>2, <1>6, <1>7, <3>1, <3>2, <3>3
  <2>2. Scale - x1 < Scale - least + 1
    BY <1>1, <1>2, <1>6, <1>7, <2>1, SmallerFactor
  <2>3. QED
    BY <1>2, <1>6, <1>7, <2>2
<1>9. /\ x2 \in Nat /\ x2 < x1
      /\ x1 <= m * (x1 - x2) /\ m * (x1 - x2) <= x1 + m - 1
  <2>1. x1 \in Nat \ {0}
    BY <1>2, <1>7, <1>8
  <2> HIDE DEF x1
  <2>2. QED
    BY <1>5, <2>1
<1>10. ASSUME ~(x2 < least) PROVE x3 \in Nat /\ x3 < least
  <2>1. x2 \in Nat \ {0}
    BY <1>2, <1>9, <1>10
  <2>2. /\ x3 \in Nat /\ x3 < x2
        /\ x2 <= m * (x2 - x3)
    <3> HIDE DEF x2
    <3>1. QED
      BY <1>5, <2>1
  <2> DEFINE a == Scale - x1
             b == x1 - x2
             c == x2 - x3
             e == Scale - least
  <2> HIDE DEF x1, x2, x3
  <2>3. a \in Nat \ {0} /\ b \in Nat \ {0} /\ c \in Nat \ {0} /\ e \in Int
    BY <1>2, <1>6, <1>7, <1>9, <2>2
  <2>4. /\ Scale <= m * a /\ m * a <= Scale + m - 1
        /\ Scale - a <= m * b /\ m * b <= Scale - a + m - 1
        /\ Scale - a - b <= m * c
    <3>1. Scale - a = x1 /\ Scale - a - b = x2
      BY <1>6, <1>7, <1>9, <2>2
    <3>2. QED
      BY <1>7, <1>9, <2>2, <3>1
  <2>5. m * e <= 2 * Scale + m - 1
    <3>1. t * Scale <= 2 * Scale
      BY <1>6
    <3>2. m * e \in Int
      BY <1>1, <2>3
    <3>3. m * e <= t * Scale + m - 1
      BY <1>2
    <3>4. t * Scale \in Int
      BY <1>6
    <3> HIDE DEF e
    <3>5. QED
      BY <1>1, <1>6, <3>1, <3>2, <3>3, <3>4
  <2> HIDE DEF a, b, c, e
  <2>6. e < a + b + c
    BY <1>1, <2>3, <2>4, <2>5, ThreeParts
  <2>7. QED
    BY <1>2, <1>6, <1>7, <1>9, <2>2, <2>6 DEF a, b, c, e
<1>11. f[Scale] = 2 \/ f[Scale] = 3
  <2>1. Scale \in 0 .. Scale /\ x1 \in 0 .. Scale /\ x2 \in 0 .. Scale
    BY <1>6, <1>7, <1>9
  <2>2. ~(Scale < least) /\ ~(x1 < least)
    BY <1>2, <1>6, <1>7, <1>8
  <2>3. f[Scale] = 1 + f[x1]
    BY <1>4, <2>1, <2>2
  <2>4. f[x1] = 1 + f[x2]
    <3>1. f[x1] = 1 + f[step(x1)]
      BY <1>4, <2>1, <2>2
    <3>2. QED
      BY <3>1
  <2>5. CASE x2 < least
    <3>1. f[x2] = 0
      BY <1>4, <2>1, <2>5
    <3>2. QED
      BY <2>3, <2>4, <3>1
  <2>6. CASE ~(x2 < least)
    <3>1. f[x2] = 1 + f[x3] /\ x3 \in 0 .. Scale /\ x3 < least
      <4>1. f[x2] = 1 + f[step(x2)]
        BY <1>4, <2>1, <2>6
      <4>2. x3 \in Nat /\ x3 < least
        BY <1>10, <2>6
      <4> HIDE DEF x1, x2
      <4>3. QED
        BY <1>2, <1>6, <1>7, <1>8, <4>1, <4>2
    <3>2. f[x3] = 0
      BY <1>4, <3>1
    <3>3. QED
      BY <2>3, <2>4, <3>1, <3>2
  <2>7. QED
    BY <2>5, <2>6
<1>12. QED
  BY <1>3, <1>11

(* A filter of one URI has one bit or two.                                 *)
LEMMA BitsOfOneUri ==
  ASSUME NEW uris \in [Rank -> Uri], \A r \in Rank : uris[r] = uris[0]
  PROVE  PopCount(Filter(uris)) \in {1, 2}
<1> DEFINE one == Sax[uris[0]] % NumBits
           other == Sdbm[uris[0]] % NumBits
<1>1. 0 \in Rank
  BY BaseAssumption DEF Rank
<1>2. Filter(uris) = {one, other}
  <2>1. \A r \in Rank : BloomAdd({}, uris[r]) = {one, other}
    BY DEF BloomAdd
  <2>2. QED
    BY <1>1, <2>1 DEF Filter
<1>3. CASE one = other
  <2>1. Filter(uris) = {one}
    BY <1>2, <1>3
  <2>2. QED
    BY <2>1, FS_Singleton DEF PopCount
<1>4. CASE one # other
  <2>1. Filter(uris) = {one} \cup {other} /\ other \notin {one}
    BY <1>2, <1>4
  <2>2. Cardinality({one} \cup {other}) = Cardinality({one}) + 1
    BY <2>1, FS_Singleton, FS_AddElement
  <2> DEFINE size == Cardinality({one})
  <2>3. size = 1
    BY FS_Singleton
  <2>4. PopCount(Filter(uris)) = size + 1
    BY <2>1, <2>2 DEF PopCount
  <2> HIDE DEF size
  <2>5. QED
    BY <2>3, <2>4
<1>5. QED
  BY <1>3, <1>4

(* However the names hash, a path that is on one server everywhere is      *)
(* estimated to be on one: one bit or two count as one                     *)
(* (FastGlobalFileStat.C:536-539).                                         *)
THEOREM OneServerIsEstimatedOne ==
  ASSUME NEW uris \in [Rank -> Uri], IsOneUri(uris), Limit > 0
  PROVE  CardinalityEst(uris, TRUE) = 1
<1>1. PopCount(Filter(uris)) \in {1, 2}
  BY BitsOfOneUri DEF IsOneUri
<1>2. Estimate(PopCount(Filter(uris))) = 1
  BY <1>1, EstimateOfOne
<1>3. QED
  BY <1>2 DEF CardinalityEst
=============================================================================
