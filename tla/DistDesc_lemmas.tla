--------------------------- MODULE DistDesc_lemmas --------------------------
(***************************************************************************)
(* What the operators of DistDesc return, for every set of URIs.           *)
(***************************************************************************)
EXTENDS DistDesc, FiniteSetTheorems, WellFoundedInduction, TLAPS

(* Among numbers there is a lowest.                                        *)
LEMMA LowestNumber ==
  ASSUME NEW S \in SUBSET Nat, S # {}
  PROVE  \E n \in S : \A m \in S : n <= m
<1> DEFINE R == {ss \in Nat \X Nat : ss[1] < ss[2]}
<1>1. IsWellFoundedOn(R, Nat)
  BY NatLessThanWellFounded DEF OpToRel
<1>2. PICK x \in S : \A y \in S : <<y, x>> \notin R
  BY <1>1, WFMin
<1>3. ASSUME NEW y \in S, y < x PROVE <<y, x>> \in R
  BY <1>3
<1> HIDE DEF R
<1>4. \A y \in S : ~(y < x)
  BY <1>2, <1>3
<1>5. QED
  BY <1>4

(* The key set of a map is a finite set of numbers, so its packed length   *)
(* is a number (DistDesc.C:395-406).                                       *)
LEMMA MapKeys ==
  ASSUME NEW map, IsGroupingMap(map)
  PROVE  /\ DOMAIN map \subseteq Nat
         /\ IsFiniteSet(DOMAIN map)
         /\ Cardinality(DOMAIN map) \in Nat
         /\ PackedSize(map) \in Nat
         /\ \A u \in DOMAIN map : /\ map[u].first \in Nat
                                  /\ map[u].count \in Nat
<1>1. DOMAIN map \subseteq Uri
  BY DEF IsGroupingMap
<1>2. IsFiniteSet(DOMAIN map) /\ Cardinality(DOMAIN map) \in Nat
  BY <1>1, UriAssumption, FS_Subset, FS_CardinalityType
<1>3. PackedSize(map) \in Nat
  BY <1>1, BytesAssumption DEF PackedSize
<1>4. QED
  BY <1>1, <1>2, <1>3, UriAssumption DEF IsGroupingMap, ReduceDesc

(* The fresh descriptor's map is one.                                      *)
LEMMA EmptyMapType == IsGroupingMap(EmptyMap)
BY DEF IsGroupingMap, EmptyMap, ReduceDesc

(* Inserting items of a rank keeps the map well formed.                    *)
LEMMA InsertType ==
  ASSUME NEW map, IsGroupingMap(map),
         NEW items \in SUBSET Uri, NEW rank \in Nat
  PROVE  IsGroupingMap(Insert(map, items, rank))
BY DEF IsGroupingMap, Insert, ReduceDesc

(* Unpacking one map into another keeps the receiver's well formed.        *)
LEMMA UnpackType ==
  ASSUME NEW map, IsGroupingMap(map),
         NEW packed, IsGroupingMap(packed)
  PROVE  IsGroupingMap(Unpack(map, packed))
<1> DEFINE merged == Unpack(map, packed)
<1>1. DOMAIN merged = DOMAIN map \cup DOMAIN packed
  BY DEF Unpack
<1>2. ASSUME NEW u \in DOMAIN merged
      PROVE  merged[u] \in ReduceDesc
  <2>1. CASE u \notin DOMAIN packed
    BY <1>1, <2>1 DEF Unpack, IsGroupingMap
  <2>2. CASE u \in DOMAIN packed /\ u \notin DOMAIN map
    BY <1>1, <2>2 DEF Unpack, IsGroupingMap
  <2>3. CASE u \in DOMAIN packed /\ u \in DOMAIN map
    <3>1. packed[u] \in ReduceDesc /\ map[u] \in ReduceDesc
      BY <2>3 DEF IsGroupingMap
    <3>2. merged[u] = [first |-> map[u].first,
                       count |-> packed[u].count + map[u].count]
      BY <1>1, <2>3 DEF Unpack
    <3>3. QED
      BY <3>1, <3>2 DEF ReduceDesc
  <2>4. QED
    BY <1>1, <2>1, <2>2, <2>3
<1>3. merged \in [DOMAIN merged -> ReduceDesc]
  BY <1>1, <1>2 DEF Unpack
<1>4. QED
  BY <1>1, <1>3 DEF IsGroupingMap

(* Unpacking into a cleared map restores the map that was packed.          *)
LEMMA UnpackIntoEmpty ==
  ASSUME NEW packed, IsGroupingMap(packed)
  PROVE  Unpack(EmptyMap, packed) = packed
BY DEF Unpack, EmptyMap, IsGroupingMap

(* A set with two elements.                                                *)
LEMMA TwoElements ==
  ASSUME NEW S, IsFiniteSet(S), Cardinality(S) = 2
  PROVE  \E a, b \in S : a # b /\ S = {a, b}
<1>1. PICK a \in S : TRUE
  BY FS_EmptySet
<1>2. IsFiniteSet(S \ {a}) /\ Cardinality(S \ {a}) = 1
  BY FS_RemoveElement
<1>3. PICK b : S \ {a} = {b}
  BY <1>2, FS_Singleton
<1>4. QED
  BY <1>1, <1>3

(* In a map with two keys the surviving key and the erased key are those   *)
(* two (DistDesc.C:516-536).                                               *)
LEMMA TwoKeys ==
  ASSUME NEW map, DOMAIN map \subseteq Uri, Cardinality(DOMAIN map) = 2
  PROVE  /\ Survivor(map) \in DOMAIN map
         /\ Erased(map) \in DOMAIN map
         /\ Survivor(map) # Erased(map)
         /\ DOMAIN map = {Survivor(map), Erased(map)}
<1>1. PICK a, b \in DOMAIN map : a # b /\ DOMAIN map = {a, b}
  BY UriAssumption, FS_Subset, TwoElements
<1>2. a \in Nat /\ b \in Nat
  BY UriAssumption
<1>3. \E u \in DOMAIN map : \A v \in DOMAIN map : u <= v
  BY <1>1, <1>2
<1>4. \E u \in DOMAIN map : \A v \in DOMAIN map : v <= u
  BY <1>1, <1>2
<1>5. FirstKey(map) \in DOMAIN map /\ \A v \in DOMAIN map : FirstKey(map) <= v
  BY <1>3 DEF FirstKey
<1>6. LastKey(map) \in DOMAIN map /\ \A v \in DOMAIN map : v <= LastKey(map)
  BY <1>4 DEF LastKey
<1>7. FirstKey(map) # LastKey(map)
  BY <1>1, <1>2, <1>5, <1>6
<1>8. DOMAIN map = {FirstKey(map), LastKey(map)}
  BY <1>1, <1>5, <1>6, <1>7
<1>9. QED
  BY <1>5, <1>6, <1>7, <1>8 DEF Survivor, Erased

(* Eliminating an alias keeps the map well formed and adds no key.         *)
LEMMA EliminateType ==
  ASSUME NEW map, IsGroupingMap(map)
  PROVE  /\ IsGroupingMap(EliminateUriAlias(map))
         /\ DOMAIN EliminateUriAlias(map) \subseteq DOMAIN map
<1>1. CASE ~AliasDetected(map)
  BY <1>1 DEF EliminateUriAlias
<1>2. CASE AliasDetected(map)
  <2>1. Survivor(map) \in DOMAIN map /\ Erased(map) \in DOMAIN map
    BY <1>2, TwoKeys DEF AliasDetected, IsGroupingMap
  <2>2. /\ map[Survivor(map)].first \in Nat
        /\ map[Survivor(map)].count \in Nat
        /\ map[Erased(map)].count \in Nat
    BY <2>1, MapKeys
  <2> DEFINE s == Survivor(map)
             merged == [first |-> map[s].first,
                        count |-> map[s].count + map[Erased(map)].count]
  <2>3. merged \in ReduceDesc
    BY <2>2 DEF ReduceDesc
  <2>4. EliminateUriAlias(map) = [u \in {s} |-> merged]
    BY <1>2 DEF EliminateUriAlias
  <2>5. QED
    BY <2>1, <2>3, <2>4 DEF IsGroupingMap
<1>3. QED
  BY <1>1, <1>2

(* The adjusted URI is the old one or a key (DistDesc.C:543-554).          *)
LEMMA AdjustType ==
  ASSUME NEW map, IsGroupingMap(map), NEW uri \in Uri \cup {NoUri}
  PROVE  AdjustUri(uri, map) \in Uri \cup {NoUri}
<1>1. CASE uri \notin DOMAIN map /\ Cardinality(DOMAIN map) = 1
  <2>1. \E u \in DOMAIN map : TRUE
    BY <1>1, MapKeys, FS_EmptySet
  <2>2. QED
    BY <1>1, <2>1 DEF AdjustUri, IsGroupingMap
<1>2. CASE ~(uri \notin DOMAIN map /\ Cardinality(DOMAIN map) = 1)
  BY <1>2 DEF AdjustUri
<1>3. QED
  BY <1>1, <1>2

(* What a fresh descriptor learns from a map that has its URI.             *)
LEMMA FirstGroupInfo ==
  ASSUME NEW map, NEW rank, NEW uri \in DOMAIN map
  PROVE  SetGroupInfo(NoGroupInfo, rank, uri, map) =
           [numOfGroups |-> Cardinality(DOMAIN map), groupId |-> map[uri].first,
            rankInGroup |-> rank, groupSize |-> map[uri].count,
            repInGroup |-> map[uri].first]
BY DEF SetGroupInfo, NoGroupInfo

(* The group information derived from a map is well formed.                *)
LEMMA SetGroupInfoType ==
  ASSUME NEW map, IsGroupingMap(map), NEW old \in GroupInfo,
         NEW rank \in Nat, NEW uri
  PROVE  SetGroupInfo(old, rank, uri, map) \in GroupInfo
<1>1. Cardinality(DOMAIN map) \in FilledId
  BY MapKeys DEF FilledId
<1>2. rank \in FilledId
  BY DEF FilledId
<1>3. CASE uri \in DOMAIN map
  <2>1. map[uri].first \in FilledId /\ map[uri].count \in FilledId
    BY <1>3, MapKeys DEF FilledId
  <2>2. QED
    BY <1>1, <1>2, <1>3, <2>1 DEF SetGroupInfo, GroupInfo
<1>4. CASE uri \notin DOMAIN map
  BY <1>1, <1>4 DEF SetGroupInfo, GroupInfo
<1>5. QED
  BY <1>3, <1>4

-----------------------------------------------------------------------------
(* Sums.                                                                   *)

(* Among subsets of a finite set there is one with the fewest elements.    *)
LEMMA SmallestSet ==
  ASSUME NEW S, IsFiniteSet(S), NEW Some \in SUBSET SUBSET S, Some # {}
  PROVE  \E T \in Some : \A U \in Some : Cardinality(T) <= Cardinality(U)
<1> DEFINE Sizes == {Cardinality(T) : T \in Some}
<1>1. \A T \in Some : Cardinality(T) \in Nat
  BY FS_Subset, FS_CardinalityType
<1>2. Sizes \in SUBSET Nat /\ Sizes # {}
  BY <1>1
<1>3. \E n \in Sizes : \A m \in Sizes : n <= m
  BY <1>2, LowestNumber
<1>4. QED
  BY <1>3

(* The partial sums of f, element by element.                              *)
PartialSums(g, Parts, f) ==
  g = [T \in Parts |-> IF T = {} THEN 0
                       ELSE f[CHOOSE x \in T : TRUE] + g[T \ {CHOOSE x \in T : TRUE}]]

(* A finite set loses one element when the chosen one is taken.            *)
LEMMA TakeOne ==
  ASSUME NEW S, IsFiniteSet(S), NEW T \in SUBSET S, T # {}
  PROVE  LET U == T \ {CHOOSE x \in T : TRUE}
         IN  /\ (CHOOSE x \in T : TRUE) \in T /\ U \in SUBSET S
             /\ Cardinality(T) \in Nat /\ Cardinality(U) \in Nat
             /\ Cardinality(T) = Cardinality(U) + 1
<1> DEFINE c == CHOOSE x \in T : TRUE
           U == T \ {c}
<1>1. c \in T
  OBVIOUS
<1>2. IsFiniteSet(T) /\ Cardinality(T) \in Nat
  BY FS_Subset, FS_CardinalityType
<1>3. IsFiniteSet(U) /\ Cardinality(U) = Cardinality(T) - 1 /\ Cardinality(U) \in Nat
  BY <1>1, <1>2, FS_RemoveElement, FS_CardinalityType
<1>4. QED
  BY <1>1, <1>2, <1>3

(* Partial sums exist of every finite set: if there were a least size up   *)
(* to which there are none, those of one less could be continued.          *)
LEMMA SumsExist ==
  ASSUME NEW S, IsFiniteSet(S), NEW f
  PROVE  \E g : PartialSums(g, SUBSET S, f)
<1> DEFINE Upto(n) == {T \in SUBSET S : Cardinality(T) <= n}
           Bad == {n \in Nat : ~ \E g : PartialSums(g, Upto(n), f)}
<1>1. Cardinality({}) = 0
  BY FS_EmptySet
<1>2. \A T \in SUBSET S : IsFiniteSet(T) /\ Cardinality(T) \in Nat
  BY FS_Subset, FS_CardinalityType
<1>3. Bad = {}
  <2>1. SUFFICES ASSUME Bad # {} PROVE FALSE
    OBVIOUS
  <2>2. PICK n \in Bad : \A m \in Bad : n <= m
    BY <2>1, LowestNumber
  <2>3. CASE n = 0
    <3>1. Upto(0) = {{}}
      BY <1>1, <1>2, FS_EmptySet
    <3> DEFINE g == [T \in {{}} |-> 0]
    <3>2. PartialSums(g, Upto(0), f)
      BY <3>1 DEF PartialSums
    <3>3. QED
      BY <2>2, <2>3, <3>2
  <2>4. CASE n # 0
    <3>1. n - 1 \in Nat /\ n \in Nat /\ n - 1 \notin Bad
      <4>1. n \in Nat /\ n - 1 \in Nat
        BY <2>2, <2>4
      <4> HIDE DEF Bad
      <4>2. n - 1 \in Bad => n <= n - 1
        BY <2>2
      <4>3. QED
        BY <4>1, <4>2
    <3>2. PICK h : PartialSums(h, Upto(n - 1), f)
      BY <3>1
    <3> DEFINE c(T) == CHOOSE x \in T : TRUE
               g == [T \in Upto(n) |-> IF T = {} THEN 0 ELSE f[c(T)] + h[T \ {c(T)}]]
    <3>3. ASSUME NEW T \in Upto(n), T # {}
          PROVE  T \ {c(T)} \in Upto(n - 1) /\ T \ {c(T)} \in Upto(n)
      BY <3>1, <3>3, TakeOne
    <3>4. ASSUME NEW U \in Upto(n - 1), U \in Upto(n) PROVE g[U] = h[U]
      BY <3>2, <3>4 DEF PartialSums
    <3>5. \A T \in Upto(n) : T # {} => g[T \ {c(T)}] = h[T \ {c(T)}]
      BY <3>3, <3>4
    <3> DEFINE next(T) == IF T = {} THEN 0 ELSE f[c(T)] + h[T \ {c(T)}]
               own(T)  == IF T = {} THEN 0 ELSE f[c(T)] + g[T \ {c(T)}]
    <3>6. g = [T \in Upto(n) |-> own(T)]
      <4>1. g = [T \in Upto(n) |-> next(T)]
        OBVIOUS
      <4> HIDE DEF g, c, Upto
      <4>2. \A T \in Upto(n) : next(T) = own(T)
        BY <3>5
      <4> HIDE DEF next, own
      <4>3. QED
        BY <4>1, <4>2
    <3>7. PartialSums(g, Upto(n), f)
      BY <3>6 DEF PartialSums
    <3>8. QED
      BY <2>2, <3>7
  <2>5. QED
    BY <2>3, <2>4
<1>4. Cardinality(S) \in Nat
  BY <1>2
<1>5. Upto(Cardinality(S)) = SUBSET S
  BY <1>2, FS_Subset
<1> HIDE DEF Upto
<1>6. PICK g : PartialSums(g, Upto(Cardinality(S)), f)
  BY <1>3, <1>4
<1>7. QED
  BY <1>5, <1>6

(* What SumOver adds up are such partial sums.                             *)
LEMMA SumIsPartial ==
  ASSUME NEW S, IsFiniteSet(S), NEW f
  PROVE  \E g : PartialSums(g, SUBSET S, f) /\ SumOver(S, f) = g[S]
<1> DEFINE g == CHOOSE g : PartialSums(g, SUBSET S, f)
<1>1. PartialSums(g, SUBSET S, f)
  BY SumsExist
<1>2. SumOver(S, f) = g[S]
  BY DEF SumOver, FoldFunctionOnSet, MapThenFoldSet, PartialSums
<1>3. QED
  BY <1>1, <1>2

(* The partial sums of numbers are numbers.                                *)
LEMMA PartialType ==
  ASSUME NEW S, IsFiniteSet(S), NEW f, \A x \in S : f[x] \in Int,
         NEW g, PartialSums(g, SUBSET S, f)
  PROVE  \A T \in SUBSET S : g[T] \in Int
<1> DEFINE Bad == {T \in SUBSET S : g[T] \notin Int}
<1>1. SUFFICES ASSUME Bad # {} PROVE FALSE
  OBVIOUS
<1>2. PICK T \in Bad : \A U \in Bad : Cardinality(T) <= Cardinality(U)
  BY <1>1, SmallestSet
<1> DEFINE c == CHOOSE x \in T : TRUE
<1>3. T \in SUBSET S /\ g[T] \notin Int
  BY <1>2
<1>4. T # {}
  BY <1>3 DEF PartialSums
<1>5. c \in T /\ T \ {c} \in SUBSET S /\ T \ {c} \notin Bad
  BY <1>2, <1>3, <1>4, TakeOne
<1>6. g[T] = f[c] + g[T \ {c}]
  BY <1>3, <1>4 DEF PartialSums
<1>7. QED
  BY <1>3, <1>5, <1>6

(* The sum of numbers is a number.                                         *)
LEMMA SumType ==
  ASSUME NEW S, IsFiniteSet(S), NEW f, \A x \in S : f[x] \in Int
  PROVE  SumOver(S, f) \in Int
<1>1. PICK g : PartialSums(g, SUBSET S, f) /\ SumOver(S, f) = g[S]
  BY SumIsPartial
<1>2. \A T \in SUBSET S : g[T] \in Int
  BY <1>1, PartialType
<1>3. QED
  BY <1>1, <1>2

(* The sum does not depend on the set whose partial sums it is one of.     *)
LEMMA PartialIsSum ==
  ASSUME NEW S, IsFiniteSet(S), NEW f, NEW g, PartialSums(g, SUBSET S, f)
  PROVE  \A T \in SUBSET S : g[T] = SumOver(T, f)
<1> DEFINE Bad == {T \in SUBSET S : g[T] # SumOver(T, f)}
<1>1. SUFFICES ASSUME NEW T \in SUBSET S PROVE g[T] = SumOver(T, f)
  OBVIOUS
<1>2. IsFiniteSet(T)
  BY FS_Subset
<1>3. PICK h : PartialSums(h, SUBSET T, f) /\ SumOver(T, f) = h[T]
  BY <1>2, SumIsPartial
<1> DEFINE Apart == {U \in SUBSET T : g[U] # h[U]}
<1>4. Apart = {}
  <2>1. SUFFICES ASSUME Apart # {} PROVE FALSE
    OBVIOUS
  <2>2. PICK U \in Apart : \A V \in Apart : Cardinality(U) <= Cardinality(V)
    BY <1>2, <2>1, SmallestSet
  <2> DEFINE c == CHOOSE x \in U : TRUE
  <2>3. U \in SUBSET T /\ U \in SUBSET S /\ g[U] # h[U]
    BY <2>2
  <2>4. U # {}
    BY <1>3, <2>3 DEF PartialSums
  <2>5. U \ {c} \in SUBSET T /\ U \ {c} \notin Apart
    BY <1>2, <2>2, <2>3, <2>4, TakeOne
  <2>6. g[U] = f[c] + g[U \ {c}]
    BY <2>3, <2>4 DEF PartialSums
  <2>7. h[U] = f[c] + h[U \ {c}]
    BY <1>3, <2>3, <2>4 DEF PartialSums
  <2>8. g[U \ {c}] = h[U \ {c}]
    BY <2>5
  <2>9. QED
    BY <2>3, <2>6, <2>7, <2>8
<1>5. QED
  BY <1>3, <1>4

(* The sum over nothing, and the one an element is the first of.           *)
LEMMA SumUnfolds ==
  ASSUME NEW T, IsFiniteSet(T), NEW f
  PROVE  /\ SumOver({}, f) = 0
         /\ T # {} => LET c == CHOOSE x \in T : TRUE
                      IN  SumOver(T, f) = f[c] + SumOver(T \ {c}, f)
<1>1. PICK g : PartialSums(g, SUBSET T, f) /\ SumOver(T, f) = g[T]
  BY SumIsPartial
<1>2. \A U \in SUBSET T : g[U] = SumOver(U, f)
  <2>1. PartialSums(g, SUBSET T, f)
    BY <1>1
  <2>2. QED
    BY <2>1, PartialIsSum, Zenon
<1>3. SumOver({}, f) = 0
  <2>1. {} \in SUBSET T /\ g[{}] = 0
    BY <1>1 DEF PartialSums
  <2>2. QED
    BY <1>2, <2>1
<1>4. ASSUME T # {}
      PROVE  LET c == CHOOSE x \in T : TRUE IN SumOver(T, f) = f[c] + SumOver(T \ {c}, f)
  <2> DEFINE c == CHOOSE x \in T : TRUE
             U == T \ {c}
  <2>1. g[T] = f[c] + g[U]
    BY <1>1, <1>4 DEF PartialSums
  <2>2. U \in SUBSET T
    OBVIOUS
  <2> HIDE DEF U
  <2>3. g[U] = SumOver(U, f)
    BY <1>2, <2>2
  <2>4. QED
    BY <1>1, <2>1, <2>3 DEF U
<1>5. QED
  BY <1>3, <1>4

(* Any element may be the one that is added last.                          *)
LEMMA SumMore ==
  ASSUME NEW S, IsFiniteSet(S), NEW f, \A x \in S : f[x] \in Int
  PROVE  \A T \in SUBSET S : \A x \in T : SumOver(T, f) = f[x] + SumOver(T \ {x}, f)
<1> DEFINE Right(T) == \A x \in T : SumOver(T, f) = f[x] + SumOver(T \ {x}, f)
           Bad == {T \in SUBSET S : ~Right(T)}
<1>1. \A T \in SUBSET S : IsFiniteSet(T) /\ SumOver(T, f) \in Int
  BY FS_Subset, SumType
<1>2. Bad = {}
  <2>1. SUFFICES ASSUME Bad # {} PROVE FALSE
    OBVIOUS
  <2>2. PICK T \in Bad : \A U \in Bad : Cardinality(T) <= Cardinality(U)
    BY <2>1, SmallestSet
  <2>3. T \in SUBSET S /\ ~Right(T)
    BY <2>2
  <2>4. PICK x \in T : SumOver(T, f) # f[x] + SumOver(T \ {x}, f)
    BY <2>3
  <2> DEFINE c == CHOOSE y \in T : TRUE
             U == T \ {c}
             V == T \ {x}
             d == CHOOSE y \in V : TRUE
  <2>5. c \in T /\ U \in SUBSET S /\ U \notin Bad /\ SumOver(T, f) = f[c] + SumOver(U, f)
    <3>1. T # {} /\ c \in T /\ U \in SUBSET S
      BY <2>3, <2>4
    <3>2. Cardinality(T) \in Nat /\ Cardinality(U) \in Nat /\ Cardinality(T) = Cardinality(U) + 1
      BY <2>3, <3>1, TakeOne
    <3>3. SumOver(T, f) = f[c] + SumOver(U, f)
      BY <1>1, <2>3, <3>1, SumUnfolds
    <3> HIDE DEF c, U, Bad
    <3>4. U \in Bad => Cardinality(T) <= Cardinality(U)
      BY <2>2
    <3>5. QED
      BY <3>1, <3>2, <3>3, <3>4
  <2>6. x # c
    BY <2>4, <2>5
  <2> HIDE DEF c
  <2>7. SumOver(U, f) = f[x] + SumOver(U \ {x}, f)
    BY <2>4, <2>5, <2>6
  <2>8. V \in SUBSET S /\ V \notin Bad
    <3>1. x \in T /\ T \in SUBSET S /\ IsFiniteSet(T)
      BY <1>1, <2>3, <2>4
    <3>2. /\ Cardinality(T) \in Nat /\ Cardinality(V) \in Nat /\ Cardinality(V) = Cardinality(T) - 1
      BY <3>1, FS_RemoveElement, FS_CardinalityType
    <3> HIDE DEF V, Bad
    <3>3. V \in Bad => Cardinality(T) <= Cardinality(V)
      BY <2>2
    <3>4. QED
      BY <3>1, <3>2, <3>3 DEF V
  <2>9. SumOver(V, f) = f[c] + SumOver(V \ {c}, f)
    BY <2>5, <2>6, <2>8
  <2>10. V \ {c} = U \ {x} /\ U \ {x} \in SUBSET S
    BY <2>3
  <2>11. /\ f[x] \in Int /\ f[c] \in Int /\ SumOver(U \ {x}, f) \in Int
    BY <1>1, <2>3, <2>4, <2>5, <2>10
  <2>12. PICK n \in Int : n = SumOver(U \ {x}, f)
    BY <2>11
  <2>13. SumOver(U, f) = f[x] + n /\ SumOver(V, f) = f[c] + n
    BY <2>7, <2>9, <2>10, <2>12
  <2>14. SumOver(T, f) = f[c] + SumOver(U, f)
    BY <2>5
  <2>15. SumOver(T, f) = f[x] + SumOver(V, f)
    BY <2>11, <2>13, <2>14
  <2>16. QED
    BY <2>4, <2>15
<1>3. QED
  BY <1>2

(* The sums over two sets with nothing in common add up.                   *)
LEMMA SumApart ==
  ASSUME NEW S, IsFiniteSet(S), NEW f, \A x \in S : f[x] \in Int,
         NEW A \in SUBSET S, NEW B \in SUBSET S, A \cap B = {}
  PROVE  SumOver(A \cup B, f) = SumOver(A, f) + SumOver(B, f)
<1> DEFINE Right(T) == SumOver(A \cup T, f) = SumOver(A, f) + SumOver(T, f)
           Bad == {T \in SUBSET B : ~Right(T)}
<1>1. \A T \in SUBSET S : IsFiniteSet(T) /\ SumOver(T, f) \in Int
  BY FS_Subset, SumType
<1>2. Bad = {}
  <2>1. SUFFICES ASSUME Bad # {} PROVE FALSE
    OBVIOUS
  <2>2. PICK T \in Bad : \A U \in Bad : Cardinality(T) <= Cardinality(U)
    BY <1>1, <2>1, SmallestSet
  <2>3. T \in SUBSET B /\ T \in SUBSET S /\ ~Right(T) /\ IsFiniteSet(T)
    BY <1>1, <2>2
  <2>4. T # {}
    <3>1. SumOver({}, f) = 0 /\ SumOver(A, f) \in Int
      BY <1>1, SumUnfolds
    <3>2. A \cup {} = A
      OBVIOUS
    <3>3. Right({})
      BY <3>1, <3>2
    <3> HIDE DEF Right
    <3>4. QED
      BY <2>3, <3>3
  <2>5. PICK x \in T : TRUE
    BY <2>4
  <2> DEFINE U == T \ {x}
             W == A \cup T
  <2>6. U \in SUBSET B /\ U \notin Bad
    <3>1. /\ Cardinality(T) \in Nat /\ Cardinality(U) \in Nat /\ Cardinality(U) = Cardinality(T) - 1
      BY <1>1, <2>3, <2>5, FS_RemoveElement, FS_CardinalityType
    <3>2. U \in SUBSET B
      BY <2>3
    <3> HIDE DEF U, Bad
    <3>3. U \in Bad => Cardinality(T) <= Cardinality(U)
      BY <2>2
    <3>4. QED
      BY <3>1, <3>2, <3>3
  <2>7. SumOver(A \cup U, f) = SumOver(A, f) + SumOver(U, f)
    BY <2>6
  <2>8. W \in SUBSET S /\ x \in W /\ W \ {x} = A \cup U
    BY <2>3, <2>5
  <2>9. SumOver(W, f) = f[x] + SumOver(A \cup U, f)
    BY <2>8, SumMore
  <2>10. SumOver(T, f) = f[x] + SumOver(U, f)
    BY <2>3, <2>5, SumMore
  <2>11. f[x] \in Int /\ SumOver(A, f) \in Int /\ SumOver(U, f) \in Int
    BY <1>1, <2>3, <2>5
  <2>12. Right(T)
    BY <2>7, <2>9, <2>10, <2>11
  <2>13. QED
    BY <2>3, <2>12
<1>3. QED
  BY <1>2

(* Sums of the same values are the same.                                   *)
LEMMA SumSame ==
  ASSUME NEW S, IsFiniteSet(S), NEW f, NEW h, \A x \in S : f[x] = h[x]
  PROVE  SumOver(S, f) = SumOver(S, h)
<1> DEFINE Bad == {T \in SUBSET S : SumOver(T, f) # SumOver(T, h)}
<1>1. Bad = {}
  <2>1. SUFFICES ASSUME Bad # {} PROVE FALSE
    OBVIOUS
  <2>2. PICK T \in Bad : \A U \in Bad : Cardinality(T) <= Cardinality(U)
    BY <2>1, SmallestSet
  <2>3. T \in SUBSET S /\ SumOver(T, f) # SumOver(T, h) /\ IsFiniteSet(T)
    BY <2>2, FS_Subset
  <2>4. T # {}
    BY <2>3, SumUnfolds
  <2> DEFINE c == CHOOSE x \in T : TRUE
             U == T \ {c}
  <2>5. c \in S /\ U \in SUBSET S /\ U \notin Bad
    BY <2>2, <2>3, <2>4, TakeOne
  <2>6. SumOver(T, f) = f[c] + SumOver(U, f) /\ SumOver(T, h) = h[c] + SumOver(U, h)
    BY <2>3, <2>4, SumUnfolds
  <2> HIDE DEF c, U
  <2>7. SumOver(U, f) = SumOver(U, h)
    BY <2>5
  <2>8. QED
    BY <2>3, <2>5, <2>6, <2>7
<1>2. QED
  BY <1>1

(* The sum of sums.                                                        *)
LEMMA SumAdds ==
  ASSUME NEW S, IsFiniteSet(S), NEW f, NEW g, NEW h,
         \A x \in S : f[x] \in Int /\ g[x] \in Int /\ h[x] = f[x] + g[x]
  PROVE  SumOver(S, h) = SumOver(S, f) + SumOver(S, g)
<1> DEFINE Right(T) == SumOver(T, h) = SumOver(T, f) + SumOver(T, g)
           Bad == {T \in SUBSET S : ~Right(T)}
<1>1. \A T \in SUBSET S : /\ IsFiniteSet(T)
                          /\ SumOver(T, f) \in Int /\ SumOver(T, g) \in Int
  BY FS_Subset, SumType
<1>2. Bad = {}
  <2>1. SUFFICES ASSUME Bad # {} PROVE FALSE
    OBVIOUS
  <2>2. PICK T \in Bad : \A U \in Bad : Cardinality(T) <= Cardinality(U)
    BY <2>1, SmallestSet
  <2>3. T \in SUBSET S /\ ~Right(T) /\ IsFiniteSet(T)
    BY <1>1, <2>2
  <2>4. T # {}
    <3>1. SumOver({}, f) = 0 /\ SumOver({}, g) = 0 /\ SumOver({}, h) = 0
      BY <2>3, SumUnfolds
    <3>2. QED
      BY <2>3, <3>1
  <2> DEFINE c == CHOOSE x \in T : TRUE
             U == T \ {c}
  <2>5. c \in S /\ U \in SUBSET S /\ U \notin Bad
    BY <2>2, <2>3, <2>4, TakeOne
  <2>6. /\ SumOver(T, f) = f[c] + SumOver(U, f)
        /\ SumOver(T, g) = g[c] + SumOver(U, g)
        /\ SumOver(T, h) = h[c] + SumOver(U, h)
    BY <2>3, <2>4, SumUnfolds
  <2> HIDE DEF c, U
  <2>7. SumOver(U, h) = SumOver(U, f) + SumOver(U, g)
    BY <2>5
  <2>8. /\ SumOver(U, f) \in Int /\ SumOver(U, g) \in Int
        /\ f[c] \in Int /\ g[c] \in Int /\ h[c] = f[c] + g[c]
    BY <1>1, <2>5
  <2>9. QED
    BY <2>3, <2>6, <2>7, <2>8
<1>3. QED
  BY <1>2

(* A sum of ones counts.                                                   *)
LEMMA SumOfOnes ==
  ASSUME NEW S, IsFiniteSet(S), NEW f, \A x \in S : f[x] = 1
  PROVE  SumOver(S, f) = Cardinality(S)
<1> DEFINE Bad == {T \in SUBSET S : SumOver(T, f) # Cardinality(T)}
<1>1. Bad = {}
  <2>1. SUFFICES ASSUME Bad # {} PROVE FALSE
    OBVIOUS
  <2>2. PICK T \in Bad : \A U \in Bad : Cardinality(T) <= Cardinality(U)
    BY <2>1, SmallestSet
  <2>3. T \in SUBSET S /\ SumOver(T, f) # Cardinality(T) /\ IsFiniteSet(T)
    BY <2>2, FS_Subset
  <2>4. T # {}
    BY <2>3, SumUnfolds, FS_EmptySet
  <2> DEFINE c == CHOOSE x \in T : TRUE
             U == T \ {c}
  <2>5. /\ c \in S /\ U \in SUBSET S /\ U \notin Bad
        /\ Cardinality(T) = Cardinality(U) + 1 /\ Cardinality(U) \in Nat
    BY <2>2, <2>3, <2>4, TakeOne
  <2>6. SumOver(T, f) = f[c] + SumOver(U, f)
    BY <2>3, <2>4, SumUnfolds
  <2> HIDE DEF c, U
  <2>7. SumOver(U, f) = Cardinality(U)
    BY <2>5
  <2>8. QED
    BY <2>3, <2>5, <2>6, <2>7
<1>2. QED
  BY <1>1

(* What one value adds to a sum.                                           *)
LEMMA SumOneChanges ==
  ASSUME NEW S, IsFiniteSet(S), NEW f, NEW h, NEW x \in S,
         \A y \in S : f[y] \in Int /\ h[y] \in Int,
         \A y \in S \ {x} : h[y] = f[y]
  PROVE  SumOver(S, h) = SumOver(S, f) + h[x] - f[x]
<1> DEFINE U == S \ {x}
<1>1. IsFiniteSet(U)
  BY FS_Subset
<1>2. SumOver(U, h) = SumOver(U, f) /\ SumOver(U, f) \in Int
  BY <1>1, SumSame, SumType
<1>3. SumOver(S, h) = h[x] + SumOver(U, h)
  BY SumMore
<1>4. SumOver(S, f) = f[x] + SumOver(U, f)
  BY SumMore
<1> HIDE DEF U
<1>5. QED
  BY <1>2, <1>3, <1>4

(* A sum does not depend on which of two shares an amount is in.           *)
LEMMA SumMoves ==
  ASSUME NEW S, IsFiniteSet(S), NEW f, NEW h, NEW x \in S, NEW y \in S, x # y,
         \A z \in S : f[z] \in Int /\ h[z] \in Int,
         \A z \in S \ {x, y} : h[z] = f[z],
         h[x] + h[y] = f[x] + f[y]
  PROVE  SumOver(S, h) = SumOver(S, f)
<1> DEFINE U == S \ {x}
<1>1. IsFiniteSet(U) /\ y \in U
  BY FS_Subset
<1>2. SumOver(U, h) = SumOver(U, f) + h[y] - f[y] /\ SumOver(U, f) \in Int
  <2>1. /\ \A z \in U : f[z] \in Int /\ h[z] \in Int
        /\ \A z \in U \ {y} : h[z] = f[z]
    OBVIOUS
  <2> HIDE DEF U
  <2>2. SumOver(U, f) \in Int
    BY <1>1, <2>1, SumType
  <2>3. SumOver(U, h) = SumOver(U, f) + h[y] - f[y]
    BY <1>1, <2>1, SumOneChanges
  <2>4. QED
    BY <2>2, <2>3
<1>3. SumOver(S, h) = h[x] + SumOver(U, h)
  BY SumMore
<1>4. SumOver(S, f) = f[x] + SumOver(U, f)
  BY SumMore
<1>5. h[x] \in Int /\ h[y] \in Int /\ f[x] \in Int /\ f[y] \in Int
  OBVIOUS
<1> HIDE DEF U
<1>6. QED
  BY <1>2, <1>3, <1>4, <1>5
=============================================================================
