------------------------------ MODULE DistDesc ------------------------------
(***************************************************************************)
(* The reduction data model of Comm/DistDesc.C: the grouping map of an     *)
(* FgfsParDesc (URI -> ReduceDesc), the operators the communication        *)
(* fabrics apply to it, and the group information derived from it.         *)
(*                                                                         *)
(* A URI is the natural number that gives its position in the order of     *)
(* std::map<std::string, ...>; what its text contributes to the code, its  *)
(* packed length, the address its host resolves to and whether that host   *)
(* is a symbolic name, are constants.                                      *)
(***************************************************************************)
EXTENDS Integers, FiniteSets, Functions

CONSTANTS
  Uri,       \* the URIs of the run, numbered in map order
  Addr,      \* Uri -> address of the URI's host, NoAddr if it is not AF_INET
  Symbolic,  \* the URIs whose host is a name and not a dotted address
  Bytes(_)   \* length of the packed map with these keys

NoAddr    == -1
NoUri     == -1     \* the empty mUriString of a fresh descriptor
NotFilled == -1     \* FGFS_NOT_FILLED

ASSUME UriAssumption ==
  /\ Uri \subseteq Nat
  /\ IsFiniteSet(Uri)
  /\ Addr \in [Uri -> Int]
  /\ Symbolic \subseteq Uri

(* Every key adds its descriptor and its text to the packed map.           *)
ASSUME BytesAssumption ==
  \A S \in SUBSET Uri : 
     /\ Bytes(S) \in Nat
     /\ \A T \in SUBSET S : Bytes(T) <= Bytes(S)

-----------------------------------------------------------------------------
(* ReduceDesc and the map of them.                                         *)

ReduceDesc == [first : Nat, count : Nat]

(* The copy constructor assigns rd[0] twice and leaves rd[1] as the memory *)
(* was: Indeterminate stands for any value, as no code branches on it.     *)
(* Insertion into the map assigns and is not affected; copying a map is.   *)
Indeterminate == -2
CopyDesc(rhs) == [first |-> rhs.count, count |-> Indeterminate]
CopyMap(map) == [u \in DOMAIN map |-> CopyDesc(map[u])]

IsGroupingMap(map) == /\ DOMAIN map \subseteq Uri
                      /\ map \in [DOMAIN map -> ReduceDesc]

EmptyMap == [u \in {} |-> [first |-> 0, count |-> 0]]

(* The loop that inserts a rank's own items, each seen first by that rank  *)
(* and counted once, whatever the map held for it before.                  *)
Insert(map, items, rank) ==
  [u \in DOMAIN map \cup items |->
     IF u \in items THEN [first |-> rank, count |-> 1] ELSE map[u]]

(* Faults of unpack: a count that is not added, a first rank taken over.   *)
Unpack_NoCount(map, packed) ==
  [u \in DOMAIN map \cup DOMAIN packed |-> IF u \in DOMAIN map THEN map[u] ELSE packed[u]]

Unpack_SendersFirst(map, packed) ==
  [u \in DOMAIN map \cup DOMAIN packed |->
     IF u \notin DOMAIN packed THEN map[u]
     ELSE IF u \notin DOMAIN map THEN packed[u]
     ELSE [first |-> packed[u].first, count |-> packed[u].count + map[u].count]]

(* Merging a packed map: a key the receiver has keeps the receiver's first *)
(* rank and adds the counts, a key it has not is taken over.               *)
Unpack(map, packed) ==
  [u \in DOMAIN map \cup DOMAIN packed |->
     IF u \notin DOMAIN packed THEN map[u]
     ELSE IF u \notin DOMAIN map THEN packed[u]
     ELSE [first |-> map[u].first, count |-> packed[u].count + map[u].count]]

PackedSize(map) == Bytes(DOMAIN map)

-----------------------------------------------------------------------------
(* The map that the item lists of the ranks in S add up to: each item with *)
(* the lowest rank that has it and the number of ranks that do.            *)

Holders(lists, u, S) == {q \in S : u \in lists[q]}

MapOf(lists, S) ==
  [u \in {v \in Uri : Holders(lists, v, S) # {}} |->
     [first |-> CHOOSE q \in Holders(lists, u, S) :
                  \A p \in Holders(lists, u, S) : q <= p,
      count |-> Cardinality(Holders(lists, u, S))]]

-----------------------------------------------------------------------------
(* Two names of one file server.                                           *)

FirstKey(map) == CHOOSE u \in DOMAIN map : \A v \in DOMAIN map : u <= v
LastKey(map)  == CHOOSE u \in DOMAIN map : \A v \in DOMAIN map : v <= u

(* The code's "!srcAddr2 != -1" compares a truth value with -1 and holds   *)
(* of every address: only the first URI's address is tested.               *)
Aliased(u, v) == Addr[u] # NoAddr /\ Addr[u] = Addr[v]

AliasDetected(map) ==
  Cardinality(DOMAIN map) = 2 /\ Aliased(FirstKey(map), LastKey(map))

(* The key that survives is the second one when the first is symbolic; it  *)
(* keeps its own first rank.                                               *)
Survivor(map) == IF FirstKey(map) \in Symbolic THEN LastKey(map) ELSE FirstKey(map)
Erased(map)   == IF FirstKey(map) \in Symbolic THEN FirstKey(map) ELSE LastKey(map)

(* Fault: the survivor does not take over the count.                       *)
EliminateUriAlias_NoCount(map) ==
  IF AliasDetected(map) THEN [u \in {Survivor(map)} |-> map[u]] ELSE map

EliminateUriAlias(map) ==
  IF AliasDetected(map)
  THEN [u \in {Survivor(map)} |->
          [first |-> map[u].first, count |-> map[u].count + map[Erased(map)].count]]
  ELSE map

AdjustUri(uri, map) ==
  IF uri \notin DOMAIN map /\ Cardinality(DOMAIN map) = 1
  THEN CHOOSE u \in DOMAIN map : TRUE
  ELSE uri

-----------------------------------------------------------------------------
(* Group information.                                                      *)

NoGroupInfo == [numOfGroups |-> NotFilled, groupId |-> NotFilled,
                rankInGroup |-> NotFilled, groupSize |-> NotFilled,
                repInGroup  |-> NotFilled]

FilledId  == Nat \cup {NotFilled}
GroupInfo == [numOfGroups : FilledId, groupId : FilledId, rankInGroup : FilledId,
              groupSize : FilledId, repInGroup : FilledId]

(* Fault: the representative gets rank 0 in its group.                     *)
SetGroupInfo_RepIsZero(old, rank, uri, map) ==
  LET counted == [old EXCEPT !.numOfGroups = Cardinality(DOMAIN map)]
  IN  IF uri \in DOMAIN map
      THEN [counted EXCEPT !.repInGroup  = map[uri].first,
                           !.groupId     = map[uri].first,
                           !.rankInGroup = IF rank = map[uri].first THEN 0 ELSE rank,
                           !.groupSize   = map[uri].count]
      ELSE counted

SetGroupInfo(old, rank, uri, map) ==
  LET counted == [old EXCEPT !.numOfGroups = Cardinality(DOMAIN map)]
  IN  IF uri \in DOMAIN map
      THEN [counted EXCEPT !.repInGroup  = map[uri].first,
                           !.groupId     = map[uri].first,
                           !.rankInGroup = rank,
                           !.groupSize   = map[uri].count]
      ELSE counted

IsGroupingDone(info) == info.groupId # NotFilled
IsSingleGroup(info)  == info.numOfGroups = 1
IsRep(info) == IsGroupingDone(info) /\ info.rankInGroup = info.repInGroup

-----------------------------------------------------------------------------
(* What a reduction with the operation "sum" adds up.                      *)
SumOver(S, val) == FoldFunctionOnSet(+, 0, val, S)
=============================================================================
