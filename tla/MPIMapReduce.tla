---------------------------- MODULE MPIMapReduce ----------------------------
(***************************************************************************)
(* MPICommFabric::grouping and ::mapReduce over N MPI processes: every     *)
(* process inserts its items, the maps travel up a binomial tree to rank 0 *)
(* (BinomialReducer::reduce, with MPICommFabric::send and ::receive, two   *)
(* messages per edge), rank 0 may eliminate a URI alias, and two MPI_Bcasts*)
(* carry the packed map's length and the packed map back.                  *)
(*                                                                         *)
(* Each rank's program counter pc goes                                     *)
(*   call    mapReduce not entered                                         *)
(*   reduce  in the loop of the reducer, at bit mask[r]                    *)
(*   payload the length of a child's map received, its map awaited         *)
(*   sending in MPI_Send of the length     sent     in MPI_Send of the map *)
(*   size    before MPI_Bcast of bufSize   bcast    before that of the map *)
(*   group   mapReduce has returned        done     the call has returned  *)
(*                                                                         *)
(* MPI delivers a message once, and in order per tag; each rank sends at   *)
(* most one message per tag in a call, so a slot per sender and tag is the *)
(* whole network.  MPI_Bcast makes a non-root wait for the root's call; it *)
(* may let a rank go before the others have called it, or not.             *)
(***************************************************************************)
EXTENDS DistDesc

CONSTANTS
  N,            \* number of MPI processes
  Call,         \* "grouping" or "mapReduce", what the callers invoke
  ElimAlias,    \* the argument elimAlias of that call
  Eager,        \* MPI_Send returns before the receiver takes the message
  MayFail       \* ranks whose malloc of the broadcast buffer may fail

ASSUME CallAssumption ==
  /\ N \in Nat \ {0}
  /\ Call \in {"grouping", "mapReduce"}
  /\ ElimAlias \in BOOLEAN
  /\ Eager \in BOOLEAN
  /\ MayFail \subseteq 0 .. N-1

VARIABLES
  items,        \* the item list each rank calls with
  pc, mask,     \* control of each rank
  uri, map,     \* mUriString and groupingMap of its descriptor
  info,         \* the group information of its descriptor
  bufSize,      \* its local bufSize, of receive or of mapReduce
  rc,           \* what its mapReduce returned
  sizeMsg,      \* length sent and not yet received, per sender
  mapMsg,       \* map sent and not yet received, per sender
  bcastSize,    \* what rank 0 has broadcast as bufSize
  bcastMap      \* what rank 0 has broadcast as bbuf

wire == <<sizeMsg, mapMsg, bcastSize, bcastMap>>
desc == <<uri, map, info>>
vars == <<items, pc, mask, desc, bufSize, rc, wire>>

Rank == 0 .. N-1

NoSize == [dest |-> NotFilled, body |-> 0]
NoMap  == [dest |-> NotFilled, body |-> EmptyMap]

(* A list of items per rank; grouping lists the rank's one item.           *)
InputOK ==
  /\ items \in [Rank -> SUBSET Uri]
  /\ Call = "grouping" => \A r \in Rank : \E u \in Uri : items[r] = {u}

TypeOK ==
  /\ InputOK
  /\ pc \in [Rank -> {"call", "reduce", "payload", "sending", "sent",
                      "size", "bcast", "group", "done"}]
  /\ mask \in [Rank -> Nat \ {0}]
  /\ uri \in [Rank -> Uri \cup {NoUri}]
  /\ DOMAIN map = Rank
  /\ \A r \in Rank : IsGroupingMap(map[r])
  /\ info \in [Rank -> GroupInfo]
  /\ bufSize \in [Rank -> FilledId]
  /\ rc \in [Rank -> BOOLEAN]
  /\ sizeMsg \in [Rank -> [dest : Rank \cup {NotFilled}, body : Nat]]
  /\ DOMAIN mapMsg = Rank
  /\ \A r \in Rank : /\ mapMsg[r].dest \in Rank \cup {NotFilled}
                     /\ IsGroupingMap(mapMsg[r].body)
  /\ bcastSize \in FilledId
  /\ bcastMap.posted \in BOOLEAN
  /\ IsGroupingMap(bcastMap.body)

Init ==
  /\ InputOK
  /\ pc = [r \in Rank |-> "call"]
  /\ mask = [r \in Rank |-> 1]
  /\ uri = [r \in Rank |-> NoUri]
  /\ map = [r \in Rank |-> EmptyMap]
  /\ info = [r \in Rank |-> NoGroupInfo]
  /\ bufSize = [r \in Rank |-> NotFilled]
  /\ rc = [r \in Rank |-> TRUE]
  /\ sizeMsg = [r \in Rank |-> NoSize]
  /\ mapMsg = [r \in Rank |-> NoMap]
  /\ bcastSize = NotFilled
  /\ bcastMap = [posted |-> FALSE, body |-> EmptyMap]

-----------------------------------------------------------------------------
(* The binomial tree.                                                      *)

Clear(r) == (r \div mask[r]) % 2 = 0      \* (mask & relrank) == 0
Source(r) == r + mask[r]                  \* relrank | mask, that bit clear
Destination_Up(r) == r + mask[r]          \* fault: the bit set, not cleared
Destination(r) == r - mask[r]             \* relrank & ~mask, that bit set

At(r, label) == pc[r] = label
Goto(r, label) == pc' = [pc EXCEPT ![r] = label]
Widen(r) == mask' = [mask EXCEPT ![r] = 2 * @]

ItemOf(r) == CHOOSE u \in Uri : u \in items[r]

(* grouping refuses a descriptor that has a map; it and mapReduce start    *)
(* with what the rank knows by itself.                                     *)
Begin(r) ==
  /\ At(r, "call")
  /\ map[r] = EmptyMap
  /\ Goto(r, "reduce")
  /\ uri' = [uri EXCEPT ![r] = IF Call = "grouping" THEN ItemOf(r) ELSE @]
  /\ map' = [map EXCEPT ![r] = Insert(@, items[r], r)]
  /\ UNCHANGED <<items, mask, info, bufSize, rc, wire>>

(* Fault: the mask is not shifted when the child does not exist.           *)
NoSource_SameMask(r) ==
  /\ At(r, "reduce") /\ mask[r] < N /\ Clear(r)
  /\ Source(r) >= N
  /\ UNCHANGED vars

NoSource(r) ==
  /\ At(r, "reduce") /\ mask[r] < N /\ Clear(r)
  /\ Source(r) >= N
  /\ Widen(r)
  /\ UNCHANGED <<items, pc, desc, bufSize, rc, wire>>

ReceiveSize(r) ==
  /\ At(r, "reduce") /\ mask[r] < N /\ Clear(r)
  /\ Source(r) < N
  /\ sizeMsg[Source(r)].dest = r
  /\ bufSize' = [bufSize EXCEPT ![r] = sizeMsg[Source(r)].body]
  /\ sizeMsg' = [sizeMsg EXCEPT ![Source(r)] = NoSize]
  /\ Goto(r, "payload")
  /\ UNCHANGED <<items, mask, desc, rc, mapMsg, bcastSize, bcastMap>>

ReceiveMap(r) ==
  /\ At(r, "payload")
  /\ mapMsg[Source(r)].dest = r
  /\ map' = [map EXCEPT ![r] = Unpack(@, mapMsg[Source(r)].body)]
  /\ mapMsg' = [mapMsg EXCEPT ![Source(r)] = NoMap]
  /\ Goto(r, "reduce")
  /\ Widen(r)
  /\ UNCHANGED <<items, uri, info, bufSize, rc, sizeMsg, bcastSize, bcastMap>>

(* Fault: the length is that of the map before it was merged.              *)
SendSize_OwnItems(r) ==
  /\ At(r, "reduce") /\ mask[r] < N /\ ~Clear(r)
  /\ sizeMsg' = [sizeMsg EXCEPT ![r] = [dest |-> Destination(r), body |-> Bytes(items[r])]]
  /\ Goto(r, "sending")
  /\ UNCHANGED <<items, mask, desc, bufSize, rc, mapMsg, bcastSize, bcastMap>>

SendSize(r) ==
  /\ At(r, "reduce") /\ mask[r] < N /\ ~Clear(r)
  /\ sizeMsg' = [sizeMsg EXCEPT ![r] =
                   [dest |-> Destination(r), body |-> PackedSize(map[r])]]
  /\ Goto(r, "sending")
  /\ UNCHANGED <<items, mask, desc, bufSize, rc, mapMsg, bcastSize, bcastMap>>

SendMap(r) ==
  /\ At(r, "sending")
  /\ Eager \/ sizeMsg[r].dest = NotFilled
  /\ mapMsg' = [mapMsg EXCEPT ![r] = [dest |-> Destination(r), body |-> map[r]]]
  /\ Goto(r, "sent")
  /\ UNCHANGED <<items, mask, desc, bufSize, rc, sizeMsg, bcastSize, bcastMap>>

Reduced(r) ==
  \/ At(r, "reduce") /\ mask[r] >= N
  \/ At(r, "sent") /\ (Eager \/ mapMsg[r].dest = NotFilled)

(* The reducer has returned: rank 0 eliminates, every rank adjusts its URI *)
(* against the map it has at this point, and rank 0 broadcasts the length. *)
Condensed(r) ==
  IF r = 0 /\ ElimAlias THEN EliminateUriAlias(map[r]) ELSE map[r]

FinishReduce(r) ==
  /\ Reduced(r)
  /\ map' = [map EXCEPT ![r] = Condensed(r)]
  /\ uri' = [uri EXCEPT ![r] = IF ElimAlias THEN AdjustUri(@, Condensed(r)) ELSE @]
  /\ IF r = 0
     THEN /\ bufSize' = [bufSize EXCEPT ![r] = PackedSize(Condensed(r))]
          /\ bcastSize' = PackedSize(Condensed(r))
          /\ Goto(r, "bcast")
     ELSE /\ Goto(r, "size")
          /\ UNCHANGED <<bufSize, bcastSize>>
  /\ UNCHANGED <<items, mask, info, rc, sizeMsg, mapMsg, bcastMap>>

BcastSize(r) ==
  /\ At(r, "size")
  /\ bcastSize # NotFilled
  /\ bufSize' = [bufSize EXCEPT ![r] = bcastSize]
  /\ Goto(r, "bcast")
  /\ UNCHANGED <<items, mask, desc, rc, wire>>

(* malloc(bufSize) fails: the rank leaves without the second broadcast.    *)
MallocFails(r) ==
  /\ At(r, "bcast")
  /\ r \in MayFail
  /\ rc' = [rc EXCEPT ![r] = FALSE]
  /\ Goto(r, "group")
  /\ UNCHANGED <<items, mask, desc, bufSize, wire>>

(* A rank that takes part gets the map once rank 0 has posted it.          *)
BcastMap(r) ==
  /\ At(r, "bcast")
  /\ IF r = 0
     THEN /\ bcastMap' = [posted |-> TRUE, body |-> map[r]]
          /\ UNCHANGED map
     ELSE /\ bcastMap.posted
          /\ map' = [map EXCEPT ![r] = Unpack(EmptyMap, bcastMap.body)]
          /\ UNCHANGED bcastMap
  /\ Goto(r, "group")
  /\ UNCHANGED <<items, mask, uri, info, bufSize, rc, sizeMsg, mapMsg, bcastSize>>

(* grouping ignores what mapReduce returned and fills the group info.      *)
Finish(r) ==
  /\ At(r, "group")
  /\ info' = IF Call = "grouping"
             THEN [info EXCEPT ![r] = SetGroupInfo(@, r, uri[r], map[r])]
             ELSE info
  /\ Goto(r, "done")
  /\ UNCHANGED <<items, mask, uri, map, bufSize, rc, wire>>

Step(r) ==
  \/ Begin(r)
  \/ NoSource(r) \/ ReceiveSize(r) \/ ReceiveMap(r) \/ SendSize(r) \/ SendMap(r)
  \/ FinishReduce(r) \/ BcastSize(r) \/ MallocFails(r) \/ BcastMap(r)
  \/ Finish(r)

Returned == \A r \in Rank : At(r, "done")

Next == (\E r \in Rank : Step(r)) \/ (Returned /\ UNCHANGED vars)

Spec == Init /\ [][Next]_vars

NobodyFailed == \A r \in Rank : rc[r]

(* Every rank is a running MPI process and MPI makes progress.  It need    *)
(* make none in the second broadcast when a rank has left without calling  *)
(* it: the root may wait for that rank, and others for what it forwards.   *)
Advance(r) == Step(r) /\ (At(r, "bcast") => NobodyFailed)

FairSpec == Spec /\ \A r \in Rank : WF_vars(Advance(r))

-----------------------------------------------------------------------------
(* What the call should have computed.                                     *)

(* m describes exactly the lists of the ranks in S.                        *)
Exact(lists, m, S) ==
  /\ DOMAIN m = {u \in Uri : Holders(lists, u, S) # {}}
  /\ \A u \in DOMAIN m :
       /\ m[u].count = Cardinality(Holders(lists, u, S))
       /\ m[u].first \in Holders(lists, u, S)
       /\ \A q \in Holders(lists, u, S) : m[u].first <= q

Reference(lists) == MapOf(lists, Rank)

Expected(lists) ==
  IF ElimAlias THEN EliminateUriAlias(Reference(lists)) ELSE Reference(lists)

(* A rank whose mapReduce succeeds returns with the map of the whole job:  *)
(* each item with the lowest rank that has it and the number of ranks that *)
(* do, after the one alias elimination the global master may have made.    *)
(* It is about every unpack, in whatever order the tree's messages and the *)
(* broadcasts reach the ranks (MPICommFabric.C:226-303).                   *)
MapExact ==
  \A r \in Rank : pc[r] \in {"group", "done"} /\ rc[r] => map[r] = Expected(items)

(* When grouping has returned everywhere, each group of the map has one    *)
(* member, and one only, that takes itself for the representative, and it  *)
(* is a process that holds the group's item (DistDesc.C:163-178, 565-594). *)
OneRepPerGroup ==
  Returned /\ (\A r \in Rank : rc[r]) =>
    \A u \in DOMAIN map[0] :
      \E r \in Holders(items, u, Rank) :
        /\ IsRep(info[r])
        /\ info[r].groupId = map[0][u].first
        /\ \A q \in Rank \ {r} : IsRep(info[q]) => info[q].groupId # info[r].groupId

(* No pack or unpack runs past the buffer allocated from the length that   *)
(* was announced: not in receive, and not in the pack of its own map that  *)
(* every rank makes into the broadcast buffer (MPICommFabric.C:284-290,    *)
(* 343-361).                                                               *)
BuffersFit ==
  \A r \in Rank :
    /\ At(r, "bcast") => PackedSize(map[r]) <= bufSize[r]
    /\ At(r, "payload") /\ mapMsg[Source(r)].dest = r =>
         PackedSize(mapMsg[Source(r)].body) = bufSize[r]

(* A rank's map is its own until it is packed into the message to its      *)
(* parent; from then to the parent's unpack the message carries it.        *)
CarriesOwn(r) ==
  \/ pc[r] \in {"reduce", "payload", "sending"}
  \/ r = 0 /\ pc[r] # "call"

CountIn(m) == SumOver(DOMAIN m, [u \in DOMAIN m |-> m[u].count])

Carried(r) == (IF CarriesOwn(r) THEN CountIn(map[r]) ELSE 0) + CountIn(mapMsg[r].body)

Given(r) == IF At(r, "call") THEN 0 ELSE Cardinality(items[r])

(* No contribution is lost and none is counted twice on the way to rank 0, *)
(* nor by the elimination of an alias: the counts of the maps and messages *)
(* that make up the reduction always add up to the items inserted so far   *)
(* (DistDesc.C:365-392, 443-540).                                          *)
NothingLost ==
  SumOver(Rank, [r \in Rank |-> Carried(r)]) = SumOver(Rank, [r \in Rank |-> Given(r)])

(* Why MapExact holds.  A rank at bit mask of the tree has gathered the    *)
(* items of the mask ranks that begin with itself; what it sends reaches   *)
(* the rank that waits for exactly the ranks that follow its own.          *)
Span(r, m) == {q \in Rank : r <= q /\ q < r + m}

TreeOK ==
  \A r \in Rank :
    /\ At(r, "payload") => Source(r) \in Rank
    /\ pc[r] \in {"sending", "sent"} => r # 0 /\ Destination(r) \in Rank
    /\ At(r, "size") => r # 0

GatheredOK ==
  \A r \in Rank :
    /\ At(r, "call") => map[r] = EmptyMap /\ mask[r] = 1
    /\ pc[r] \in {"reduce", "payload", "sending", "sent"} =>
         Exact(items, map[r], Span(r, mask[r]))

MessagesOK ==
  \A s \in Rank : mapMsg[s].dest # NotFilled =>
    /\ pc[s] \notin {"call", "reduce", "payload", "sending"}
    /\ mapMsg[s].dest = Destination(s)
    /\ Exact(items, mapMsg[s].body, Span(s, mask[s]))

BroadcastOK ==
  /\ At(0, "bcast") => map[0] = Expected(items)
  /\ bcastMap.posted => bcastMap.body = Expected(items)

IInv == TypeOK /\ TreeOK /\ GatheredOK /\ MessagesOK /\ BroadcastOK /\ MapExact

(* grouping fills the group information of every process, also of those    *)
(* whose URI the master eliminated: the comment at MPICommFabric.C:261-265.*)
GroupingFilled ==
  Returned => \A r \in Rank : rc[r] => IsGroupingDone(info[r])

(* The call returns on every rank, but for those that may wait for ever in *)
(* the second broadcast, where another rank has not called it: the tree    *)
(* and the broadcast of the length bring all of them to it                 *)
(* (MPICommFabric.C:234-302).                                              *)
Terminates ==
  <>[](\A r \in Rank : At(r, "done") \/ (At(r, "bcast") /\ ~NobodyFailed))

-----------------------------------------------------------------------------
(* The call implements what CommFabric::grouping promises.                 *)
Learnt(r) == At(r, "done") /\ rc[r]

AliasFree == \A u, v \in Uri : u # v => ~Aliased(u, v)

Abstract == INSTANCE Grouping WITH
  Item   <- Uri,
  item   <- [r \in Rank |-> ItemOf(r)],
  result <- [r \in Rank |-> IF Learnt(r) THEN info[r] ELSE [pending |-> TRUE]]

(* Seen from its callers, grouping is the abstract one: as long as no two  *)
(* URIs are aliases a process goes from pending to the information about   *)
(* its true group in one step and keeps it (MPICommFabric.C:187-223).      *)
ImplementsGrouping == Abstract!Spec
=============================================================================
