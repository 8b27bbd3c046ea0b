---------------------------- MODULE MRNetFabric ----------------------------
(***************************************************************************)
(* MRNetCommFabric over an MRNet tree: the front end is the root and the   *)
(* back ends are the leaves; the communication nodes in between run        *)
(* FGFSFilterDown and FGFSFilterUp.  A reduction is a packet with the tag  *)
(* of the operation from the front end to every back end, an operand from  *)
(* every back end up through the filters, which hold packets back until    *)
(* every child has sent one, and the result down again.  Before and after  *)
(* the calls of the library the programs exchange messages of their own    *)
(* through the same filters: "hello" and "debug", which tells a debugger   *)
(* where the daemons run, in MRNet_Init and "finalize" in MRNet_Finalize.  *)
(* All processes make the same sequence of calls.                          *)
(*                                                                         *)
(* MRNet delivers in order on every link.  The filter of the front end's   *)
(* own node runs in the step in which the front end receives.              *)
(***************************************************************************)
EXTENDS DistDesc, Sequences, SequencesExt

CONSTANTS
  BackEnd,      \* ranks of the back ends
  CommNode,     \* the nodes that only run filters
  Parent,       \* the tree: back ends and communication nodes -> their parent
  Script,       \* the collective calls every process makes, in order
  MayFail,      \* <<rank, k>>: the k-th call may fail there before it sends
  NoMemory,     \* calls in which the front end has no memory for the result
  FilterBytes   \* the length of the Bloom filter, a multiple of four

FrontEnd == 0
Rank == {FrontEnd} \cup BackEnd
Children(n) == {c \in DOMAIN Parent : Parent[c] = n}

(* MRNetMsgType.  The operations on long long ints, of the storage         *)
(* classifier, are those on ints with another width and one with them.     *)
MapOp == {"map", "mapElim"}
IntOp == {"max", "min", "sum"}
Reduction == MapOp \cup IntOp \cup {"bor"}
Broadcast == {"init", "bcast", "hello"}
Session == {"debug", "finalize"}
Operation == Reduction \cup Broadcast \cup Session

ASSUME TreeAssumption ==
  /\ BackEnd \subseteq Nat \ {FrontEnd} /\ BackEnd # {}
  /\ CommNode \cap Rank = {}
  /\ DOMAIN Parent = BackEnd \cup CommNode
  /\ \A n \in DOMAIN Parent : Parent[n] \in CommNode \cup {FrontEnd}
  /\ IsFiniteSet(BackEnd) /\ IsFiniteSet(CommNode)
  /\ \A n \in CommNode \cup {FrontEnd} : Children(n) # {}
  /\ \A S \in SUBSET DOMAIN Parent : S # {} => \E n \in S : Parent[n] \notin S
  /\ Script \in Seq(Operation)
  /\ MayFail \subseteq Rank \X (1 .. Len(Script))
  /\ NoMemory \subseteq {k \in DOMAIN Script : Script[k] = "bor"}
  /\ FilterBytes \in Nat \ {0}

VARIABLES
  item,         \* what each rank brings to the calls
  pc,           \* "idle", "called" or "waiting" for the result
  down,         \* packets from the parent of each node to it
  up,           \* packets from each node to its parent
  result,       \* what the calls of each rank have returned
  proctable     \* MPIR_proctable of the front end: where the daemons are

links == <<down, up>>
vars == <<item, pc, links, result, proctable>>

Packet(tag, start, val) == [tag |-> tag, start |-> start, val |-> val]

(* No bytes: what a call that fails returns, and what the front end sends  *)
(* where it had no memory for a filter.                                    *)
NoBytes == {}

(* The first packet carries the four bytes "FGFS", an int has four too, and*)
(* so may a filter have.  Packed maps are longer.                          *)
FilterLength(p) == IF p.start THEN 4 ELSE IF p.val = NoBytes THEN 0 ELSE FilterBytes

FourBytes(p) == p.start \/ p.tag \in IntOp \/ (p.tag = "bor" /\ FilterLength(p) = 4)

TypeOK ==
  /\ item \in [Rank -> Uri]
  /\ pc \in [Rank -> {"idle", "called", "waiting"}]
  /\ DOMAIN down = DOMAIN Parent /\ DOMAIN up = DOMAIN Parent
  /\ \A n \in DOMAIN Parent :
       /\ Len(down[n]) <= 2 * Len(Script) /\ Len(up[n]) <= 1
       /\ \A i \in DOMAIN down[n] : down[n][i].tag \in Operation
  /\ \A r \in Rank : Len(result[r]) <= Len(Script)

Init ==
  /\ item \in [Rank -> Uri]
  /\ pc = [r \in Rank |-> "idle"]
  /\ down = [n \in DOMAIN Parent |-> <<>>]
  /\ up = [n \in DOMAIN Parent |-> <<>>]
  /\ result = [r \in Rank |-> <<>>]
  /\ proctable = <<>>

-----------------------------------------------------------------------------
(* The operations.                                                         *)

(* The integers a rank reduces change from call to call.                   *)
Current(r) == Len(result[r]) + 1
Op(r) == Script[Current(r)]

Operand(r) == CASE Op(r) \in IntOp -> item[r] + Current(r)
                [] Op(r) = "bor" -> {item[r]}
                [] Op(r) \in MapOp -> Insert(EmptyMap, {item[r]}, r)
                [] Op(r) = "debug" -> <<r>>
                [] Op(r) = "finalize" -> 0

Combine(op, a, b) == CASE op = "max" -> IF a > b THEN a ELSE b
                       [] op = "min" -> IF a < b THEN a ELSE b
                       [] op = "sum" -> a + b
                       [] op = "bor" -> a \cup b
                       [] op \in MapOp -> Unpack(a, b)
                       [] op = "debug" -> a \o b

(* The tags of the request and of the operands: MRNet_Finalize asks with   *)
(* MMT_debug_mpir and answers with MMT_op_allreduce_int_max.               *)
AskTag(op) == IF op = "finalize" THEN "debug" ELSE op
AnswerTag(op) == IF op = "finalize" THEN "max" ELSE op

(* Fault: the first packet is merged twice.                                *)
Merged_Twice(wave) ==
  Packet(wave[1].tag, FALSE,
         FoldLeft(LAMBDA a, p : IF p.tag = wave[1].tag THEN Combine(p.tag, a, p.val) ELSE a,
                  wave[1].val, wave))

(* FGFSFilterUp: packets that do not have the first one's tag are skipped. *)
Merged(wave) ==
  Packet(wave[1].tag, FALSE,
         FoldLeft(LAMBDA a, p : IF p.tag = wave[1].tag THEN Combine(p.tag, a, p.val) ELSE a,
                  wave[1].val, Tail(wave)))

(* A wave in the order in which the children's packets came.               *)
WaveReady(n) == \A c \in Children(n) : up[c] # <<>>
Waves(n) == {[i \in DOMAIN order |-> Head(up[order[i]])] : order \in SetToSeqs(Children(n))}

Heads(n) == [c \in DOMAIN up |-> IF c \in Children(n) THEN Tail(up[c]) ELSE up[c]]

ToChildren(n, packet) ==
  [c \in DOMAIN down |-> IF c \in Children(n) THEN Append(down[c], packet) ELSE down[c]]

(* reduceFinal: the front end's own operand first.                         *)
Final(op, merged) ==
  LET all == Combine(op, Operand(FrontEnd), merged)
  IN  IF op = "mapElim" THEN EliminateUriAlias(all) ELSE all

-----------------------------------------------------------------------------
(* The processes.                                                          *)

Return(r, ok, val) ==
  /\ pc' = [pc EXCEPT ![r] = "idle"]
  /\ result' = [result EXCEPT ![r] = Append(@, [ok |-> ok, val |-> val])]

Fail(r) == Return(r, FALSE, NoBytes)

Call(r) ==
  /\ pc[r] = "idle" /\ Len(result[r]) < Len(Script)
  /\ pc' = [pc EXCEPT ![r] = "called"]
  /\ UNCHANGED <<item, links, result, proctable>>

(* malloc fails in mapReduce, or the caller returns early.                 *)
CallFails(r) ==
  /\ pc[r] = "called"
  /\ <<r, Current(r)>> \in MayFail
  /\ Fail(r)
  /\ UNCHANGED <<item, links, proctable>>

BroadcastValue(op) == CASE op = "init" -> Cardinality(Rank)
                        [] op = "bcast" -> item[FrontEnd]
                        [] op = "hello" -> 0

FrontEndBroadcast ==
  LET op == Op(FrontEnd)
  IN  /\ pc[FrontEnd] = "called" /\ op \in Broadcast
      /\ down' = ToChildren(FrontEnd, Packet(op, FALSE, BroadcastValue(op)))
      /\ Return(FrontEnd, TRUE, BroadcastValue(op))
      /\ UNCHANGED <<item, up, proctable>>

FrontEndStart ==
  LET op == Op(FrontEnd)
  IN  /\ pc[FrontEnd] = "called" /\ op \in Reduction \cup Session
      /\ down' = ToChildren(FrontEnd, Packet(AskTag(op), TRUE, NotFilled))
      /\ pc' = [pc EXCEPT ![FrontEnd] = "waiting"]
      /\ UNCHANGED <<item, up, result, proctable>>

(* Fault: the merged packet goes down without the front end's operand.     *)
FrontEndReduce_Merged ==
  LET op == Op(FrontEnd)
  IN  /\ pc[FrontEnd] = "waiting" /\ WaveReady(FrontEnd)
      /\ up' = Heads(FrontEnd)
      /\ \E wave \in Waves(FrontEnd) :
           /\ down' = ToChildren(FrontEnd, Packet(op, FALSE, Merged(wave).val))
           /\ Return(FrontEnd, TRUE, Final(op, Merged(wave).val))
      /\ UNCHANGED <<item, proctable>>

FrontEndReduce ==
  LET op == Op(FrontEnd)
  IN  /\ pc[FrontEnd] = "waiting" /\ op \in Reduction /\ WaveReady(FrontEnd)
      /\ up' = Heads(FrontEnd)
      /\ \E wave \in Waves(FrontEnd) :
           \/ /\ wave[1].tag # op
              /\ Fail(FrontEnd) /\ UNCHANGED down
           \/ /\ wave[1].tag = op /\ Current(FrontEnd) \notin NoMemory
              /\ down' = ToChildren(FrontEnd, Packet(op, FALSE, Final(op, Merged(wave).val)))
              /\ Return(FrontEnd, TRUE, Final(op, Merged(wave).val))
           \/ /\ wave[1].tag = op /\ Current(FrontEnd) \in NoMemory
              /\ down' = ToChildren(FrontEnd, Packet(op, FALSE, NoBytes))
              /\ Fail(FrontEnd)
      /\ UNCHANGED <<item, proctable>>

(* setupDebugFE: the table is filled, a debugger may attach, all go on.    *)
FrontEndSpawned ==
  /\ pc[FrontEnd] = "waiting" /\ Op(FrontEnd) = "debug" /\ WaveReady(FrontEnd)
  /\ up' = Heads(FrontEnd)
  /\ \E wave \in Waves(FrontEnd) : proctable' = <<FrontEnd>> \o Merged(wave).val
  /\ down' = ToChildren(FrontEnd, Packet("debug", FALSE, 0))
  /\ Return(FrontEnd, TRUE, 0)
  /\ UNCHANGED item

(* MRNet_Finalize: the network is deleted once every back end has answered.*)
FrontEndFinalize ==
  /\ pc[FrontEnd] = "waiting" /\ Op(FrontEnd) = "finalize" /\ WaveReady(FrontEnd)
  /\ up' = Heads(FrontEnd)
  /\ Return(FrontEnd, TRUE, 0)
  /\ UNCHANGED <<item, down, proctable>>

BackEndBroadcast(r) ==
  /\ pc[r] = "called" /\ Op(r) \in Broadcast
  /\ down[r] # <<>>
  /\ down' = [down EXCEPT ![r] = Tail(@)]
  /\ IF Head(down[r]).tag = Op(r) THEN Return(r, TRUE, Head(down[r]).val) ELSE Fail(r)
  /\ UNCHANGED <<item, up, proctable>>

(* Faults: the tag is not tested; the operand is sent unasked.             *)
BackEndOperand_AnyTag(r) ==
  /\ pc[r] = "called" /\ Op(r) \in Reduction \cup Session
  /\ down[r] # <<>>
  /\ down' = [down EXCEPT ![r] = Tail(@)]
  /\ up' = [up EXCEPT ![r] = Append(@, Packet(AnswerTag(Op(r)), FALSE, Operand(r)))]
  /\ pc' = [pc EXCEPT ![r] = "waiting"]
  /\ UNCHANGED <<item, result, proctable>>

BackEndOperand_Unasked(r) ==
  /\ pc[r] = "called" /\ Op(r) \in Reduction \cup Session
  /\ up' = [up EXCEPT ![r] = Append(@, Packet(AnswerTag(Op(r)), FALSE, Operand(r)))]
  /\ UNCHANGED <<item, pc, down, result, proctable>>

BackEndOperand(r) ==
  /\ pc[r] = "called" /\ Op(r) \in Reduction \cup Session
  /\ down[r] # <<>>
  /\ down' = [down EXCEPT ![r] = Tail(@)]
  /\ IF /\ Head(down[r]).tag = AskTag(Op(r))
        /\ Op(r) \in Reduction => FourBytes(Head(down[r]))
     THEN /\ up' = [up EXCEPT ![r] = Append(@, Packet(AnswerTag(Op(r)), FALSE, Operand(r)))]
          /\ pc' = [pc EXCEPT ![r] = "waiting"]
          /\ UNCHANGED result
     ELSE Fail(r) /\ UNCHANGED up
  /\ UNCHANGED <<item, proctable>>

(* Fault: the result is peeked at and asked for again.                     *)
BackEndResult_Again(r) ==
  /\ pc[r] = "waiting"
  /\ down[r] # <<>>
  /\ UNCHANGED vars

(* Fault: allReduce does not compare the length of the result.             *)
BackEndResult_AnyLength(r) ==
  /\ pc[r] = "waiting" /\ Op(r) # "finalize"
  /\ down[r] # <<>>
  /\ down' = [down EXCEPT ![r] = Tail(@)]
  /\ IF Head(down[r]).tag = Op(r) THEN Return(r, TRUE, Head(down[r]).val) ELSE Fail(r)
  /\ UNCHANGED <<item, up, proctable>>

(* allReduce compares the length with its own, which tells an empty result *)
(* from a filter, and a request where filters are longer.  mapReduce       *)
(* compares nothing.                                                       *)
BackEndResult(r) ==
  LET packet == Head(down[r])
  IN  /\ pc[r] = "waiting" /\ Op(r) # "finalize"
      /\ down[r] # <<>>
      /\ down' = [down EXCEPT ![r] = Tail(@)]
      /\ IF packet.tag = Op(r) /\ (Op(r) = "bor" => FilterLength(packet) = FilterBytes)
         THEN Return(r, TRUE, packet.val)
         ELSE Fail(r)
      /\ UNCHANGED <<item, up, proctable>>

(* waitfor_ShutDown: until the front end has deleted the network.          *)
BackEndShutDown(r) ==
  /\ pc[r] = "waiting" /\ Op(r) = "finalize"
  /\ Len(result[FrontEnd]) >= Current(r)
  /\ Return(r, TRUE, 0)
  /\ UNCHANGED <<item, links, proctable>>

-----------------------------------------------------------------------------
(* The communication nodes.                                                *)

FilterDown(n) ==
  /\ down[n] # <<>>
  /\ down' = [ToChildren(n, Head(down[n])) EXCEPT ![n] = Tail(down[n])]
  /\ UNCHANGED <<item, pc, up, result, proctable>>

FilterUp(n) ==
  /\ WaveReady(n)
  /\ \E wave \in Waves(n) : up' = [Heads(n) EXCEPT ![n] = Append(up[n], Merged(wave))]
  /\ UNCHANGED <<item, pc, down, result, proctable>>

Step(r) ==
  \/ Call(r) \/ CallFails(r)
  \/ r = FrontEnd /\ (FrontEndBroadcast \/ FrontEndStart \/ FrontEndReduce
                      \/ FrontEndSpawned \/ FrontEndFinalize)
  \/ r \in BackEnd /\ (BackEndBroadcast(r) \/ BackEndOperand(r) \/ BackEndResult(r)
                       \/ BackEndShutDown(r))

Forward(n) == FilterDown(n) \/ FilterUp(n)

Returned == \A r \in Rank : Len(result[r]) = Len(Script)

Next == (\E r \in Rank : Step(r)) \/ (\E n \in CommNode : Forward(n))
          \/ (Returned /\ UNCHANGED vars)

Spec == Init /\ [][Next]_vars

(* The processes run and MRNet forwards what it has been given.            *)
Fairness == /\ \A r \in Rank : WF_vars(Step(r))
            /\ \A n \in CommNode : WF_vars(Forward(n))

FairSpec == Spec /\ Fairness

-----------------------------------------------------------------------------
(* What the calls should return.                                           *)

(* The outcomes of an operation: with the maps that name any holder of an  *)
(* item as its first rank.                                                 *)
MapsOf(operand) ==
  LET items == {operand[r] : r \in Rank}
      holders(u) == {r \in Rank : operand[r] = u}
  IN  {[u \in items |-> [first |-> f[u], count |-> Cardinality(holders(u))]] :
         f \in {g \in [items -> Rank] : \A u \in items : g[u] \in holders(u)}}

Least(S) == CHOOSE m \in S : \A x \in S : m <= x
Greatest(S) == CHOOSE m \in S : \A x \in S : x <= m

Outcome(k, operand) ==
  LET op == Script[k]
      ints == {operand[r] + k : r \in Rank}
  IN  CASE op = "init" -> {Cardinality(Rank)}
        [] op = "bcast" -> {operand[FrontEnd]}
        [] op = "max" -> {Greatest(ints)}
        [] op = "min" -> {Least(ints)}
        [] op = "sum" -> {SumOver(Rank, [r \in Rank |-> operand[r] + k])}
        [] op = "bor" -> {IF k \in NoMemory THEN NoBytes ELSE {operand[r] : r \in Rank}}
        [] op \in {"hello"} \cup Session -> {0}
        [] op = "map" -> MapsOf(operand)
        [] op = "mapElim" -> {EliminateUriAlias(m) : m \in MapsOf(operand)}

Successful(r) == {k \in DOMAIN result[r] : result[r][k].ok}

(* A call that returns true returns what everybody's operands amount to,   *)
(* also after calls that failed on some ranks and left their packets       *)
(* behind: the tags keep operations of different kinds apart               *)
(* (MRNetCommFabric.C:480-646).                                            *)
RightOrFalse ==
  \A r \in Rank : \A k \in Successful(r) : result[r][k].val \in Outcome(k, item)

(* Every process ends up with the same result, so with one representative  *)
(* of every group, although the filters merge the packets in the order of  *)
(* their arrival; and a call that fails for want of memory on the front    *)
(* end, which only logs it and sends what it has, fails on all of them     *)
(* (MRNetFilterUp.C:353-405, MRNetCommFabric.C:527-646).                   *)
SameResult ==
  \A r, q \in Rank : \A k \in DOMAIN result[r] \cap DOMAIN result[q] :
    result[r][k] = result[q][k]

(* A process that has got past the debugger's stop finds every process in  *)
(* the table, once, in whatever order the filters put them together        *)
(* (MRNetFilterUp.C:409-486, FgfsMRNetWrapper.C:97-131).                   *)
ProctableComplete ==
  \A r \in Rank : \A k \in Successful(r) : Script[k] = "debug" =>
    Range(proctable) = Rank /\ Len(proctable) = Cardinality(Rank)

(* The packets a filter merges belong to one kind of operation: no operand *)
(* is ever skipped for its tag (MRNetFilterUp.C:39-498).                   *)
OneTagPerWave ==
  \A n \in CommNode \cup {FrontEnd} : WaveReady(n) =>
    \A c, d \in Children(n) : Head(up[c]).tag = Head(up[d]).tag

(* The group information grouping derives from the map of its call.        *)
InfoOf(r, k) ==
  LET map == result[r][k].val
      uri == IF Script[k] = "mapElim" THEN AdjustUri(item[r], map) ELSE item[r]
  IN  SetGroupInfo(NoGroupInfo, r, uri, map)

(* When a grouping has returned everywhere every process knows its group,  *)
(* the eliminated names included, and each group has one representative    *)
(* and the size it really has (MRNetCommFabric.C:291-446).                 *)
GroupsRight ==
  \A k \in 1 .. Len(Script) : Script[k] \in MapOp /\ (\A r \in Rank : k \in Successful(r)) =>
    \A r \in Rank :
      LET mine == {q \in Rank : InfoOf(q, k).groupId = InfoOf(r, k).groupId}
      IN  /\ IsGroupingDone(InfoOf(r, k))
          /\ Cardinality({q \in mine : IsRep(InfoOf(q, k))}) = 1
          /\ InfoOf(r, k).groupSize = Cardinality(mine)

(* Every call returns on every process.                                    *)
Terminates == <>Returned

Abstract == INSTANCE Collectives WITH
  Process <- Rank,
  Root    <- FrontEnd,
  Waits   <- Reduction \cup Session,
  operand <- item,
  entered <- [r \in Rank |-> Len(result[r]) + IF pc[r] = "idle" THEN 0 ELSE 1],
  result  <- [r \in Rank |-> [k \in DOMAIN result[r] |-> result[r][k].val]]

(* Seen from its callers the tree is the abstract sequence of collectives: *)
(* no reduction has a result before all have entered it, and all leave it  *)
(* with the front end's (MRNetCommFabric.C:145-446).                       *)
ImplementsCollectives == Abstract!Spec
=============================================================================
