------------------------- MODULE MRNetFabric_proofs -------------------------
(***************************************************************************)
(* Theorems about MRNetFabric, for every tree and every program.           *)
(*                                                                         *)
(* Shape: what holds of each link and process whatever fails.  UpInv: the  *)
(* operands on their way up are all of the call the front end waits in,    *)
(* one of a node at most; it needs that a back end is only asked for that  *)
(* call (AskedOK).  That follows in two ways: the program tells its calls  *)
(* apart by their tags (StaleInv), or nothing fails before it has sent or  *)
(* taken its packet (DownInv), when the packets down are the same for all  *)
(* nodes and can be numbered.                                              *)
(*                                                                         *)
(* AmountsInv: the operands on their way up amount to those of different   *)
(* back ends and of all that have given one, however they were merged; so  *)
(* the front end's results are right (FrontRight).  Those of the back ends *)
(* are the front end's (BackRight): in the first case because each packet  *)
(* asks for a call or has its result (PacketInv) and no back end is asked  *)
(* twice (StartInv), in the second because of the numbers (SameOK).        *)
(***************************************************************************)
EXTENDS MRNetFabric, DistDesc_lemmas

Asking == Reduction \cup Session
Nodes == DOMAIN Parent

(* What a packet carries is any value, so a link is a sequence over some   *)
(* set of packets.                                                         *)
IsSeq(s) == \E S : s \in Seq(S)

LEMMA SeqFacts ==
  ASSUME NEW s, IsSeq(s)
  PROVE  /\ Len(s) \in Nat /\ DOMAIN s = 1 .. Len(s)
         /\ s # <<>> <=> Len(s) > 0
         /\ s = [i \in 1 .. Len(s) |-> s[i]]
BY DEF IsSeq

LEMMA AppendFacts ==
  ASSUME NEW s, IsSeq(s), NEW e
  PROVE  /\ IsSeq(Append(s, e)) /\ Len(Append(s, e)) = Len(s) + 1
         /\ Append(s, e)[Len(s) + 1] = e
         /\ \A i \in 1 .. Len(s) : Append(s, e)[i] = s[i]
         /\ Append(s, e) # <<>>
<1>1. PICK S : s \in Seq(S)
  BY DEF IsSeq
<1>2. s \in Seq(S \cup {e}) /\ e \in S \cup {e}
  BY <1>1
<1>3. Append(s, e) \in Seq(S \cup {e})
  BY <1>2
<1>4. QED
  BY <1>2, <1>3 DEF IsSeq

LEMMA TailFacts ==
  ASSUME NEW s, IsSeq(s), s # <<>>
  PROVE  /\ IsSeq(Tail(s)) /\ Len(Tail(s)) = Len(s) - 1
         /\ Head(s) = s[1] /\ 1 \in DOMAIN s
         /\ \A i \in 1 .. Len(s) - 1 : Tail(s)[i] = s[i + 1]
<1>1. PICK S : s \in Seq(S)
  BY DEF IsSeq
<1>2. Tail(s) \in Seq(S)
  BY <1>1
<1>3. QED
  BY <1>1, <1>2 DEF IsSeq

LEMMA EmptyFacts == IsSeq(<<>>) /\ Len(<<>>) = 0
<1>1. <<>> \in Seq({})
  OBVIOUS
<1>2. QED
  BY <1>1 DEF IsSeq

-----------------------------------------------------------------------------
(* The tree and the program.                                               *)

LEMMA Tree ==
  /\ FrontEnd \notin Nodes /\ Nodes = BackEnd \cup CommNode
  /\ CommNode \cap Rank = {} /\ FrontEnd \notin BackEnd /\ FrontEnd \in Rank
  /\ \A n \in Nodes : Parent[n] \in CommNode \cup {FrontEnd}
  /\ Len(Script) \in Nat /\ DOMAIN Script = 1 .. Len(Script)
  /\ \A k \in 1 .. Len(Script) : Script[k] \in Operation
<1>1. FrontEnd \notin CommNode
  BY TreeAssumption DEF Rank
<1>2. QED
  BY <1>1, TreeAssumption DEF Nodes, Rank, FrontEnd

(* The packets of a wave are the first ones of the children.               *)
LEMMA WaveHeads ==
  ASSUME NEW n \in CommNode \cup {FrontEnd}, NEW wave \in Waves(n)
  PROVE  /\ \E c \in Children(n) : wave[1] = Head(up[c])
         /\ Merged(wave).tag = wave[1].tag /\ Merged(wave).start = FALSE
<1>1. IsFiniteSet(Children(n)) /\ Children(n) # {}
  <2>1. IsFiniteSet(Nodes)
    BY Tree, TreeAssumption, FS_Union
  <2>2. Children(n) \subseteq Nodes
    BY DEF Children, Nodes
  <2>3. QED
    BY <2>1, <2>2, FS_Subset, TreeAssumption
<1>2. Cardinality(Children(n)) \in Nat /\ Cardinality(Children(n)) # 0
  BY <1>1, FS_CardinalityType, FS_EmptySet
<1>3. PICK order \in SetToSeqs(Children(n)) : wave = [i \in DOMAIN order |-> Head(up[order[i]])]
  BY DEF Waves
<1>4. order \in [1 .. Cardinality(Children(n)) -> Children(n)]
  BY <1>3 DEF SetToSeqs
<1>5. 1 \in DOMAIN order /\ order[1] \in Children(n)
  BY <1>2, <1>4
<1>6. QED
  BY <1>3, <1>5 DEF Merged, Packet

-----------------------------------------------------------------------------
(* The shape of the state, whatever fails.                                 *)

RankShape(r) ==
  /\ pc[r] \in {"idle", "called", "waiting"}
  /\ IsSeq(result[r]) /\ Len(result[r]) <= Len(Script)
  /\ pc[r] # "idle" => Len(result[r]) < Len(Script)
  /\ pc[r] = "waiting" => Op(r) \in Asking

NodeShape(n) ==
  /\ IsSeq(down[n]) /\ IsSeq(up[n])
  /\ \A i \in DOMAIN down[n] : down[n][i].tag \in Operation

Shape ==
  /\ item \in [Rank -> Uri]
  /\ pc = [r \in Rank |-> pc[r]] /\ result = [r \in Rank |-> result[r]]
  /\ down = [n \in Nodes |-> down[n]] /\ up = [n \in Nodes |-> up[n]]
  /\ \A r \in Rank : RankShape(r)
  /\ \A n \in Nodes : NodeShape(n)

(* A rank in a call is in one of the script.                               *)
LEMMA CurrentCall ==
  ASSUME Shape, NEW r \in Rank
  PROVE  /\ Len(result[r]) \in Nat /\ Current(r) \in Nat
         /\ pc[r] # "idle" =>
              /\ Current(r) \in 1 .. Len(Script) /\ Op(r) \in Operation
              /\ Op(r) = Script[Current(r)]
<1>1. RankShape(r)
  BY DEF Shape
<1>2. Len(result[r]) \in Nat
  BY <1>1, SeqFacts DEF RankShape
<1>3. QED
  BY <1>1, <1>2, Tree DEF RankShape, Current, Op

(* What a return leaves.                                                   *)
LEMMA ReturnLeaves ==
  ASSUME Shape, NEW r \in Rank, NEW ok, NEW val, Return(r, ok, val), pc[r] # "idle"
  PROVE  /\ pc' = [q \in Rank |-> pc'[q]] /\ result' = [q \in Rank |-> result'[q]]
         /\ pc'[r] = "idle" /\ IsSeq(result'[r]) /\ Len(result'[r]) = Len(result[r]) + 1
         /\ result'[r][Current(r)] = [ok |-> ok, val |-> val]
         /\ \A k \in 1 .. Len(result[r]) : result'[r][k] = result[r][k]
         /\ \A q \in Rank \ {r} : pc'[q] = pc[q] /\ result'[q] = result[q]
         /\ RankShape(r)'
<1>1. /\ result'[r] = Append(result[r], [ok |-> ok, val |-> val]) /\ pc'[r] = "idle"
      /\ \A q \in Rank \ {r} : pc'[q] = pc[q] /\ result'[q] = result[q]
      /\ pc' = [q \in Rank |-> pc'[q]] /\ result' = [q \in Rank |-> result'[q]]
  BY DEF Return, Shape
<1>2. RankShape(r)
  BY DEF Shape
<1>3. Len(result[r]) \in Nat /\ Len(Script) \in Nat
  BY CurrentCall, Tree
<1>4. QED
  BY <1>1, <1>2, <1>3, AppendFacts DEF RankShape, Current

(* A packet to the children of n, and one taken from those of a wave.      *)
LEMMA SentDown ==
  ASSUME Shape, NEW n, NEW p, p.tag \in Operation, NEW d, d = ToChildren(n, p)
  PROVE  /\ d = [c \in Nodes |-> d[c]]
         /\ \A c \in Nodes : /\ Parent[c] = n => d[c] = Append(down[c], p)
                             /\ Parent[c] # n => d[c] = down[c]
                             /\ IsSeq(d[c])
                             /\ \A i \in DOMAIN d[c] : d[c][i].tag \in Operation
<1>1. DOMAIN down = Nodes /\ \A c \in Nodes : NodeShape(c)
  BY DEF Shape
<1>2. /\ d = [c \in Nodes |-> d[c]]
      /\ \A c \in Nodes : d[c] = IF Parent[c] = n THEN Append(down[c], p) ELSE down[c]
  BY <1>1 DEF ToChildren, Children, Nodes
<1>3. ASSUME NEW c \in Nodes
      PROVE  IsSeq(d[c]) /\ \A i \in DOMAIN d[c] : d[c][i].tag \in Operation
  <2>1. IsSeq(down[c]) /\ \A i \in DOMAIN down[c] : down[c][i].tag \in Operation
    BY <1>1 DEF NodeShape
  <2>2. CASE Parent[c] = n
    <3>1. d[c] = Append(down[c], p)
      BY <1>2, <2>2
    <3>2. /\ DOMAIN d[c] = 1 .. Len(down[c]) + 1 /\ DOMAIN down[c] = 1 .. Len(down[c])
          /\ Len(down[c]) \in Nat
      BY <2>1, <3>1, AppendFacts, SeqFacts
    <3>3. ASSUME NEW i \in DOMAIN d[c] PROVE d[c][i].tag \in Operation
      <4>1. i = Len(down[c]) + 1 \/ i \in 1 .. Len(down[c])
        BY <3>2, <3>3
      <4>2. QED
        BY <2>1, <3>1, <3>2, <4>1, AppendFacts
    <3>4. QED
      BY <2>1, <3>1, <3>3, AppendFacts
  <2>3. QED
    BY <1>2, <2>1, <2>2
<1>4. QED
  BY <1>2, <1>3

LEMMA TakenUp ==
  ASSUME Shape, NEW n, WaveReady(n)
  PROVE  /\ Heads(n) = [c \in Nodes |-> Heads(n)[c]]
         /\ \A c \in Nodes : /\ Parent[c] = n => up[c] # <<>> /\ Heads(n)[c] = Tail(up[c])
                             /\ Parent[c] # n => Heads(n)[c] = up[c]
                             /\ IsSeq(Heads(n)[c])
<1>1. DOMAIN up = Nodes /\ \A c \in Nodes : IsSeq(up[c])
  BY DEF Shape, NodeShape
<1>2. /\ Heads(n) = [c \in Nodes |-> Heads(n)[c]]
      /\ \A c \in Nodes : Heads(n)[c] = IF Parent[c] = n THEN Tail(up[c]) ELSE up[c]
  BY <1>1 DEF Heads, Children, Nodes
<1>3. \A c \in Nodes : Parent[c] = n => up[c] # <<>>
  BY DEF WaveReady, Children, Nodes
<1>4. ASSUME NEW c \in Nodes, Parent[c] = n PROVE IsSeq(Heads(n)[c])
  <2>1. IsSeq(up[c]) /\ up[c] # <<>> /\ Heads(n)[c] = Tail(up[c])
    BY <1>1, <1>2, <1>3, <1>4
  <2>2. QED
    BY <2>1, TailFacts
<1>5. QED
  BY <1>1, <1>2, <1>3, <1>4

(* A packet taken from the link down to n.                                 *)
LEMMA TakenDown ==
  ASSUME Shape, NEW n \in Nodes, down[n] # <<>>, NEW d, d = [down EXCEPT ![n] = Tail(@)]
  PROVE  /\ d = [c \in Nodes |-> d[c]] /\ d[n] = Tail(down[n])
         /\ Head(down[n]).tag \in Operation
         /\ \A c \in Nodes : /\ c # n => d[c] = down[c]
                             /\ IsSeq(d[c])
                             /\ \A i \in DOMAIN d[c] : d[c][i].tag \in Operation
<1>1. DOMAIN down = Nodes /\ \A c \in Nodes : NodeShape(c)
  BY DEF Shape
<1>2. d = [c \in Nodes |-> d[c]] /\ d[n] = Tail(down[n]) /\ \A c \in Nodes : c # n => d[c] = down[c]
  BY DEF Shape
<1>3. IsSeq(down[n]) /\ \A i \in DOMAIN down[n] : down[n][i].tag \in Operation
  BY <1>1 DEF NodeShape
<1>4. /\ IsSeq(d[n]) /\ DOMAIN d[n] = 1 .. Len(down[n]) - 1 /\ Len(down[n]) \in Nat
      /\ DOMAIN down[n] = 1 .. Len(down[n]) /\ Head(down[n]) = down[n][1] /\ 1 \in DOMAIN down[n]
      /\ \A i \in 1 .. Len(down[n]) - 1 : d[n][i] = down[n][i + 1]
  BY <1>2, <1>3, TailFacts, SeqFacts
<1>5. \A i \in DOMAIN d[n] : i + 1 \in DOMAIN down[n]
  BY <1>4
<1>6. \A i \in DOMAIN d[n] : d[n][i].tag \in Operation
  BY <1>3, <1>4, <1>5
<1>7. QED
  BY <1>1, <1>2, <1>3, <1>4, <1>6 DEF NodeShape

(* A packet added to the link up from n.                                   *)
LEMMA SentUp ==
  ASSUME NEW u, u = [c \in Nodes |-> u[c]], \A c \in Nodes : IsSeq(u[c]),
         NEW n \in Nodes, NEW p, NEW w, w = [u EXCEPT ![n] = Append(u[n], p)]
  PROVE  /\ w = [c \in Nodes |-> w[c]] /\ w[n] = Append(u[n], p)
         /\ \A c \in Nodes : (c # n => w[c] = u[c]) /\ IsSeq(w[c])
<1>1. DOMAIN u = Nodes
  OBVIOUS
<1>2. w = [c \in Nodes |-> w[c]] /\ w[n] = Append(u[n], p) /\ \A c \in Nodes : c # n => w[c] = u[c]
  BY <1>1
<1>3. QED
  BY <1>2, AppendFacts

LEMMA ShapeInit == Init => Shape
<1> SUFFICES ASSUME Init PROVE Shape
  OBVIOUS
<1>1. /\ IsSeq(<<>>) /\ Len(<<>>) = 0 /\ Len(Script) \in Nat /\ DOMAIN <<>> = {}
  BY EmptyFacts, Tree
<1>2. \A r \in Rank : RankShape(r)
  BY <1>1 DEF Init, RankShape
<1>3. \A n \in Nodes : NodeShape(n)
  BY <1>1 DEF Init, NodeShape, Nodes
<1>4. QED
  BY <1>2, <1>3 DEF Init, Shape, Nodes

(* A step of one rank keeps the shape of the others.                       *)
LEMMA RankShapes ==
  ASSUME Shape, NEW r \in Rank, RankShape(r)',
         \A q \in Rank \ {r} : pc'[q] = pc[q] /\ result'[q] = result[q]
  PROVE  \A q \in Rank : RankShape(q)'
BY DEF Shape, RankShape, Op, Current

LEMMA NodeShapes ==
  ASSUME \A n \in Nodes : /\ IsSeq(down'[n]) /\ IsSeq(up'[n])
                          /\ \A i \in DOMAIN down'[n] : down'[n][i].tag \in Operation
  PROVE  \A n \in Nodes : NodeShape(n)'
BY DEF NodeShape

(* Every operation has a tag, and so has each answer.                      *)
LEMMA Tags ==
  ASSUME NEW op \in Operation
  PROVE  AskTag(op) \in Operation /\ AnswerTag(op) \in Operation
BY DEF AskTag, AnswerTag, Operation, Reduction, Broadcast, Session, IntOp, MapOp

LEMMA ShapeRank ==
  ASSUME Shape, NEW r \in Rank, Step(r)
  PROVE  Shape'
<1>1. /\ item \in [Rank -> Uri] /\ pc = [q \in Rank |-> pc[q]] /\ result = [q \in Rank |-> result[q]]
      /\ down = [n \in Nodes |-> down[n]] /\ up = [n \in Nodes |-> up[n]]
      /\ \A n \in Nodes : NodeShape(n)
      /\ RankShape(r)
  BY DEF Shape
<1> USE DEF links
<1>2. CASE Call(r)
  <2>1. /\ pc' = [q \in Rank |-> pc'[q]] /\ pc'[r] = "called" /\ UNCHANGED <<result, item, down, up>>
        /\ \A q \in Rank \ {r} : pc'[q] = pc[q]
    BY <1>1, <1>2 DEF Call
  <2>2. RankShape(r)'
    BY <1>1, <1>2, <2>1 DEF RankShape, Call
  <2>3. \A q \in Rank : RankShape(q)'
    BY <2>1, <2>2, RankShapes
  <2>4. \A n \in Nodes : NodeShape(n)'
    BY <1>1, <2>1 DEF NodeShape
  <2>5. QED
    BY <1>1, <2>1, <2>3, <2>4 DEF Shape
<1>3. ASSUME NEW ok, NEW val, Return(r, ok, val), pc[r] # "idle", UNCHANGED item,
             down' = [n \in Nodes |-> down'[n]] /\ up' = [n \in Nodes |-> up'[n]],
             \A n \in Nodes : /\ IsSeq(down'[n]) /\ IsSeq(up'[n])
                              /\ \A i \in DOMAIN down'[n] : down'[n][i].tag \in Operation
      PROVE  Shape'
  <2>1. /\ pc' = [q \in Rank |-> pc'[q]] /\ result' = [q \in Rank |-> result'[q]]
        /\ \A q \in Rank \ {r} : pc'[q] = pc[q] /\ result'[q] = result[q]
        /\ RankShape(r)'
    BY <1>3, ReturnLeaves
  <2>2. \A q \in Rank : RankShape(q)'
    BY <2>1, RankShapes
  <2>3. \A n \in Nodes : NodeShape(n)'
    BY <1>3, NodeShapes
  <2>4. QED
    BY <1>1, <1>3, <2>1, <2>2, <2>3 DEF Shape
<1>4. ASSUME pc' = [pc EXCEPT ![r] = "waiting"], pc[r] = "called", Op(r) \in Asking,
             UNCHANGED <<item, result>>,
             down' = [n \in Nodes |-> down'[n]] /\ up' = [n \in Nodes |-> up'[n]],
             \A n \in Nodes : /\ IsSeq(down'[n]) /\ IsSeq(up'[n])
                              /\ \A i \in DOMAIN down'[n] : down'[n][i].tag \in Operation
      PROVE  Shape'
  <2>1. /\ pc' = [q \in Rank |-> pc'[q]] /\ pc'[r] = "waiting"
        /\ \A q \in Rank \ {r} : pc'[q] = pc[q] /\ result'[q] = result[q]
    BY <1>1, <1>4
  <2>2. RankShape(r)'
    BY <1>1, <1>4, <2>1 DEF RankShape, Op, Current
  <2>3. \A q \in Rank : RankShape(q)'
    BY <2>1, <2>2, RankShapes
  <2>4. \A n \in Nodes : NodeShape(n)'
    BY <1>4, NodeShapes
  <2>5. QED
    BY <1>1, <1>4, <2>1, <2>3, <2>4 DEF Shape
<1>5. \A n \in Nodes : /\ IsSeq(down[n]) /\ IsSeq(up[n])
                       /\ \A i \in DOMAIN down[n] : down[n][i].tag \in Operation
  BY <1>1 DEF NodeShape
<1>6. pc[r] # "idle" => Op(r) \in Operation
  BY CurrentCall
<1>7. CASE CallFails(r)
  <2>1. Return(r, FALSE, NoBytes) /\ pc[r] # "idle" /\ UNCHANGED <<item, down, up>>
    BY <1>7 DEF CallFails, Fail
  <2>2. QED
    BY <1>1, <1>3, <1>5, <2>1
<1>8. CASE r = FrontEnd /\ FrontEndBroadcast
  <2>1. /\ pc[r] # "idle" /\ down' = ToChildren(FrontEnd, Packet(Op(r), FALSE, BroadcastValue(Op(r))))
        /\ Return(r, TRUE, BroadcastValue(Op(r))) /\ UNCHANGED <<item, up>>
    BY <1>8 DEF FrontEndBroadcast
  <2>2. Packet(Op(r), FALSE, BroadcastValue(Op(r))).tag \in Operation
    BY <1>6, <2>1 DEF Packet
  <2>3. /\ down' = [n \in Nodes |-> down'[n]]
        /\ \A n \in Nodes : IsSeq(down'[n]) /\ \A i \in DOMAIN down'[n] : down'[n][i].tag \in Operation
    <3>1. PICK p : p.tag \in Operation /\ down' = ToChildren(FrontEnd, p)
      BY <2>1, <2>2
    <3>2. QED
      BY <3>1, SentDown
  <2>4. QED
    BY <1>1, <1>3, <1>5, <2>1, <2>3
<1>9. CASE r = FrontEnd /\ FrontEndStart
  <2>1. /\ pc[r] = "called" /\ down' = ToChildren(FrontEnd, Packet(AskTag(Op(r)), TRUE, NotFilled))
        /\ pc' = [pc EXCEPT ![r] = "waiting"] /\ UNCHANGED <<item, up, result>>
        /\ Op(r) \in Asking
    BY <1>9 DEF FrontEndStart, Asking
  <2>2. Packet(AskTag(Op(r)), TRUE, NotFilled).tag \in Operation
    BY <1>6, <2>1, Tags DEF Packet
  <2>3. /\ down' = [n \in Nodes |-> down'[n]]
        /\ \A n \in Nodes : IsSeq(down'[n]) /\ \A i \in DOMAIN down'[n] : down'[n][i].tag \in Operation
    <3>1. PICK p : p.tag \in Operation /\ down' = ToChildren(FrontEnd, p)
      BY <2>1, <2>2
    <3>2. QED
      BY <3>1, SentDown
  <2>4. QED
    BY <1>1, <1>4, <1>5, <2>1, <2>3
<1>10. ASSUME r = FrontEnd, pc[r] = "waiting", WaveReady(FrontEnd), up' = Heads(FrontEnd), UNCHANGED item,
              NEW ok, NEW val, Return(r, ok, val),
              \/ UNCHANGED down
              \/ \E p : p.tag \in Operation /\ down' = ToChildren(FrontEnd, p)
       PROVE  Shape'
  <2>1. up' = [n \in Nodes |-> up'[n]] /\ \A n \in Nodes : IsSeq(up'[n])
    BY <1>10, TakenUp
  <2>2. /\ down' = [n \in Nodes |-> down'[n]]
        /\ \A n \in Nodes : IsSeq(down'[n]) /\ \A i \in DOMAIN down'[n] : down'[n][i].tag \in Operation
    <3>1. CASE UNCHANGED down
      BY <1>1, <1>5, <3>1
    <3>2. CASE \E p : p.tag \in Operation /\ down' = ToChildren(FrontEnd, p)
      BY <3>2, SentDown
    <3>3. QED
      BY <1>10, <3>1, <3>2
  <2>3. pc[r] # "idle"
    BY <1>10
  <2>4. QED
    BY <1>3, <1>10, <2>1, <2>2, <2>3
<1>11. CASE r = FrontEnd /\ FrontEndReduce
  <2>1. /\ pc[r] = "waiting" /\ WaveReady(FrontEnd) /\ up' = Heads(FrontEnd) /\ UNCHANGED item
        /\ \E val : \/ Return(r, FALSE, NoBytes) /\ UNCHANGED down
                    \/ \E ok : /\ down' = ToChildren(FrontEnd, Packet(Op(r), FALSE, val))
                               /\ Return(r, ok, val)
    BY <1>11 DEF FrontEndReduce, Fail
  <2>2. \A val : Packet(Op(r), FALSE, val).tag \in Operation
    BY <1>6, <2>1 DEF Packet
  <2>3. QED
    BY <1>10, <1>11, <2>1, <2>2
<1>12. CASE r = FrontEnd /\ FrontEndSpawned
  <2>1. /\ pc[r] = "waiting" /\ WaveReady(FrontEnd) /\ up' = Heads(FrontEnd) /\ UNCHANGED item
        /\ down' = ToChildren(FrontEnd, Packet("debug", FALSE, 0)) /\ Return(r, TRUE, 0)
    BY <1>12 DEF FrontEndSpawned
  <2>2. Packet("debug", FALSE, 0).tag \in Operation
    BY DEF Packet, Operation, Session
  <2>3. QED
    BY <1>10, <1>12, <2>1, <2>2
<1>13. CASE r = FrontEnd /\ FrontEndFinalize
  <2>1. /\ pc[r] = "waiting" /\ WaveReady(FrontEnd) /\ up' = Heads(FrontEnd)
        /\ UNCHANGED <<item, down>> /\ Return(r, TRUE, 0)
    BY <1>13 DEF FrontEndFinalize
  <2>2. QED
    BY <1>10, <1>13, <2>1
<1>14. ASSUME r \in BackEnd, pc[r] # "idle", UNCHANGED item, down[r] # <<>>,
              down' = [down EXCEPT ![r] = Tail(@)]
       PROVE  /\ down' = [n \in Nodes |-> down'[n]]
              /\ \A n \in Nodes : IsSeq(down'[n]) /\ \A i \in DOMAIN down'[n] : down'[n][i].tag \in Operation
  <2>1. r \in Nodes
    BY <1>14, Tree
  <2>2. down[r] # <<>>
    BY <1>14
  <2>3. \A d : d = [down EXCEPT ![r] = Tail(@)] =>
          /\ d = [n \in Nodes |-> d[n]]
          /\ \A n \in Nodes : IsSeq(d[n]) /\ \A i \in DOMAIN d[n] : d[n][i].tag \in Operation
    BY <2>1, <2>2, TakenDown
  <2>4. QED
    BY <1>14, <2>3
<1>15. CASE r \in BackEnd /\ BackEndBroadcast(r)
  <2>1. /\ pc[r] # "idle" /\ UNCHANGED <<item, up>> /\ down[r] # <<>>
        /\ down' = [down EXCEPT ![r] = Tail(@)]
        /\ \E ok, val : Return(r, ok, val)
    BY <1>15 DEF BackEndBroadcast, Fail
  <2>2. QED
    BY <1>1, <1>3, <1>5, <1>14, <1>15, <2>1
<1>16. CASE r \in BackEnd /\ BackEndOperand(r)
  <2>1. /\ pc[r] = "called" /\ UNCHANGED item /\ down[r] # <<>> /\ r \in Nodes
        /\ Op(r) \in Asking /\ down' = [down EXCEPT ![r] = Tail(@)]
    BY <1>16, Tree DEF BackEndOperand, Asking
  <2>2. CASE /\ up' = [up EXCEPT ![r] = Append(@, Packet(AnswerTag(Op(r)), FALSE, Operand(r)))]
             /\ pc' = [pc EXCEPT ![r] = "waiting"] /\ UNCHANGED result
    <3>1. up' = [up EXCEPT ![r] = Append(up[r], Packet(AnswerTag(Op(r)), FALSE, Operand(r)))]
      BY <2>2
    <3>2. up' = [n \in Nodes |-> up'[n]] /\ \A n \in Nodes : IsSeq(up'[n])
      BY <1>1, <1>5, <2>1, <3>1, SentUp
    <3>3. QED
      BY <1>4, <1>14, <1>16, <2>1, <2>2, <3>2
  <2>3. CASE Return(r, FALSE, NoBytes) /\ UNCHANGED up
    BY <1>1, <1>3, <1>5, <1>14, <1>16, <2>1, <2>3
  <2>4. QED
    BY <1>16, <2>2, <2>3 DEF BackEndOperand, Fail
<1>17. CASE r \in BackEnd /\ BackEndResult(r)
  <2>1. /\ pc[r] # "idle" /\ UNCHANGED <<item, up>> /\ down[r] # <<>>
        /\ down' = [down EXCEPT ![r] = Tail(@)]
        /\ \E ok, val : Return(r, ok, val)
    BY <1>17 DEF BackEndResult, Fail
  <2>2. QED
    BY <1>1, <1>3, <1>5, <1>14, <1>17, <2>1
<1>18. CASE r \in BackEnd /\ BackEndShutDown(r)
  <2>1. pc[r] # "idle" /\ UNCHANGED <<item, up, down>> /\ Return(r, TRUE, 0)
    BY <1>18 DEF BackEndShutDown
  <2>2. QED
    BY <1>1, <1>3, <1>5, <2>1
<1>19. QED
  BY <1>2, <1>7, <1>8, <1>9, <1>11, <1>12, <1>13, <1>15, <1>16, <1>17, <1>18 DEF Step

LEMMA ShapeForward ==
  ASSUME Shape, NEW n \in CommNode, Forward(n)
  PROVE  Shape'
<1>1. /\ item \in [Rank -> Uri] /\ pc = [q \in Rank |-> pc[q]] /\ result = [q \in Rank |-> result[q]]
      /\ down = [c \in Nodes |-> down[c]] /\ up = [c \in Nodes |-> up[c]]
      /\ \A c \in Nodes : NodeShape(c)
      /\ \A r \in Rank : RankShape(r)
  BY DEF Shape
<1>2. UNCHANGED <<item, pc, result>> /\ n \in Nodes
  BY Tree DEF Forward, FilterDown, FilterUp
<1>3. \A r \in Rank : RankShape(r)'
  BY <1>1, <1>2 DEF RankShape, Op, Current
<1>4. \A c \in Nodes : /\ IsSeq(down[c]) /\ IsSeq(up[c])
                       /\ \A i \in DOMAIN down[c] : down[c][i].tag \in Operation
  BY <1>1 DEF NodeShape
<1>5. CASE FilterDown(n)
  <2> DEFINE d == ToChildren(n, Head(down[n]))
  <2>1. down[n] # <<>> /\ down' = [d EXCEPT ![n] = Tail(down[n])] /\ UNCHANGED up
    BY <1>5 DEF FilterDown
  <2>2. Head(down[n]).tag \in Operation
    BY <1>2, <2>1, TakenDown
  <2>3. /\ d = [c \in Nodes |-> d[c]]
        /\ \A c \in Nodes : IsSeq(d[c]) /\ \A i \in DOMAIN d[c] : d[c][i].tag \in Operation
    BY <2>2, SentDown
  <2>4. LET e == [down EXCEPT ![n] = Tail(@)] IN
          IsSeq(e[n]) /\ e[n] = Tail(down[n]) /\ \A i \in DOMAIN e[n] : e[n][i].tag \in Operation
    BY <1>2, <2>1, TakenDown
  <2> HIDE DEF d
  <2>5. /\ down' = [c \in Nodes |-> down'[c]]
        /\ \A c \in Nodes : down'[c] = IF c = n THEN Tail(down[n]) ELSE d[c]
    BY <1>2, <2>1, <2>3
  <2>6. \A c \in Nodes : /\ IsSeq(down'[c]) /\ IsSeq(up'[c])
                         /\ \A i \in DOMAIN down'[c] : down'[c][i].tag \in Operation
    BY <1>2, <1>4, <2>1, <2>3, <2>4, <2>5
  <2>7. QED
    BY <1>1, <1>2, <1>3, <2>1, <2>5, <2>6, NodeShapes DEF Shape
<1>6. CASE FilterUp(n)
  <2>1. PICK wave \in Waves(n) : up' = [Heads(n) EXCEPT ![n] = Append(up[n], Merged(wave))]
    BY <1>6 DEF FilterUp
  <2>2. UNCHANGED down /\ WaveReady(n)
    BY <1>6 DEF FilterUp
  <2>3. Heads(n) = [c \in Nodes |-> Heads(n)[c]] /\ \A c \in Nodes : IsSeq(Heads(n)[c])
    BY <2>2, TakenUp
  <2>4. IsSeq(Append(up[n], Merged(wave)))
    BY <1>2, <1>4, AppendFacts
  <2>5. up' = [c \in Nodes |-> up'[c]] /\ \A c \in Nodes : IsSeq(up'[c])
    BY <1>2, <2>1, <2>3, <2>4
  <2>6. \A c \in Nodes : /\ IsSeq(down'[c]) /\ IsSeq(up'[c])
                         /\ \A i \in DOMAIN down'[c] : down'[c][i].tag \in Operation
    BY <1>4, <2>2, <2>5
  <2>7. QED
    BY <1>1, <1>2, <1>3, <2>2, <2>5, <2>6, NodeShapes DEF Shape
<1>7. QED
  BY <1>5, <1>6 DEF Forward

LEMMA ShapeStutter ==
  ASSUME Shape, UNCHANGED vars
  PROVE  Shape'
<1>1. UNCHANGED <<item, pc, down, up, result>>
  BY DEF vars, links
<1>2. /\ \A r \in Rank : RankShape(r)' <=> RankShape(r)
      /\ \A n \in Nodes : NodeShape(n)' <=> NodeShape(n)
  BY <1>1 DEF RankShape, NodeShape, Op, Current
<1>3. QED
  BY <1>1, <1>2 DEF Shape

LEMMA ShapeStep == Shape /\ [Next]_vars => Shape'
BY ShapeRank, ShapeForward, ShapeStutter DEF Next

-----------------------------------------------------------------------------
(* The wave on its way up.                                                 *)

(* How a process goes through its calls.                                   *)
Moves(r) ==
  /\ \A q \in Rank \ {r} : pc'[q] = pc[q] /\ result'[q] = result[q]
  /\ \/ pc[r] = "idle" /\ pc'[r] = "called" /\ result'[r] = result[r]
     \/ pc[r] = "called" /\ pc'[r] = "waiting" /\ result'[r] = result[r]
     \/ pc[r] # "idle" /\ pc'[r] = "idle" /\ \E ok, val : Return(r, ok, val)

LEMMA StepMoves ==
  ASSUME Shape, NEW r \in Rank, Step(r)
  PROVE  Moves(r)
<1>1. pc = [q \in Rank |-> pc[q]] /\ result = [q \in Rank |-> result[q]]
  BY DEF Shape
<1>2. ASSUME pc[r] # "idle", \E ok, val : Return(r, ok, val) PROVE Moves(r)
  BY <1>2, ReturnLeaves DEF Moves
<1>3. CASE Call(r)
  BY <1>1, <1>3 DEF Call, Moves
<1>4. ASSUME pc[r] = "called", pc' = [pc EXCEPT ![r] = "waiting"], UNCHANGED result
      PROVE  Moves(r)
  BY <1>1, <1>4 DEF Moves
<1>5. CASE CallFails(r)
  BY <1>2, <1>5 DEF CallFails, Fail
<1>6. CASE r = FrontEnd /\ (FrontEndBroadcast \/ FrontEndSpawned \/ FrontEndFinalize)
  BY <1>2, <1>6 DEF FrontEndBroadcast, FrontEndSpawned, FrontEndFinalize
<1>7. CASE r = FrontEnd /\ FrontEndStart
  BY <1>4, <1>7 DEF FrontEndStart
<1>8. CASE r = FrontEnd /\ FrontEndReduce
  BY <1>2, <1>8 DEF FrontEndReduce, Fail
<1>9. CASE BackEndBroadcast(r) \/ BackEndResult(r) \/ BackEndShutDown(r)
  BY <1>2, <1>9 DEF BackEndBroadcast, BackEndResult, BackEndShutDown, Fail
<1>10. CASE BackEndOperand(r)
  <2>1. CASE Return(r, FALSE, NoBytes)
    BY <1>2, <1>10, <2>1 DEF BackEndOperand
  <2>2. CASE pc' = [pc EXCEPT ![r] = "waiting"] /\ UNCHANGED result
    BY <1>4, <1>10, <2>2 DEF BackEndOperand
  <2>3. QED
    BY <1>10, <2>1, <2>2 DEF BackEndOperand, Fail
<1>11. QED
  BY <1>3, <1>5, <1>6, <1>7, <1>8, <1>9, <1>10 DEF Step

(* A rank has answered call k, or has left it.                             *)
Past(r, k) == Len(result[r]) >= k \/ (pc[r] = "waiting" /\ Current(r) = k)

LEMMA PastKept ==
  ASSUME Shape, [Next]_vars, NEW q \in Rank, NEW k \in Nat, Past(q, k)
  PROVE  Past(q, k)'
<1>1. Len(result[q]) \in Nat
  BY CurrentCall
<1>2. ASSUME NEW r \in Rank, Step(r) PROVE Past(q, k)'
  <2>1. Moves(r)
    BY <1>2, StepMoves
  <2>2. CASE r # q
    BY <2>1, <2>2 DEF Moves, Past, Current
  <2>3. CASE r = q /\ pc[q] # "waiting" /\ result'[q] = result[q]
    BY <1>1, <2>3 DEF Past, Current
  <2>4. CASE r = q /\ pc[q] # "idle" /\ \E ok, val : Return(q, ok, val)
    <3>1. Len(result'[q]) = Len(result[q]) + 1
      BY <2>4, ReturnLeaves
    <3>2. QED
      BY <1>1, <3>1 DEF Past, Current
  <2>5. QED
    BY <2>1, <2>2, <2>3, <2>4 DEF Moves
<1>3. CASE UNCHANGED <<pc, result>>
  BY <1>3 DEF Past, Current
<1>4. CASE UNCHANGED vars
  BY <1>3, <1>4 DEF vars
<1>5. CASE \E n \in CommNode : Forward(n)
  BY <1>3, <1>5 DEF Forward, FilterDown, FilterUp
<1>6. QED
  BY <1>2, <1>4, <1>5 DEF Next

(* G are the nodes that have given their part of the front end's call.     *)
(* What is on a link up is such a part, of a node that has taken those of  *)
(* all its children.                                                       *)
UpOK(G) ==
  /\ G \subseteq Nodes
  /\ pc[FrontEnd] # "waiting" => G = {}
  /\ \A n \in Nodes : up[n] # <<>> =>
       n \in G /\ Len(up[n]) = 1 /\ Head(up[n]).tag = AnswerTag(Op(FrontEnd))
  /\ \A n \in G \cap CommNode : \A c \in Children(n) : c \in G /\ up[c] = <<>>
  /\ \A r \in G \cap BackEnd : Past(r, Current(FrontEnd))

UpInv == \E G : UpOK(G)

(* Who is asked is asked for the call the front end is in.                 *)
AskedOK ==
  \A r \in BackEnd :
    /\ pc[r] = "called" /\ Op(r) \in Asking
    /\ down[r] # <<>> /\ Head(down[r]).tag = AskTag(Op(r))
    => pc[FrontEnd] = "waiting" /\ Current(FrontEnd) = Current(r)

LEMMA UpOneTag == UpInv => OneTagPerWave
BY Tree DEF UpInv, UpOK, OneTagPerWave, WaveReady, Children, Nodes

(* When the front end has its wave every back end has answered, and        *)
(* nothing else is on its way.                                             *)
LEMMA Gathered ==
  ASSUME Shape, NEW G, UpOK(G), WaveReady(FrontEnd)
  PROVE  /\ pc[FrontEnd] = "waiting" /\ G = Nodes
         /\ \A r \in BackEnd : Past(r, Current(FrontEnd))
         /\ \A n \in Nodes : Parent[n] # FrontEnd => up[n] = <<>>
<1>1. \A c \in Nodes : Parent[c] = FrontEnd => c \in G
  BY DEF WaveReady, Children, UpOK, Nodes
<1>2. Nodes \ G = {}
  <2> SUFFICES ASSUME Nodes \ G # {} PROVE FALSE
    OBVIOUS
  <2>1. PICK n \in Nodes \ G : Parent[n] \notin Nodes \ G
    <3>1. Nodes \ G \in SUBSET DOMAIN Parent
      BY DEF Nodes
    <3>2. QED
      BY <3>1, TreeAssumption
  <2>2. Parent[n] \in CommNode /\ Parent[n] \in G
    BY <1>1, <2>1, Tree
  <2>3. n \in Children(Parent[n])
    BY <2>1 DEF Children, Nodes
  <2>4. QED
    BY <2>1, <2>2, <2>3 DEF UpOK
<1>3. G = Nodes
  BY <1>2 DEF UpOK
<1>4. pc[FrontEnd] = "waiting"
  <2>1. PICK n \in Children(FrontEnd) : TRUE
    BY TreeAssumption
  <2>2. n \in Nodes
    BY <2>1 DEF Children, Nodes
  <2>3. QED
    BY <1>3, <2>2 DEF UpOK
<1>5. \A n \in Nodes : Parent[n] # FrontEnd => up[n] = <<>>
  <2> SUFFICES ASSUME NEW n \in Nodes, Parent[n] # FrontEnd PROVE up[n] = <<>>
    OBVIOUS
  <2>1. Parent[n] \in CommNode /\ Parent[n] \in G
    BY <1>3, Tree
  <2>2. n \in Children(Parent[n])
    BY DEF Children, Nodes
  <2>3. QED
    BY <2>1, <2>2 DEF UpOK
<1>6. QED
  BY <1>3, <1>4, <1>5, Tree DEF UpOK

LEMMA SingleFacts ==
  ASSUME NEW e, NEW s, s = Append(<<>>, e)
  PROVE  IsSeq(s) /\ Len(s) = 1 /\ s # <<>> /\ s[1] = e /\ Head(s) = e
<1> DEFINE z == <<>>
<1>1. IsSeq(z) /\ Len(z) = 0 /\ s = Append(z, e)
  BY EmptyFacts
<1> HIDE DEF z
<1>2. /\ IsSeq(Append(z, e)) /\ Len(Append(z, e)) = Len(z) + 1
      /\ Append(z, e)[Len(z) + 1] = e /\ Append(z, e) # <<>>
  BY <1>1, AppendFacts
<1>3. IsSeq(s) /\ Len(s) = 1 /\ s # <<>> /\ s[1] = e
  BY <1>1, <1>2
<1>4. QED
  BY <1>3, TailFacts

LEMMA TailOfOne ==
  ASSUME NEW s, IsSeq(s), s # <<>>, Len(s) = 1
  PROVE  Tail(s) = <<>>
<1> DEFINE t == Tail(s)
<1>1. IsSeq(t) /\ Len(t) = 0
  BY TailFacts
<1> HIDE DEF t
<1>2. t = <<>>
  BY <1>1, SeqFacts
<1>3. QED
  BY <1>2 DEF t

(* A step of the front end.                                                *)
LEMMA UpFrontEnd ==
  ASSUME Shape, NEW G, UpOK(G), Step(FrontEnd)
  PROVE  UpOK({})'
<1>1. FrontEnd \in Rank /\ FrontEnd \notin BackEnd
  BY Tree
<1>2. ASSUME \A n \in Nodes : up'[n] = <<>> PROVE UpOK({})'
  BY <1>2 DEF UpOK
<1>3. CASE WaveReady(FrontEnd) /\ up' = Heads(FrontEnd)
  <2>1. \A n \in Nodes : (Parent[n] # FrontEnd => up[n] = <<>>) /\ (up[n] # <<>> => Len(up[n]) = 1)
    BY <1>3, Gathered DEF UpOK
  <2>2. \A n \in Nodes : IsSeq(up[n])
    BY DEF Shape, NodeShape
  <2>3. ASSUME NEW n \in Nodes PROVE up'[n] = <<>>
    <3>1. CASE Parent[n] = FrontEnd
      <4>1. up[n] # <<>> /\ up'[n] = Tail(up[n])
        BY <1>3, <3>1, TakenUp
      <4>2. QED
        BY <2>1, <2>2, <4>1, TailOfOne
    <3>2. CASE Parent[n] # FrontEnd
      BY <1>3, <2>1, <3>2, TakenUp
    <3>3. QED
      BY <3>1, <3>2
  <2>4. QED
    BY <1>2, <2>3
<1>4. CASE UNCHANGED up /\ pc[FrontEnd] # "waiting"
  BY <1>2, <1>4 DEF UpOK
<1>5. \/ WaveReady(FrontEnd) /\ up' = Heads(FrontEnd)
      \/ UNCHANGED up /\ pc[FrontEnd] # "waiting"
  BY <1>1 DEF Step, Call, CallFails, FrontEndBroadcast, FrontEndStart, FrontEndReduce,
     FrontEndSpawned, FrontEndFinalize, links
<1>6. QED
  BY <1>3, <1>4, <1>5

(* A back end joins those that have given their part, or a node with all   *)
(* its children does.                                                      *)
BackEndGives(G, r) ==
  /\ r \notin G /\ Current(r) = Current(FrontEnd) /\ pc[r] = "called"
  /\ up'[r] # <<>> /\ Head(up'[r]).val = Operand(r)
  /\ \A c \in Nodes \ {r} : up'[c] = up[c]

NodeGives(G, n) ==
  /\ n \notin G /\ WaveReady(n) /\ up'[n] # <<>>
  /\ \E wave \in Waves(n) : Head(up'[n]).val = Merged(wave).val
  /\ \A c \in Nodes \ {n} : up'[c] = IF c \in Children(n) THEN <<>> ELSE up[c]

LEMMA UpBackEnd ==
  ASSUME Shape, AskedOK, NEW G, UpOK(G), NEW r \in BackEnd, Step(r)
  PROVE  \/ UNCHANGED up /\ UpOK(G)'
         \/ BackEndGives(G, r) /\ UpOK(G \cup {r})'
<1>1. r \in Rank /\ r # FrontEnd /\ r \in Nodes /\ r \notin CommNode /\ FrontEnd \in Rank
  BY Tree DEF Rank
<1>2. pc'[FrontEnd] = pc[FrontEnd] /\ result'[FrontEnd] = result[FrontEnd]
  BY <1>1, StepMoves DEF Moves
<1>3. Op(FrontEnd)' = Op(FrontEnd) /\ Current(FrontEnd)' = Current(FrontEnd)
  BY <1>2 DEF Op, Current
<1>4. [Next]_vars
  BY <1>1 DEF Next
<1>5. \A q \in BackEnd : Past(q, Current(FrontEnd)) => Past(q, Current(FrontEnd))'
  <2>1. Current(FrontEnd) \in Nat
    BY <1>1, CurrentCall
  <2>2. \A q \in BackEnd : q \in Rank
    BY DEF Rank
  <2>3. ASSUME NEW q \in Rank, NEW k \in Nat, Past(q, k) PROVE Past(q, k)'
    BY <1>4, <2>3, PastKept
  <2>4. ASSUME NEW q \in Rank, NEW k, k = Current(FrontEnd), Past(q, k) PROVE Past(q, Current(FrontEnd))'
    <3>1. Past(q, k)'
      BY <2>1, <2>3, <2>4
    <3>2. QED
      BY <1>3, <2>4, <3>1 DEF Past
  <2>5. QED
    BY <2>2, <2>4
<1>6. CASE UNCHANGED up
  BY <1>2, <1>3, <1>5, <1>6 DEF UpOK
<1>7. CASE /\ pc[r] = "called" /\ Op(r) \in Asking /\ down[r] # <<>> /\ pc'[r] = "waiting"
           /\ Head(down[r]).tag = AskTag(Op(r)) /\ UNCHANGED result
           /\ up' = [up EXCEPT ![r] = Append(up[r], Packet(AnswerTag(Op(r)), FALSE, Operand(r)))]
  <2>1. pc[FrontEnd] = "waiting" /\ Current(FrontEnd) = Current(r)
    BY <1>7 DEF AskedOK
  <2>2. Op(FrontEnd) = Op(r)
    BY <2>1 DEF Op
  <2>3. r \notin G
    <3>1. Len(result[r]) \in Nat
      BY <1>1, CurrentCall
    <3>2. ~Past(r, Current(FrontEnd))
      BY <1>7, <2>1, <3>1 DEF Past, Current
    <3>3. QED
      BY <3>2 DEF UpOK
  <2>4. up[r] = <<>>
    BY <1>1, <2>3 DEF UpOK
  <2>5. /\ Len(up'[r]) = 1 /\ Head(up'[r]).tag = AnswerTag(Op(FrontEnd))
        /\ up'[r] # <<>> /\ Head(up'[r]).val = Operand(r)
        /\ \A c \in Nodes \ {r} : up'[c] = up[c]
    <3>1. up = [c \in Nodes |-> up[c]]
      BY DEF Shape
    <3>2. up'[r] = Append(<<>>, Packet(AnswerTag(Op(r)), FALSE, Operand(r)))
      BY <1>1, <1>7, <2>4, <3>1
    <3>3. /\ Len(up'[r]) = 1 /\ Head(up'[r]) = Packet(AnswerTag(Op(r)), FALSE, Operand(r))
          /\ up'[r] # <<>>
      BY <3>2, SingleFacts
    <3>4. QED
      BY <1>7, <2>2, <3>1, <3>3 DEF Packet
  <2>6. Past(r, Current(FrontEnd))'
    BY <1>3, <1>7, <2>1 DEF Past, Current
  <2>7. \A n \in CommNode \cap G : r \notin Children(n)
    BY <2>3 DEF UpOK
  <2>8. UpOK(G \cup {r})'
    <3>1. G \cup {r} \subseteq Nodes /\ (G \cup {r}) \cap CommNode = G \cap CommNode
      BY <1>1 DEF UpOK
    <3>2. \A n \in Nodes : up'[n] # <<>> =>
            /\ n \in G \cup {r} /\ Len(up'[n]) = 1
            /\ Head(up'[n]).tag = AnswerTag(Op(FrontEnd))
      BY <2>5 DEF UpOK
    <3>3. \A n \in G \cap CommNode : \A c \in Children(n) : c \in G /\ c # r /\ c \in Nodes /\ up'[c] = <<>>
      BY <2>5, <2>7 DEF UpOK, Children, Nodes
    <3>4. \A q \in (G \cup {r}) \cap BackEnd : Past(q, Current(FrontEnd))'
      BY <1>5, <2>6 DEF UpOK
    <3>5. QED
      BY <1>2, <1>3, <2>1, <3>1, <3>2, <3>3, <3>4 DEF UpOK
  <2>9. BackEndGives(G, r)
    BY <1>7, <2>1, <2>3, <2>5 DEF BackEndGives
  <2>10. QED
    BY <2>8, <2>9
<1>8. CASE BackEndOperand(r)
  <2>1. pc = [q \in Rank |-> pc[q]]
    BY DEF Shape
  <2>2. QED
    BY <1>1, <1>6, <1>7, <1>8, <2>1 DEF BackEndOperand, Asking, Fail
<1>9. CASE Call(r) \/ CallFails(r) \/ BackEndBroadcast(r) \/ BackEndResult(r) \/ BackEndShutDown(r)
  BY <1>6, <1>9 DEF Call, CallFails, BackEndBroadcast, BackEndResult, BackEndShutDown, links
<1>10. QED
  BY <1>1, <1>8, <1>9 DEF Step

LEMMA UpForward ==
  ASSUME Shape, NEW G, UpOK(G), NEW n \in CommNode, Forward(n)
  PROVE  \/ UNCHANGED up /\ UpOK(G)'
         \/ NodeGives(G, n) /\ UpOK(G \cup {n})'
<1>1. n \in Nodes /\ n \notin BackEnd /\ UNCHANGED <<pc, result>>
  BY Tree DEF Forward, FilterDown, FilterUp, Rank
<1>2. /\ Op(FrontEnd)' = Op(FrontEnd) /\ Current(FrontEnd)' = Current(FrontEnd)
      /\ \A q \in BackEnd : Past(q, Current(FrontEnd))' <=> Past(q, Current(FrontEnd))
  BY <1>1 DEF Op, Current, Past
<1>3. CASE FilterDown(n)
  BY <1>1, <1>2, <1>3 DEF FilterDown, UpOK
<1>4. CASE FilterUp(n)
  <2>1. PICK wave \in Waves(n) : up' = [Heads(n) EXCEPT ![n] = Append(up[n], Merged(wave))]
    BY <1>4 DEF FilterUp
  <2>2. WaveReady(n)
    BY <1>4 DEF FilterUp
  <2>3. \A c \in Children(n) : c \in G /\ c \in Nodes /\ up[c] # <<>> /\ Len(up[c]) = 1
                               /\ Head(up[c]).tag = AnswerTag(Op(FrontEnd))
    BY <2>2 DEF WaveReady, UpOK, Children, Nodes
  <2>4. PICK d \in Children(n) : TRUE
    BY TreeAssumption
  <2>5. n \notin G /\ pc[FrontEnd] = "waiting"
    BY <2>3, <2>4 DEF UpOK
  <2>6. up[n] = <<>>
    BY <1>1, <2>5 DEF UpOK
  <2>7. /\ Heads(n) = [c \in Nodes |-> Heads(n)[c]]
        /\ \A c \in Nodes : /\ c \in Children(n) => Heads(n)[c] = <<>>
                            /\ c \notin Children(n) => Heads(n)[c] = up[c]
    <3>1. \A c \in Nodes : c \in Children(n) => Tail(up[c]) = <<>>
      <4> SUFFICES ASSUME NEW c \in Nodes, c \in Children(n) PROVE Tail(up[c]) = <<>>
        OBVIOUS
      <4>1. IsSeq(up[c]) /\ up[c] # <<>> /\ Len(up[c]) = 1
        BY <2>3 DEF Shape, NodeShape
      <4>2. QED
        BY <4>1, TailOfOne
    <3>2. \A c \in Nodes : c \in Children(n) <=> Parent[c] = n
      BY DEF Children, Nodes
    <3>3. QED
      BY <2>2, <3>1, <3>2, TakenUp
  <2>8. /\ up'[n] = Append(<<>>, Merged(wave))
        /\ \A c \in Nodes \ {n} : up'[c] = IF c \in Children(n) THEN <<>> ELSE up[c]
    <3> DEFINE h == Heads(n)
    <3>1. h = [c \in Nodes |-> h[c]] /\ up' = [h EXCEPT ![n] = Append(<<>>, Merged(wave))]
      BY <2>1, <2>6, <2>7
    <3> HIDE DEF h
    <3>2. up'[n] = Append(<<>>, Merged(wave)) /\ \A c \in Nodes \ {n} : up'[c] = h[c]
      BY <1>1, <3>1
    <3>3. QED
      BY <2>7, <3>2 DEF h
  <2>9. /\ Len(up'[n]) = 1 /\ Head(up'[n]).tag = AnswerTag(Op(FrontEnd))
        /\ up'[n] # <<>> /\ Head(up'[n]).val = Merged(wave).val
    <3>1. Len(up'[n]) = 1 /\ Head(up'[n]) = Merged(wave) /\ up'[n] # <<>>
      BY <2>8, SingleFacts
    <3>2. Merged(wave).tag = AnswerTag(Op(FrontEnd))
      BY <2>3, WaveHeads
    <3>3. QED
      BY <3>1, <3>2
  <2>10. UpOK(G \cup {n})'
    <3>1. G \cup {n} \subseteq Nodes /\ (G \cup {n}) \cap BackEnd = G \cap BackEnd
      BY <1>1 DEF UpOK
    <3>2. \A c \in Nodes : up'[c] # <<>> =>
            /\ c \in G \cup {n} /\ Len(up'[c]) = 1
            /\ Head(up'[c]).tag = AnswerTag(Op(FrontEnd))
      BY <2>8, <2>9 DEF UpOK
    <3>3. \A m \in G \cap CommNode : \A c \in Children(m) :
            c \in G /\ c \in Nodes /\ up[c] = <<>> /\ c # n
      BY <2>5 DEF UpOK, Children, Nodes
    <3>4. \A c \in Children(n) : c \in G /\ c \in Nodes \ {n}
      BY <2>3, <2>5
    <3>5. \A m \in (G \cup {n}) \cap CommNode : \A c \in Children(m) :
            c \in G \cup {n} /\ up'[c] = <<>>
      BY <2>8, <3>3, <3>4
    <3>6. QED
      BY <1>1, <1>2, <2>5, <3>1, <3>2, <3>5 DEF UpOK
  <2>11. NodeGives(G, n)
    BY <2>2, <2>5, <2>8, <2>9 DEF NodeGives
  <2>12. QED
    BY <2>10, <2>11
<1>5. QED
  BY <1>3, <1>4 DEF Forward

LEMMA UpStep == Shape /\ AskedOK /\ UpInv /\ [Next]_vars => UpInv'
<1> SUFFICES ASSUME Shape, AskedOK, UpInv, [Next]_vars PROVE UpInv'
  OBVIOUS
<1>1. PICK G : UpOK(G)
  BY DEF UpInv
<1>2. ASSUME NEW r \in Rank, Step(r) PROVE UpInv'
  <2>1. CASE r = FrontEnd
    BY <1>1, <1>2, <2>1, UpFrontEnd DEF UpInv
  <2>2. CASE r \in BackEnd
    BY <1>1, <1>2, <2>2, UpBackEnd DEF UpInv
  <2>3. QED
    BY <2>1, <2>2 DEF Rank
<1>3. ASSUME NEW n \in CommNode, Forward(n) PROVE UpInv'
  BY <1>1, <1>3, UpForward DEF UpInv
<1>4. CASE UNCHANGED vars
  <2>1. UNCHANGED <<up, pc, result>>
    BY <1>4 DEF vars, links
  <2>2. UpOK(G)'
    BY <1>1, <2>1 DEF UpOK, Op, Current, Past
  <2>3. QED
    BY <2>2 DEF UpInv
<1>5. QED
  BY <1>2, <1>3, <1>4 DEF Next

LEMMA UpInit == Init => UpInv
<1>1. Init => UpOK({})
  BY EmptyFacts, Tree DEF Init, UpOK, Nodes
<1>2. QED
  BY <1>1 DEF UpInv

-----------------------------------------------------------------------------
(* Calls that may fail.  Where no two calls of the program are asked for   *)
(* with one tag a packet tells which call it is of, and one of a call that *)
(* all have answered is one that nobody answers again.                     *)

NoTwoAlike ==
  \A j, k \in DOMAIN Script : AskTag(Script[j]) = AskTag(Script[k]) => j = k

Answered(k) == \A r \in BackEnd : Past(r, k)

FrontEndAsks(k) == pc[FrontEnd] = "waiting" /\ Current(FrontEnd) = k

Settled(p) ==
  \A k \in DOMAIN Script : Script[k] \in Asking /\ p.tag = AskTag(Script[k]) =>
    FrontEndAsks(k) \/ Answered(k)

StaleInv == \A n \in Nodes : \A i \in DOMAIN down[n] : Settled(down[n][i])

LEMMA StaleAsked == Shape /\ StaleInv => AskedOK
<1> SUFFICES ASSUME Shape, StaleInv, NEW r \in BackEnd, pc[r] = "called", Op(r) \in Asking,
                    down[r] # <<>>, Head(down[r]).tag = AskTag(Op(r))
             PROVE  pc[FrontEnd] = "waiting" /\ Current(FrontEnd) = Current(r)
  BY DEF AskedOK
<1>1. r \in Nodes /\ r \in Rank
  BY Tree DEF Rank
<1>2. IsSeq(down[r])
  BY <1>1 DEF Shape, NodeShape
<1>3. Head(down[r]) = down[r][1] /\ 1 \in DOMAIN down[r]
  BY <1>2, TailFacts
<1>4. Current(r) \in DOMAIN Script /\ Op(r) = Script[Current(r)] /\ Len(result[r]) \in Nat
  BY <1>1, CurrentCall, Tree
<1>5. FrontEndAsks(Current(r)) \/ Answered(Current(r))
  BY <1>1, <1>3, <1>4 DEF StaleInv, Settled
<1>6. ~Past(r, Current(r))
  BY <1>4 DEF Past, Current
<1>7. QED
  BY <1>5, <1>6 DEF Answered, FrontEndAsks

(* A call that has been answered, or that the front end is in, stays so.   *)
LEMMA SettledKept ==
  ASSUME Shape, UpInv, [Next]_vars, NEW k \in Nat, FrontEndAsks(k) \/ Answered(k)
  PROVE  (FrontEndAsks(k) \/ Answered(k))'
<1>1. Answered(k) => Answered(k)'
  BY PastKept, Tree DEF Answered, Rank
<1>2. ASSUME FrontEndAsks(k), ~FrontEndAsks(k)' PROVE Answered(k)
  <2>1. PICK G : UpOK(G)
    BY DEF UpInv
  <2>2. FrontEnd \in Rank /\ FrontEnd \notin BackEnd
    BY Tree
  <2>3. ~(UNCHANGED <<pc, result>>)
    BY <1>2 DEF FrontEndAsks, Current
  <2>4. PICK r \in Rank : Step(r)
    BY <2>3 DEF Next, vars, Forward, FilterDown, FilterUp
  <2>5. r = FrontEnd
    BY <1>2, <2>2, <2>4, StepMoves DEF Moves, FrontEndAsks, Current
  <2>6. WaveReady(FrontEnd)
    BY <1>2, <2>2, <2>4, <2>5 DEF Step, Call, CallFails, FrontEndBroadcast, FrontEndStart,
       FrontEndReduce, FrontEndSpawned, FrontEndFinalize, FrontEndAsks
  <2>7. QED
    BY <1>2, <2>1, <2>6, Gathered DEF Answered, FrontEndAsks
<1>3. QED
  BY <1>1, <1>2

(* Where the packets of a step come from.                                  *)
OnLink(p) == \E n \in Nodes : \E i \in DOMAIN down[n] : p = down[n][i]

LEMMA SentFrom ==
  ASSUME Shape, NEW m, NEW p, p.tag \in Operation, NEW n \in Nodes,
         NEW d, d = ToChildren(m, p), NEW i \in DOMAIN d[n]
  PROVE  OnLink(d[n][i]) \/ d[n][i] = p
<1>1. IsSeq(down[n])
  BY DEF Shape, NodeShape
<1>2. CASE Parent[n] # m
  BY <1>2, SentDown DEF OnLink
<1>3. CASE Parent[n] = m
  <2>1. d[n] = Append(down[n], p)
    BY <1>3, SentDown
  <2>2. i \in 1 .. Len(down[n]) + 1 /\ Len(down[n]) \in Nat /\ DOMAIN down[n] = 1 .. Len(down[n])
    <3>1. IsSeq(d[n]) /\ Len(d[n]) = Len(down[n]) + 1
      BY <1>1, <2>1, AppendFacts
    <3>2. QED
      BY <1>1, <3>1, SeqFacts
  <2>3. i = Len(down[n]) + 1 \/ i \in DOMAIN down[n]
    BY <2>2
  <2>4. QED
    BY <1>1, <2>1, <2>2, <2>3, AppendFacts DEF OnLink
<1>4. QED
  BY <1>2, <1>3

LEMMA TakenFrom ==
  ASSUME Shape, NEW n \in Nodes, down[n] # <<>>, NEW i \in DOMAIN Tail(down[n])
  PROVE  OnLink(Tail(down[n])[i])
<1>1. IsSeq(down[n])
  BY DEF Shape, NodeShape
<1>2. /\ DOMAIN Tail(down[n]) = 1 .. Len(down[n]) - 1 /\ DOMAIN down[n] = 1 .. Len(down[n])
      /\ Len(down[n]) \in Nat
  BY <1>1, TailFacts, SeqFacts
<1>3. i + 1 \in DOMAIN down[n] /\ Tail(down[n])[i] = down[n][i + 1]
  BY <1>1, <1>2, TailFacts
<1>4. QED
  BY <1>3 DEF OnLink

(* What the front end sends.                                               *)
Sends(p) ==
  /\ pc[FrontEnd] # "idle"
  /\ \/ FrontEndStart /\ p = Packet(AskTag(Op(FrontEnd)), TRUE, NotFilled)
     \/ /\ p.start = FALSE /\ p.tag = Op(FrontEnd)
        /\ \E ok : Return(FrontEnd, ok, p.val) /\ (ok \/ (p.tag = "bor" /\ p.val = NoBytes))
        /\ \/ Op(FrontEnd) \in Broadcast
           \/ /\ Op(FrontEnd) \in Reduction \cup {"debug"}
              /\ pc[FrontEnd] = "waiting" /\ WaveReady(FrontEnd)

LEMMA FrontEndSends ==
  ASSUME Shape, Step(FrontEnd)
  PROVE  \/ UNCHANGED down
         \/ \E p : Sends(p) /\ p.tag \in Operation /\ down' = ToChildren(FrontEnd, p)
<1> DEFINE op == Op(FrontEnd)
<1>1. FrontEnd \in Rank /\ FrontEnd \notin BackEnd
  BY Tree
<1>2. pc[FrontEnd] # "idle" => op \in Operation /\ AskTag(op) \in Operation
  BY <1>1, CurrentCall, Tags
<1>3. CASE FrontEndStart
  <2>1. PICK p : p = Packet(AskTag(op), TRUE, NotFilled)
    OBVIOUS
  <2>2. pc[FrontEnd] = "called" /\ down' = ToChildren(FrontEnd, p)
    BY <1>3, <2>1 DEF FrontEndStart
  <2>3. p.tag \in Operation
    BY <1>2, <2>1, <2>2 DEF Packet
  <2>4. QED
    BY <1>3, <2>1, <2>2, <2>3 DEF Sends
<1>4. ASSUME NEW ok, NEW val, Return(FrontEnd, ok, val), ok \/ (op = "bor" /\ val = NoBytes),
             down' = ToChildren(FrontEnd, Packet(op, FALSE, val)),
             \/ op \in Broadcast
             \/ op \in Reduction \cup {"debug"} /\ pc[FrontEnd] = "waiting" /\ WaveReady(FrontEnd),
             pc[FrontEnd] # "idle"
      PROVE  \E p : Sends(p) /\ p.tag \in Operation /\ down' = ToChildren(FrontEnd, p)
  <2>1. PICK p : p = Packet(op, FALSE, val)
    OBVIOUS
  <2>2. p.tag = op /\ p.start = FALSE /\ p.val = val
    BY <2>1 DEF Packet
  <2>3. Sends(p)
    BY <1>4, <2>2 DEF Sends
  <2>4. QED
    BY <1>2, <1>4, <2>1, <2>2, <2>3
<1>5. CASE FrontEndBroadcast
  <2>1. /\ pc[FrontEnd] = "called" /\ op \in Broadcast /\ Return(FrontEnd, TRUE, BroadcastValue(op))
        /\ down' = ToChildren(FrontEnd, Packet(op, FALSE, BroadcastValue(op)))
    BY <1>5 DEF FrontEndBroadcast
  <2>2. QED
    BY <1>4, <2>1
<1>6. CASE FrontEndReduce
  <2>1. /\ pc[FrontEnd] = "waiting" /\ op \in Reduction /\ WaveReady(FrontEnd)
        /\ \E wave \in Waves(FrontEnd) :
             \/ UNCHANGED down
             \/ /\ down' = ToChildren(FrontEnd, Packet(op, FALSE, Final(op, Merged(wave).val)))
                /\ Return(FrontEnd, TRUE, Final(op, Merged(wave).val))
             \/ /\ Current(FrontEnd) \in NoMemory
                /\ down' = ToChildren(FrontEnd, Packet(op, FALSE, NoBytes))
                /\ Return(FrontEnd, FALSE, NoBytes)
    BY <1>6 DEF FrontEndReduce, Fail
  <2>2. Current(FrontEnd) \in NoMemory => op = "bor"
    BY TreeAssumption DEF Op
  <2>3. QED
    BY <1>4, <2>1, <2>2
<1>7. CASE FrontEndSpawned
  <2>1. /\ pc[FrontEnd] = "waiting" /\ op = "debug" /\ WaveReady(FrontEnd)
        /\ down' = ToChildren(FrontEnd, Packet(op, FALSE, 0)) /\ Return(FrontEnd, TRUE, 0)
    BY <1>7 DEF FrontEndSpawned
  <2>2. QED
    BY <1>4, <2>1
<1>8. CASE Call(FrontEnd) \/ CallFails(FrontEnd) \/ FrontEndFinalize
  BY <1>8 DEF Call, CallFails, FrontEndFinalize, links
<1>9. QED
  BY <1>1, <1>3, <1>5, <1>6, <1>7, <1>8 DEF Step

(* Every packet on a link was on one before or is sent by the front end.   *)
LEMMA PacketsFrom ==
  ASSUME Shape, [Next]_vars, NEW c \in Nodes, NEW i \in DOMAIN down'[c]
  PROVE  OnLink(down'[c][i]) \/ (Step(FrontEnd) /\ Sends(down'[c][i]))
<1>1. CASE UNCHANGED down
  BY <1>1 DEF OnLink
<1>2. ASSUME NEW n \in Nodes, down[n] # <<>>, down' = [down EXCEPT ![n] = Tail(down[n])]
      PROVE  OnLink(down'[c][i])
  <2>1. down = [m \in Nodes |-> down[m]]
    BY DEF Shape
  <2>2. CASE c = n
    BY <1>2, <2>1, <2>2, TakenFrom
  <2>3. CASE c # n
    BY <1>2, <2>1, <2>3 DEF OnLink
  <2>4. QED
    BY <2>2, <2>3
<1>3. CASE Step(FrontEnd)
  BY <1>1, <1>3, FrontEndSends, SentFrom
<1>4. ASSUME NEW r \in BackEnd, Step(r) PROVE OnLink(down'[c][i])
  <2>1. r \in Nodes /\ r # FrontEnd
    BY Tree
  <2>2. CASE BackEndBroadcast(r) \/ BackEndOperand(r) \/ BackEndResult(r)
    BY <1>2, <2>1, <2>2 DEF BackEndBroadcast, BackEndOperand, BackEndResult
  <2>3. CASE Call(r) \/ CallFails(r) \/ BackEndShutDown(r)
    BY <2>3 DEF Call, CallFails, BackEndShutDown, links, OnLink
  <2>4. QED
    BY <1>4, <2>1, <2>2, <2>3 DEF Step
<1>5. ASSUME NEW n \in CommNode, FilterDown(n) PROVE OnLink(down'[c][i])
  <2> DEFINE p == Head(down[n])
             d == ToChildren(n, p)
  <2>1. n \in Nodes /\ down[n] # <<>>
    BY <1>5, Tree DEF FilterDown
  <2>2. IsSeq(down[n]) /\ p.tag \in Operation /\ OnLink(p)
    <3>1. IsSeq(down[n])
      BY <2>1 DEF Shape, NodeShape
    <3>2. p = down[n][1] /\ 1 \in DOMAIN down[n]
      BY <2>1, <3>1, TailFacts
    <3>3. QED
      BY <2>1, <3>1, <3>2 DEF OnLink, Shape, NodeShape
  <2>3. d = [m \in Nodes |-> d[m]]
    BY <2>2, SentDown
  <2>4. \A m \in Nodes : \A j \in DOMAIN d[m] : OnLink(d[m][j])
    BY <2>2, SentFrom
  <2>5. down' = [d EXCEPT ![n] = Tail(down[n])]
    BY <1>5 DEF FilterDown
  <2> HIDE DEF d
  <2>6. CASE c = n
    BY <2>1, <2>3, <2>5, <2>6, TakenFrom
  <2>7. CASE c # n
    BY <2>3, <2>4, <2>5, <2>7
  <2>8. QED
    BY <2>6, <2>7
<1>6. CASE (\E n \in CommNode : FilterUp(n)) \/ UNCHANGED vars
  BY <1>1, <1>6 DEF FilterUp, vars, links
<1>7. QED
  BY <1>3, <1>4, <1>5, <1>6 DEF Next, Forward, Rank

LEMMA StaleStep ==
  ASSUME NoTwoAlike, Shape, UpInv, StaleInv, [Next]_vars
  PROVE  StaleInv'
<1>1. \A k \in DOMAIN Script : FrontEndAsks(k) \/ Answered(k) => (FrontEndAsks(k) \/ Answered(k))'
  BY SettledKept, Tree
<1>2. ASSUME NEW p, OnLink(p) PROVE Settled(p)'
  <2>1. Settled(p)
    BY <1>2 DEF OnLink, StaleInv
  <2>2. QED
    BY <1>1, <2>1 DEF Settled
<1>3. ASSUME NEW p, Step(FrontEnd), Sends(p) PROVE Settled(p)'
  <2> DEFINE op == Op(FrontEnd)
  <2>1. FrontEnd \in Rank
    BY Tree
  <2>2. PICK k \in DOMAIN Script : k = Current(FrontEnd) /\ op = Script[k]
    BY <1>3, <2>1, CurrentCall, Tree DEF Sends
  <2> HIDE DEF op
  <2>3. CASE FrontEndStart /\ p.tag = AskTag(op)
    <3>1. FrontEndAsks(k)'
      <4>1. pc = [q \in Rank |-> pc[q]]
        BY DEF Shape
      <4>2. QED
        BY <2>1, <2>2, <2>3, <4>1 DEF FrontEndAsks, FrontEndStart, Current
    <3>2. QED
      BY <2>2, <2>3, <3>1 DEF Settled, NoTwoAlike
  <2>4. CASE op \in Broadcast /\ p.tag = op
    <3>1. \A x \in Asking : op # AskTag(x)
      BY <2>4 DEF Asking, AskTag, Broadcast, Reduction, Session, MapOp, IntOp
    <3>2. QED
      BY <2>4, <3>1 DEF Settled
  <2>5. CASE op \in Reduction \cup {"debug"} /\ WaveReady(FrontEnd) /\ p.tag = op
    <3>1. Answered(k)
      BY <2>2, <2>5, Gathered DEF UpInv, Answered
    <3>2. op = AskTag(op)
      BY <2>5 DEF AskTag, Reduction, MapOp, IntOp
    <3>3. \A j \in DOMAIN Script : p.tag = AskTag(Script[j]) => j = k
      BY <2>2, <2>5, <3>2 DEF NoTwoAlike
    <3>4. QED
      BY <1>1, <3>1, <3>3 DEF Settled
  <2>6. QED
    BY <1>3, <2>3, <2>4, <2>5 DEF Sends, Packet, op
<1>4. QED
  BY <1>2, <1>3, PacketsFrom DEF StaleInv

LEMMA StaleAlways ==
  ASSUME NoTwoAlike
  PROVE  Spec => [](Shape /\ UpInv /\ StaleInv)
<1>1. Init => StaleInv
  BY EmptyFacts, SeqFacts DEF Init, StaleInv, Nodes
<1>2. Shape /\ UpInv /\ StaleInv /\ [Next]_vars => (Shape /\ UpInv /\ StaleInv)'
  BY ShapeStep, StaleAsked, UpStep, StaleStep
<1>3. QED
  BY <1>1, <1>2, ShapeInit, UpInit, PTL DEF Spec

-----------------------------------------------------------------------------
(* Calls that do not fail.  The packets the front end sends down are then  *)
(* the same for every node, one to ask for each call (or with the value of *)
(* a broadcast) and one with the result of each that has one.  Numbered in *)
(* this order, what is on the link to a node is what the node above has    *)
(* passed on and the node itself has not.                                  *)

NothingFails == MayFail = {}

HasResult(k) == Script[k] \in Reduction \cup {"debug"}
AskOf(k) == 2 * k - 1
ResultOf(k) == 2 * k

Token == {AskOf(k) : k \in DOMAIN Script}
           \cup {ResultOf(k) : k \in {j \in DOMAIN Script : HasResult(j)}}

Between(lo, hi) == {t \in Token : lo < t /\ t <= hi}

(* The tokens a process is through with.                                   *)
Seen(r) == 2 * Len(result[r]) + IF pc[r] = "waiting" THEN 1 ELSE 0

(* With results res the front end has returned from call k with this value.*)
Has(res, k, val) == k <= Len(res) /\ val = res[k].val

(* Packet p is the one with number t.                                      *)
Carries(res, p, t) ==
  \A k \in DOMAIN Script :
    /\ t = AskOf(k) => /\ p.tag = AskTag(Script[k])
                       /\ Script[k] \in Asking => p.start = TRUE
                       /\ Script[k] \in Broadcast => Has(res, k, p.val)
    /\ t = ResultOf(k) => p.tag = Script[k] /\ p.start = FALSE /\ Has(res, k, p.val)

Enumerates(tok, S) ==
  /\ tok \in Seq(Nat)
  /\ \A i, j \in 1 .. Len(tok) : i < j => tok[i] < tok[j]
  /\ S = {tok[i] : i \in 1 .. Len(tok)}

Holds(res, q, S) ==
  \E tok : /\ Enumerates(tok, S) /\ Len(tok) = Len(q)
           /\ \A i \in 1 .. Len(q) : Carries(res, q[i], tok[i])

Behind(lo, hi) == \A t \in Token : t <= lo => t <= hi

(* at[n] is how far node n is.                                             *)
DownOK(at) ==
  /\ at \in [Nodes \cup {FrontEnd} -> Nat]
  /\ \A r \in Rank : at[r] = Seen(r)
  /\ \A n \in Nodes : /\ Holds(result[FrontEnd], down[n], Between(at[n], at[Parent[n]]))
                      /\ Behind(at[n], at[Parent[n]]) /\ Behind(at[n], at[FrontEnd])

DownInv == \E at : DownOK(at)

LEMMA Tokens ==
  /\ Token \subseteq Nat
  /\ \A k \in DOMAIN Script :
       /\ AskOf(k) \in Token /\ (HasResult(k) => ResultOf(k) \in Token)
       /\ (~HasResult(k) => ResultOf(k) \notin Token)
       /\ AskOf(k) = 2 * k - 1 /\ ResultOf(k) = 2 * k /\ k \in Nat /\ k > 0
BY Tree DEF Token, AskOf, ResultOf, HasResult

LEMMA SeenIs ==
  ASSUME Shape, NEW r \in Rank, NEW n, n = Len(result[r])
  PROVE  /\ n \in Nat /\ Seen(r) \in Nat
         /\ pc[r] = "waiting" => Seen(r) = 2 * n + 1
         /\ pc[r] # "waiting" => Seen(r) = 2 * n
<1>1. n \in Nat
  BY CurrentCall
<1>2. Seen(r) = 2 * n + IF pc[r] = "waiting" THEN 1 ELSE 0
  BY DEF Seen
<1>3. CASE pc[r] = "waiting"
  <2>1. Seen(r) = 2 * n + 1
    BY <1>2, <1>3
  <2>2. QED
    BY <1>1, <1>3, <2>1
<1>4. CASE pc[r] # "waiting"
  <2>1. Seen(r) = 2 * n + 0
    BY <1>2, <1>4
  <2>2. QED
    BY <1>1, <1>4, <2>1
<1>5. QED
  BY <1>3, <1>4

LEMMA NotOwnParent == \A n \in Nodes : Parent[n] # n /\ Parent[n] \in Nodes \cup {FrontEnd}
<1> SUFFICES ASSUME NEW n \in Nodes PROVE Parent[n] # n
  BY Tree
<1>1. {n} \in SUBSET DOMAIN Parent /\ {n} # {}
  BY DEF Nodes
<1>2. \E m \in {n} : Parent[m] \notin {n}
  BY <1>1, TreeAssumption
<1>3. QED
  BY <1>2

LEMMA EnumerateMore ==
  ASSUME NEW tok, NEW S, Enumerates(tok, S), NEW t \in Nat, \A s \in S : s < t
  PROVE  Enumerates(Append(tok, t), S \cup {t})
<1> DEFINE n == Len(tok)
           more == Append(tok, t)
<1>1. /\ tok \in Seq(Nat) /\ n \in Nat /\ S = {tok[i] : i \in 1 .. n}
      /\ \A i, j \in 1 .. n : i < j => tok[i] < tok[j]
  BY DEF Enumerates
<1>2. /\ more \in Seq(Nat) /\ Len(more) = n + 1 /\ more[n + 1] = t
      /\ \A i \in 1 .. n : more[i] = tok[i]
  BY <1>1
<1> HIDE DEF n, more
<1>3. \A i \in 1 .. n + 1 : i \in 1 .. n \/ i = n + 1
  BY <1>1
<1>4. \A i \in 1 .. n : tok[i] < t
  BY <1>1
<1>5. S \cup {t} = {more[i] : i \in 1 .. n + 1}
  <2>1. 1 .. n + 1 = (1 .. n) \cup {n + 1}
    BY <1>1
  <2>2. \A x : x \in S \cup {t} <=> \E i \in 1 .. n + 1 : x = more[i]
    BY <1>1, <1>2, <2>1
  <2>3. QED
    BY <2>2
<1>6. \A i, j \in 1 .. n + 1 : i < j => more[i] < more[j]
  <2> SUFFICES ASSUME NEW i \in 1 .. n + 1, NEW j \in 1 .. n + 1, i < j PROVE more[i] < more[j]
    OBVIOUS
  <2>1. i \in 1 .. n
    BY <1>1
  <2>2. QED
    BY <1>1, <1>2, <1>3, <1>4, <2>1
<1>7. QED
  BY <1>2, <1>5, <1>6 DEF Enumerates, more

LEMMA EnumerateRest ==
  ASSUME NEW tok, NEW S, Enumerates(tok, S), Len(tok) > 0
  PROVE  /\ tok[1] \in S /\ \A s \in S : tok[1] <= s
         /\ Enumerates(Tail(tok), S \ {tok[1]})
<1> DEFINE n == Len(tok)
           rest == Tail(tok)
<1>1. /\ tok \in Seq(Nat) /\ n \in Nat /\ n > 0 /\ S = {tok[i] : i \in 1 .. n}
      /\ \A i, j \in 1 .. n : i < j => tok[i] < tok[j]
      /\ \A i \in 1 .. n : tok[i] \in Nat
  BY DEF Enumerates
<1>2. /\ rest \in Seq(Nat) /\ Len(rest) = n - 1
      /\ \A i \in 1 .. n - 1 : rest[i] = tok[i + 1]
  BY <1>1
<1> HIDE DEF n, rest
<1>3. \A i \in 1 .. n : i = 1 \/ (i - 1 \in 1 .. n - 1 /\ 1 < i /\ tok[1] < tok[i])
  BY <1>1
<1>4. tok[1] \in S /\ \A s \in S : tok[1] <= s
  BY <1>1, <1>3
<1>5. S \ {tok[1]} = {rest[i] : i \in 1 .. n - 1}
  <2>1. ASSUME NEW x \in S \ {tok[1]} PROVE x \in {rest[i] : i \in 1 .. n - 1}
    <3>1. PICK i \in 1 .. n : x = tok[i]
      BY <1>1
    <3>2. i - 1 \in 1 .. n - 1 /\ (i - 1) + 1 = i
      BY <1>3, <2>1, <3>1
    <3>3. QED
      BY <1>2, <3>1, <3>2
  <2>2. ASSUME NEW i \in 1 .. n - 1 PROVE rest[i] \in S \ {tok[1]}
    <3>1. i + 1 \in 1 .. n /\ i + 1 # 1
      BY <1>1
    <3>2. tok[1] < tok[i + 1] /\ tok[i + 1] \in S
      BY <1>1, <1>3, <3>1
    <3>3. rest[i] = tok[i + 1] /\ tok[1] \in Nat /\ tok[i + 1] \in Nat
      BY <1>1, <1>2, <3>1
    <3>4. QED
      BY <3>2, <3>3
  <2>3. QED
    BY <2>1, <2>2
<1>6. \A i, j \in 1 .. n - 1 : i < j => rest[i] < rest[j]
  <2> SUFFICES ASSUME NEW i \in 1 .. n - 1, NEW j \in 1 .. n - 1, i < j PROVE rest[i] < rest[j]
    OBVIOUS
  <2>1. i + 1 \in 1 .. n /\ j + 1 \in 1 .. n /\ i + 1 < j + 1
    BY <1>1
  <2>2. tok[i + 1] < tok[j + 1]
    BY <1>1, <2>1
  <2>3. QED
    BY <1>2, <2>2
<1>7. QED
  BY <1>2, <1>4, <1>5, <1>6 DEF Enumerates, rest

LEMMA HoldsMore ==
  ASSUME NEW res, NEW q, IsSeq(q), NEW S, Holds(res, q, S), NEW p, NEW t \in Nat, \A s \in S : s < t,
         Carries(res, p, t)
  PROVE  Holds(res, Append(q, p), S \cup {t})
<1>1. PICK tok : Enumerates(tok, S) /\ Len(tok) = Len(q) /\ \A i \in 1 .. Len(q) : Carries(res, q[i], tok[i])
  BY DEF Holds
<1>2. Enumerates(Append(tok, t), S \cup {t})
  BY <1>1, EnumerateMore
<1>3. /\ Len(Append(tok, t)) = Len(q) + 1 /\ Append(tok, t)[Len(q) + 1] = t
      /\ \A i \in 1 .. Len(q) : Append(tok, t)[i] = tok[i]
  BY <1>1 DEF Enumerates
<1>4. /\ Len(Append(q, p)) = Len(q) + 1 /\ Append(q, p)[Len(q) + 1] = p /\ Len(q) \in Nat
      /\ \A i \in 1 .. Len(q) : Append(q, p)[i] = q[i]
  BY AppendFacts, SeqFacts
<1>5. \A i \in 1 .. Len(q) + 1 : i \in 1 .. Len(q) \/ i = Len(q) + 1
  BY <1>4
<1>6. \A i \in 1 .. Len(q) + 1 : Carries(res, Append(q, p)[i], Append(tok, t)[i])
  BY <1>1, <1>3, <1>4, <1>5
<1>7. QED
  BY <1>2, <1>3, <1>4, <1>6 DEF Holds

LEMMA HoldsRest ==
  ASSUME NEW res, NEW q, IsSeq(q), q # <<>>, NEW S, Holds(res, q, S)
  PROVE  \E t \in S : /\ \A s \in S : t <= s
                      /\ Carries(res, Head(q), t) /\ Holds(res, Tail(q), S \ {t})
<1>1. PICK tok : Enumerates(tok, S) /\ Len(tok) = Len(q) /\ \A i \in 1 .. Len(q) : Carries(res, q[i], tok[i])
  BY DEF Holds
<1>2. /\ Len(q) \in Nat /\ Len(q) > 0 /\ Len(Tail(q)) = Len(q) - 1 /\ Head(q) = q[1]
      /\ \A i \in 1 .. Len(q) - 1 : Tail(q)[i] = q[i + 1]
  BY SeqFacts, TailFacts
<1>3. /\ Len(Tail(tok)) = Len(q) - 1 /\ \A i \in 1 .. Len(q) - 1 : Tail(tok)[i] = tok[i + 1]
  BY <1>1, <1>2 DEF Enumerates
<1>4. /\ tok[1] \in S /\ \A s \in S : tok[1] <= s
      /\ Enumerates(Tail(tok), S \ {tok[1]})
  BY <1>1, <1>2, EnumerateRest
<1>5. \A i \in 1 .. Len(q) - 1 : Carries(res, Tail(q)[i], Tail(tok)[i])
  <2>1. \A i \in 1 .. Len(q) - 1 : i + 1 \in 1 .. Len(q)
    BY <1>2
  <2>2. QED
    BY <1>1, <1>2, <1>3, <2>1
<1>6. Holds(res, Tail(q), S \ {tok[1]})
  BY <1>2, <1>3, <1>4, <1>5 DEF Holds
<1>7. Carries(res, Head(q), tok[1])
  BY <1>1, <1>2
<1>8. QED
  BY <1>4, <1>6, <1>7

(* What the front end has returned stays.                                  *)
Grown(res, more) ==
  /\ Len(res) \in Nat /\ Len(more) \in Nat /\ Len(res) <= Len(more)
  /\ \A k \in 1 .. Len(res) : more[k] = res[k]

LEMMA AlwaysGrows ==
  ASSUME Shape, [Next]_vars
  PROVE  Grown(result[FrontEnd], result'[FrontEnd])
<1>1. FrontEnd \in Rank /\ Len(result[FrontEnd]) \in Nat
  BY Tree, CurrentCall
<1>2. ASSUME NEW r \in Rank, Step(r) PROVE Grown(result[FrontEnd], result'[FrontEnd])
  <2>1. CASE result'[FrontEnd] = result[FrontEnd]
    BY <1>1, <2>1 DEF Grown
  <2>2. CASE r = FrontEnd /\ pc[r] # "idle" /\ \E ok, val : Return(r, ok, val)
    <3>1. PICK ok, val : Return(FrontEnd, ok, val)
      BY <2>2
    <3>2. /\ Len(result'[FrontEnd]) = Len(result[FrontEnd]) + 1
          /\ \A k \in 1 .. Len(result[FrontEnd]) : result'[FrontEnd][k] = result[FrontEnd][k]
      BY <1>1, <2>2, <3>1, ReturnLeaves
    <3>3. QED
      BY <1>1, <3>2 DEF Grown
  <2>3. QED
    BY <1>1, <1>2, <2>1, <2>2, StepMoves DEF Moves
<1>3. CASE UNCHANGED result
  BY <1>1, <1>3 DEF Grown
<1>4. CASE UNCHANGED vars \/ \E n \in CommNode : Forward(n)
  BY <1>3, <1>4 DEF vars, Forward, FilterDown, FilterUp
<1>5. QED
  BY <1>2, <1>4 DEF Next

LEMMA HoldsKept ==
  ASSUME NEW res, NEW more, Grown(res, more), NEW q, NEW S, Holds(res, q, S)
  PROVE  Holds(more, q, S)
<1>1. \A k \in DOMAIN Script : \A val : Has(res, k, val) => Has(more, k, val)
  BY Tree DEF Grown, Has
<1>2. \A p, t : Carries(res, p, t) => Carries(more, p, t)
  BY <1>1 DEF Carries
<1>3. QED
  BY <1>2 DEF Holds

(* The first packet on a link is the next one of the node.                 *)
LEMMA HeadIsNext ==
  ASSUME Shape, NEW at, DownOK(at), NEW n \in Nodes, down[n] # <<>>
  PROVE  \E t \in Token :
           /\ at[n] < t /\ t <= at[Parent[n]] /\ t <= at[FrontEnd]
           /\ \A s \in Token : at[n] < s => t <= s
           /\ Carries(result[FrontEnd], Head(down[n]), t)
           /\ Holds(result[FrontEnd], Tail(down[n]), Between(at[n], at[Parent[n]]) \ {t})
<1>1. IsSeq(down[n]) /\ Holds(result[FrontEnd], down[n], Between(at[n], at[Parent[n]]))
  BY DEF Shape, NodeShape, DownOK
<1>2. PICK t \in Between(at[n], at[Parent[n]]) :
        /\ \A s \in Between(at[n], at[Parent[n]]) : t <= s
        /\ Carries(result[FrontEnd], Head(down[n]), t)
        /\ Holds(result[FrontEnd], Tail(down[n]), Between(at[n], at[Parent[n]]) \ {t})
  BY <1>1, HoldsRest
<1>3. at[n] \in Nat /\ at[Parent[n]] \in Nat /\ at[FrontEnd] \in Nat /\ Parent[n] \in Nodes \cup {FrontEnd}
  BY NotOwnParent DEF DownOK
<1>4. t \in Token /\ at[n] < t /\ t <= at[Parent[n]] /\ Token \subseteq Nat
  BY <1>2, Tokens DEF Between
<1>5. \A s \in Token : at[n] < s => t <= s
  BY <1>2, <1>3, <1>4 DEF Between
<1>6. t <= at[FrontEnd]
  <2>1. CASE Parent[n] = FrontEnd
    BY <1>4, <2>1
  <2>2. CASE Parent[n] \in Nodes
    BY <1>4, <2>2 DEF DownOK, Behind
  <2>3. QED
    BY <1>3, <2>1, <2>2
<1>7. QED
  BY <1>2, <1>4, <1>5, <1>6

(* The next of a process between its calls is the request of the call, and *)
(* of one that has answered the result.                                    *)
LEMMA AskIsNext ==
  ASSUME NEW k \in DOMAIN Script, NEW t \in Token, 2 * (k - 1) < t,
         \A s \in Token : 2 * (k - 1) < s => t <= s
  PROVE  t = AskOf(k)
BY Tokens

LEMMA ResultIsNext ==
  ASSUME NEW k \in DOMAIN Script, HasResult(k), NEW t \in Token, 2 * (k - 1) + 1 < t,
         \A s \in Token : 2 * (k - 1) + 1 < s => t <= s
  PROVE  t = ResultOf(k)
BY Tokens

(* The front end sends the packet with number t.                           *)
LEMMA DownSend ==
  ASSUME Shape, [Next]_vars, NEW at, DownOK(at), NEW p, p.tag \in Operation,
         down' = ToChildren(FrontEnd, p), NEW t \in Token, NEW hi \in Nat, hi = Seen(FrontEnd)',
         Carries(result'[FrontEnd], p, t), at[FrontEnd] < t, t <= hi,
         \A s \in Token : at[FrontEnd] < s /\ s <= hi => s = t,
         \A r \in BackEnd : Seen(r)' = Seen(r)
  PROVE  DownInv'
<1> DEFINE to == [at EXCEPT ![FrontEnd] = hi]
<1>1. /\ at \in [Nodes \cup {FrontEnd} -> Nat] /\ \A r \in Rank : at[r] = Seen(r)
      /\ \A n \in Nodes : Behind(at[n], at[Parent[n]]) /\ Behind(at[n], at[FrontEnd])
  BY DEF DownOK
<1>2. /\ to \in [Nodes \cup {FrontEnd} -> Nat] /\ to[FrontEnd] = hi
      /\ \A n \in Nodes : to[n] = at[n]
  BY <1>1, Tree
<1> HIDE DEF to
<1>3. \A r \in Rank : to[r] = Seen(r)'
  <2> SUFFICES ASSUME NEW r \in Rank PROVE to[r] = Seen(r)'
    OBVIOUS
  <2>1. r = FrontEnd \/ (r \in BackEnd /\ r \in Nodes)
    BY Tree DEF Rank
  <2>2. QED
    BY <1>1, <1>2, <2>1
<1>4. at[FrontEnd] \in Nat /\ t \in Nat /\ at[FrontEnd] < hi /\ Token \subseteq Nat
  BY <1>1, Tokens
<1>5. ASSUME NEW n \in Nodes
      PROVE  /\ Holds(result'[FrontEnd], down'[n], Between(to[n], to[Parent[n]]))
             /\ Behind(to[n], to[Parent[n]]) /\ Behind(to[n], to[FrontEnd])
  <2>1. Holds(result'[FrontEnd], down[n], Between(at[n], at[Parent[n]]))
    BY HoldsKept, AlwaysGrows DEF DownOK
  <2>2. /\ at[n] \in Nat /\ to[n] = at[n] /\ Behind(at[n], at[FrontEnd]) /\ IsSeq(down[n])
        /\ Parent[n] \in Nodes \cup {FrontEnd}
    BY <1>1, <1>2, NotOwnParent DEF Shape, NodeShape
  <2>3. Behind(to[n], to[FrontEnd])
    BY <1>2, <1>4, <2>2 DEF Behind
  <2>4. CASE Parent[n] = FrontEnd
    <3>1. down'[n] = Append(down[n], p)
      BY <2>4, SentDown
    <3>2. at[n] < t
      BY <1>4, <2>2 DEF Behind
    <3>3. \A s \in Token : (s <= hi <=> s <= at[FrontEnd] \/ s = t) /\ (s <= at[FrontEnd] => s < t)
      BY <1>4
    <3>4. to[Parent[n]] = hi /\ at[Parent[n]] = at[FrontEnd]
      BY <1>2, <2>4
    <3>5. Between(to[n], to[Parent[n]]) = Between(at[n], at[Parent[n]]) \cup {t}
      BY <2>2, <3>2, <3>3, <3>4 DEF Between
    <3>6. \A s \in Between(at[n], at[Parent[n]]) : s < t
      BY <3>3, <3>4 DEF Between
    <3>7. Holds(result'[FrontEnd], Append(down[n], p), Between(at[n], at[Parent[n]]) \cup {t})
      BY <1>4, <2>1, <2>2, <3>4, <3>6, HoldsMore
    <3>8. QED
      BY <2>3, <2>4, <3>1, <3>5, <3>7
  <2>5. CASE Parent[n] \in Nodes
    <3>1. Parent[n] # FrontEnd /\ to[Parent[n]] = at[Parent[n]]
      BY <1>2, <2>5, Tree
    <3>2. down'[n] = down[n]
      BY <3>1, SentDown
    <3>3. QED
      BY <1>1, <2>1, <2>2, <2>3, <3>1, <3>2
  <2>6. QED
    BY <2>2, <2>4, <2>5
<1>6. DownOK(to)'
  BY <1>2, <1>3, <1>5 DEF DownOK
<1>7. QED
  BY <1>6 DEF DownInv

(* A process passes tokens of its call without a packet.                   *)
LEMMA DownPass ==
  ASSUME Shape, [Next]_vars, NEW at, DownOK(at), UNCHANGED down,
         NEW r \in Rank, NEW hi \in Nat, hi = Seen(r)', Seen(r) <= hi,
         \A s \in Token : ~(Seen(r) < s /\ s <= hi),
         \A q \in Rank \ {r} : Seen(q)' = Seen(q)
  PROVE  DownInv'
<1> DEFINE to == [at EXCEPT ![r] = hi]
<1>1. /\ at \in [Nodes \cup {FrontEnd} -> Nat] /\ \A q \in Rank : at[q] = Seen(q)
      /\ r \in Nodes \cup {FrontEnd} /\ Rank \subseteq Nodes \cup {FrontEnd}
  BY Tree DEF DownOK, Rank
<1>2. /\ to \in [Nodes \cup {FrontEnd} -> Nat] /\ to[r] = hi
      /\ \A n \in Nodes \cup {FrontEnd} : n # r => to[n] = at[n]
  BY <1>1
<1> HIDE DEF to
<1>3. \A q \in Rank : to[q] = Seen(q)'
  BY <1>1, <1>2
<1>4. /\ at[r] = Seen(r) /\ at[r] \in Nat /\ Token \subseteq Nat
      /\ \A n \in Nodes \cup {FrontEnd} : at[n] \in Nat /\ to[n] \in Nat
  BY <1>1, <1>2, Tokens
<1>5. \A n \in Nodes \cup {FrontEnd} : \A t \in Token : t <= to[n] <=> t <= at[n]
  BY <1>2, <1>4
<1>6. ASSUME NEW n \in Nodes
      PROVE  /\ Holds(result'[FrontEnd], down'[n], Between(to[n], to[Parent[n]]))
             /\ Behind(to[n], to[Parent[n]]) /\ Behind(to[n], to[FrontEnd])
  <2>1. Holds(result'[FrontEnd], down[n], Between(at[n], at[Parent[n]]))
    BY HoldsKept, AlwaysGrows DEF DownOK
  <2>2. Parent[n] \in Nodes \cup {FrontEnd}
    BY NotOwnParent
  <2>3. \A t \in Token : at[n] < t <=> to[n] < t
    BY <1>4, <1>5
  <2>4. Between(to[n], to[Parent[n]]) = Between(at[n], at[Parent[n]])
    BY <1>5, <2>2, <2>3 DEF Between
  <2>5. Behind(to[n], to[Parent[n]]) /\ Behind(to[n], to[FrontEnd])
    BY <1>5, <2>2 DEF Behind, DownOK
  <2>6. QED
    BY <2>1, <2>4, <2>5
<1>7. DownOK(to)'
  BY <1>2, <1>3, <1>6 DEF DownOK
<1>8. QED
  BY <1>7 DEF DownInv

(* A back end takes the packet with number t.                              *)
LEMMA DownTake ==
  ASSUME Shape, [Next]_vars, NEW at, DownOK(at), NEW r \in BackEnd,
         down' = [down EXCEPT ![r] = Tail(@)], down[r] # <<>>,
         NEW t \in Token, NEW hi \in Nat, hi = Seen(r)', Seen(r) < t, t <= hi,
         t <= at[Parent[r]], t <= at[FrontEnd],
         Holds(result[FrontEnd], Tail(down[r]), Between(at[r], at[Parent[r]]) \ {t}),
         \A s \in Token : Seen(r) < s /\ s <= hi => s = t,
         \A q \in Rank \ {r} : Seen(q)' = Seen(q)
  PROVE  DownInv'
<1> DEFINE to == [at EXCEPT ![r] = hi]
<1>1. /\ at \in [Nodes \cup {FrontEnd} -> Nat] /\ \A q \in Rank : at[q] = Seen(q)
      /\ r \in Nodes /\ r \in Rank /\ r # FrontEnd /\ Rank \subseteq Nodes \cup {FrontEnd}
      /\ r \notin CommNode
  BY Tree DEF DownOK, Rank
<1>2. /\ to \in [Nodes \cup {FrontEnd} -> Nat] /\ to[r] = hi
      /\ \A n \in Nodes \cup {FrontEnd} : n # r => to[n] = at[n]
  BY <1>1
<1> HIDE DEF to
<1>3. \A q \in Rank : to[q] = Seen(q)'
  BY <1>1, <1>2
<1>4. /\ at[r] = Seen(r) /\ Token \subseteq Nat
      /\ \A n \in Nodes \cup {FrontEnd} : at[n] \in Nat
  BY <1>1, Tokens
<1>5. /\ down'[r] = Tail(down[r]) /\ \A n \in Nodes : n # r => down'[n] = down[n]
  BY <1>1, TakenDown
<1>6. ASSUME NEW n \in Nodes
      PROVE  /\ Holds(result'[FrontEnd], down'[n], Between(to[n], to[Parent[n]]))
             /\ Behind(to[n], to[Parent[n]]) /\ Behind(to[n], to[FrontEnd])
  <2>1. Parent[n] \in Nodes \cup {FrontEnd} /\ Parent[n] # r /\ to[Parent[n]] = at[Parent[n]]
        /\ to[FrontEnd] = at[FrontEnd]
    BY <1>1, <1>2, NotOwnParent, Tree
  <2>2. CASE n # r
    <3>1. Holds(result'[FrontEnd], down[n], Between(at[n], at[Parent[n]]))
      BY HoldsKept, AlwaysGrows DEF DownOK
    <3>2. to[n] = at[n] /\ down'[n] = down[n]
      BY <1>2, <1>5, <2>2
    <3>3. QED
      BY <2>1, <3>1, <3>2 DEF DownOK
  <2>3. CASE n = r
    <3>1. Holds(result'[FrontEnd], Tail(down[r]), Between(at[r], at[Parent[r]]) \ {t})
      BY HoldsKept, AlwaysGrows
    <3>2. Between(at[r], at[Parent[r]]) \ {t} = Between(to[r], to[Parent[r]])
      <4>1. \A s \in Token : at[r] < s /\ s # t <=> hi < s
        BY <1>1, <1>4
      <4>2. QED
        BY <1>2, <2>1, <2>3, <4>1 DEF Between
    <3>3. Behind(at[r], at[Parent[r]]) /\ Behind(at[r], at[FrontEnd])
      BY <1>1 DEF DownOK
    <3>4. \A s \in Token : s <= hi => s <= at[r] \/ s = t
      BY <1>1, <1>4
    <3>5. Behind(hi, at[Parent[r]]) /\ Behind(hi, at[FrontEnd])
      BY <3>3, <3>4 DEF Behind
    <3>6. QED
      BY <1>2, <1>5, <2>1, <2>3, <3>1, <3>2, <3>5
  <2>4. QED
    BY <2>2, <2>3
<1>7. DownOK(to)'
  BY <1>2, <1>3, <1>6 DEF DownOK
<1>8. QED
  BY <1>7 DEF DownInv

(* A node passes its next packet on.                                       *)
LEMMA DownForward ==
  ASSUME Shape, [Next]_vars, NEW at, DownOK(at), NEW n \in CommNode, FilterDown(n)
  PROVE  DownInv'
<1>1. /\ down[n] # <<>> /\ UNCHANGED <<pc, result>> /\ n \in Nodes /\ n \notin Rank /\ n # FrontEnd
      /\ down' = [ToChildren(n, Head(down[n])) EXCEPT ![n] = Tail(down[n])]
  BY Tree DEF FilterDown
<1>2. PICK t \in Token :
        /\ at[n] < t /\ t <= at[Parent[n]] /\ t <= at[FrontEnd]
        /\ \A s \in Token : at[n] < s => t <= s
        /\ Carries(result[FrontEnd], Head(down[n]), t)
        /\ Holds(result[FrontEnd], Tail(down[n]), Between(at[n], at[Parent[n]]) \ {t})
  BY <1>1, HeadIsNext
<1> DEFINE to == [at EXCEPT ![n] = t]
<1>3. /\ at \in [Nodes \cup {FrontEnd} -> Nat] /\ \A q \in Rank : at[q] = Seen(q)
      /\ Rank \subseteq Nodes \cup {FrontEnd} /\ Token \subseteq Nat
      /\ \A c \in Nodes \cup {FrontEnd} : at[c] \in Nat
  BY Tree, Tokens DEF DownOK, Rank
<1>4. /\ to \in [Nodes \cup {FrontEnd} -> Nat] /\ to[n] = t
      /\ \A c \in Nodes \cup {FrontEnd} : c # n => to[c] = at[c]
  BY <1>1, <1>3
<1> HIDE DEF to
<1>5. \A q \in Rank : to[q] = Seen(q)'
  BY <1>1, <1>3, <1>4 DEF Seen
<1>6. /\ down'[n] = Tail(down[n])
      /\ \A c \in Nodes : /\ Parent[c] = n => down'[c] = Append(down[c], Head(down[n]))
                          /\ c # n /\ Parent[c] # n => down'[c] = down[c]
  <2> DEFINE d == ToChildren(n, Head(down[n]))
  <2>1. Head(down[n]).tag \in Operation
    <3>1. IsSeq(down[n]) /\ \A i \in DOMAIN down[n] : down[n][i].tag \in Operation
      BY <1>1 DEF Shape, NodeShape
    <3>2. QED
      BY <1>1, <3>1, TailFacts
  <2>2. /\ d = [c \in Nodes |-> d[c]]
        /\ \A c \in Nodes : /\ Parent[c] = n => d[c] = Append(down[c], Head(down[n]))
                            /\ Parent[c] # n => d[c] = down[c]
    BY <2>1, SentDown
  <2>3. down' = [d EXCEPT ![n] = Tail(down[n])]
    BY <1>1
  <2> HIDE DEF d
  <2>4. down'[n] = Tail(down[n]) /\ \A c \in Nodes : c # n => down'[c] = d[c]
    BY <1>1, <2>2, <2>3
  <2>5. \A c \in Nodes : Parent[c] = n => c # n
    BY NotOwnParent
  <2>6. QED
    BY <2>2, <2>4, <2>5
<1>7. result'[FrontEnd] = result[FrontEnd]
  BY <1>1
<1>8. ASSUME NEW c \in Nodes
      PROVE  /\ Holds(result'[FrontEnd], down'[c], Between(to[c], to[Parent[c]]))
             /\ Behind(to[c], to[Parent[c]]) /\ Behind(to[c], to[FrontEnd])
  <2>1. /\ Holds(result[FrontEnd], down[c], Between(at[c], at[Parent[c]])) /\ IsSeq(down[c])
        /\ Behind(at[c], at[Parent[c]]) /\ Behind(at[c], at[FrontEnd])
        /\ Parent[c] \in Nodes \cup {FrontEnd} /\ Parent[c] # c /\ to[FrontEnd] = at[FrontEnd]
    BY <1>1, <1>4, NotOwnParent DEF DownOK, Shape, NodeShape
  <2>2. CASE c = n
    <3>1. to[Parent[c]] = at[Parent[c]]
      BY <1>4, <2>1, <2>2
    <3>2. \A s \in Token : (at[n] < s /\ s # t <=> t < s) /\ (s <= t => s <= at[n] \/ s = t)
      BY <1>1, <1>2, <1>3
    <3>3. Between(at[n], at[Parent[n]]) \ {t} = Between(to[n], to[Parent[n]])
      BY <1>4, <2>2, <3>1, <3>2 DEF Between
    <3>4. Behind(t, at[Parent[n]]) /\ Behind(t, at[FrontEnd])
      BY <1>2, <2>1, <2>2, <3>2 DEF Behind
    <3>5. QED
      BY <1>2, <1>4, <1>6, <1>7, <2>1, <2>2, <3>1, <3>3, <3>4
  <2>3. CASE Parent[c] = n
    <3>1. to[c] = at[c] /\ c # n
      BY <1>4, <2>1, <2>3
    <3>2. at[c] < t
      BY <1>1, <1>2, <1>3, <2>1, <2>3 DEF Behind
    <3>3. \A s \in Token : s <= t <=> s <= at[n] \/ s = t
      BY <1>1, <1>2, <1>3
    <3>4. Between(to[c], to[Parent[c]]) = Between(at[c], at[Parent[c]]) \cup {t}
      BY <1>4, <2>3, <3>1, <3>2, <3>3 DEF Between
    <3>5. \A s \in Between(at[c], at[Parent[c]]) : s < t
      BY <1>1, <1>2, <1>3, <2>3 DEF Between
    <3>6. Holds(result[FrontEnd], Append(down[c], Head(down[n])), Between(at[c], at[Parent[c]]) \cup {t})
      BY <1>2, <1>3, <2>1, <3>5, HoldsMore
    <3>7. Behind(at[c], t)
      BY <1>3, <2>1, <2>3, <3>3 DEF Behind
    <3>8. QED
      BY <1>4, <1>6, <1>7, <2>1, <2>3, <3>1, <3>4, <3>6, <3>7
  <2>4. CASE c # n /\ Parent[c] # n
    BY <1>4, <1>6, <1>7, <2>1, <2>4
  <2>5. QED
    BY <2>2, <2>3, <2>4
<1>9. DownOK(to)'
  BY <1>4, <1>5, <1>8 DEF DownOK
<1>10. QED
  BY <1>9 DEF DownInv

(* The value of a call says whether it has failed.                         *)
Entry(op, val) == [ok |-> (op # "bor" \/ val # NoBytes), val |-> val]

FrontResults ==
  \A k \in 1 .. Len(result[FrontEnd]) :
    /\ Script[k] \in Asking => Answered(k)
    /\ result[FrontEnd][k] = Entry(Script[k], result[FrontEnd][k].val)
    /\ Script[k] = "finalize" => result[FrontEnd][k].val = 0

(* Every back end has the results of the front end.                        *)
SameOK ==
  \A r \in BackEnd :
    /\ Len(result[r]) <= Len(result[FrontEnd])
    /\ \A k \in 1 .. Len(result[r]) : result[r][k] = result[FrontEnd][k]

(* What a back end in a call finds on its link.                            *)
LEMMA CalledHead ==
  ASSUME Shape, NEW at, DownOK(at), NEW r \in BackEnd, pc[r] = "called", down[r] # <<>>,
         NEW k, k = Current(r)
  PROVE  /\ k \in DOMAIN Script /\ k \in Nat /\ AskOf(k) = 2 * k - 1 /\ Seen(r) = 2 * (k - 1)
         /\ AskOf(k) \in Token /\ AskOf(k) <= at[Parent[r]] /\ AskOf(k) <= at[FrontEnd]
         /\ Carries(result[FrontEnd], Head(down[r]), AskOf(k))
         /\ Holds(result[FrontEnd], Tail(down[r]), Between(at[r], at[Parent[r]]) \ {AskOf(k)})
<1>1. r \in Rank /\ r \in Nodes
  BY Tree DEF Rank
<1>2. k \in DOMAIN Script /\ k \in Nat /\ Len(result[r]) \in Nat /\ k = Len(result[r]) + 1
  BY <1>1, CurrentCall, Tree DEF Current
<1>3. Seen(r) = 2 * (k - 1) /\ at[r] = Seen(r)
  BY <1>1, <1>2, SeenIs DEF DownOK
<1>4. PICK t \in Token :
        /\ at[r] < t /\ t <= at[Parent[r]] /\ t <= at[FrontEnd]
        /\ \A s \in Token : at[r] < s => t <= s
        /\ Carries(result[FrontEnd], Head(down[r]), t)
        /\ Holds(result[FrontEnd], Tail(down[r]), Between(at[r], at[Parent[r]]) \ {t})
  BY <1>1, HeadIsNext
<1>5. t = AskOf(k)
  BY <1>2, <1>3, <1>4, AskIsNext
<1>6. QED
  BY <1>2, <1>3, <1>4, <1>5 DEF AskOf

LEMMA WaitingHead ==
  ASSUME Shape, NEW at, DownOK(at), NEW r \in BackEnd, pc[r] = "waiting", Op(r) # "finalize",
         down[r] # <<>>, NEW k, k = Current(r)
  PROVE  /\ k \in DOMAIN Script /\ k \in Nat /\ ResultOf(k) = 2 * k /\ Seen(r) = 2 * (k - 1) + 1
         /\ ResultOf(k) \in Token /\ ResultOf(k) <= at[Parent[r]] /\ ResultOf(k) <= at[FrontEnd]
         /\ Carries(result[FrontEnd], Head(down[r]), ResultOf(k))
         /\ Holds(result[FrontEnd], Tail(down[r]), Between(at[r], at[Parent[r]]) \ {ResultOf(k)})
<1>1. r \in Rank /\ r \in Nodes
  BY Tree DEF Rank
<1>2. /\ k \in DOMAIN Script /\ k \in Nat /\ Len(result[r]) \in Nat /\ k = Len(result[r]) + 1
      /\ Op(r) = Script[k]
  BY <1>1, CurrentCall, Tree DEF Current
<1>3. Seen(r) = 2 * (k - 1) + 1 /\ at[r] = Seen(r)
  <2>1. at[r] = Seen(r)
    BY <1>1 DEF DownOK
  <2>2. PICK n : n = Len(result[r])
    OBVIOUS
  <2>3. Seen(r) = 2 * n + 1
    BY <1>1, <2>2, SeenIs
  <2>4. n = k - 1
    BY <1>2, <2>2
  <2>5. QED
    BY <2>1, <2>3, <2>4
<1>4. PICK t \in Token :
        /\ at[r] < t /\ t <= at[Parent[r]] /\ t <= at[FrontEnd]
        /\ \A s \in Token : at[r] < s => t <= s
        /\ Carries(result[FrontEnd], Head(down[r]), t)
        /\ Holds(result[FrontEnd], Tail(down[r]), Between(at[r], at[Parent[r]]) \ {t})
  BY <1>1, HeadIsNext
<1>5. HasResult(k)
  BY <1>1, <1>2 DEF HasResult, Shape, RankShape, Asking, Session
<1>6. t = ResultOf(k)
  BY <1>2, <1>3, <1>4, <1>5, ResultIsNext
<1>7. QED
  BY <1>2, <1>3, <1>4, <1>6 DEF ResultOf

LEMMA FrontSeen ==
  ASSUME Shape, NEW at, DownOK(at)
  PROVE  /\ Len(result[FrontEnd]) \in Nat
         /\ pc[FrontEnd] = "waiting" => at[FrontEnd] = 2 * Len(result[FrontEnd]) + 1
         /\ pc[FrontEnd] # "waiting" => at[FrontEnd] = 2 * Len(result[FrontEnd])
<1>1. FrontEnd \in Rank /\ Len(result[FrontEnd]) \in Nat
  BY Tree, CurrentCall
<1>2. QED
  BY <1>1, SeenIs DEF DownOK

(* A back end is asked for the call the front end is in.                   *)
LEMMA LosslessAsked == Shape /\ DownInv /\ FrontResults => AskedOK
<1> SUFFICES ASSUME Shape, DownInv, FrontResults, NEW r \in BackEnd, pc[r] = "called",
                    Op(r) \in Asking, down[r] # <<>>
             PROVE  pc[FrontEnd] = "waiting" /\ Current(FrontEnd) = Current(r)
  BY DEF AskedOK
<1>1. PICK at : DownOK(at)
  BY DEF DownInv
<1> DEFINE k == Current(r)
<1>2. k \in DOMAIN Script /\ k \in Nat /\ 2 * k - 1 <= at[FrontEnd]
  BY <1>1, CalledHead
<1>3. r \in Rank /\ Op(r) = Script[k] /\ Len(result[r]) \in Nat /\ k = Len(result[r]) + 1
  BY CurrentCall DEF Rank, Op, Current
<1> HIDE DEF k
<1>4. ~(k <= Len(result[FrontEnd]))
  <2>1. ~Past(r, k)
    BY <1>3 DEF Past
  <2>2. ~Answered(k)
    BY <2>1 DEF Answered
  <2>3. k \in 1 .. Len(result[FrontEnd]) => Answered(k)
    BY <1>3 DEF FrontResults
  <2>4. k \in 1 .. Len(Script) /\ Len(result[FrontEnd]) \in Nat
    BY <1>1, <1>2, Tree, FrontSeen
  <2>5. QED
    BY <2>2, <2>3, <2>4
<1>5. Len(result[FrontEnd]) \in Nat /\ Len(result[FrontEnd]) + 1 <= k
  BY <1>1, <1>2, <1>4, FrontSeen
<1>6. pc[FrontEnd] = "waiting" /\ k = Len(result[FrontEnd]) + 1
  BY <1>1, <1>2, <1>5, FrontSeen
<1>7. QED
  BY <1>6 DEF k, Current

LEMMA AnsweredKept ==
  ASSUME Shape, [Next]_vars
  PROVE  \A k \in Nat : Answered(k) => Answered(k)'
BY PastKept DEF Answered, Rank

LEMMA FrontSame ==
  ASSUME Shape, [Next]_vars, FrontResults, result'[FrontEnd] = result[FrontEnd]
  PROVE  FrontResults'
<1>1. \A k \in 1 .. Len(result[FrontEnd]) : k \in Nat
  BY CurrentCall, Tree
<1>2. QED
  BY <1>1, AnsweredKept DEF FrontResults

(* The front end returns from call k with what is to be told of it.        *)
LEMMA FrontReturns ==
  ASSUME Shape, [Next]_vars, FrontResults, SameOK, pc[FrontEnd] # "idle",
         NEW k, k = Current(FrontEnd), NEW ok, NEW val, Return(FrontEnd, ok, val),
         [ok |-> ok, val |-> val] = Entry(Op(FrontEnd), val),
         Op(FrontEnd) \in Asking => Answered(k),
         Op(FrontEnd) = "finalize" => val = 0
  PROVE  FrontResults' /\ SameOK'
<1>1. FrontEnd \in Rank /\ FrontEnd \notin BackEnd
  BY Tree
<1>2. /\ k = Len(result[FrontEnd]) + 1 /\ Len(result[FrontEnd]) \in Nat /\ k \in Nat
      /\ Op(FrontEnd) = Script[k]
  BY <1>1, CurrentCall DEF Current, Op
<1>3. /\ Len(result'[FrontEnd]) = k /\ result'[FrontEnd][k] = [ok |-> ok, val |-> val]
      /\ \A j \in 1 .. Len(result[FrontEnd]) : result'[FrontEnd][j] = result[FrontEnd][j]
      /\ \A q \in Rank \ {FrontEnd} : pc'[q] = pc[q] /\ result'[q] = result[q]
  <2>1. /\ Len(result'[FrontEnd]) = Len(result[FrontEnd]) + 1
        /\ result'[FrontEnd][Current(FrontEnd)] = [ok |-> ok, val |-> val]
        /\ \A j \in 1 .. Len(result[FrontEnd]) : result'[FrontEnd][j] = result[FrontEnd][j]
        /\ \A q \in Rank \ {FrontEnd} : pc'[q] = pc[q] /\ result'[q] = result[q]
    BY <1>1, ReturnLeaves
  <2>2. QED
    BY <1>2, <2>1
<1>4. FrontResults'
  <2> SUFFICES ASSUME NEW j \in 1 .. k
               PROVE  /\ Script[j] \in Asking => Answered(j)'
                      /\ result'[FrontEnd][j] = Entry(Script[j], result'[FrontEnd][j].val)
                      /\ Script[j] = "finalize" => result'[FrontEnd][j].val = 0
    BY <1>3 DEF FrontResults
  <2>1. CASE j = k
    <3>1. result'[FrontEnd][j].val = val
      BY <1>3, <2>1
    <3>2. Script[j] \in Asking => Answered(j)'
      BY <1>2, <2>1, AnsweredKept
    <3>3. QED
      BY <1>2, <1>3, <2>1, <3>1, <3>2
  <2>2. CASE j \in 1 .. Len(result[FrontEnd])
    BY <1>2, <1>3, <2>2, AnsweredKept DEF FrontResults
  <2>3. QED
    BY <1>2, <2>1, <2>2
<1>5. SameOK'
  <2> SUFFICES ASSUME NEW r \in BackEnd
               PROVE  /\ Len(result'[r]) <= Len(result'[FrontEnd])
                      /\ \A j \in 1 .. Len(result'[r]) : result'[r][j] = result'[FrontEnd][j]
    BY DEF SameOK
  <2>1. r \in Rank \ {FrontEnd}
    BY <1>1 DEF Rank
  <2>2. result'[r] = result[r] /\ Len(result[r]) \in Nat /\ Len(result[r]) <= Len(result[FrontEnd])
    BY <1>3, <2>1, CurrentCall DEF SameOK
  <2>3. /\ Len(result'[FrontEnd]) = Len(result[FrontEnd]) + 1 /\ Len(result[FrontEnd]) \in Nat
        /\ \A j \in 1 .. Len(result[FrontEnd]) : result'[FrontEnd][j] = result[FrontEnd][j]
    BY <1>2, <1>3
  <2>4. Len(result'[r]) <= Len(result'[FrontEnd])
    BY <2>2, <2>3
  <2>5. ASSUME NEW j \in 1 .. Len(result'[r]) PROVE result'[r][j] = result'[FrontEnd][j]
    <3>1. j \in 1 .. Len(result[r]) /\ j \in 1 .. Len(result[FrontEnd])
      BY <2>2, <2>3, <2>5
    <3>2. result[r][j] = result[FrontEnd][j]
      BY <3>1 DEF SameOK
    <3>3. QED
      BY <2>2, <2>3, <3>1, <3>2
  <2>6. QED
    BY <2>4, <2>5
<1>6. QED
  BY <1>4, <1>5

(* A back end returns from call k with the result of the front end.        *)
LEMMA BackReturns ==
  ASSUME Shape, [Next]_vars, FrontResults, SameOK, NEW r \in BackEnd, pc[r] # "idle",
         NEW k, k = Current(r), NEW ok, NEW val, Return(r, ok, val),
         k <= Len(result[FrontEnd]), result[FrontEnd][k] = [ok |-> ok, val |-> val]
  PROVE  FrontResults' /\ SameOK'
<1>1. FrontEnd \in Rank /\ r \in Rank /\ r # FrontEnd
  BY Tree DEF Rank
<1>2. k = Len(result[r]) + 1 /\ Len(result[r]) \in Nat
  BY <1>1, CurrentCall DEF Current
<1>3. /\ Len(result'[r]) = k /\ result'[r][k] = [ok |-> ok, val |-> val]
      /\ \A j \in 1 .. Len(result[r]) : result'[r][j] = result[r][j]
      /\ \A q \in Rank \ {r} : pc'[q] = pc[q] /\ result'[q] = result[q]
  BY <1>1, <1>2, ReturnLeaves
<1>4. FrontResults'
  BY <1>1, <1>3, FrontSame
<1>5. \A j \in 1 .. k : j = k \/ j \in 1 .. Len(result[r])
  BY <1>2
<1>6. \A j \in 1 .. k : result'[r][j] = result'[FrontEnd][j]
  BY <1>1, <1>3, <1>5 DEF SameOK
<1>7. \A q \in BackEnd : q # r => q \in Rank \ {r}
  BY DEF Rank
<1>8. SameOK'
  <2> SUFFICES ASSUME NEW q \in BackEnd
               PROVE  /\ Len(result'[q]) <= Len(result'[FrontEnd])
                      /\ \A j \in 1 .. Len(result'[q]) : result'[q][j] = result'[FrontEnd][j]
    BY DEF SameOK
  <2>1. result'[FrontEnd] = result[FrontEnd]
    BY <1>1, <1>3
  <2>2. CASE q = r
    BY <1>3, <1>6, <2>1, <2>2
  <2>3. CASE q # r
    BY <1>3, <1>7, <2>1, <2>3 DEF SameOK
  <2>4. QED
    BY <2>2, <2>3
<1>9. QED
  BY <1>4, <1>8

LEMMA BackSame ==
  ASSUME Shape, [Next]_vars, FrontResults, SameOK, UNCHANGED result
  PROVE  FrontResults' /\ SameOK'
BY FrontSame DEF SameOK

(* A wave that the front end takes has the tag of its call.                *)
LEMMA WaveOfCall ==
  ASSUME Shape, UpInv, Op(FrontEnd) \in Reduction, NEW wave \in Waves(FrontEnd), WaveReady(FrontEnd)
  PROVE  wave[1].tag = Op(FrontEnd)
<1>1. PICK G : UpOK(G)
  BY DEF UpInv
<1>2. PICK c \in Children(FrontEnd) : wave[1] = Head(up[c])
  BY WaveHeads
<1>3. c \in Nodes /\ up[c] # <<>>
  BY <1>2 DEF Children, Nodes, WaveReady
<1>4. Head(up[c]).tag = AnswerTag(Op(FrontEnd))
  BY <1>1, <1>3 DEF UpOK
<1>5. QED
  BY <1>2, <1>4 DEF AnswerTag, Reduction, MapOp, IntOp

(* What the front end returns from a reduction, and what it sends.         *)
LEMMA ReduceReturns ==
  ASSUME Shape, UpInv, FrontEndReduce
  PROVE  \E ok, val : /\ Return(FrontEnd, ok, val)
                      /\ [ok |-> ok, val |-> val] = Entry(Op(FrontEnd), val)
                      /\ down' = ToChildren(FrontEnd, Packet(Op(FrontEnd), FALSE, val))
<1> DEFINE op == Op(FrontEnd)
<1>1. pc[FrontEnd] = "waiting" /\ op \in Reduction /\ WaveReady(FrontEnd)
  BY DEF FrontEndReduce
<1>2. PICK wave \in Waves(FrontEnd) :
        \/ /\ wave[1].tag # op
           /\ Fail(FrontEnd) /\ UNCHANGED down
        \/ /\ wave[1].tag = op /\ Current(FrontEnd) \notin NoMemory
           /\ down' = ToChildren(FrontEnd, Packet(op, FALSE, Final(op, Merged(wave).val)))
           /\ Return(FrontEnd, TRUE, Final(op, Merged(wave).val))
        \/ /\ wave[1].tag = op /\ Current(FrontEnd) \in NoMemory
           /\ down' = ToChildren(FrontEnd, Packet(op, FALSE, NoBytes))
           /\ Fail(FrontEnd)
  BY DEF FrontEndReduce
<1>3. wave[1].tag = op
  BY <1>1, WaveOfCall
<1>4. CASE Current(FrontEnd) \notin NoMemory
  <2> DEFINE val == Final(op, Merged(wave).val)
  <2>1. op = "bor" => val # NoBytes
    <3>1. op = "bor" => val = {item[FrontEnd]} \cup Merged(wave).val
      BY DEF Final, Combine, Operand, IntOp, MapOp
    <3>2. QED
      BY <3>1 DEF NoBytes
  <2>2. [ok |-> TRUE, val |-> val] = Entry(op, val)
    BY <2>1 DEF Entry
  <2>3. QED
    BY <1>2, <1>3, <1>4, <2>2
<1>5. CASE Current(FrontEnd) \in NoMemory
  <2>1. op = "bor"
    BY <1>5, TreeAssumption DEF Op
  <2>2. [ok |-> FALSE, val |-> NoBytes] = Entry(op, NoBytes)
    BY <2>1 DEF Entry
  <2>3. QED
    BY <1>2, <1>3, <1>5, <2>2 DEF Fail
<1>6. QED
  BY <1>4, <1>5

(* The tokens of a call, each of its own number.                           *)
LEMMA TokenOnce ==
  ASSUME NEW j \in DOMAIN Script, NEW k \in DOMAIN Script
  PROVE  /\ AskOf(k) = AskOf(j) => j = k
         /\ ResultOf(k) = ResultOf(j) => j = k
         /\ AskOf(k) # ResultOf(j)
<1>1. j \in Nat /\ k \in Nat
  BY Tokens
<1>2. QED
  BY <1>1 DEF AskOf, ResultOf

LEMMA TokensOfCall ==
  ASSUME NEW k \in DOMAIN Script, NEW s \in Token, 2 * (k - 1) < s, s <= 2 * k
  PROVE  s = AskOf(k) \/ (s = ResultOf(k) /\ HasResult(k))
<1>1. k \in Nat /\ s \in Nat /\ AskOf(k) = 2 * k - 1 /\ ResultOf(k) = 2 * k
  BY Tokens
<1>2. s = 2 * k - 1 \/ s = 2 * k
  BY <1>1
<1>3. QED
  BY <1>1, <1>2, Tokens

(* Steps of the front end.                                                 *)
LEMMA LosslessFrontEnd ==
  ASSUME NothingFails, Shape, UpInv, DownInv, FrontResults, SameOK, Step(FrontEnd)
  PROVE  DownInv' /\ FrontResults' /\ SameOK'
<1>1. PICK at : DownOK(at)
  BY DEF DownInv
<1>2. FrontEnd \in Rank /\ FrontEnd \notin BackEnd /\ Shape' /\ [Next]_vars
  BY Tree, ShapeStep DEF Next
<1>3. PICK k \in Nat : k = Current(FrontEnd)
  BY <1>2, CurrentCall
<1>4. PICK op : op = Op(FrontEnd)
  OBVIOUS
<1>5. /\ Len(result[FrontEnd]) = k - 1 /\ Len(result[FrontEnd]) \in Nat
      /\ pc[FrontEnd] # "idle" => k \in DOMAIN Script /\ op = Script[k] /\ op \in Operation
  BY <1>2, <1>3, <1>4, CurrentCall, Tree DEF Current
<1>6. /\ at[FrontEnd] = Seen(FrontEnd)
      /\ pc[FrontEnd] = "waiting" => Seen(FrontEnd) = 2 * (k - 1) + 1
      /\ pc[FrontEnd] # "waiting" => Seen(FrontEnd) = 2 * (k - 1)
  BY <1>1, <1>2, <1>5, SeenIs DEF DownOK
<1>7. \A q \in Rank \ {FrontEnd} : pc'[q] = pc[q] /\ result'[q] = result[q]
  BY <1>2, StepMoves DEF Moves
<1>8. \A q \in Rank \ {FrontEnd} : Seen(q)' = Seen(q)
  BY <1>7 DEF Seen
<1>9. \A r \in BackEnd : Seen(r)' = Seen(r)
  BY <1>2, <1>8 DEF Rank
<1>10. /\ Token \subseteq Nat
       /\ k \in DOMAIN Script => AskOf(k) \in Token /\ AskOf(k) = 2 * k - 1 /\ ResultOf(k) = 2 * k
                                 /\ (HasResult(k) <=> ResultOf(k) \in Token)
  BY Tokens
<1>11. ASSUME NEW ok, NEW val, Return(FrontEnd, ok, val), pc[FrontEnd] # "idle"
       PROVE  /\ Seen(FrontEnd)' = 2 * k /\ Len(result'[FrontEnd]) = k
              /\ result'[FrontEnd][k].val = val
  <2>1. pc'[FrontEnd] = "idle" /\ Len(result'[FrontEnd]) = k /\ result'[FrontEnd][k].val = val
    <3>1. /\ pc'[FrontEnd] = "idle" /\ Len(result'[FrontEnd]) = Len(result[FrontEnd]) + 1
          /\ result'[FrontEnd][Current(FrontEnd)] = [ok |-> ok, val |-> val]
      BY <1>2, <1>11, ReturnLeaves
    <3>2. QED
      BY <1>3, <1>5, <3>1
  <2>2. Seen(FrontEnd)' = 2 * k + 0
    BY <2>1 DEF Seen
  <2>3. QED
    BY <2>1, <2>2
<1>12. CASE Call(FrontEnd)
  <2>1. UNCHANGED <<result, down>> /\ pc[FrontEnd] # "waiting" /\ pc'[FrontEnd] # "waiting"
    BY <1>2, <1>12 DEF Call, links, Shape
  <2>2. Seen(FrontEnd)' = Seen(FrontEnd) /\ Seen(FrontEnd) \in Nat
    BY <1>2, <2>1, SeenIs DEF Seen
  <2>3. PICK hi \in Nat : hi = Seen(FrontEnd)' /\ hi = Seen(FrontEnd)
    BY <2>2
  <2>4. Seen(FrontEnd) <= hi /\ \A s \in Token : ~(Seen(FrontEnd) < s /\ s <= hi)
    <3>1. Seen(FrontEnd) = hi /\ \A s \in Token : s \in Nat
      BY <1>10, <2>3
    <3>2. QED
      BY <3>1
  <2>5. DownInv'
    BY <1>1, <1>2, <1>8, <2>1, <2>3, <2>4, DownPass
  <2>6. QED
    BY <1>2, <2>1, <2>5, BackSame
<1>13. ASSUME CallFails(FrontEnd) PROVE FALSE
  BY <1>13 DEF CallFails, NothingFails
<1>14. CASE FrontEndBroadcast
  <2>1. pc[FrontEnd] = "called" /\ op \in Broadcast
    BY <1>4, <1>14 DEF FrontEndBroadcast
  <2>2. PICK val : /\ down' = ToChildren(FrontEnd, Packet(op, FALSE, val))
                   /\ Return(FrontEnd, TRUE, val)
    BY <1>4, <1>14 DEF FrontEndBroadcast
  <2>3. PICK p : p = Packet(op, FALSE, val)
    OBVIOUS
  <2>4. /\ p.tag = op /\ p.val = val /\ op = AskTag(op) /\ op \notin Asking /\ ~HasResult(k)
        /\ op # "bor" /\ op # "finalize"
    BY <1>5, <2>1, <2>3 DEF Packet, AskTag, Broadcast, Asking, Reduction, Session, MapOp, IntOp, HasResult
  <2>5. Seen(FrontEnd)' = 2 * k /\ Len(result'[FrontEnd]) = k /\ result'[FrontEnd][k].val = val
    BY <1>11, <2>1, <2>2
  <2>6. Carries(result'[FrontEnd], p, AskOf(k))
    <3>1. Has(result'[FrontEnd], k, p.val)
      BY <1>3, <2>4, <2>5 DEF Has
    <3>2. \A j \in DOMAIN Script : (AskOf(k) = AskOf(j) => j = k) /\ AskOf(k) # ResultOf(j)
      BY <1>5, <2>1, TokenOnce
    <3>3. QED
      BY <1>5, <2>1, <2>4, <3>1, <3>2 DEF Carries
  <2>7. k \in DOMAIN Script /\ at[FrontEnd] = 2 * (k - 1) /\ AskOf(k) \in Token /\ AskOf(k) = 2 * k - 1
    BY <1>5, <1>6, <1>10, <2>1
  <2>8. /\ p.tag \in Operation /\ down' = ToChildren(FrontEnd, p) /\ 2 * k \in Nat
        /\ at[FrontEnd] < AskOf(k) /\ AskOf(k) <= 2 * k
        /\ \A s \in Token : at[FrontEnd] < s /\ s <= 2 * k => s = AskOf(k)
    <3>1. p.tag \in Operation /\ down' = ToChildren(FrontEnd, p)
      BY <1>5, <2>1, <2>2, <2>3, <2>4
    <3>2. \A s \in Token : at[FrontEnd] < s /\ s <= 2 * k => s = AskOf(k)
      BY <2>4, <2>7, TokensOfCall
    <3>3. QED
      BY <2>7, <3>1, <3>2
  <2>9. DownInv'
    BY <1>1, <1>2, <1>9, <2>5, <2>6, <2>7, <2>8, DownSend
  <2>10. [ok |-> TRUE, val |-> val] = Entry(op, val)
    BY <2>4 DEF Entry
  <2>11. QED
    BY <1>2, <1>3, <1>4, <2>1, <2>2, <2>4, <2>9, <2>10, FrontReturns
<1>15. CASE FrontEndStart
  <2>1. /\ pc[FrontEnd] = "called" /\ op \in Asking /\ pc'[FrontEnd] = "waiting" /\ UNCHANGED result
        /\ down' = ToChildren(FrontEnd, Packet(AskTag(op), TRUE, NotFilled))
    BY <1>2, <1>4, <1>15 DEF FrontEndStart, Asking, Shape
  <2>2. PICK p : p = Packet(AskTag(op), TRUE, NotFilled)
    OBVIOUS
  <2>3. p.tag = AskTag(op) /\ p.start = TRUE /\ op \notin Broadcast
    BY <2>1, <2>2 DEF Packet, Broadcast, Asking, Reduction, Session, MapOp, IntOp
  <2>4. Seen(FrontEnd)' = 2 * k - 1
    <3>1. Seen(FrontEnd)' = 2 * (k - 1) + 1
      BY <1>2, <1>5, <2>1 DEF Seen
    <3>2. QED
      BY <1>3, <3>1
  <2>5. Carries(result'[FrontEnd], p, AskOf(k))
    <3>1. \A j \in DOMAIN Script : (AskOf(k) = AskOf(j) => j = k) /\ AskOf(k) # ResultOf(j)
      BY <1>5, <2>1, TokenOnce
    <3>2. QED
      BY <1>5, <2>1, <2>3, <3>1 DEF Carries
  <2>6. /\ p.tag \in Operation /\ down' = ToChildren(FrontEnd, p) /\ 2 * k - 1 \in Nat
        /\ AskOf(k) \in Token /\ at[FrontEnd] < AskOf(k) /\ AskOf(k) <= 2 * k - 1
        /\ \A s \in Token : at[FrontEnd] < s /\ s <= 2 * k - 1 => s = AskOf(k)
    <3>1. k \in DOMAIN Script /\ AskTag(op) \in Operation
      BY <1>5, <2>1, Tags
    <3>2. at[FrontEnd] = 2 * (k - 1) /\ AskOf(k) \in Token /\ AskOf(k) = 2 * k - 1 /\ ResultOf(k) = 2 * k
      BY <1>6, <1>10, <2>1, <3>1
    <3>3. k > 0 /\ Token \subseteq Nat
      BY <1>5, <1>10
    <3>4. \A s \in Token : at[FrontEnd] < s /\ s <= 2 * k - 1 => s = AskOf(k)
      BY <3>2, <3>3
    <3>5. p.tag \in Operation /\ down' = ToChildren(FrontEnd, p)
      BY <2>1, <2>2, <2>3, <3>1
    <3>6. 2 * k - 1 \in Nat /\ at[FrontEnd] < AskOf(k) /\ AskOf(k) <= 2 * k - 1
      BY <3>2, <3>3
    <3>7. QED
      BY <3>2, <3>4, <3>5, <3>6
  <2>7. DownInv'
    BY <1>1, <1>2, <1>9, <2>4, <2>5, <2>6, DownSend
  <2>8. QED
    BY <1>2, <2>1, <2>7, BackSame
<1>16. ASSUME WaveReady(FrontEnd), pc[FrontEnd] = "waiting", op \in Reduction \cup {"debug"},
              NEW ok, NEW val, Return(FrontEnd, ok, val), NEW p,
              [ok |-> ok, val |-> val] = Entry(op, val), p = Packet(op, FALSE, val),
              down' = ToChildren(FrontEnd, p)
       PROVE  DownInv' /\ FrontResults' /\ SameOK'
  <2>1. /\ p.tag = op /\ p.val = val /\ p.start = FALSE /\ op # "finalize" /\ HasResult(k)
    BY <1>5, <1>16 DEF Packet, Reduction, MapOp, IntOp, HasResult
  <2>2. Seen(FrontEnd)' = 2 * k /\ Len(result'[FrontEnd]) = k /\ result'[FrontEnd][k].val = val
    BY <1>11, <1>16
  <2>3. Carries(result'[FrontEnd], p, ResultOf(k))
    <3>1. Has(result'[FrontEnd], k, p.val)
      BY <1>3, <2>1, <2>2 DEF Has
    <3>2. \A j \in DOMAIN Script : (ResultOf(k) = ResultOf(j) => j = k) /\ ResultOf(k) # AskOf(j)
      BY <1>5, <1>16, TokenOnce
    <3>3. QED
      BY <1>5, <1>16, <2>1, <3>1, <3>2 DEF Carries
  <2>4. /\ p.tag \in Operation /\ 2 * k \in Nat
        /\ ResultOf(k) \in Token /\ at[FrontEnd] < ResultOf(k) /\ ResultOf(k) <= 2 * k
        /\ \A s \in Token : at[FrontEnd] < s /\ s <= 2 * k => s = ResultOf(k)
    <3>1. k \in DOMAIN Script /\ at[FrontEnd] = 2 * (k - 1) + 1
      BY <1>5, <1>6, <1>16
    <3>2. ResultOf(k) \in Token /\ ResultOf(k) = 2 * k
      BY <1>10, <2>1, <3>1
    <3>3. \A s \in Token : at[FrontEnd] < s /\ s <= 2 * k => s = ResultOf(k)
      BY <1>10, <3>1, <3>2
    <3>4. p.tag \in Operation
      BY <1>5, <1>16, <2>1
    <3>5. QED
      BY <3>1, <3>2, <3>3, <3>4
  <2>5. DownInv'
    BY <1>1, <1>2, <1>9, <1>16, <2>2, <2>3, <2>4, DownSend
  <2>6. Answered(k)
    BY <1>3, <1>16, Gathered DEF UpInv, Answered
  <2>7. QED
    BY <1>2, <1>3, <1>4, <1>16, <2>1, <2>5, <2>6, FrontReturns
<1>17. CASE FrontEndReduce
  <2>1. WaveReady(FrontEnd) /\ pc[FrontEnd] = "waiting" /\ op \in Reduction
    BY <1>4, <1>17 DEF FrontEndReduce
  <2>2. PICK ok, val : /\ Return(FrontEnd, ok, val)
                       /\ [ok |-> ok, val |-> val] = Entry(op, val)
                       /\ down' = ToChildren(FrontEnd, Packet(op, FALSE, val))
    BY <1>4, <1>17, ReduceReturns
  <2>3. QED
    BY <1>16, <2>1, <2>2
<1>18. CASE FrontEndSpawned
  <2>1. /\ WaveReady(FrontEnd) /\ pc[FrontEnd] = "waiting" /\ op = "debug"
        /\ Return(FrontEnd, TRUE, 0) /\ down' = ToChildren(FrontEnd, Packet(op, FALSE, 0))
    BY <1>4, <1>18 DEF FrontEndSpawned
  <2>2. [ok |-> TRUE, val |-> 0] = Entry(op, 0)
    BY <2>1 DEF Entry
  <2>3. QED
    BY <1>16, <2>1, <2>2
<1>19. CASE FrontEndFinalize
  <2>1. /\ WaveReady(FrontEnd) /\ pc[FrontEnd] = "waiting" /\ op = "finalize"
        /\ Return(FrontEnd, TRUE, 0) /\ UNCHANGED down
    BY <1>4, <1>19 DEF FrontEndFinalize
  <2>2. Seen(FrontEnd)' = 2 * k /\ k \in DOMAIN Script /\ Seen(FrontEnd) = 2 * (k - 1) + 1
    BY <1>5, <1>6, <1>11, <2>1
  <2>3. ~HasResult(k)
    BY <1>5, <2>1 DEF HasResult, Reduction, MapOp, IntOp
  <2>4. /\ 2 * k \in Nat /\ Seen(FrontEnd) <= 2 * k
        /\ \A s \in Token : ~(Seen(FrontEnd) < s /\ s <= 2 * k)
    BY <1>3, <1>10, <2>2, <2>3
  <2>5. DownInv'
    BY <1>1, <1>2, <1>8, <2>1, <2>2, <2>4, DownPass
  <2>6. Answered(k) /\ [ok |-> TRUE, val |-> 0] = Entry(op, 0)
    BY <1>3, <2>1, Gathered DEF UpInv, Answered, Entry
  <2>7. QED
    BY <1>2, <1>3, <1>4, <2>1, <2>5, <2>6, FrontReturns
<1>20. QED
  BY <1>2, <1>12, <1>13, <1>14, <1>15, <1>17, <1>18, <1>19 DEF Step


(* Steps of the back ends.                                                 *)
LEMMA LosslessBackEnd ==
  ASSUME NothingFails, Shape, DownInv, FrontResults, SameOK, NEW r \in BackEnd, Step(r)
  PROVE  DownInv' /\ FrontResults' /\ SameOK'
<1>1. PICK at : DownOK(at)
  BY DEF DownInv
<1>2. r \in Rank /\ r # FrontEnd /\ Shape' /\ [Next]_vars
  BY Tree, ShapeStep DEF Next, Rank
<1>3. PICK k \in Nat : k = Current(r)
  BY <1>2, CurrentCall
<1>4. PICK op : op = Op(r)
  OBVIOUS
<1>5. /\ Len(result[r]) = k - 1 /\ Len(result[r]) \in Nat
      /\ pc[r] # "idle" => k \in DOMAIN Script /\ op = Script[k] /\ op \in Operation
  BY <1>2, <1>3, <1>4, CurrentCall, Tree DEF Current
<1>6. /\ pc[r] = "waiting" => Seen(r) = 2 * (k - 1) + 1
      /\ pc[r] # "waiting" => Seen(r) = 2 * (k - 1)
  BY <1>2, <1>5, SeenIs
<1>7. \A q \in Rank \ {r} : pc'[q] = pc[q] /\ result'[q] = result[q]
  BY <1>2, StepMoves DEF Moves
<1>8. \A q \in Rank \ {r} : Seen(q)' = Seen(q)
  BY <1>7 DEF Seen
<1>9. FrontEnd \in Rank /\ Len(result[FrontEnd]) \in Nat
  BY Tree, CurrentCall
<1>10. ASSUME NEW ok, NEW val, Return(r, ok, val), pc[r] # "idle"
       PROVE  Seen(r)' = 2 * k
  <2>1. pc'[r] = "idle" /\ Len(result'[r]) = k
    <3>1. pc'[r] = "idle" /\ Len(result'[r]) = Len(result[r]) + 1
      BY <1>2, <1>10, ReturnLeaves
    <3>2. QED
      BY <1>3, <1>5, <3>1
  <2>2. Seen(r)' = 2 * k + 0
    BY <2>1 DEF Seen
  <2>3. QED
    BY <2>1, <2>2
<1>11. CASE Call(r)
  <2>1. UNCHANGED <<result, down>> /\ pc[r] # "waiting" /\ pc'[r] # "waiting"
    BY <1>2, <1>11 DEF Call, links, Shape
  <2>2. Seen(r)' = Seen(r) /\ Seen(r) \in Nat
    BY <1>2, <2>1, SeenIs DEF Seen
  <2>3. PICK hi \in Nat : hi = Seen(r)' /\ hi = Seen(r)
    BY <2>2
  <2>4. Seen(r) <= hi /\ \A s \in Token : ~(Seen(r) < s /\ s <= hi)
    <3>1. Seen(r) = hi /\ \A s \in Token : s \in Nat
      BY <2>3, Tokens
    <3>2. QED
      BY <3>1
  <2>5. DownInv'
    BY <1>1, <1>2, <1>8, <2>1, <2>3, <2>4, DownPass
  <2>6. QED
    BY <1>2, <2>1, <2>5, BackSame
<1>12. ASSUME CallFails(r) PROVE FALSE
  BY <1>12 DEF CallFails, NothingFails
(* The packet that is taken is token t, up to which and no further r goes. *)
<1>13. ASSUME down[r] # <<>>, down' = [down EXCEPT ![r] = Tail(@)],
              NEW t \in Token, NEW hi \in Nat, hi = Seen(r)', Seen(r) < t, t <= hi,
              t <= at[Parent[r]], t <= at[FrontEnd],
              Holds(result[FrontEnd], Tail(down[r]), Between(at[r], at[Parent[r]]) \ {t}),
              \A s \in Token : Seen(r) < s /\ s <= hi => s = t
       PROVE  DownInv'
  BY <1>1, <1>2, <1>8, <1>13, DownTake
<1>14. CASE BackEndBroadcast(r)
  <2>1. /\ pc[r] = "called" /\ op \in Broadcast /\ down[r] # <<>>
        /\ down' = [down EXCEPT ![r] = Tail(@)]
        /\ IF Head(down[r]).tag = op THEN Return(r, TRUE, Head(down[r]).val) ELSE Fail(r)
    BY <1>4, <1>14 DEF BackEndBroadcast
  <2>2. /\ k \in DOMAIN Script /\ AskOf(k) = 2 * k - 1 /\ Seen(r) = 2 * (k - 1)
        /\ AskOf(k) \in Token /\ AskOf(k) <= at[Parent[r]] /\ AskOf(k) <= at[FrontEnd]
        /\ Carries(result[FrontEnd], Head(down[r]), AskOf(k))
        /\ Holds(result[FrontEnd], Tail(down[r]), Between(at[r], at[Parent[r]]) \ {AskOf(k)})
    BY <1>1, <1>3, <2>1, CalledHead
  <2>3. op = AskTag(op) /\ ~HasResult(k) /\ op # "bor"
    BY <1>5, <2>1, <2>2 DEF AskTag, HasResult, Broadcast, Reduction, MapOp, IntOp
  <2>4. Head(down[r]).tag = op /\ Has(result[FrontEnd], k, Head(down[r]).val)
    BY <1>5, <2>1, <2>2, <2>3 DEF Carries
  <2>5. Return(r, TRUE, Head(down[r]).val)
    BY <2>1, <2>4
  <2>6. Seen(r)' = 2 * k
    BY <1>10, <2>1, <2>5
  <2>7. \A s \in Token : Seen(r) < s /\ s <= 2 * k => s = AskOf(k)
    BY <2>2, <2>3, TokensOfCall
  <2>8. 2 * k \in Nat /\ Seen(r) < AskOf(k) /\ AskOf(k) <= 2 * k
    BY <2>2
  <2>9. DownInv'
    BY <1>13, <2>1, <2>2, <2>6, <2>7, <2>8
  <2>10. /\ k <= Len(result[FrontEnd])
         /\ result[FrontEnd][k] = [ok |-> TRUE, val |-> Head(down[r]).val]
    <3>1. k \in 1 .. Len(result[FrontEnd]) /\ result[FrontEnd][k].val = Head(down[r]).val
      BY <1>5, <1>9, <2>1, <2>4 DEF Has
    <3>2. result[FrontEnd][k] = Entry(op, Head(down[r]).val)
      BY <1>5, <2>1, <3>1 DEF FrontResults
    <3>3. result[FrontEnd][k] = [ok |-> TRUE, val |-> Head(down[r]).val]
      BY <2>3, <3>2 DEF Entry
    <3>4. QED
      BY <1>9, <3>1, <3>3
  <2>11. QED
    BY <1>2, <1>3, <2>1, <2>5, <2>9, <2>10, BackReturns
<1>15. CASE BackEndOperand(r)
  <2>1. /\ pc[r] = "called" /\ op \in Asking /\ down[r] # <<>>
        /\ down' = [down EXCEPT ![r] = Tail(@)]
        /\ IF Head(down[r]).tag = AskTag(op) /\ (op \in Reduction => FourBytes(Head(down[r])))
           THEN pc' = [pc EXCEPT ![r] = "waiting"] /\ UNCHANGED result
           ELSE Fail(r)
    BY <1>4, <1>15 DEF BackEndOperand, Asking
  <2>2. /\ k \in DOMAIN Script /\ AskOf(k) = 2 * k - 1 /\ Seen(r) = 2 * (k - 1)
        /\ AskOf(k) \in Token /\ AskOf(k) <= at[Parent[r]] /\ AskOf(k) <= at[FrontEnd]
        /\ Carries(result[FrontEnd], Head(down[r]), AskOf(k))
        /\ Holds(result[FrontEnd], Tail(down[r]), Between(at[r], at[Parent[r]]) \ {AskOf(k)})
    BY <1>1, <1>3, <2>1, CalledHead
  <2>3. Head(down[r]).tag = AskTag(op) /\ FourBytes(Head(down[r]))
    BY <1>5, <2>1, <2>2 DEF Carries, FourBytes
  <2>4. pc' = [pc EXCEPT ![r] = "waiting"] /\ UNCHANGED result
    BY <2>1, <2>3
  <2>5. pc'[r] = "waiting" /\ k > 0
    BY <1>2, <1>5, <2>4 DEF Shape
  <2>6. Seen(r)' = 2 * (k - 1) + 1
    BY <1>5, <2>4, <2>5 DEF Seen
  <2>7. \A s \in Token : Seen(r) < s /\ s <= 2 * k - 1 => s = AskOf(k)
    BY <2>2, Tokens
  <2>8. /\ 2 * k - 1 \in Nat /\ Seen(r) < AskOf(k) /\ AskOf(k) <= 2 * k - 1
        /\ Seen(r)' = 2 * k - 1
    BY <2>2, <2>5, <2>6
  <2>9. DownInv'
    BY <1>13, <2>1, <2>2, <2>7, <2>8
  <2>10. QED
    BY <1>2, <2>4, <2>9, BackSame
<1>16. CASE BackEndResult(r)
  <2>1. /\ pc[r] = "waiting" /\ op # "finalize" /\ down[r] # <<>>
        /\ down' = [down EXCEPT ![r] = Tail(@)]
        /\ IF /\ Head(down[r]).tag = op
              /\ op = "bor" => FilterLength(Head(down[r])) = FilterBytes
           THEN Return(r, TRUE, Head(down[r]).val)
           ELSE Fail(r)
    BY <1>4, <1>16 DEF BackEndResult
  <2>2. /\ k \in DOMAIN Script /\ ResultOf(k) = 2 * k /\ Seen(r) = 2 * (k - 1) + 1
        /\ ResultOf(k) \in Token /\ ResultOf(k) <= at[Parent[r]] /\ ResultOf(k) <= at[FrontEnd]
        /\ Carries(result[FrontEnd], Head(down[r]), ResultOf(k))
        /\ Holds(result[FrontEnd], Tail(down[r]), Between(at[r], at[Parent[r]]) \ {ResultOf(k)})
    BY <1>1, <1>3, <1>4, <2>1, WaitingHead
  <2>3. /\ Head(down[r]).tag = op /\ Head(down[r]).start = FALSE
        /\ Has(result[FrontEnd], k, Head(down[r]).val)
    BY <1>5, <2>1, <2>2 DEF Carries
  <2>4. PICK val : val = Head(down[r]).val
    OBVIOUS
  <2>5. /\ k <= Len(result[FrontEnd]) /\ result[FrontEnd][k] = Entry(op, val)
    <3>1. k \in 1 .. Len(result[FrontEnd]) /\ result[FrontEnd][k].val = val
      BY <1>5, <1>9, <2>1, <2>3, <2>4 DEF Has
    <3>2. QED
      BY <1>5, <1>9, <2>1, <3>1 DEF FrontResults
  <2>6. PICK ok : Return(r, ok, val) /\ [ok |-> ok, val |-> val] = Entry(op, val)
    <3>1. CASE op = "bor" /\ val = NoBytes
      <4>1. FilterLength(Head(down[r])) # FilterBytes
        BY <2>3, <2>4, <3>1, TreeAssumption DEF FilterLength
      <4>2. QED
        BY <2>1, <2>4, <3>1, <4>1 DEF Fail, Entry
    <3>2. CASE ~(op = "bor" /\ val = NoBytes)
      <4>1. op = "bor" => FilterLength(Head(down[r])) = FilterBytes
        BY <2>3, <2>4, <3>2 DEF FilterLength
      <4>2. QED
        BY <2>1, <2>3, <2>4, <3>2, <4>1 DEF Entry
    <3>3. QED
      BY <3>1, <3>2
  <2>7. Seen(r)' = 2 * k
    BY <1>10, <2>1, <2>6
  <2>8. /\ 2 * k \in Nat /\ Seen(r) < ResultOf(k) /\ ResultOf(k) <= 2 * k
        /\ \A s \in Token : Seen(r) < s /\ s <= 2 * k => s = ResultOf(k)
    BY <2>2, Tokens
  <2>9. DownInv'
    BY <1>13, <2>1, <2>2, <2>7, <2>8
  <2>10. QED
    BY <1>2, <1>3, <2>1, <2>5, <2>6, <2>9, BackReturns
<1>17. CASE BackEndShutDown(r)
  <2>1. /\ pc[r] = "waiting" /\ op = "finalize" /\ k <= Len(result[FrontEnd])
        /\ Return(r, TRUE, 0) /\ UNCHANGED down
    BY <1>3, <1>4, <1>9, <1>17 DEF BackEndShutDown, links
  <2>2. Seen(r)' = 2 * k /\ k \in DOMAIN Script /\ Seen(r) = 2 * (k - 1) + 1
    BY <1>5, <1>6, <1>10, <2>1
  <2>3. ~HasResult(k)
    BY <1>5, <2>1 DEF HasResult, Reduction, MapOp, IntOp
  <2>4. ResultOf(k) = 2 * k /\ ResultOf(k) \notin Token /\ Token \subseteq Nat
    BY <2>2, <2>3, Tokens
  <2>5. /\ 2 * k \in Nat /\ Seen(r) <= 2 * k
        /\ \A s \in Token : ~(Seen(r) < s /\ s <= 2 * k)
    BY <2>2, <2>4
  <2>6. DownInv'
    BY <1>1, <1>2, <1>8, <2>1, <2>2, <2>5, DownPass
  <2>7. result[FrontEnd][k] = [ok |-> TRUE, val |-> 0]
    <3>1. k \in 1 .. Len(result[FrontEnd])
      BY <1>5, <1>9, <2>1
    <3>2. result[FrontEnd][k].val = 0 /\ result[FrontEnd][k] = Entry("finalize", result[FrontEnd][k].val)
      BY <1>5, <2>1, <3>1 DEF FrontResults
    <3>3. QED
      BY <3>2 DEF Entry
  <2>8. QED
    BY <1>2, <1>3, <2>1, <2>6, <2>7, BackReturns
<1>18. QED
  BY <1>2, <1>11, <1>12, <1>14, <1>15, <1>16, <1>17 DEF Step

(* The steps of the communication nodes, and of none.                      *)
LEMMA LosslessForward ==
  ASSUME Shape, DownInv, FrontResults, SameOK, NEW n \in CommNode, Forward(n)
  PROVE  DownInv' /\ FrontResults' /\ SameOK'
<1>1. PICK at : DownOK(at)
  BY DEF DownInv
<1>2. [Next]_vars
  BY DEF Next
<1>3. UNCHANGED result
  BY DEF Forward, FilterDown, FilterUp
<1>4. FrontResults' /\ SameOK'
  BY <1>2, <1>3, BackSame
<1>5. CASE FilterDown(n)
  BY <1>1, <1>2, <1>4, <1>5, DownForward
<1>6. CASE FilterUp(n)
  <2>1. UNCHANGED <<pc, down, result>>
    BY <1>6 DEF FilterUp
  <2>2. DownOK(at)'
    BY <1>1, <2>1 DEF DownOK, Seen
  <2>3. QED
    BY <1>4, <2>2 DEF DownInv
<1>7. QED
  BY <1>5, <1>6 DEF Forward

LEMMA LosslessStutter ==
  ASSUME Shape, DownInv, FrontResults, SameOK, UNCHANGED vars
  PROVE  DownInv' /\ FrontResults' /\ SameOK'
<1>1. UNCHANGED <<pc, down, result>> /\ [Next]_vars
  BY DEF vars, links
<1>2. PICK at : DownOK(at)
  BY DEF DownInv
<1>3. DownOK(at)'
  BY <1>1, <1>2 DEF DownOK, Seen
<1>4. QED
  BY <1>1, <1>3, BackSame DEF DownInv

LEMMA LosslessStep ==
  ASSUME NothingFails, Shape, UpInv, DownInv, FrontResults, SameOK, [Next]_vars
  PROVE  DownInv' /\ FrontResults' /\ SameOK'
BY LosslessFrontEnd, LosslessBackEnd, LosslessForward, LosslessStutter DEF Next, Rank

LEMMA LosslessInit == Init => DownInv /\ FrontResults /\ SameOK
<1> SUFFICES ASSUME Init PROVE DownInv /\ FrontResults /\ SameOK
  OBVIOUS
<1>1. \A r \in Rank : result[r] = <<>> /\ pc[r] = "idle" /\ Seen(r) = 0
  BY EmptyFacts DEF Init, Seen
<1>2. FrontEnd \in Rank /\ BackEnd \subseteq Rank /\ Rank \subseteq Nodes \cup {FrontEnd}
  BY Tree DEF Rank
<1>3. PICK at : at = [n \in Nodes \cup {FrontEnd} |-> 0]
  OBVIOUS
<1>4. Between(0, 0) = {}
  <2>1. Token \subseteq Nat
    BY Tokens
  <2>2. ASSUME NEW t \in Token PROVE ~(0 < t /\ t <= 0)
    BY <2>1
  <2>3. QED
    BY <2>2, Zenon DEF Between
<1>5. Holds(result[FrontEnd], <<>>, {})
  <2>1. Enumerates(<<>>, {})
    BY EmptyFacts DEF Enumerates
  <2>2. QED
    BY <2>1, EmptyFacts DEF Holds
<1>6. \A n \in Nodes : /\ down[n] = <<>> /\ Parent[n] \in Nodes \cup {FrontEnd}
  BY NotOwnParent DEF Init, Nodes
<1>7. DownOK(at)
  BY <1>1, <1>2, <1>3, <1>4, <1>5, <1>6 DEF DownOK, Behind
<1>8. FrontResults /\ SameOK
  BY <1>1, <1>2, EmptyFacts DEF FrontResults, SameOK
<1>9. QED
  BY <1>7, <1>8 DEF DownInv

LEMMA LosslessAlways ==
  ASSUME NothingFails
  PROVE  Spec => [](Shape /\ UpInv /\ DownInv /\ FrontResults /\ SameOK)
<1>1. Shape /\ UpInv /\ DownInv /\ FrontResults /\ SameOK /\ [Next]_vars
        => (Shape /\ UpInv /\ DownInv /\ FrontResults /\ SameOK)'
  BY ShapeStep, LosslessAsked, UpStep, LosslessStep
<1>2. QED
  BY <1>1, ShapeInit, UpInit, LosslessInit, PTL DEF Spec

-----------------------------------------------------------------------------
(* Whatever fails, the front end sends two packets a call at most and a    *)
(* node passes on what it was sent: at[n] is the number it is through with.*)

CountOK(at) ==
  /\ at \in [Nodes \cup {FrontEnd} -> Nat] /\ at[FrontEnd] <= Seen(FrontEnd)
  /\ \A n \in Nodes : at[n] <= at[FrontEnd] /\ Len(down[n]) = at[Parent[n]] - at[n]

CountInv == \E at : CountOK(at)

LEMMA CountSame ==
  ASSUME NEW at, CountOK(at), UNCHANGED down, Seen(FrontEnd) <= Seen(FrontEnd)',
         Seen(FrontEnd) \in Nat, Seen(FrontEnd)' \in Nat
  PROVE  CountInv'
<1>1. PICK lo \in Nat : lo = Seen(FrontEnd)
  OBVIOUS
<1>2. PICK hi \in Nat : hi = Seen(FrontEnd)'
  OBVIOUS
<1>3. at[FrontEnd] \in Nat /\ at[FrontEnd] <= lo /\ lo <= hi
  BY <1>1, <1>2 DEF CountOK
<1>4. at[FrontEnd] <= Seen(FrontEnd)'
  BY <1>2, <1>3
<1>5. CountOK(at)'
  BY <1>4 DEF CountOK
<1>6. QED
  BY <1>5 DEF CountInv

LEMMA CountSend ==
  ASSUME Shape, NEW at, CountOK(at), NEW p, p.tag \in Operation,
         down' = ToChildren(FrontEnd, p), NEW lo \in Nat, lo = Seen(FrontEnd),
         NEW hi \in Nat, hi = Seen(FrontEnd)', lo < hi
  PROVE  CountInv'
<1>1. PICK to : to = [at EXCEPT ![FrontEnd] = at[FrontEnd] + 1]
  OBVIOUS
<1>2. /\ to \in [Nodes \cup {FrontEnd} -> Nat] /\ to[FrontEnd] = at[FrontEnd] + 1
      /\ \A n \in Nodes : to[n] = at[n] /\ to[n] \in Nat /\ at[n] <= at[FrontEnd]
      /\ at[FrontEnd] \in Nat /\ at[FrontEnd] <= lo
  BY <1>1, Tree DEF CountOK
<1>3. to[FrontEnd] <= Seen(FrontEnd)'
  BY <1>2
<1>4. ASSUME NEW n \in Nodes
      PROVE  to[n] <= to[FrontEnd] /\ Len(down'[n]) = to[Parent[n]] - to[n]
  <2>1. /\ Parent[n] \in Nodes \cup {FrontEnd} /\ IsSeq(down[n]) /\ Len(down[n]) \in Nat
        /\ Len(down[n]) = at[Parent[n]] - at[n] /\ at[Parent[n]] \in Nat
    BY NotOwnParent, SeqFacts DEF CountOK, Shape, NodeShape
  <2>2. CASE Parent[n] = FrontEnd
    <3>1. Len(down'[n]) = Len(down[n]) + 1
      BY <2>1, <2>2, SentDown, AppendFacts
    <3>2. Len(down'[n]) = at[FrontEnd] - at[n] + 1
      BY <2>1, <2>2, <3>1
    <3>3. /\ to[n] = at[n] /\ to[n] \in Nat /\ at[n] <= at[FrontEnd] /\ at[FrontEnd] \in Nat
          /\ to[FrontEnd] = at[FrontEnd] + 1 /\ to[Parent[n]] = to[FrontEnd]
      BY <1>2, <2>2
    <3>4. QED
      BY <3>2, <3>3
  <2>3. CASE Parent[n] # FrontEnd
    <3>1. down'[n] = down[n] /\ to[Parent[n]] = at[Parent[n]]
      BY <1>2, <2>1, <2>3, SentDown
    <3>2. QED
      BY <1>2, <2>1, <3>1
  <2>4. QED
    BY <2>2, <2>3
<1>5. CountOK(to)'
  BY <1>2, <1>3, <1>4 DEF CountOK
<1>6. QED
  BY <1>5 DEF CountInv

(* A node takes a packet, and hands it to its children or keeps it.        *)
LEMMA CountTake ==
  ASSUME Shape, NEW at, CountOK(at), NEW n \in Nodes, down[n] # <<>>,
         \A c \in Nodes :
           Len(down'[c]) = IF c = n THEN Len(down[c]) - 1
                           ELSE IF Parent[c] = n THEN Len(down[c]) + 1 ELSE Len(down[c]),
         Seen(FrontEnd)' = Seen(FrontEnd)
  PROVE  CountInv'
<1>1. PICK to : to = [at EXCEPT ![n] = at[n] + 1]
  OBVIOUS
<1>2. /\ to \in [Nodes \cup {FrontEnd} -> Nat] /\ to[n] = at[n] + 1
      /\ \A c \in Nodes \cup {FrontEnd} : c # n => to[c] = at[c]
      /\ \A c \in Nodes \cup {FrontEnd} : at[c] \in Nat
      /\ \A c \in Nodes : at[c] <= at[FrontEnd] /\ Len(down[c]) = at[Parent[c]] - at[c]
  BY <1>1 DEF CountOK
<1>3. n # FrontEnd /\ to[FrontEnd] = at[FrontEnd]
  BY <1>2, Tree
<1>4. to[FrontEnd] <= Seen(FrontEnd)'
  BY <1>3 DEF CountOK
<1>5. ASSUME NEW c \in Nodes
      PROVE  to[c] <= to[FrontEnd] /\ Len(down'[c]) = to[Parent[c]] - to[c]
  <2>1. /\ Parent[c] \in Nodes \cup {FrontEnd} /\ Parent[c] # c
        /\ IsSeq(down[c]) /\ Len(down[c]) \in Nat
    BY NotOwnParent, SeqFacts DEF Shape, NodeShape
  <2>2. CASE c = n
    <3>1. Len(down[c]) > 0 /\ at[Parent[c]] <= at[FrontEnd] /\ to[Parent[c]] = at[Parent[c]]
      BY <1>2, <2>1, <2>2, SeqFacts
    <3>2. /\ Len(down'[c]) = Len(down[c]) - 1 /\ Len(down[c]) = at[Parent[c]] - at[c]
          /\ to[c] = at[c] + 1 /\ at[c] \in Nat /\ at[Parent[c]] \in Nat /\ at[FrontEnd] \in Nat
      BY <1>2, <2>1, <2>2
    <3>3. QED
      BY <1>3, <3>1, <3>2
  <2>3. CASE c # n /\ Parent[c] = n
    <3>1. /\ Len(down'[c]) = Len(down[c]) + 1 /\ Len(down[c]) = at[n] - at[c] /\ to[n] = at[n] + 1
          /\ to[c] = at[c] /\ at[c] \in Nat /\ at[n] \in Nat /\ at[c] <= at[FrontEnd]
      BY <1>2, <2>3
    <3>2. QED
      BY <1>3, <2>3, <3>1
  <2>4. CASE c # n /\ Parent[c] # n
    BY <1>2, <1>3, <2>1, <2>4
  <2>5. QED
    BY <2>2, <2>3, <2>4
<1>6. CountOK(to)'
  BY <1>2, <1>4, <1>5 DEF CountOK
<1>7. QED
  BY <1>6 DEF CountInv

(* The front end goes on in its calls when it sends.                       *)
LEMMA FrontEndGoesOn ==
  ASSUME Shape, [Next]_vars
  PROVE  /\ Seen(FrontEnd) \in Nat /\ Seen(FrontEnd)' \in Nat /\ Seen(FrontEnd) <= Seen(FrontEnd)'
         /\ Step(FrontEnd) /\ pc[FrontEnd] # "idle" => Seen(FrontEnd) < Seen(FrontEnd)'
<1>1. FrontEnd \in Rank /\ FrontEnd \notin BackEnd
  BY Tree
<1>2. PICK n \in Nat : n = Len(result[FrontEnd])
  BY <1>1, CurrentCall
<1>3. ASSUME UNCHANGED <<pc, result>>
      PROVE  Seen(FrontEnd)' = Seen(FrontEnd) /\ Seen(FrontEnd) \in Nat
  BY <1>1, <1>2, <1>3, SeenIs DEF Seen
<1>4. CASE Moves(FrontEnd)
  <2>1. CASE pc[FrontEnd] = "idle" /\ pc'[FrontEnd] = "called" /\ result'[FrontEnd] = result[FrontEnd]
    <3>1. Seen(FrontEnd) = 2 * n + 0 /\ Seen(FrontEnd)' = 2 * n + 0
      BY <1>2, <2>1 DEF Seen
    <3>2. QED
      BY <2>1, <3>1
  <2>2. CASE pc[FrontEnd] = "called" /\ pc'[FrontEnd] = "waiting" /\ result'[FrontEnd] = result[FrontEnd]
    <3>1. Seen(FrontEnd) = 2 * n + 0 /\ Seen(FrontEnd)' = 2 * n + 1
      BY <1>2, <2>2 DEF Seen
    <3>2. QED
      BY <3>1
  <2>3. CASE pc[FrontEnd] # "idle" /\ \E ok, val : Return(FrontEnd, ok, val)
    <3>1. pc'[FrontEnd] = "idle" /\ Len(result'[FrontEnd]) = n + 1
      BY <1>1, <1>2, <2>3, ReturnLeaves
    <3>2. Seen(FrontEnd)' = 2 * (n + 1) + 0 /\ (Seen(FrontEnd) = 2 * n + 1 \/ Seen(FrontEnd) = 2 * n + 0)
      BY <1>2, <3>1 DEF Seen
    <3>3. QED
      BY <3>2
  <2>4. QED
    BY <1>4, <2>1, <2>2, <2>3 DEF Moves
<1>5. CASE Step(FrontEnd)
  BY <1>1, <1>4, <1>5, StepMoves
<1>6. ASSUME NEW r \in BackEnd, Step(r)
      PROVE  Seen(FrontEnd)' = Seen(FrontEnd) /\ Seen(FrontEnd) \in Nat
  <2>1. r \in Rank /\ FrontEnd \in Rank \ {r}
    BY <1>1 DEF Rank
  <2>2. pc'[FrontEnd] = pc[FrontEnd] /\ result'[FrontEnd] = result[FrontEnd]
    BY <1>6, <2>1, StepMoves DEF Moves
  <2>3. QED
    BY <1>1, <1>2, <2>2, SeenIs DEF Seen
<1>7. \/ Step(FrontEnd) \/ (\E r \in BackEnd : Step(r)) \/ UNCHANGED <<pc, result>>
  BY DEF Next, Rank, vars, Forward, FilterDown, FilterUp
<1>8. QED
  BY <1>3, <1>5, <1>6, <1>7

LEMMA CountStep ==
  ASSUME Shape, CountInv, [Next]_vars
  PROVE  CountInv'
<1>1. PICK at : CountOK(at)
  BY DEF CountInv
<1>2. FrontEnd \in Rank /\ FrontEnd \notin BackEnd /\ FrontEnd \notin Nodes
  BY Tree
<1>3. PICK lo \in Nat, hi \in Nat : lo = Seen(FrontEnd) /\ hi = Seen(FrontEnd)' /\ lo <= hi
  BY FrontEndGoesOn
<1>4. CASE UNCHANGED down
  BY <1>1, <1>4, CountSame, FrontEndGoesOn
<1>5. ASSUME Step(FrontEnd), pc[FrontEnd] # "idle",
             NEW p, p.tag \in Operation, down' = ToChildren(FrontEnd, p)
      PROVE  CountInv'
  <2>1. lo < hi
    BY <1>3, <1>5, FrontEndGoesOn
  <2>2. QED
    BY <1>1, <1>3, <1>5, <2>1, CountSend
<1>6. CASE Step(FrontEnd)
  <2>1. CASE Call(FrontEnd) \/ CallFails(FrontEnd) \/ FrontEndFinalize
    BY <1>4, <2>1 DEF Call, CallFails, FrontEndFinalize, links
  <2>2. pc[FrontEnd] # "idle" => Op(FrontEnd) \in Operation /\ AskTag(Op(FrontEnd)) \in Operation
    BY <1>2, CurrentCall, Tags
  <2>3. CASE FrontEndBroadcast
    <3>1. pc[FrontEnd] = "called" /\ \E p : p.tag = Op(FrontEnd) /\ down' = ToChildren(FrontEnd, p)
      BY <2>3 DEF FrontEndBroadcast, Packet
    <3>2. QED
      BY <1>5, <1>6, <2>2, <3>1
  <2>4. CASE FrontEndStart
    <3>1. /\ pc[FrontEnd] = "called"
          /\ \E p : p.tag = AskTag(Op(FrontEnd)) /\ down' = ToChildren(FrontEnd, p)
      BY <2>4 DEF FrontEndStart, Packet
    <3>2. QED
      BY <1>5, <1>6, <2>2, <3>1
  <2>5. CASE FrontEndReduce
    <3>1. /\ pc[FrontEnd] = "waiting"
          /\ \/ UNCHANGED down
             \/ \E p : p.tag = Op(FrontEnd) /\ down' = ToChildren(FrontEnd, p)
      BY <2>5 DEF FrontEndReduce, Packet
    <3>2. QED
      BY <1>4, <1>5, <1>6, <2>2, <3>1
  <2>6. CASE FrontEndSpawned
    <3>1. /\ pc[FrontEnd] = "waiting"
          /\ \E p : p.tag = Op(FrontEnd) /\ down' = ToChildren(FrontEnd, p)
      BY <2>6 DEF FrontEndSpawned, Packet
    <3>2. QED
      BY <1>5, <1>6, <2>2, <3>1
  <2>7. QED
    BY <1>2, <1>6, <2>1, <2>3, <2>4, <2>5, <2>6 DEF Step
<1>7. \A n \in Nodes : IsSeq(down[n]) /\ Len(down[n]) \in Nat
  BY SeqFacts DEF Shape, NodeShape
<1>8. ASSUME NEW r \in BackEnd, Step(r) PROVE CountInv'
  <2>1. r \in Nodes /\ r # FrontEnd /\ r \in Rank /\ FrontEnd \in Rank \ {r}
    BY <1>2, Tree DEF Rank
  <2>2. CASE Call(r) \/ CallFails(r) \/ BackEndShutDown(r)
    BY <1>4, <2>2 DEF Call, CallFails, BackEndShutDown, links
  <2>3. CASE BackEndBroadcast(r) \/ BackEndOperand(r) \/ BackEndResult(r)
    <3>1. down[r] # <<>> /\ down' = [down EXCEPT ![r] = Tail(@)]
      BY <2>3 DEF BackEndBroadcast, BackEndOperand, BackEndResult
    <3>2. \A c \in Nodes : Parent[c] # r
      BY <2>1, Tree
    <3>3. down'[r] = Tail(down[r]) /\ \A c \in Nodes : c # r => down'[c] = down[c]
      BY <2>1, <3>1, TakenDown
    <3>4. Len(down'[r]) = Len(down[r]) - 1
      BY <1>7, <2>1, <3>1, <3>3, TailFacts
    <3>5. Seen(FrontEnd)' = Seen(FrontEnd)
      BY <1>8, <2>1, StepMoves DEF Moves, Seen
    <3>6. \A c \in Nodes :
             Len(down'[c]) = IF c = r THEN Len(down[c]) - 1
                             ELSE IF Parent[c] = r THEN Len(down[c]) + 1 ELSE Len(down[c])
      BY <3>2, <3>3, <3>4
    <3>7. QED
      BY <1>1, <2>1, <3>1, <3>5, <3>6, CountTake
  <2>4. QED
    BY <1>8, <2>1, <2>2, <2>3 DEF Step
<1>9. ASSUME NEW n \in CommNode, FilterDown(n) PROVE CountInv'
  <2>1. n \in Nodes /\ down[n] # <<>> /\ UNCHANGED <<pc, result>>
    BY <1>9, Tree DEF FilterDown
  <2>2. PICK p : p = Head(down[n])
    OBVIOUS
  <2>3. p.tag \in Operation
    <3>1. p = down[n][1] /\ 1 \in DOMAIN down[n]
      BY <1>7, <2>1, <2>2, TailFacts
    <3>2. QED
      BY <2>1, <3>1 DEF Shape, NodeShape
  <2>4. PICK d : d = ToChildren(n, p)
    OBVIOUS
  <2>5. /\ d = [c \in Nodes |-> d[c]]
        /\ \A c \in Nodes : /\ Parent[c] = n => d[c] = Append(down[c], p)
                            /\ Parent[c] # n => d[c] = down[c]
    BY <2>3, <2>4, SentDown
  <2>6. down' = [d EXCEPT ![n] = Tail(down[n])]
    BY <1>9, <2>2, <2>4 DEF FilterDown
  <2>7. \A c \in Nodes : down'[c] = IF c = n THEN Tail(down[n]) ELSE d[c]
    BY <2>1, <2>5, <2>6
  <2>8. ASSUME NEW c \in Nodes
        PROVE  Len(down'[c]) = IF c = n THEN Len(down[c]) - 1
                               ELSE IF Parent[c] = n THEN Len(down[c]) + 1 ELSE Len(down[c])
    <3>1. CASE c = n
      BY <1>7, <2>1, <2>7, <3>1, TailFacts
    <3>2. CASE c # n /\ Parent[c] = n
      BY <1>7, <2>5, <2>7, <3>2, AppendFacts
    <3>3. CASE c # n /\ Parent[c] # n
      BY <2>5, <2>7, <3>3
    <3>4. QED
      BY <3>1, <3>2, <3>3
  <2>9. Seen(FrontEnd)' = Seen(FrontEnd)
    BY <2>1 DEF Seen
  <2>10. QED
    BY <1>1, <2>1, <2>8, <2>9, CountTake
<1>10. CASE (\E n \in CommNode : FilterUp(n)) \/ UNCHANGED vars
  BY <1>4, <1>10 DEF FilterUp, vars, links
<1>11. QED
  BY <1>6, <1>8, <1>9, <1>10 DEF Next, Forward, Rank

LEMMA CountInit == Init => CountInv
<1> SUFFICES ASSUME Init PROVE CountInv
  OBVIOUS
<1>1. FrontEnd \in Rank
  BY Tree
<1>2. result[FrontEnd] = <<>> /\ pc[FrontEnd] = "idle"
  BY <1>1 DEF Init
<1>3. Seen(FrontEnd) = 0
  BY <1>2, EmptyFacts DEF Seen
<1>4. PICK at : at = [n \in Nodes \cup {FrontEnd} |-> 0]
  OBVIOUS
<1>5. \A n \in Nodes : /\ Len(down[n]) = 0 /\ Parent[n] \in Nodes \cup {FrontEnd}
  BY EmptyFacts, NotOwnParent DEF Init, Nodes
<1>6. CountOK(at)
  BY <1>3, <1>4, <1>5 DEF CountOK
<1>7. QED
  BY <1>6 DEF CountInv

LEMMA TypesFollow == Shape /\ UpInv /\ CountInv => TypeOK
<1> SUFFICES ASSUME Shape, UpInv, CountInv PROVE TypeOK
  OBVIOUS
<1>1. PICK at : CountOK(at)
  BY DEF CountInv
<1>2. PICK G : UpOK(G)
  BY DEF UpInv
<1>3. FrontEnd \in Rank /\ Len(result[FrontEnd]) \in Nat /\ Len(Script) \in Nat
  BY Tree, CurrentCall
<1>4. at[FrontEnd] <= 2 * Len(Script) /\ at[FrontEnd] \in Nat
  <2>1. PICK n \in Nat : n = Len(result[FrontEnd])
    BY <1>3
  <2>2. Seen(FrontEnd) \in Nat /\ (Seen(FrontEnd) = 2 * n + 1 \/ Seen(FrontEnd) = 2 * n)
    BY <1>3, <2>1, SeenIs
  <2>3. n <= Len(Script) /\ (pc[FrontEnd] = "waiting" => n < Len(Script))
    BY <1>3, <2>1 DEF Shape, RankShape
  <2>4. Seen(FrontEnd) <= 2 * Len(Script)
    <3>1. CASE pc[FrontEnd] = "waiting"
      <4>1. Seen(FrontEnd) = 2 * n + 1
        BY <1>3, <2>1, <3>1, SeenIs
      <4>2. QED
        BY <1>3, <2>3, <3>1, <4>1
    <3>2. CASE pc[FrontEnd] # "waiting"
      <4>1. Seen(FrontEnd) = 2 * n
        BY <1>3, <2>1, <3>2, SeenIs
      <4>2. QED
        BY <1>3, <2>3, <4>1
    <3>3. QED
      BY <3>1, <3>2
  <2>5. at[FrontEnd] \in Nat /\ at[FrontEnd] <= Seen(FrontEnd)
    BY <1>1 DEF CountOK
  <2>6. QED
    BY <1>3, <2>2, <2>4, <2>5
<1>5. ASSUME NEW n \in Nodes
      PROVE  /\ Len(down[n]) <= 2 * Len(Script) /\ Len(up[n]) <= 1
             /\ \A i \in DOMAIN down[n] : down[n][i].tag \in Operation
  <2>1. IsSeq(down[n]) /\ IsSeq(up[n]) /\ \A i \in DOMAIN down[n] : down[n][i].tag \in Operation
    BY DEF Shape, NodeShape
  <2>2. Len(down[n]) <= 2 * Len(Script)
    <3>1. /\ at[n] \in Nat /\ at[Parent[n]] \in Nat /\ at[Parent[n]] <= at[FrontEnd]
          /\ Len(down[n]) = at[Parent[n]] - at[n]
      BY <1>1, <1>4, NotOwnParent DEF CountOK
    <3>2. QED
      BY <1>3, <1>4, <3>1
  <2>3. Len(up[n]) <= 1
    <3>1. CASE up[n] = <<>>
      BY <3>1, EmptyFacts
    <3>2. CASE up[n] # <<>>
      <4>1. Len(up[n]) = 1
        BY <1>2, <3>2, Zenon DEF UpOK
      <4>2. QED
        BY <4>1
    <3>3. QED
      BY <3>1, <3>2
  <2>4. QED
    BY <2>1, <2>2, <2>3
<1>6. pc \in [Rank -> {"idle", "called", "waiting"}]
  BY DEF Shape, RankShape
<1>7. DOMAIN down = DOMAIN Parent /\ DOMAIN up = DOMAIN Parent
  BY DEF Shape, Nodes
<1>8. \A r \in Rank : Len(result[r]) <= Len(Script)
  BY DEF Shape, RankShape
<1>9. QED
  BY <1>5, <1>6, <1>7, <1>8 DEF TypeOK, Nodes, Shape
-----------------------------------------------------------------------------
(* What the operands of some ranks amount to, in whatever order they are   *)
(* put together.                                                           *)

Ints(k) == [r \in Rank |-> item[r] + k]

IsMapOf(S, m) ==
  /\ DOMAIN m = {item[r] : r \in S}
  /\ m = [u \in DOMAIN m |-> [first |-> m[u].first, count |-> m[u].count]]
  /\ \A u \in DOMAIN m : /\ m[u].first \in S /\ item[m[u].first] = u
                         /\ m[u].count = Cardinality({r \in S : item[r] = u})

IsListOf(S, list) ==
  list \in Seq(Rank) /\ Range(list) = S /\ Len(list) = Cardinality(S)

AmountsTo(k, S, val) ==
  LET op == Script[k]
  IN  /\ op \in {"max", "min"} => val \in {item[r] + k : r \in S}
      /\ op = "max" => \A r \in S : item[r] + k <= val
      /\ op = "min" => \A r \in S : val <= item[r] + k
      /\ op = "sum" => val = SumOver(S, Ints(k))
      /\ op = "bor" => val = {item[r] : r \in S}
      /\ op \in MapOp => IsMapOf(S, val)
      /\ op = "debug" => IsListOf(S, val)

ItemsOK == item \in [Rank -> Uri]

LEMMA RankFacts ==
  ASSUME ItemsOK
  PROVE  /\ IsFiniteSet(Rank) /\ Rank \subseteq Nat
         /\ \A S \in SUBSET Rank : IsFiniteSet(S) /\ Cardinality(S) \in Nat
         /\ \A r \in Rank : item[r] \in Uri /\ item[r] \in Nat
<1>1. IsFiniteSet({FrontEnd}) /\ IsFiniteSet(BackEnd) /\ FrontEnd \in Nat
  BY TreeAssumption, FS_Singleton DEF FrontEnd
<1>2. IsFiniteSet(Rank) /\ Rank \subseteq Nat
  BY <1>1, TreeAssumption, FS_Union DEF Rank
<1>3. \A S \in SUBSET Rank : IsFiniteSet(S) /\ Cardinality(S) \in Nat
  BY <1>2, FS_Subset, FS_CardinalityType
<1>4. QED
  BY <1>2, <1>3, UriAssumption DEF ItemsOK

LEMMA CardinalityApart ==
  ASSUME NEW S, NEW T, IsFiniteSet(S), IsFiniteSet(T), S \cap T = {}
  PROVE  Cardinality(S \cup T) = Cardinality(S) + Cardinality(T)
<1>1. Cardinality(S \cup T) = Cardinality(S) + Cardinality(T) - Cardinality(S \cap T)
  BY FS_Union
<1>2. Cardinality(S \cap T) = 0 /\ Cardinality(S) \in Nat /\ Cardinality(T) \in Nat
  BY FS_EmptySet, FS_CardinalityType
<1>3. QED
  BY <1>1, <1>2

LEMMA OperandAmounts ==
  ASSUME ItemsOK, NEW r \in Rank, NEW k \in Nat, k = Current(r), NEW S, S = {r}
  PROVE  AmountsTo(k, S, Operand(r))
<1>1. item[r] \in Nat /\ item[r] \in Uri /\ Op(r) = Script[k]
  BY RankFacts DEF Op
<1>2. Cardinality(S) = 1 /\ IsFiniteSet(S) /\ S \in SUBSET Rank
  BY FS_Singleton
<1>3. CASE Script[k] = "sum"
  <2>1. Ints(k)[r] = item[r] + k /\ \A q \in Rank : Ints(k)[q] \in Int
    BY RankFacts DEF Ints
  <2>2. SumOver(S, Ints(k)) = Ints(k)[r] + SumOver(S \ {r}, Ints(k))
    BY <1>2, <2>1, RankFacts, SumMore
  <2>3. SumOver({}, Ints(k)) = 0
    BY <1>2, SumUnfolds
  <2>4. SumOver(S \ {r}, Ints(k)) = 0
    <3>1. S \ {r} = {}
      OBVIOUS
    <3>2. QED
      BY <2>3, <3>1
  <2>5. SumOver(S, Ints(k)) = item[r] + k
    BY <1>1, <2>1, <2>2, <2>4
  <2>6. QED
    BY <1>1, <1>3, <2>5 DEF AmountsTo, Operand, IntOp, MapOp
<1>4. CASE Script[k] \in MapOp
  <2> DEFINE m == Insert(EmptyMap, {item[r]}, r)
  <2>1. m = [u \in {item[r]} |-> [first |-> r, count |-> 1]]
    BY DEF Insert, EmptyMap
  <2>2. {q \in S : item[q] = item[r]} = S /\ {item[q] : q \in S} = {item[r]}
    OBVIOUS
  <2>3. IsMapOf(S, m)
    BY <1>2, <2>1, <2>2 DEF IsMapOf
  <2>4. QED
    BY <1>1, <1>4, <2>3 DEF AmountsTo, Operand, IntOp, MapOp
<1>5. CASE Script[k] = "debug"
  <2>1. <<r>> \in Seq(Rank) /\ Len(<<r>>) = 1 /\ Range(<<r>>) = S
    BY DEF Range
  <2>2. QED
    BY <1>1, <1>2, <1>5, <2>1 DEF AmountsTo, Operand, IntOp, MapOp, IsListOf
<1>6. CASE Script[k] \in {"max", "min", "bor"}
  <2>1. \A q \in S : q = r
    OBVIOUS
  <2>2. \A q \in S : item[q] + k = item[r] + k /\ item[r] + k \in Nat /\ item[r] + k <= item[r] + k
    BY <1>1, <2>1
  <2>3. {item[q] + k : q \in S} = {item[r] + k} /\ {item[q] : q \in S} = {item[r]}
    OBVIOUS
  <2>4. QED
    BY <1>1, <1>6, <2>2, <2>3 DEF AmountsTo, Operand, IntOp, MapOp
<1>7. QED
  BY <1>3, <1>4, <1>5, <1>6 DEF AmountsTo

(* Lists of what is in two sets with nothing in common.                    *)
LEMMA ListsJoin ==
  ASSUME ItemsOK, NEW S \in SUBSET Rank, NEW T \in SUBSET Rank, S \cap T = {},
         NEW a, NEW b, IsListOf(S, a), IsListOf(T, b)
  PROVE  IsListOf(S \cup T, a \o b)
<1>1. a \in Seq(Rank) /\ b \in Seq(Rank) /\ Len(a) \in Nat /\ Len(b) \in Nat
  BY DEF IsListOf
<1>2. a \o b \in Seq(Rank) /\ Len(a \o b) = Len(a) + Len(b)
  BY <1>1
<1>3. Len(a \o b) = Cardinality(S \cup T)
  BY <1>2, RankFacts, CardinalityApart DEF IsListOf
<1>4. /\ DOMAIN a = 1 .. Len(a) /\ DOMAIN b = 1 .. Len(b)
      /\ DOMAIN (a \o b) = 1 .. Len(a) + Len(b)
  BY <1>1, <1>2
<1>5. /\ \A i \in 1 .. Len(a) : (a \o b)[i] = a[i]
      /\ \A i \in Len(a) + 1 .. Len(a) + Len(b) : (a \o b)[i] = b[i - Len(a)]
  BY <1>1
<1>6. Range(a \o b) = Range(a) \cup Range(b)
  <2>1. ASSUME NEW i \in 1 .. Len(a) + Len(b) PROVE (a \o b)[i] \in Range(a) \cup Range(b)
    <3>1. i \in 1 .. Len(a) \/ (i \in Len(a) + 1 .. Len(a) + Len(b) /\ i - Len(a) \in 1 .. Len(b))
      BY <1>1
    <3>2. QED
      BY <1>4, <1>5, <3>1 DEF Range
  <2>2. ASSUME NEW i \in 1 .. Len(a) PROVE a[i] \in Range(a \o b)
    <3>1. i \in 1 .. Len(a) + Len(b) /\ (a \o b)[i] = a[i]
      BY <1>1, <1>5
    <3>2. QED
      BY <1>4, <3>1 DEF Range
  <2>3. ASSUME NEW i \in 1 .. Len(b) PROVE b[i] \in Range(a \o b)
    <3>1. PICK j : j = i + Len(a)
      OBVIOUS
    <3>2. j \in 1 .. Len(a) + Len(b) /\ j \in Len(a) + 1 .. Len(a) + Len(b) /\ j - Len(a) = i
      BY <1>1, <3>1
    <3>3. (a \o b)[j] = b[i]
      BY <1>5, <3>2
    <3>4. QED
      BY <1>4, <3>2, <3>3 DEF Range
  <2>4. QED
    BY <1>4, <2>1, <2>2, <2>3 DEF Range
<1>7. QED
  BY <1>2, <1>3, <1>6 DEF IsListOf

(* A map merged into another that is of other ranks.                       *)
LEMMA MapsJoin ==
  ASSUME ItemsOK, NEW S \in SUBSET Rank, NEW T \in SUBSET Rank, S \cap T = {},
         NEW a, NEW b, IsMapOf(S, a), IsMapOf(T, b)
  PROVE  IsMapOf(S \cup T, Unpack(a, b))
<1> DEFINE m == Unpack(a, b)
           Of(U, u) == {r \in U : item[r] = u}
<1>1. DOMAIN m = {item[r] : r \in S \cup T}
  BY DEF IsMapOf, Unpack
<1>2. \A u : /\ Of(S \cup T, u) = Of(S, u) \cup Of(T, u) /\ Of(S, u) \cap Of(T, u) = {}
             /\ Of(S, u) \in SUBSET Rank /\ Of(T, u) \in SUBSET Rank
  OBVIOUS
<1>3. \A u : Cardinality(Of(S \cup T, u)) = Cardinality(Of(S, u)) + Cardinality(Of(T, u))
  <2> SUFFICES ASSUME NEW u
               PROVE Cardinality(Of(S \cup T, u)) = Cardinality(Of(S, u)) + Cardinality(Of(T, u))
    OBVIOUS
  <2>1. IsFiniteSet(Of(S, u)) /\ IsFiniteSet(Of(T, u))
    BY <1>2, RankFacts
  <2>2. QED
    BY <1>2, <2>1, CardinalityApart
<1>4. \A u : Cardinality(Of(S, u)) \in Nat /\ Cardinality(Of(T, u)) \in Nat
  BY <1>2, RankFacts
<1>5. Cardinality({}) = 0
  BY FS_EmptySet
<1>6. ASSUME NEW d, NEW U, IsMapOf(U, d), NEW u \in DOMAIN d
      PROVE  /\ d[u] = [first |-> d[u].first, count |-> d[u].count]
             /\ d[u].first \in U /\ item[d[u].first] = u /\ d[u].count = Cardinality(Of(U, u))
  <2>1. d = [v \in DOMAIN d |-> [first |-> d[v].first, count |-> d[v].count]]
    BY <1>6 DEF IsMapOf
  <2>2. d[u] = [first |-> d[u].first, count |-> d[u].count]
    BY <1>6, <2>1
  <2>3. QED
    BY <1>6, <2>2 DEF IsMapOf
<1>7. ASSUME NEW u \in DOMAIN m
      PROVE  /\ m[u] = [first |-> m[u].first, count |-> m[u].count]
             /\ m[u].first \in S \cup T /\ item[m[u].first] = u
             /\ m[u].count = Cardinality(Of(S \cup T, u))
  <2>1. CASE u \notin DOMAIN b
    <3>1. u \in DOMAIN a /\ m[u] = a[u] /\ Of(T, u) = {}
      BY <2>1 DEF IsMapOf, Unpack
    <3>2. /\ a[u] = [first |-> a[u].first, count |-> a[u].count]
          /\ a[u].first \in S /\ item[a[u].first] = u /\ a[u].count = Cardinality(Of(S, u))
      BY <1>6, <3>1
    <3>3. Cardinality(Of(S \cup T, u)) = Cardinality(Of(S, u))
      BY <1>3, <1>4, <1>5, <3>1
    <3>4. QED
      BY <3>1, <3>2, <3>3
  <2>2. CASE u \in DOMAIN b /\ u \notin DOMAIN a
    <3>1. m[u] = b[u] /\ Of(S, u) = {}
      BY <2>2 DEF IsMapOf, Unpack
    <3>2. /\ b[u] = [first |-> b[u].first, count |-> b[u].count]
          /\ b[u].first \in T /\ item[b[u].first] = u /\ b[u].count = Cardinality(Of(T, u))
      BY <1>6, <2>2
    <3>3. Cardinality(Of(S \cup T, u)) = Cardinality(Of(T, u))
      BY <1>3, <1>4, <1>5, <3>1
    <3>4. QED
      BY <3>1, <3>2, <3>3
  <2>3. CASE u \in DOMAIN b /\ u \in DOMAIN a
    <3>1. m[u] = [first |-> a[u].first, count |-> b[u].count + a[u].count]
      BY <2>3 DEF Unpack
    <3>2. /\ a[u].first \in S /\ item[a[u].first] = u /\ a[u].count = Cardinality(Of(S, u))
          /\ b[u].count = Cardinality(Of(T, u))
      BY <1>6, <2>3
    <3>3. PICK i, j \in Nat : i = Cardinality(Of(S, u)) /\ j = Cardinality(Of(T, u))
      BY <1>4
    <3>4. Cardinality(Of(S \cup T, u)) = i + j
      BY <1>3, <3>3
    <3>5. b[u].count + a[u].count = Cardinality(Of(S \cup T, u))
      BY <3>2, <3>3, <3>4
    <3>6. QED
      BY <3>1, <3>2, <3>5
  <2>4. QED
    BY <2>1, <2>2, <2>3 DEF Unpack
<1>8. m = [u \in DOMAIN m |-> m[u]]
  BY DEF Unpack
<1> HIDE DEF m
<1> DEFINE entry(u) == [first |-> m[u].first, count |-> m[u].count]
<1>9. m = [u \in DOMAIN m |-> entry(u)]
  <2>1. \A u \in DOMAIN m : m[u] = entry(u)
    BY <1>7
  <2> HIDE DEF entry
  <2>2. QED
    BY <1>8, <2>1
<1>10. QED
  BY <1>1, <1>7, <1>9 DEF IsMapOf, m

(* Two packets are merged.                                                 *)
LEMMA CombineAmounts ==
  ASSUME ItemsOK, NEW k \in DOMAIN Script, NEW S \in SUBSET Rank, NEW T \in SUBSET Rank,
         S \cap T = {}, NEW a, NEW b, AmountsTo(k, S, a), AmountsTo(k, T, b)
  PROVE  AmountsTo(k, S \cup T, Combine(AnswerTag(Script[k]), a, b))
<1> DEFINE op == Script[k]
           ints(U) == {item[r] + k : r \in U}
<1>1. k \in Nat /\ \A r \in Rank : item[r] + k \in Int
  BY RankFacts, Tree
<1>2. ints(S \cup T) = ints(S) \cup ints(T) /\ ints(S) \subseteq Int /\ ints(T) \subseteq Int
  BY <1>1
<1>3. CASE op = "max"
  <2>1. /\ a \in ints(S) /\ \A r \in S : item[r] + k <= a
        /\ b \in ints(T) /\ \A r \in T : item[r] + k <= b
    BY <1>3 DEF AmountsTo
  <2>2. a \in Int /\ b \in Int
    BY <1>2, <2>1
  <2> HIDE DEF ints
  <2>3. PICK v : v = IF a > b THEN a ELSE b
    OBVIOUS
  <2>4. v \in ints(S \cup T) /\ v \in Int /\ a <= v /\ b <= v
    BY <1>2, <2>1, <2>2, <2>3
  <2>5. \A r \in S \cup T : item[r] + k <= v
    BY <1>1, <2>1, <2>2, <2>4
  <2>6. v = Combine(AnswerTag(op), a, b)
    BY <1>3, <2>3 DEF Combine, AnswerTag, MapOp
  <2>7. QED
    BY <1>3, <2>4, <2>5, <2>6 DEF AmountsTo, MapOp, ints
<1>4. CASE op = "min"
  <2>1. /\ a \in ints(S) /\ \A r \in S : a <= item[r] + k
        /\ b \in ints(T) /\ \A r \in T : b <= item[r] + k
    BY <1>4 DEF AmountsTo
  <2>2. a \in Int /\ b \in Int
    BY <1>2, <2>1
  <2> HIDE DEF ints
  <2>3. PICK v : v = IF a < b THEN a ELSE b
    OBVIOUS
  <2>4. v \in ints(S \cup T) /\ v \in Int /\ v <= a /\ v <= b
    BY <1>2, <2>1, <2>2, <2>3
  <2>5. \A r \in S \cup T : v <= item[r] + k
    BY <1>1, <2>1, <2>2, <2>4
  <2>6. v = Combine(AnswerTag(op), a, b)
    BY <1>4, <2>3 DEF Combine, AnswerTag, MapOp
  <2>7. QED
    BY <1>4, <2>4, <2>5, <2>6 DEF AmountsTo, MapOp, ints
<1>5. CASE op = "sum"
  <2>1. \A r \in Rank : Ints(k)[r] \in Int
    BY <1>1 DEF Ints
  <2>2. SumOver(S \cup T, Ints(k)) = SumOver(S, Ints(k)) + SumOver(T, Ints(k))
    BY <2>1, RankFacts, SumApart
  <2>3. a = SumOver(S, Ints(k)) /\ b = SumOver(T, Ints(k))
    BY <1>5 DEF AmountsTo
  <2>4. Combine(AnswerTag(op), a, b) = a + b
    BY <1>5 DEF Combine, AnswerTag, MapOp
  <2>5. QED
    BY <1>5, <2>2, <2>3, <2>4 DEF AmountsTo, MapOp
<1>6. CASE op = "bor"
  <2>1. Combine(AnswerTag(op), a, b) = a \cup b
    BY <1>6 DEF Combine, AnswerTag, MapOp
  <2>2. a = {item[r] : r \in S} /\ b = {item[r] : r \in T}
    BY <1>6 DEF AmountsTo
  <2>3. QED
    BY <1>6, <2>1, <2>2 DEF AmountsTo, MapOp
<1>7. CASE op \in MapOp
  <2>1. Combine(AnswerTag(op), a, b) = Unpack(a, b)
    BY <1>7 DEF Combine, AnswerTag, MapOp
  <2>2. IsMapOf(S, a) /\ IsMapOf(T, b)
    BY <1>7 DEF AmountsTo
  <2>3. IsMapOf(S \cup T, Unpack(a, b))
    BY <2>2, MapsJoin
  <2>4. QED
    BY <1>7, <2>1, <2>3 DEF AmountsTo, MapOp
<1>8. CASE op = "debug"
  <2>1. Combine(AnswerTag(op), a, b) = a \o b
    BY <1>8 DEF Combine, AnswerTag, MapOp
  <2>2. IsListOf(S, a) /\ IsListOf(T, b)
    BY <1>8 DEF AmountsTo
  <2>3. IsListOf(S \cup T, a \o b)
    BY <2>2, ListsJoin
  <2>4. QED
    BY <1>8, <2>1, <2>3 DEF AmountsTo, MapOp
<1>9. CASE op \notin {"max", "min", "sum", "bor", "debug"} \cup MapOp
  BY <1>9 DEF AmountsTo
<1>10. QED
  BY <1>3, <1>4, <1>5, <1>6, <1>7, <1>8, <1>9

-----------------------------------------------------------------------------
(* A filter puts a wave together packet by packet.                         *)

Collected(tag, base, seq) ==
  FoldLeft(LAMBDA a, p : IF p.tag = tag THEN Combine(p.tag, a, p.val) ELSE a, base, seq)

(* What the packets with the indices in a set come to, the last one last.  *)
Partial(g, Parts, tag, base, seq) ==
  g = [T \in Parts |->
         IF T = {} THEN base
         ELSE IF seq[Max(T)].tag = tag
              THEN Combine(seq[Max(T)].tag, g[T \ {Max(T)}], seq[Max(T)].val)
              ELSE g[T \ {Max(T)}]]

LEMMA LastOne ==
  ASSUME NEW n \in Nat, NEW T \in SUBSET (1 .. n), T # {}
  PROVE  Max(T) \in T /\ \A i \in T : i <= Max(T)
<1>1. \A i \in T : i \in Nat /\ n - i \in Nat
  OBVIOUS
<1>2. PICK l \in {n - i : i \in T} : \A m \in {n - i : i \in T} : l <= m
  <2> DEFINE Far == {n - i : i \in T}
  <2>1. Far \in SUBSET Nat /\ Far # {}
    BY <1>1
  <2>2. QED
    BY <2>1, LowestNumber
<1>3. PICK h \in T : l = n - h
  BY <1>2
<1>4. \A i \in T : n - h <= n - i
  BY <1>2, <1>3
<1>5. \A i \in T : h >= i
  BY <1>1, <1>3, <1>4
<1>6. Max(T) \in T /\ \A i \in T : Max(T) >= i
  BY <1>3, <1>5 DEF Max
<1>7. QED
  BY <1>1, <1>6

LEMMA SpanFinite ==
  ASSUME NEW n \in Nat
  PROVE  \A T \in SUBSET (1 .. n) : IsFiniteSet(T) /\ Cardinality(T) \in Nat
<1>1. IsFiniteSet(1 .. n)
  BY FS_Interval
<1>2. QED
  BY <1>1, FS_Subset, FS_CardinalityType

LEMMA TakeLast ==
  ASSUME NEW n \in Nat, NEW T \in SUBSET (1 .. n), T # {}
  PROVE  /\ T \ {Max(T)} \in SUBSET (1 .. n)
         /\ Cardinality(T) \in Nat /\ Cardinality(T \ {Max(T)}) \in Nat
         /\ Cardinality(T) = Cardinality(T \ {Max(T)}) + 1
<1>1. Max(T) \in T
  BY LastOne
<1>2. IsFiniteSet(T) /\ Cardinality(T) \in Nat
  BY SpanFinite
<1> DEFINE U == T \ {Max(T)}
<1>3. IsFiniteSet(U) /\ Cardinality(U) = Cardinality(T) - 1 /\ Cardinality(U) \in Nat
  BY <1>1, <1>2, FS_RemoveElement, FS_CardinalityType
<1>4. U \in SUBSET (1 .. n)
  OBVIOUS
<1> HIDE DEF U
<1>5. Cardinality(T) = Cardinality(U) + 1
  BY <1>2, <1>3
<1>6. QED
  BY <1>2, <1>3, <1>4, <1>5 DEF U

LEMMA PartialsExist ==
  ASSUME NEW n \in Nat, NEW tag, NEW base, NEW seq
  PROVE  \E g : Partial(g, SUBSET (1 .. n), tag, base, seq)
<1> DEFINE S == 1 .. n
           Upto(m) == {T \in SUBSET S : Cardinality(T) <= m}
           Bad == {m \in Nat : ~ \E g : Partial(g, Upto(m), tag, base, seq)}
<1>1. Cardinality({}) = 0
  BY FS_EmptySet
<1>2. IsFiniteSet(S) /\ \A T \in SUBSET S : IsFiniteSet(T) /\ Cardinality(T) \in Nat
  BY SpanFinite
<1>3. Bad = {}
  <2>1. SUFFICES ASSUME Bad # {} PROVE FALSE
    OBVIOUS
  <2>2. PICK m \in Bad : \A l \in Bad : m <= l
    BY <2>1, LowestNumber
  <2>3. CASE m = 0
    <3>1. Upto(0) = {{}}
      BY <1>1, <1>2, FS_EmptySet
    <3> DEFINE g == [T \in {{}} |-> base]
    <3>2. Partial(g, Upto(0), tag, base, seq)
      BY <3>1 DEF Partial
    <3>3. QED
      BY <2>2, <2>3, <3>2
  <2>4. CASE m # 0
    <3>1. m - 1 \in Nat /\ m \in Nat /\ m - 1 \notin Bad
      <4>1. m \in Nat /\ m - 1 \in Nat
        BY <2>2, <2>4
      <4> HIDE DEF Bad
      <4>2. m - 1 \in Bad => m <= m - 1
        BY <2>2
      <4>3. QED
        BY <4>1, <4>2
    <3>2. PICK h : Partial(h, Upto(m - 1), tag, base, seq)
      BY <3>1
    <3> DEFINE more(T, v) == IF T = {} THEN base
                             ELSE IF seq[Max(T)].tag = tag
                                  THEN Combine(seq[Max(T)].tag, v, seq[Max(T)].val) ELSE v
               g == [T \in Upto(m) |-> more(T, h[T \ {Max(T)}])]
    <3>3. ASSUME NEW T \in Upto(m), T # {}
          PROVE  T \ {Max(T)} \in Upto(m - 1) /\ T \ {Max(T)} \in Upto(m)
      <4> DEFINE U == T \ {Max(T)}
      <4>1. /\ U \in SUBSET S /\ Cardinality(T) \in Nat /\ Cardinality(U) \in Nat
            /\ Cardinality(T) = Cardinality(U) + 1
        BY <3>3, TakeLast
      <4>2. Cardinality(T) <= m
        OBVIOUS
      <4> HIDE DEF U
      <4>3. Cardinality(U) <= m - 1 /\ Cardinality(U) <= m
        BY <3>1, <4>1, <4>2
      <4>4. QED
        BY <4>1, <4>3 DEF U
    <3>4. ASSUME NEW U \in Upto(m - 1), U \in Upto(m) PROVE g[U] = h[U]
      BY <3>2, <3>4 DEF Partial
    <3>5. \A T \in Upto(m) : T # {} => g[T \ {Max(T)}] = h[T \ {Max(T)}]
      BY <3>3, <3>4
    <3>6. \A T \in Upto(m) : more(T, h[T \ {Max(T)}]) = more(T, g[T \ {Max(T)}])
      <4> HIDE DEF g, Upto
      <4>1. QED
        BY <3>5
    <3>7. g = [T \in Upto(m) |-> more(T, g[T \ {Max(T)}])]
      <4>1. g = [T \in Upto(m) |-> more(T, h[T \ {Max(T)}])]
        OBVIOUS
      <4> HIDE DEF g, Upto, more
      <4>2. QED
        BY <3>6, <4>1
    <3>8. Partial(g, Upto(m), tag, base, seq)
      BY <3>7 DEF Partial
    <3>9. QED
      BY <2>2, <3>8
  <2>5. QED
    BY <2>3, <2>4
<1>4. Cardinality(S) \in Nat
  BY <1>2
<1>5. Upto(Cardinality(S)) = SUBSET S
  BY <1>2, FS_Subset
<1> HIDE DEF Upto
<1>6. PICK g : Partial(g, Upto(Cardinality(S)), tag, base, seq)
  BY <1>3, <1>4
<1>7. QED
  BY <1>5, <1>6

PartialOf(n, tag, base, seq) == CHOOSE g : Partial(g, SUBSET (1 .. n), tag, base, seq)

LEMMA CollectedIsPartial ==
  ASSUME NEW n \in Nat, NEW tag, NEW base, NEW seq, DOMAIN seq = 1 .. n
  PROVE  LET g == PartialOf(n, tag, base, seq)
         IN  Partial(g, SUBSET (1 .. n), tag, base, seq) /\ Collected(tag, base, seq) = g[1 .. n]
<1> DEFINE g == PartialOf(n, tag, base, seq)
<1>1. Partial(g, SUBSET (1 .. n), tag, base, seq)
  BY PartialsExist DEF PartialOf
<1>2. Collected(tag, base, seq) = g[1 .. n]
  BY DEF Collected, FoldLeft, MapThenFoldSet, Partial, PartialOf
<1>3. QED
  BY <1>1, <1>2

(* The packets of a wave have one tag and come from different ranks: the   *)
(* merged one is of all of them.                                           *)
LEMMA CollectedAmounts ==
  ASSUME ItemsOK, NEW k \in DOMAIN Script, NEW n \in Nat, NEW seq, DOMAIN seq = 1 .. n,
         NEW part \in [1 .. n -> SUBSET Rank], NEW S \in SUBSET Rank,
         \A i \in 1 .. n : part[i] \cap S = {},
         \A i, j \in 1 .. n : i # j => part[i] \cap part[j] = {},
         NEW tag, tag = AnswerTag(Script[k]),
         NEW base, AmountsTo(k, S, base),
         \A i \in 1 .. n : seq[i].tag = tag /\ AmountsTo(k, part[i], seq[i].val)
  PROVE  AmountsTo(k, S \cup UNION {part[i] : i \in 1 .. n}, Collected(tag, base, seq))
<1> DEFINE g == PartialOf(n, tag, base, seq)
<1>1. Partial(g, SUBSET (1 .. n), tag, base, seq) /\ Collected(tag, base, seq) = g[1 .. n]
  BY CollectedIsPartial
<1> HIDE DEF g
<1> DEFINE Of(j) == S \cup UNION {part[i] : i \in 1 .. j}
           Bad == {j \in 0 .. n : ~AmountsTo(k, Of(j), g[1 .. j])}
<1>2. Bad = {}
  <2>1. SUFFICES ASSUME Bad # {} PROVE FALSE
    OBVIOUS
  <2>2. PICK j \in Bad : \A l \in Bad : j <= l
    <3>1. Bad \in SUBSET Nat
      OBVIOUS
    <3>2. QED
      BY <2>1, <3>1, LowestNumber
  <2>3. j \in 0 .. n /\ ~AmountsTo(k, Of(j), g[1 .. j])
    BY <2>2
  <2> HIDE DEF Of
  <2>4. CASE j = 0
    <3>1. 1 .. 0 = {} /\ g[{}] = base
      BY <1>1 DEF Partial
    <3>2. UNION {part[i] : i \in 1 .. 0} = {}
      OBVIOUS
    <3>3. Of(0) = S
      BY <3>2 DEF Of
    <3>4. QED
      BY <2>3, <2>4, <3>1, <3>3
  <2>5. CASE j # 0
    <3>1. PICK l \in 0 .. n : j = l + 1
      BY <2>3, <2>5
    <3>2. AmountsTo(k, Of(l), g[1 .. l])
      <4>1. l \notin Bad
        <5> HIDE DEF Bad
        <5>1. l \in Bad => j <= l
          BY <2>2
        <5>2. QED
          BY <3>1, <5>1
      <4>2. QED
        BY <4>1
    <3>3. Max(1 .. j) = j
      <4>1. 1 .. j \in SUBSET (1 .. n) /\ 1 .. j # {} /\ j \in 1 .. j
        <5>1. j \in Nat /\ j <= n /\ j >= 1
          BY <2>3, <2>5
        <5>2. QED
          BY <5>1
      <4>2. Max(1 .. j) \in 1 .. j /\ j <= Max(1 .. j)
        BY <4>1, LastOne
      <4>3. QED
        BY <2>3, <4>2
    <3>4. (1 .. j) \ {j} = 1 .. l /\ j \in 1 .. n /\ 1 .. j # {} /\ 1 .. j \in SUBSET (1 .. n)
      <4>1. j \in Nat /\ l \in Nat /\ j <= n /\ j >= 1 /\ j = l + 1
        BY <2>3, <2>5, <3>1
      <4>2. QED
        BY <4>1
    <3>5. g[1 .. j] = Combine(tag, g[1 .. l], seq[j].val)
      <4> DEFINE T == 1 .. j
      <4>1. Max(T) = j /\ T \ {Max(T)} = 1 .. l /\ T # {} /\ T \in SUBSET (1 .. n)
        BY <3>3, <3>4
      <4>2. seq[j].tag = tag
        BY <3>4
      <4> HIDE DEF T
      <4>3. g[T] = IF seq[Max(T)].tag = tag
                   THEN Combine(seq[Max(T)].tag, g[T \ {Max(T)}], seq[Max(T)].val)
                   ELSE g[T \ {Max(T)}]
        BY <1>1, <4>1 DEF Partial
      <4>4. QED
        BY <4>1, <4>2, <4>3 DEF T
    <3>6. Of(l) \in SUBSET Rank /\ part[j] \in SUBSET Rank /\ Of(l) \cap part[j] = {}
      <4>1. \A i \in 1 .. l : i \in 1 .. n /\ i # j
        BY <3>1
      <4>2. \A i \in 1 .. l : part[i] \in SUBSET Rank /\ part[i] \cap part[j] = {}
        BY <3>4, <4>1
      <4>3. QED
        BY <3>4, <4>2 DEF Of
    <3>7. Of(j) = Of(l) \cup part[j]
      <4>1. 1 .. j = 1 .. l \cup {j}
        BY <3>1
      <4>2. QED
        BY <4>1 DEF Of
    <3>8. AmountsTo(k, part[j], seq[j].val)
      BY <3>4
    <3> HIDE DEF Of
    <3>9. AmountsTo(k, Of(j), g[1 .. j])
      BY <3>2, <3>5, <3>6, <3>7, <3>8, CombineAmounts
    <3>10. QED
      BY <2>3, <3>9
  <2>6. QED
    BY <2>4, <2>5
<1>3. AmountsTo(k, Of(n), g[1 .. n])
  <2>1. n \in 0 .. n
    OBVIOUS
  <2> HIDE DEF Of
  <2>2. ~AmountsTo(k, Of(n), g[1 .. n]) => n \in Bad
    BY <2>1
  <2>3. QED
    BY <1>2, <2>2
<1>4. QED
  BY <1>1, <1>3

(* The wave of a node holds one packet of every child.                     *)
LEMMA WaveIsOrdered ==
  ASSUME NEW n \in CommNode \cup {FrontEnd}, NEW wave \in Waves(n)
  PROVE  \E m, order :
           /\ m \in Nat /\ m > 0 /\ order \in [1 .. m -> Children(n)]
           /\ \A i, j \in 1 .. m : i # j => order[i] # order[j]
           /\ \A c \in Children(n) : \E i \in 1 .. m : order[i] = c
           /\ IsSeq(wave) /\ Len(wave) = m
           /\ \A i \in 1 .. m : wave[i] = Head(up[order[i]])
<1>1. IsFiniteSet(Children(n)) /\ Children(n) # {}
  <2>1. IsFiniteSet(Nodes)
    BY Tree, TreeAssumption, FS_Union
  <2>2. Children(n) \subseteq Nodes
    BY DEF Children, Nodes
  <2>3. QED
    BY <2>1, <2>2, FS_Subset, TreeAssumption
<1>2. PICK m : m = Cardinality(Children(n))
  OBVIOUS
<1>3. m \in Nat /\ m > 0
  <2>1. m \in Nat /\ m # 0
    BY <1>1, <1>2, FS_CardinalityType, FS_EmptySet
  <2>2. QED
    BY <2>1
<1>4. PICK order \in SetToSeqs(Children(n)) : wave = [i \in DOMAIN order |-> Head(up[order[i]])]
  BY DEF Waves
<1>5. order \in [1 .. m -> Children(n)] /\ \A i, j \in 1 .. m : i # j => order[i] # order[j]
  BY <1>2, <1>4 DEF SetToSeqs
<1>6. order \in Surjection(1 .. m, Children(n))
  <2>1. order \in Injection(1 .. m, Children(n))
    BY <1>5 DEF Injection, IsInjective
  <2>2. IsFiniteSet(1 .. m) /\ Cardinality(1 .. m) = m
    BY <1>3, FS_Interval
  <2>3. QED
    BY <1>1, <1>2, <2>1, <2>2, FS_Injection
<1>7. \A c \in Children(n) : \E i \in 1 .. m : order[i] = c
  BY <1>6 DEF Surjection
<1>8. wave = [i \in 1 .. m |-> Head(up[order[i]])]
  BY <1>4, <1>5
<1>9. IsSeq(wave) /\ Len(wave) = m
  <2>1. PICK V : V = {Head(up[order[i]]) : i \in 1 .. m}
    OBVIOUS
  <2>2. wave \in [1 .. m -> V]
    BY <1>8, <2>1
  <2>3. wave \in Seq(V) /\ Len(wave) = m
    BY <1>3, <2>2
  <2>4. QED
    BY <2>3 DEF IsSeq
<1>10. \A i \in 1 .. m : wave[i] = Head(up[order[i]])
  BY <1>8
<1>11. QED
  BY <1>3, <1>5, <1>7, <1>9, <1>10

(* What a filter makes of the packets of its children is of all the ranks  *)
(* theirs are of.                                                          *)
LEMMA MergedAmounts ==
  ASSUME ItemsOK, NEW k \in DOMAIN Script, NEW n \in CommNode \cup {FrontEnd},
         NEW wave \in Waves(n), NEW part \in [Nodes -> SUBSET Rank],
         \A c \in Children(n) : /\ Head(up[c]).tag = AnswerTag(Script[k])
                                /\ AmountsTo(k, part[c], Head(up[c]).val),
         \A c, d \in Children(n) : c # d => part[c] \cap part[d] = {}
  PROVE  AmountsTo(k, UNION {part[c] : c \in Children(n)}, Merged(wave).val)
<1>1. PICK m, order :
           /\ m \in Nat /\ m > 0 /\ order \in [1 .. m -> Children(n)]
           /\ \A i, j \in 1 .. m : i # j => order[i] # order[j]
           /\ \A c \in Children(n) : \E i \in 1 .. m : order[i] = c
           /\ IsSeq(wave) /\ Len(wave) = m
           /\ \A i \in 1 .. m : wave[i] = Head(up[order[i]])
  BY WaveIsOrdered
<1>2. Children(n) \subseteq Nodes
  BY DEF Children, Nodes
<1>3. PICK l \in Nat : m = l + 1
  BY <1>1
<1>4. PICK rest : rest = Tail(wave)
  OBVIOUS
<1>5. wave # <<>>
  BY <1>1, SeqFacts
<1>6. /\ DOMAIN rest = 1 .. l /\ \A i \in 1 .. l : rest[i] = wave[i + 1]
  <2>1. IsSeq(rest) /\ Len(rest) = m - 1 /\ \A i \in 1 .. m - 1 : rest[i] = wave[i + 1]
    BY <1>1, <1>4, <1>5, TailFacts
  <2>2. m - 1 = l
    BY <1>3
  <2>3. QED
    BY <2>1, <2>2, SeqFacts
<1> DEFINE own == [i \in 1 .. l |-> part[order[i + 1]]]
           tag == AnswerTag(Script[k])
<1>7. 1 \in 1 .. m /\ \A i \in 1 .. l : i + 1 \in 1 .. m /\ i + 1 # 1
  BY <1>1, <1>3
<1>8. order[1] \in Children(n) /\ \A i \in 1 .. l : order[i + 1] \in Children(n)
  BY <1>1, <1>7
<1>9. own \in [1 .. l -> SUBSET Rank] /\ part[order[1]] \in SUBSET Rank
  BY <1>2, <1>8
<1>10. \A i \in 1 .. l : own[i] \cap part[order[1]] = {}
  <2> SUFFICES ASSUME NEW i \in 1 .. l PROVE part[order[i + 1]] \cap part[order[1]] = {}
    OBVIOUS
  <2>1. order[i + 1] # order[1]
    BY <1>1, <1>7
  <2>2. QED
    BY <1>8, <2>1
<1>11. \A i, j \in 1 .. l : i # j => own[i] \cap own[j] = {}
  <2> SUFFICES ASSUME NEW i \in 1 .. l, NEW j \in 1 .. l, i # j
               PROVE part[order[i + 1]] \cap part[order[j + 1]] = {}
    OBVIOUS
  <2>1. i + 1 # j + 1
    OBVIOUS
  <2>2. order[i + 1] # order[j + 1]
    BY <1>1, <1>7, <2>1
  <2>3. QED
    BY <1>8, <2>2
<1>12. wave[1].tag = tag /\ AmountsTo(k, part[order[1]], wave[1].val)
  BY <1>1, <1>7, <1>8
<1>13. \A i \in 1 .. l : rest[i].tag = tag /\ AmountsTo(k, own[i], rest[i].val)
  <2> SUFFICES ASSUME NEW i \in 1 .. l
               PROVE  rest[i].tag = tag /\ AmountsTo(k, own[i], rest[i].val)
    OBVIOUS
  <2>1. rest[i] = Head(up[order[i + 1]]) /\ own[i] = part[order[i + 1]]
    BY <1>1, <1>6, <1>7
  <2>2. QED
    BY <1>8, <2>1
<1>14. UNION {part[c] : c \in Children(n)} = part[order[1]] \cup UNION {own[i] : i \in 1 .. l}
  <2>1. ASSUME NEW c \in Children(n)
        PROVE  c = order[1] \/ \E i \in 1 .. l : c = order[i + 1]
    <3>1. PICK i \in 1 .. m : order[i] = c
      BY <1>1
    <3>2. CASE i = 1
      BY <3>1, <3>2
    <3>3. CASE i # 1
      <4>1. i - 1 \in 1 .. l /\ (i - 1) + 1 = i
        BY <1>3, <3>3
      <4>2. QED
        BY <3>1, <4>1
    <3>4. QED
      BY <3>2, <3>3
  <2>2. QED
    BY <1>8, <2>1
<1>15. Merged(wave).val = Collected(tag, wave[1].val, rest)
  BY <1>4, <1>12 DEF Merged, Packet, Collected
<1> HIDE DEF own, tag
<1>16. PICK S : S = part[order[1]]
  OBVIOUS
<1>17. AmountsTo(k, S \cup UNION {own[i] : i \in 1 .. l}, Collected(tag, wave[1].val, rest))
  BY <1>6, <1>9, <1>10, <1>11, <1>12, <1>13, <1>16, CollectedAmounts DEF tag
<1>18. QED
  BY <1>14, <1>15, <1>16, <1>17

-----------------------------------------------------------------------------
(* The packets on their way up amount to the operands of different back    *)
(* ends, and to those of all that have given one.                          *)

PartsOK(G, part) ==
  /\ part \in [Nodes -> SUBSET BackEnd]
  /\ \A n \in Nodes : up[n] # <<>> =>
       part[n] \subseteq G /\ AmountsTo(Current(FrontEnd), part[n], Head(up[n]).val)
  /\ \A n, m \in Nodes : n # m /\ up[n] # <<>> /\ up[m] # <<>> => part[n] \cap part[m] = {}
  /\ \A r \in G \cap BackEnd : \E n \in Nodes : up[n] # <<>> /\ r \in part[n]

AmountsInv == \E G, part : UpOK(G) /\ PartsOK(G, part)

(* Who the calls and the results of the front end are left alone by.       *)
LEMMA OthersLeave ==
  ASSUME Shape, \/ \E r \in BackEnd : Step(r) 
                \/ \E n \in CommNode : Forward(n)
  PROVE  /\ pc'[FrontEnd] = pc[FrontEnd] /\ result'[FrontEnd] = result[FrontEnd]
         /\ Current(FrontEnd)' = Current(FrontEnd) /\ item' = item /\ proctable' = proctable
<1>1. FrontEnd \in Rank /\ FrontEnd \notin BackEnd /\ BackEnd \subseteq Rank
  BY Tree DEF Rank
<1>2. pc'[FrontEnd] = pc[FrontEnd] /\ result'[FrontEnd] = result[FrontEnd]
  <2>1. CASE \E n \in CommNode : Forward(n)
    BY <2>1 DEF Forward, FilterDown, FilterUp
  <2>2. ASSUME NEW r \in BackEnd, Step(r)
        PROVE pc'[FrontEnd] = pc[FrontEnd] /\ result'[FrontEnd] = result[FrontEnd]
    <3>1. Moves(r) /\ r # FrontEnd
      BY <1>1, <2>2, StepMoves
    <3>2. QED
      BY <1>1, <3>1 DEF Moves
  <2>3. QED
    BY <2>1, <2>2
<1>3. item' = item /\ proctable' = proctable
  <2>1. CASE \E n \in CommNode : Forward(n)
    BY <2>1 DEF Forward, FilterDown, FilterUp
  <2>2. CASE \E r \in BackEnd : Step(r)
    BY <1>1, <2>2 DEF Step, Call, CallFails, BackEndBroadcast, BackEndOperand, BackEndResult,
       BackEndShutDown
  <2>3. QED
    BY <2>1, <2>2
<1>4. QED
  BY <1>2, <1>3 DEF Current

LEMMA AmountsFrontEnd ==
  ASSUME Shape, NEW G, UpOK(G), Step(FrontEnd)
  PROVE  AmountsInv'
<1>1. UpOK({})'
  BY UpFrontEnd
<1>2. \A n \in Nodes : up'[n] = <<>>
  BY <1>1 DEF UpOK
<1> DEFINE part == [n \in Nodes |-> {}]
<1>3. part \in [Nodes -> SUBSET BackEnd]
  OBVIOUS
<1> HIDE DEF part
<1>4. PartsOK({}, part)'
  BY <1>2, <1>3 DEF PartsOK
<1>5. QED
  BY <1>1, <1>4 DEF AmountsInv

LEMMA AmountsBackEnd ==
  ASSUME Shape, AskedOK, NEW G, NEW part, UpOK(G), PartsOK(G, part), NEW r \in BackEnd, Step(r)
  PROVE  AmountsInv'
<1>1. r \in Rank /\ r \in Nodes /\ ItemsOK /\ FrontEnd \in Rank
  BY Tree DEF Rank, Shape, ItemsOK
<1>2. /\ Current(FrontEnd)' = Current(FrontEnd) /\ item' = item
  BY OthersLeave
<1>3. \A k, S, val : AmountsTo(k, S, val)' <=> AmountsTo(k, S, val)
  BY <1>2 DEF AmountsTo, Ints, IsMapOf
<1>4. CASE UNCHANGED up /\ UpOK(G)'
  <2>1. PartsOK(G, part)'
    BY <1>2, <1>3, <1>4 DEF PartsOK
  <2>2. QED
    BY <1>4, <2>1 DEF AmountsInv
<1>5. CASE BackEndGives(G, r) /\ UpOK(G \cup {r})'
  <2> DEFINE more == [n \in Nodes |-> IF n = r THEN {r} ELSE part[n]]
  <2>1. more[r] = {r} /\ \A n \in Nodes \ {r} : more[n] = part[n]
    BY <1>1
  <2>2. more \in [Nodes -> SUBSET BackEnd]
    BY DEF PartsOK
  <2> HIDE DEF more
  <2>3. /\ r \notin G /\ up'[r] # <<>> /\ Head(up'[r]).val = Operand(r)
        /\ \A c \in Nodes \ {r} : up'[c] = up[c]
    BY <1>5 DEF BackEndGives
  <2>4. AmountsTo(Current(FrontEnd), {r}, Operand(r))
    <3>1. Current(FrontEnd) \in Nat /\ Current(FrontEnd) = Current(r)
      BY <1>1, <1>5, CurrentCall DEF BackEndGives
    <3>2. QED
      BY <1>1, <3>1, OperandAmounts
  <2>5. \A n \in Nodes : up'[n] # <<>> =>
          /\ more[n] \subseteq G \cup {r}
          /\ AmountsTo(Current(FrontEnd), more[n], Head(up'[n]).val)
    BY <2>1, <2>3, <2>4 DEF PartsOK
  <2>6. \A n, m \in Nodes : n # m /\ up'[n] # <<>> /\ up'[m] # <<>> => more[n] \cap more[m] = {}
    <3>1. \A n \in Nodes \ {r} : up'[n] # <<>> => more[n] \cap {r} = {}
      BY <2>1, <2>3 DEF PartsOK
    <3>2. \A n, m \in Nodes \ {r} : n # m /\ up'[n] # <<>> /\ up'[m] # <<>> =>
             more[n] \cap more[m] = {}
      BY <2>1, <2>3 DEF PartsOK
    <3>3. QED
      BY <2>1, <3>1, <3>2
  <2>7. \A q \in (G \cup {r}) \cap BackEnd : \E n \in Nodes : up'[n] # <<>> /\ q \in more[n]
    <3>1. ASSUME NEW q \in G \cap BackEnd
          PROVE  \E n \in Nodes : up'[n] # <<>> /\ q \in more[n]
      <4>1. PICK n \in Nodes : up[n] # <<>> /\ q \in part[n]
        BY <3>1 DEF PartsOK
      <4>2. up[r] = <<>>
        BY <1>1, <2>3 DEF UpOK
      <4>3. QED
        BY <2>1, <2>3, <4>1, <4>2
    <3>2. QED
      BY <1>1, <2>1, <2>3, <3>1
  <2>8. PartsOK(G \cup {r}, more)'
    BY <1>2, <1>3, <2>2, <2>5, <2>6, <2>7 DEF PartsOK
  <2>9. QED
    BY <1>5, <2>8 DEF AmountsInv
<1>6. QED
  BY <1>4, <1>5, UpBackEnd

LEMMA AmountsForward ==
  ASSUME Shape, NEW G, NEW part, UpOK(G), PartsOK(G, part), NEW n \in CommNode, Forward(n)
  PROVE  AmountsInv'
<1>1. n \in Nodes /\ ItemsOK /\ FrontEnd \in Rank /\ BackEnd \subseteq Rank
  BY Tree DEF Rank, Shape, ItemsOK
<1>2. Current(FrontEnd)' = Current(FrontEnd) /\ item' = item
  BY OthersLeave
<1>3. \A k, S, val : AmountsTo(k, S, val)' <=> AmountsTo(k, S, val)
  BY <1>2 DEF AmountsTo, Ints, IsMapOf
<1>4. CASE UNCHANGED up /\ UpOK(G)'
  <2>1. PartsOK(G, part)'
    BY <1>2, <1>3, <1>4 DEF PartsOK
  <2>2. QED
    BY <1>4, <2>1 DEF AmountsInv
<1>5. CASE NodeGives(G, n) /\ UpOK(G \cup {n})'
  <2>1. PICK U : U = UNION {part[c] : c \in Children(n)}
    OBVIOUS
  <2> DEFINE more == [c \in Nodes |-> IF c = n THEN U ELSE part[c]]
  <2>2. more[n] = U /\ \A c \in Nodes \ {n} : more[c] = part[c]
    BY <1>1
  <2>3. /\ n \notin G /\ WaveReady(n) /\ up'[n] # <<>>
        /\ \A c \in Nodes \ {n} : up'[c] = IF c \in Children(n) THEN <<>> ELSE up[c]
    BY <1>5 DEF NodeGives
  <2>4. \A c \in Children(n) : c \in Nodes /\ up[c] # <<>> /\ c \in G
    BY <2>3 DEF WaveReady, Children, Nodes, UpOK
  <2>5. U \subseteq BackEnd /\ U \subseteq G
    BY <2>1, <2>4 DEF PartsOK
  <2>6. more \in [Nodes -> SUBSET BackEnd]
    BY <2>5 DEF PartsOK
  <2> HIDE DEF more
  <2>7. AmountsTo(Current(FrontEnd), U, Head(up'[n]).val)
    <3>1. PICK wave \in Waves(n) : Head(up'[n]).val = Merged(wave).val
      BY <1>5 DEF NodeGives
    <3>2. PICK c \in Children(n) : TRUE
      BY TreeAssumption
    <3>3. pc[FrontEnd] = "waiting"
      BY <2>4, <3>2 DEF UpOK
    <3>4. PICK k \in DOMAIN Script : k = Current(FrontEnd) /\ Op(FrontEnd) = Script[k]
      BY <1>1, <3>3, CurrentCall, Tree
    <3>5. \A d \in Children(n) : /\ Head(up[d]).tag = AnswerTag(Script[k])
                                 /\ AmountsTo(k, part[d], Head(up[d]).val)
      BY <2>4, <3>4 DEF UpOK, PartsOK
    <3>6. \A d, e \in Children(n) : d # e => part[d] \cap part[e] = {}
      BY <2>4 DEF PartsOK
    <3>7. part \in [Nodes -> SUBSET Rank]
      BY <1>1 DEF PartsOK
    <3>8. AmountsTo(k, UNION {part[d] : d \in Children(n)}, Merged(wave).val)
      BY <1>1, <3>5, <3>6, <3>7, MergedAmounts
    <3>9. QED
      BY <2>1, <3>1, <3>4, <3>8
  <2>8. \A c \in Nodes : up'[c] # <<>> =>
          /\ more[c] \subseteq G \cup {n}
          /\ AmountsTo(Current(FrontEnd), more[c], Head(up'[c]).val)
    BY <2>2, <2>3, <2>5, <2>7 DEF PartsOK
  <2>9. \A c \in Nodes \ {n} : up'[c] # <<>> =>
          up[c] # <<>> /\ c \notin Children(n)
    BY <2>3
  <2>10. \A c, d \in Nodes : c # d /\ up'[c] # <<>> /\ up'[d] # <<>> => more[c] \cap more[d] = {}
    <3>1. ASSUME NEW c \in Nodes \ {n}, up'[c] # <<>> PROVE more[c] \cap U = {}
      <4>1. \A d \in Children(n) : part[c] \cap part[d] = {}
        BY <2>4, <2>9, <3>1 DEF PartsOK
      <4>2. QED
        BY <2>1, <2>2, <4>1
    <3>2. \A c, d \in Nodes \ {n} : c # d /\ up'[c] # <<>> /\ up'[d] # <<>> =>
             more[c] \cap more[d] = {}
      BY <2>2, <2>9 DEF PartsOK
    <3>3. QED
      BY <2>2, <3>1, <3>2
  <2>11. \A q \in (G \cup {n}) \cap BackEnd : \E c \in Nodes : up'[c] # <<>> /\ q \in more[c]
    <3>1. n \notin BackEnd
      BY Tree DEF Rank
    <3>2. ASSUME NEW q \in G \cap BackEnd
          PROVE  \E c \in Nodes : up'[c] # <<>> /\ q \in more[c]
      <4>1. PICK c \in Nodes : up[c] # <<>> /\ q \in part[c]
        BY <3>2 DEF PartsOK
      <4>2. c # n
        BY <2>3, <4>1 DEF UpOK
      <4>3. CASE c \in Children(n)
        <5>1. q \in U
          BY <2>1, <4>1, <4>3
        <5>2. QED
          BY <1>1, <2>2, <2>3, <5>1
      <4>4. CASE c \notin Children(n)
        BY <2>2, <2>3, <4>1, <4>2, <4>4
      <4>5. QED
        BY <4>3, <4>4
    <3>3. QED
      BY <3>1, <3>2
  <2>12. PartsOK(G \cup {n}, more)'
    BY <1>2, <1>3, <2>6, <2>8, <2>10, <2>11 DEF PartsOK
  <2>13. QED
    BY <1>5, <2>12 DEF AmountsInv
<1>6. QED
  BY <1>4, <1>5, UpForward

LEMMA AmountsStep == Shape /\ AskedOK /\ AmountsInv /\ [Next]_vars => AmountsInv'
<1> SUFFICES ASSUME Shape, AskedOK, AmountsInv, [Next]_vars PROVE AmountsInv'
  OBVIOUS
<1>1. PICK G, part : UpOK(G) /\ PartsOK(G, part)
  BY DEF AmountsInv
<1>2. ASSUME NEW r \in Rank, Step(r) PROVE AmountsInv'
  <2>1. CASE r = FrontEnd
    BY <1>1, <1>2, <2>1, AmountsFrontEnd
  <2>2. CASE r \in BackEnd
    BY <1>1, <1>2, <2>2, AmountsBackEnd
  <2>3. QED
    BY <2>1, <2>2 DEF Rank
<1>3. ASSUME NEW n \in CommNode, Forward(n) PROVE AmountsInv'
  BY <1>1, <1>3, AmountsForward
<1>4. CASE UNCHANGED vars
  <2>1. UNCHANGED <<up, pc, result, item>>
    BY <1>4 DEF vars, links
  <2>2. UpOK(G)'
    BY <1>1, <2>1 DEF UpOK, Op, Current, Past
  <2>3. \A k, S, val : AmountsTo(k, S, val)' <=> AmountsTo(k, S, val)
    BY <2>1 DEF AmountsTo, Ints, IsMapOf
  <2>4. Current(FrontEnd)' = Current(FrontEnd)
    BY <2>1 DEF Current
  <2>5. PartsOK(G, part)'
    BY <1>1, <2>1, <2>3, <2>4 DEF PartsOK
  <2>6. QED
    BY <2>2, <2>5 DEF AmountsInv
<1>5. QED
  BY <1>2, <1>3, <1>4 DEF Next

LEMMA AmountsInit == Init => AmountsInv
<1> SUFFICES ASSUME Init PROVE AmountsInv
  OBVIOUS
<1>1. UpOK({})
  BY EmptyFacts, Tree DEF Init, UpOK, Nodes
<1>2. \A n \in Nodes : up[n] = <<>>
  BY DEF Init, Nodes
<1> DEFINE part == [n \in Nodes |-> {}]
<1>3. part \in [Nodes -> SUBSET BackEnd]
  OBVIOUS
<1> HIDE DEF part
<1>4. PartsOK({}, part)
  BY <1>2, <1>3 DEF PartsOK
<1>5. QED
  BY <1>1, <1>4 DEF AmountsInv

(* When the front end has its wave it is of all back ends.                 *)
LEMMA WaveAmounts ==
  ASSUME Shape, AmountsInv, WaveReady(FrontEnd), NEW wave \in Waves(FrontEnd)
  PROVE  /\ pc[FrontEnd] = "waiting" /\ Current(FrontEnd) \in DOMAIN Script
         /\ wave[1].tag = AnswerTag(Op(FrontEnd))
         /\ AmountsTo(Current(FrontEnd), BackEnd, Merged(wave).val)
<1>1. PICK G, part : UpOK(G) /\ PartsOK(G, part)
  BY DEF AmountsInv
<1>2. /\ pc[FrontEnd] = "waiting" /\ G = Nodes
      /\ \A n \in Nodes : Parent[n] # FrontEnd => up[n] = <<>>
  BY <1>1, Gathered
<1>3. FrontEnd \in Rank /\ BackEnd \subseteq Rank /\ BackEnd \subseteq Nodes /\ ItemsOK
  BY Tree DEF Rank, Shape, ItemsOK
<1>4. PICK k \in DOMAIN Script : k = Current(FrontEnd) /\ Op(FrontEnd) = Script[k]
  BY <1>2, <1>3, CurrentCall, Tree
<1>5. \A c \in Children(FrontEnd) : c \in Nodes /\ up[c] # <<>>
  BY DEF WaveReady, Children, Nodes
<1>6. \A c \in Children(FrontEnd) : /\ Head(up[c]).tag = AnswerTag(Script[k])
                                    /\ AmountsTo(k, part[c], Head(up[c]).val)
  BY <1>1, <1>4, <1>5 DEF UpOK, PartsOK
<1>7. \A c, d \in Children(FrontEnd) : c # d => part[c] \cap part[d] = {}
  BY <1>1, <1>5 DEF PartsOK
<1>8. part \in [Nodes -> SUBSET Rank]
  BY <1>1, <1>3 DEF PartsOK
<1>9. AmountsTo(k, UNION {part[c] : c \in Children(FrontEnd)}, Merged(wave).val)
  BY <1>3, <1>6, <1>7, <1>8, MergedAmounts
<1>10. UNION {part[c] : c \in Children(FrontEnd)} = BackEnd
  <2>1. \A r \in BackEnd : \E n \in Nodes : up[n] # <<>> /\ r \in part[n]
    BY <1>1, <1>2, <1>3 DEF PartsOK
  <2>2. \A n \in Nodes : up[n] # <<>> => n \in Children(FrontEnd)
    BY <1>2 DEF Children, Nodes
  <2>3. \A n \in Nodes : part[n] \subseteq BackEnd
    BY <1>1 DEF PartsOK
  <2>4. QED
    BY <1>5, <2>1, <2>2, <2>3
<1>11. wave[1].tag = AnswerTag(Script[k])
  BY <1>6, WaveHeads
<1>12. QED
  BY <1>2, <1>4, <1>9, <1>10, <1>11


-----------------------------------------------------------------------------
(* The results of the front end.                                           *)

LEMMA MapIsOutcome ==
  ASSUME NEW m, IsMapOf(Rank, m)
  PROVE  m \in MapsOf(item)
<1> DEFINE items == {item[r] : r \in Rank}
           holders(u) == {r \in Rank : item[r] = u}
           f == [u \in items |-> m[u].first]
           entry(g, u) == [first |-> g[u], count |-> Cardinality(holders(u))]
<1>1. DOMAIN m = items /\ m = [u \in items |-> [first |-> m[u].first, count |-> m[u].count]]
  BY DEF IsMapOf
<1>2. \A u \in items : f[u] = m[u].first /\ m[u].count = Cardinality(holders(u)) /\ f[u] \in holders(u)
  BY <1>1 DEF IsMapOf
<1>3. f \in {g \in [items -> Rank] : \A u \in items : g[u] \in holders(u)}
  BY <1>2
<1> HIDE DEF f
<1>4. m = [u \in items |-> entry(f, u)]
  <2>1. \A u \in items : [first |-> m[u].first, count |-> m[u].count] = entry(f, u)
    BY <1>2
  <2> HIDE DEF entry, items, holders
  <2>2. QED
    BY <1>1, <2>1
<1>5. m \in {[u \in items |-> entry(g, u)] :
               g \in {h \in [items -> Rank] : \A u \in items : h[u] \in holders(u)}}
  BY <1>3, <1>4
<1>6. QED
  BY <1>5 DEF MapsOf

(* What everybody's operands amount to is what the call should return.     *)
LEMMA AmountIsOutcome ==
  ASSUME ItemsOK, NEW k \in DOMAIN Script, Script[k] \in Reduction, k \notin NoMemory,
         NEW val, AmountsTo(k, Rank, val)
  PROVE  (IF Script[k] = "mapElim" THEN EliminateUriAlias(val) ELSE val) \in Outcome(k, item)
<1> DEFINE ints == {item[r] + k : r \in Rank}
<1>1. k \in Nat /\ \A i \in ints : i \in Int
  BY RankFacts, Tree
<1>2. CASE Script[k] = "max"
  <2>1. val \in ints /\ \A i \in ints : i <= val
    BY <1>2 DEF AmountsTo
  <2> HIDE DEF ints
  <2>2. \A v \in ints : (\A i \in ints : i <= v) => v = val
    BY <1>1, <2>1
  <2>3. Greatest(ints) = val
    BY <2>1, <2>2 DEF Greatest
  <2>4. QED
    BY <1>2, <2>3 DEF Outcome, Session, ints
<1>3. CASE Script[k] = "min"
  <2>1. val \in ints /\ \A i \in ints : val <= i
    BY <1>3 DEF AmountsTo
  <2> HIDE DEF ints
  <2>2. \A v \in ints : (\A i \in ints : v <= i) => v = val
    BY <1>1, <2>1
  <2>3. Least(ints) = val
    BY <2>1, <2>2 DEF Least
  <2>4. QED
    BY <1>3, <2>3 DEF Outcome, Session, ints
<1>4. CASE Script[k] = "sum"
  BY <1>4 DEF AmountsTo, Ints, Outcome, Session
<1>5. CASE Script[k] = "bor"
  BY <1>5 DEF AmountsTo, Outcome, Session
<1>6. CASE Script[k] \in MapOp
  <2>1. val \in MapsOf(item)
    BY <1>6, MapIsOutcome DEF AmountsTo
  <2>2. CASE Script[k] = "map"
    BY <2>1, <2>2 DEF Outcome, Session
  <2>3. CASE Script[k] = "mapElim"
    BY <2>1, <2>3 DEF Outcome, Session
  <2>4. QED
    BY <1>6, <2>2, <2>3 DEF MapOp
<1>7. QED
  BY <1>2, <1>3, <1>4, <1>5, <1>6 DEF Reduction, IntOp, MapOp

(* The front end adds its own operand to the wave.                         *)
LEMMA WaveComplete ==
  ASSUME Shape, AmountsInv, WaveReady(FrontEnd), NEW wave \in Waves(FrontEnd)
  PROVE  AmountsTo(Current(FrontEnd), Rank,
                   Combine(AnswerTag(Op(FrontEnd)), Operand(FrontEnd), Merged(wave).val))
<1>1. /\ FrontEnd \in Rank /\ FrontEnd \notin BackEnd /\ BackEnd \subseteq Rank /\ ItemsOK
      /\ {FrontEnd} \cup BackEnd = Rank
  BY Tree DEF Rank, Shape, ItemsOK
<1>2. PICK k \in DOMAIN Script : k = Current(FrontEnd)
  BY WaveAmounts
<1>3. AmountsTo(k, BackEnd, Merged(wave).val) /\ Op(FrontEnd) = Script[k]
  BY <1>2, WaveAmounts DEF Op
<1>4. AmountsTo(k, {FrontEnd}, Operand(FrontEnd))
  BY <1>1, <1>2, Tree, OperandAmounts
<1>5. AmountsTo(k, {FrontEnd} \cup BackEnd,
                Combine(AnswerTag(Script[k]), Operand(FrontEnd), Merged(wave).val))
  BY <1>1, <1>3, <1>4, CombineAmounts
<1>6. QED
  BY <1>1, <1>2, <1>3, <1>5

FrontRight ==
  \A k \in 1 .. Len(result[FrontEnd]) :
    /\ result[FrontEnd][k].ok \/ <<FrontEnd, k>> \notin MayFail =>
         result[FrontEnd][k].val \in Outcome(k, item)
    /\ Script[k] = "debug" /\ result[FrontEnd][k].ok => IsListOf(Rank, proctable)

LEMMA FrontRightReturn ==
  ASSUME Shape, FrontRight, pc[FrontEnd] # "idle", NEW ok, NEW val, Return(FrontEnd, ok, val),
         UNCHANGED item,
         proctable' = proctable \/ IsListOf(Rank, proctable'),
         NEW k, k = Current(FrontEnd),
         ok \/ <<FrontEnd, k>> \notin MayFail => val \in Outcome(k, item),
         Script[k] = "debug" /\ ok => IsListOf(Rank, proctable')
  PROVE  FrontRight'
<1>1. FrontEnd \in Rank
  BY Tree
<1>2. PICK n \in Nat : n = Len(result[FrontEnd]) /\ k = n + 1
  BY <1>1, CurrentCall DEF Current
<1>3. /\ Len(result'[FrontEnd]) = n + 1 /\ result'[FrontEnd][k] = [ok |-> ok, val |-> val]
      /\ \A j \in 1 .. n : result'[FrontEnd][j] = result[FrontEnd][j]
  BY <1>1, <1>2, ReturnLeaves
<1>4. \A j : Outcome(j, item)' = Outcome(j, item)
  BY DEF Outcome, MapsOf
<1>5. \A j \in 1 .. n + 1 : j \in 1 .. n \/ j = k
  BY <1>2
<1>6. IsListOf(Rank, proctable)' <=> IsListOf(Rank, proctable')
  BY DEF IsListOf
<1>7. ASSUME NEW j \in 1 .. n + 1
      PROVE  /\ result'[FrontEnd][j].ok \/ <<FrontEnd, j>> \notin MayFail =>
                  result'[FrontEnd][j].val \in Outcome(j, item)
             /\ Script[j] = "debug" /\ result'[FrontEnd][j].ok => IsListOf(Rank, proctable')
  <2>1. CASE j = k
    BY <1>3, <2>1
  <2>2. CASE j \in 1 .. n
    BY <1>2, <1>3, <2>2 DEF FrontRight
  <2>3. QED
    BY <1>5, <2>1, <2>2
<1>8. QED
  BY <1>3, <1>4, <1>6, <1>7 DEF FrontRight

(* FrontRight reads the results of the front end, the items and the table. *)
LEMMA FrontRightSame ==
  ASSUME FrontRight, result'[FrontEnd] = result[FrontEnd], item' = item, proctable' = proctable
  PROVE  FrontRight'
<1>1. \A j : Outcome(j, item)' = Outcome(j, item)
  BY DEF Outcome, MapsOf
<1>2. IsListOf(Rank, proctable)' <=> IsListOf(Rank, proctable)
  BY DEF IsListOf
<1>3. QED
  BY <1>1, <1>2 DEF FrontRight

LEMMA BroadcastRight ==
  ASSUME NEW k, Script[k] \in Broadcast
  PROVE  BroadcastValue(Script[k]) \in Outcome(k, item)
BY DEF Broadcast, BroadcastValue, Outcome, Session

LEMMA SessionRight ==
  ASSUME NEW k, Script[k] \in Session
  PROVE  0 \in Outcome(k, item)
BY DEF Session, Outcome

LEMMA NoMemoryRight ==
  ASSUME NEW k \in NoMemory
  PROVE  NoBytes \in Outcome(k, item)
<1>1. Script[k] = "bor"
  BY TreeAssumption
<1>2. QED
  BY <1>1 DEF Outcome, Session

LEMMA ReduceRight ==
  ASSUME Shape, AmountsInv, FrontEndReduce
  PROVE  \E ok, val : Return(FrontEnd, ok, val) /\ val \in Outcome(Current(FrontEnd), item)
<1>1. Op(FrontEnd) \in Reduction /\ WaveReady(FrontEnd) /\ ItemsOK
  BY DEF FrontEndReduce, Shape, ItemsOK
<1>2. PICK wave \in Waves(FrontEnd) :
        \/ wave[1].tag # Op(FrontEnd)
        \/ /\ Current(FrontEnd) \notin NoMemory
           /\ Return(FrontEnd, TRUE, Final(Op(FrontEnd), Merged(wave).val))
        \/ Current(FrontEnd) \in NoMemory /\ Return(FrontEnd, FALSE, NoBytes)
  BY DEF FrontEndReduce, Fail
<1>3. PICK k \in DOMAIN Script : k = Current(FrontEnd)
  BY <1>1, WaveAmounts
<1>4. Op(FrontEnd) = Script[k] /\ AnswerTag(Script[k]) = Script[k]
  BY <1>1, <1>3 DEF Op, AnswerTag, Reduction, MapOp, IntOp
<1>5. wave[1].tag = Op(FrontEnd)
  BY <1>1, <1>4, WaveAmounts
<1>6. AmountsTo(k, Rank, Combine(Script[k], Operand(FrontEnd), Merged(wave).val))
  BY <1>1, <1>3, <1>4, WaveComplete
<1>7. CASE k \notin NoMemory
  <2>1. Final(Script[k], Merged(wave).val) \in Outcome(k, item)
    BY <1>1, <1>4, <1>6, <1>7, AmountIsOutcome DEF Final
  <2>2. QED
    BY <1>2, <1>3, <1>4, <1>5, <1>7, <2>1
<1>8. CASE k \in NoMemory
  BY <1>2, <1>3, <1>5, <1>8, NoMemoryRight
<1>9. QED
  BY <1>7, <1>8

LEMMA SpawnedRight ==
  ASSUME Shape, AmountsInv, FrontEndSpawned
  PROVE  IsListOf(Rank, proctable')
<1>1. Op(FrontEnd) = "debug" /\ WaveReady(FrontEnd)
  BY DEF FrontEndSpawned
<1>2. PICK wave \in Waves(FrontEnd) : proctable' = <<FrontEnd>> \o Merged(wave).val
  BY DEF FrontEndSpawned
<1>3. AnswerTag("debug") = "debug" /\ Operand(FrontEnd) = <<FrontEnd>>
  BY <1>1 DEF AnswerTag, Operand, IntOp, MapOp
<1>4. AmountsTo(Current(FrontEnd), Rank, Combine("debug", <<FrontEnd>>, Merged(wave).val))
  BY <1>1, <1>3, WaveComplete
<1>5. Combine("debug", <<FrontEnd>>, Merged(wave).val) = proctable'
  BY <1>2 DEF Combine, MapOp
<1>6. Script[Current(FrontEnd)] = "debug"
  BY <1>1 DEF Op
<1>7. QED
  BY <1>4, <1>5, <1>6 DEF AmountsTo

LEMMA FrontRightStep == Shape /\ AmountsInv /\ FrontRight /\ [Next]_vars => FrontRight'
<1> SUFFICES ASSUME Shape, AmountsInv, FrontRight, [Next]_vars PROVE FrontRight'
  OBVIOUS
<1>1. PICK k : k = Current(FrontEnd)
  OBVIOUS
<1>2. Op(FrontEnd) = Script[k]
  BY <1>1 DEF Op
<1>3. CASE Step(FrontEnd)
  <2>1. CASE Call(FrontEnd) \/ FrontEndStart
    BY <2>1, FrontRightSame DEF Call, FrontEndStart
  <2>2. CASE CallFails(FrontEnd)
    <3>1. pc[FrontEnd] = "called" /\ <<FrontEnd, k>> \in MayFail /\ Return(FrontEnd, FALSE, NoBytes)
          /\ UNCHANGED <<item, proctable>>
      BY <1>1, <2>2 DEF CallFails, Fail
    <3>2. QED
      BY <1>1, <3>1, FrontRightReturn
  <2>3. CASE FrontEndBroadcast
    <3>1. /\ pc[FrontEnd] = "called" /\ Script[k] \in Broadcast
          /\ Return(FrontEnd, TRUE, BroadcastValue(Script[k])) /\ UNCHANGED <<item, proctable>>
      BY <1>2, <2>3 DEF FrontEndBroadcast
    <3>2. Script[k] # "debug"
      BY <3>1 DEF Broadcast
    <3>3. QED
      BY <1>1, <3>1, <3>2, BroadcastRight, FrontRightReturn
  <2>4. CASE FrontEndReduce
    <3>1. pc[FrontEnd] = "waiting" /\ Script[k] \in Reduction /\ UNCHANGED <<item, proctable>>
      BY <1>2, <2>4 DEF FrontEndReduce
    <3>2. Script[k] # "debug"
      BY <3>1 DEF Reduction, MapOp, IntOp
    <3>3. PICK ok, val : Return(FrontEnd, ok, val) /\ val \in Outcome(k, item)
      BY <1>1, <2>4, ReduceRight
    <3>4. QED
      BY <1>1, <3>1, <3>2, <3>3, FrontRightReturn
  <2>5. CASE FrontEndSpawned
    <3>1. /\ pc[FrontEnd] = "waiting" /\ Script[k] = "debug" /\ UNCHANGED item
          /\ Return(FrontEnd, TRUE, 0)
      BY <1>2, <2>5 DEF FrontEndSpawned
    <3>2. 0 \in Outcome(k, item)
      BY <3>1, SessionRight DEF Session
    <3>3. QED
      BY <1>1, <2>5, <3>1, <3>2, SpawnedRight, FrontRightReturn
  <2>6. CASE FrontEndFinalize
    <3>1. /\ pc[FrontEnd] = "waiting" /\ Script[k] = "finalize" /\ UNCHANGED <<item, proctable>>
          /\ Return(FrontEnd, TRUE, 0)
      BY <1>2, <2>6 DEF FrontEndFinalize
    <3>2. 0 \in Outcome(k, item)
      BY <3>1, SessionRight DEF Session
    <3>3. QED
      BY <1>1, <3>1, <3>2, FrontRightReturn
  <2>7. QED
    BY <1>3, <2>1, <2>2, <2>3, <2>4, <2>5, <2>6, Tree DEF Step
<1>4. CASE (\E r \in BackEnd : Step(r)) \/ (\E n \in CommNode : Forward(n))
  BY <1>4, OthersLeave, FrontRightSame
<1>5. CASE UNCHANGED vars
  BY <1>5, FrontRightSame DEF vars
<1>6. QED
  BY <1>3, <1>4, <1>5 DEF Next, Rank

LEMMA FrontRightInit == Init => FrontRight
<1> SUFFICES ASSUME Init PROVE FrontRight
  OBVIOUS
<1>1. Len(result[FrontEnd]) = 0
  BY EmptyFacts, Tree DEF Init
<1>2. QED
  BY <1>1 DEF FrontRight

-----------------------------------------------------------------------------
(* The results of the back ends where calls fail.  A packet asks for a     *)
(* call or carries the front end's result of one.  Every node is asked     *)
(* once for each call, so that a back end that has been asked finds no     *)
(* second request: D are the nodes that the request has passed.            *)

PacketRight(p) ==
  \/ p.start = TRUE /\ \E op \in Asking : p.tag = AskTag(op)
  \/ /\ p.start = FALSE
     /\ \E k \in DOMAIN Script :
          /\ p.tag = Script[k] /\ AskTag(Script[k]) = Script[k]
          /\ k <= Len(result[FrontEnd]) /\ p.val = result[FrontEnd][k].val
          /\ result[FrontEnd][k].ok \/ (Script[k] = "bor" /\ p.val = NoBytes)

PacketInv == \A n \in Nodes : \A i \in DOMAIN down[n] : PacketRight(down[n][i])

LEMMA PacketStep ==
  ASSUME Shape, PacketInv, [Next]_vars
  PROVE  PacketInv'
<1>1. Grown(result[FrontEnd], result'[FrontEnd]) /\ FrontEnd \in Rank
  BY AlwaysGrows, Tree
<1>2. ASSUME NEW p, OnLink(p) PROVE PacketRight(p)'
  <2>1. PacketRight(p)
    BY <1>2 DEF OnLink, PacketInv
  <2>2. \A k \in DOMAIN Script : k <= Len(result[FrontEnd]) =>
          k <= Len(result'[FrontEnd]) /\ result'[FrontEnd][k] = result[FrontEnd][k]
    BY <1>1, Tree DEF Grown
  <2>3. QED
    BY <2>1, <2>2 DEF PacketRight
<1>3. ASSUME NEW p, Step(FrontEnd), Sends(p) PROVE PacketRight(p)'
  <2>1. PICK k \in DOMAIN Script : k = Current(FrontEnd) /\ Op(FrontEnd) = Script[k]
    BY <1>1, <1>3, CurrentCall, Tree DEF Sends
  <2>2. CASE FrontEndStart /\ p = Packet(AskTag(Op(FrontEnd)), TRUE, NotFilled)
    <3>1. Op(FrontEnd) \in Asking
      BY <2>2 DEF FrontEndStart, Asking
    <3>2. QED
      BY <2>2, <3>1 DEF PacketRight, Packet
  <2>3. ASSUME NEW ok, Return(FrontEnd, ok, p.val), ok \/ (p.tag = "bor" /\ p.val = NoBytes),
               p.start = FALSE, p.tag = Script[k],
               Script[k] \in Broadcast \cup Reduction \cup {"debug"}
        PROVE  PacketRight(p)'
    <3>1. AskTag(Script[k]) = Script[k]
      BY <2>3 DEF AskTag, Broadcast, Reduction, MapOp, IntOp
    <3>2. k <= Len(result'[FrontEnd]) /\ result'[FrontEnd][k] = [ok |-> ok, val |-> p.val]
      <4>1. /\ Len(result'[FrontEnd]) = Len(result[FrontEnd]) + 1
            /\ result'[FrontEnd][k] = [ok |-> ok, val |-> p.val]
        BY <1>1, <1>3, <2>1, <2>3, ReturnLeaves DEF Sends
      <4>2. QED
        BY <1>1, <2>1, <4>1, CurrentCall DEF Current
    <3>3. QED
      BY <2>3, <3>1, <3>2 DEF PacketRight
  <2>4. QED
    BY <1>3, <2>1, <2>2, <2>3 DEF Sends
<1>4. QED
  BY <1>2, <1>3, PacketsFrom DEF PacketInv

IsStart(k, p) == p.start = TRUE /\ p.tag = AskTag(Script[k])
None(k, s) == \A i \in DOMAIN s : ~IsStart(k, s[i])
Once(k, s) == \A i, j \in DOMAIN s : IsStart(k, s[i]) /\ IsStart(k, s[j]) => i = j

StartOK(k, D) ==
  /\ D \subseteq Nodes \cup {FrontEnd}
  /\ D # {} => Past(FrontEnd, k)
  /\ \A n \in D \cap Nodes : Parent[n] \in D
  /\ \A n \in Nodes : /\ n \in D \/ Parent[n] \notin D => None(k, down[n])
                      /\ Once(k, down[n])
  /\ \A r \in BackEnd : pc[r] = "waiting" /\ Current(r) = k => r \in D

StartInv == \A k \in DOMAIN Script : \E D : StartOK(k, D)

LEMMA StartMore ==
  ASSUME NEW k, NEW s, IsSeq(s), NEW p
  PROVE  /\ None(k, s) => Once(k, Append(s, p))
         /\ ~IsStart(k, p) /\ None(k, s) => None(k, Append(s, p))
         /\ ~IsStart(k, p) /\ Once(k, s) => Once(k, Append(s, p))
<1>1. PICK n \in Nat : n = Len(s)
  BY SeqFacts
<1>2. PICK m : m = Append(s, p)
  OBVIOUS
<1>3. /\ DOMAIN s = 1 .. n /\ DOMAIN m = 1 .. n + 1 /\ m[n + 1] = p
      /\ \A i \in 1 .. n : m[i] = s[i]
  BY <1>1, <1>2, AppendFacts, SeqFacts
<1>4. \A i \in 1 .. n + 1 : i \in 1 .. n \/ i = n + 1
  OBVIOUS
<1>5. None(k, s) => \A i \in 1 .. n : ~IsStart(k, m[i])
  BY <1>3 DEF None
<1>6. None(k, s) => Once(k, m)
  BY <1>3, <1>4, <1>5 DEF Once
<1>7. ~IsStart(k, p) /\ None(k, s) => None(k, m)
  BY <1>3, <1>4, <1>5 DEF None
<1>8. ~IsStart(k, p) /\ Once(k, s) => Once(k, m)
  <2> SUFFICES ASSUME ~IsStart(k, p), Once(k, s),
                      NEW i \in 1 .. n + 1, NEW j \in 1 .. n + 1, IsStart(k, m[i]), IsStart(k, m[j])
               PROVE  i = j
    BY <1>3 DEF Once
  <2>1. i \in 1 .. n /\ j \in 1 .. n
    BY <1>3, <1>4
  <2>2. IsStart(k, s[i]) /\ IsStart(k, s[j])
    BY <1>3, <2>1
  <2>3. QED
    BY <1>3, <2>1, <2>2 DEF Once
<1>9. QED
  BY <1>2, <1>6, <1>7, <1>8

LEMMA StartRest ==
  ASSUME NEW k, NEW s, IsSeq(s), s # <<>>
  PROVE  /\ None(k, s) => None(k, Tail(s)) /\ ~IsStart(k, Head(s))
         /\ Once(k, s) => Once(k, Tail(s))
         /\ Once(k, s) /\ IsStart(k, Head(s)) => None(k, Tail(s))
<1>1. PICK n \in Nat : n = Len(s)
  BY SeqFacts
<1>2. PICK m : m = Tail(s)
  OBVIOUS
<1>3. /\ DOMAIN s = 1 .. n /\ DOMAIN m = 1 .. n - 1 /\ Head(s) = s[1] /\ 1 \in DOMAIN s
      /\ \A i \in 1 .. n - 1 : m[i] = s[i + 1]
  BY <1>1, <1>2, TailFacts, SeqFacts
<1>4. \A i \in 1 .. n - 1 : i + 1 \in 1 .. n /\ i + 1 # 1
  OBVIOUS
<1>5. None(k, s) => None(k, m) /\ ~IsStart(k, Head(s))
  BY <1>3, <1>4 DEF None
<1>6. Once(k, s) => Once(k, m)
  <2> SUFFICES ASSUME Once(k, s), NEW i \in 1 .. n - 1, NEW j \in 1 .. n - 1,
                      IsStart(k, m[i]), IsStart(k, m[j])
               PROVE  i = j
    BY <1>3 DEF Once
  <2>1. IsStart(k, s[i + 1]) /\ IsStart(k, s[j + 1])
    BY <1>3
  <2>2. i + 1 = j + 1
    BY <1>3, <1>4, <2>1 DEF Once
  <2>3. QED
    BY <2>2
<1>7. Once(k, s) /\ IsStart(k, Head(s)) => None(k, m)
  <2> SUFFICES ASSUME Once(k, s), IsStart(k, Head(s)), NEW i \in 1 .. n - 1, IsStart(k, m[i])
               PROVE  FALSE
    BY <1>3 DEF None
  <2>1. IsStart(k, s[i + 1]) /\ IsStart(k, s[1])
    BY <1>3
  <2>2. i + 1 = 1
    BY <1>3, <1>4, <2>1 DEF Once
  <2>3. QED
    BY <2>2
<1>8. QED
  BY <1>2, <1>5, <1>6, <1>7

(* A step that takes and sends no request for call k.                      *)
LEMMA StartSame ==
  ASSUME NEW k, NEW D, StartOK(k, D), Past(FrontEnd, k) => Past(FrontEnd, k)',
         \A n \in Nodes : /\ None(k, down[n]) => None(k, down'[n])
                          /\ Once(k, down[n]) => Once(k, down'[n]),
         \A r \in BackEnd : pc'[r] = "waiting" /\ Current(r)' = k =>
           r \in D \/ (pc[r] = "waiting" /\ Current(r) = k)
  PROVE  StartOK(k, D)'
<1>1. \A n \in Nodes : /\ None(k, down[n])' <=> None(k, down'[n])
                       /\ Once(k, down[n])' <=> Once(k, down'[n])
  BY DEF None, Once, IsStart
<1>2. QED
  BY <1>1 DEF StartOK

(* Node n takes the request for call k and gives it to its children.       *)
LEMMA StartTake ==
  ASSUME Shape, NEW k, NEW D, StartOK(k, D), Past(FrontEnd, k) => Past(FrontEnd, k)',
         NEW n \in Nodes, down[n] # <<>>, IsStart(k, Head(down[n])),
         down'[n] = Tail(down[n]),
         \A c \in Nodes \ {n} :
           down'[c] = IF Parent[c] = n THEN Append(down[c], Head(down[n])) ELSE down[c],
         \A r \in BackEnd : pc'[r] = "waiting" /\ Current(r)' = k =>
           r = n \/ (pc[r] = "waiting" /\ Current(r) = k)
  PROVE  StartOK(k, D \cup {n})'
<1>1. \A c \in Nodes : IsSeq(down[c])
  BY DEF Shape, NodeShape
<1>2. n \notin D /\ Parent[n] \in D
  BY <1>1, StartRest DEF StartOK
<1>3. \A c \in Nodes : Parent[c] = n => c \notin D /\ c # n
  BY <1>2, NotOwnParent DEF StartOK
<1>4. None(k, down'[n]) /\ Once(k, down'[n])
  <2>1. None(k, down'[n])
    BY <1>1, StartRest DEF StartOK
  <2>2. QED
    BY <2>1 DEF None, Once
<1>5. ASSUME NEW c \in Nodes \ {n}
      PROVE  /\ c \in D \cup {n} \/ Parent[c] \notin D \cup {n} => None(k, down'[c])
             /\ Once(k, down'[c])
  <2>1. CASE Parent[c] = n
    <3>1. None(k, down[c])
      BY <1>2, <2>1 DEF StartOK
    <3>2. Once(k, down'[c])
      BY <1>1, <2>1, <3>1, StartMore
    <3>3. QED
      BY <1>3, <2>1, <3>2
  <2>2. CASE Parent[c] # n
    BY <2>2 DEF StartOK
  <2>3. QED
    BY <2>1, <2>2
<1>6. \A c \in Nodes : /\ None(k, down[c])' <=> None(k, down'[c])
                       /\ Once(k, down[c])' <=> Once(k, down'[c])
  BY DEF None, Once, IsStart
<1>7. D \cup {n} \subseteq Nodes \cup {FrontEnd} /\ Past(FrontEnd, k)'
      /\ \A c \in (D \cup {n}) \cap Nodes : Parent[c] \in D \cup {n}
  BY <1>2 DEF StartOK
<1>8. \A r \in BackEnd : pc'[r] = "waiting" /\ Current(r)' = k => r \in D \cup {n}
  BY DEF StartOK
<1>9. QED
  BY <1>4, <1>5, <1>6, <1>7, <1>8 DEF StartOK

(* A back end that waits stays in its call or returns from it, another     *)
(* that begins to wait has been asked.                                     *)
LEMMA StillWaiting ==
  ASSUME Shape, NEW q \in Rank, Step(q), NEW r \in BackEnd, r # q \/ pc'[q] # "waiting",
         NEW k, pc'[r] = "waiting", Current(r)' = k
  PROVE  pc[r] = "waiting" /\ Current(r) = k
<1>1. r # q /\ r \in Rank
  BY DEF Rank
<1>2. QED
  BY <1>1, StepMoves DEF Moves, Current

LEMMA StartFrontEnd ==
  ASSUME NoTwoAlike, Shape, StartInv, Step(FrontEnd), NEW k \in DOMAIN Script
  PROVE  \E D : StartOK(k, D)'
<1>1. PICK D : StartOK(k, D)
  BY DEF StartInv
<1>2. FrontEnd \in Rank /\ FrontEnd \notin BackEnd /\ FrontEnd \notin Nodes /\ k \in Nat /\ [Next]_vars
  BY Tree DEF Next
<1>3. Past(FrontEnd, k) => Past(FrontEnd, k)'
  BY <1>2, PastKept
<1>4. \A r \in BackEnd : pc'[r] = "waiting" /\ Current(r)' = k => pc[r] = "waiting" /\ Current(r) = k
  BY <1>2, StillWaiting
<1>5. \A c \in Nodes : IsSeq(down[c])
  BY DEF Shape, NodeShape
<1>6. CASE UNCHANGED down
  BY <1>1, <1>3, <1>4, <1>6, StartSame
<1>7. ASSUME NEW p, Sends(p), p.tag \in Operation, down' = ToChildren(FrontEnd, p)
      PROVE  \E E : StartOK(k, E)'
  <2>1. \A c \in Nodes : down'[c] = IF Parent[c] = FrontEnd THEN Append(down[c], p) ELSE down[c]
    <3>1. \A c \in Nodes :
             /\ Parent[c] = FrontEnd => down'[c] = Append(down[c], p)
             /\ Parent[c] # FrontEnd => down'[c] = down[c]
      BY <1>7, SentDown
    <3>2. QED
      BY <3>1
  <2>2. CASE ~IsStart(k, p)
    <3>1. \A n \in Nodes : /\ None(k, down[n]) => None(k, down'[n])
                           /\ Once(k, down[n]) => Once(k, down'[n])
      BY <1>5, <2>1, <2>2, StartMore
    <3>2. QED
      BY <1>1, <1>3, <1>4, <3>1, StartSame
  <2>3. CASE IsStart(k, p)
    <3>1. FrontEndStart /\ p.tag = AskTag(Op(FrontEnd))
      BY <1>7, <2>3 DEF Sends, IsStart, Packet
    <3>2. pc[FrontEnd] = "called" /\ pc'[FrontEnd] = "waiting" /\ result' = result
      BY <1>2, <3>1 DEF FrontEndStart, Shape
    <3>3. Current(FrontEnd) = k
      BY <1>2, <2>3, <3>1, <3>2, CurrentCall, Tree DEF NoTwoAlike, IsStart
    <3>4. ~Past(FrontEnd, k) /\ Past(FrontEnd, k)'
      <4>1. Len(result[FrontEnd]) \in Nat /\ Len(result[FrontEnd]) + 1 = k
        BY <1>2, <3>3, CurrentCall DEF Current
      <4>2. QED
        BY <3>2, <4>1 DEF Past, Current
    <3>5. D = {}
      BY <1>1, <3>4 DEF StartOK
    <3>6. \A c \in Nodes : None(k, down[c])
      BY <1>1, <3>5 DEF StartOK
    <3>7. \A c \in Nodes : Parent[c] # FrontEnd => None(k, down'[c])
      BY <2>1, <3>6
    <3>8. \A c \in Nodes : Once(k, down'[c])
      <4>1. \A c \in Nodes : None(k, down[c]) => Once(k, down[c])
        BY DEF None, Once
      <4>2. QED
        BY <1>5, <2>1, <3>6, <4>1, StartMore
    <3>9. \A c \in Nodes : /\ None(k, down[c])' <=> None(k, down'[c])
                           /\ Once(k, down[c])' <=> Once(k, down'[c])
      BY DEF None, Once, IsStart
    <3>10. \A r \in BackEnd : ~(pc'[r] = "waiting" /\ Current(r)' = k)
      BY <1>1, <1>4, <3>5 DEF StartOK
    <3>11. StartOK(k, {FrontEnd})'
      BY <1>2, <3>4, <3>7, <3>8, <3>9, <3>10 DEF StartOK
    <3>12. QED
      BY <3>11
  <2>4. QED
    BY <2>2, <2>3
<1>8. QED
  BY <1>6, <1>7, FrontEndSends

(* What a back end in a call takes for the request of it is one.           *)
LEMMA RequestIsStart ==
  ASSUME NoTwoAlike, Shape, PacketInv, StaleInv, NEW r \in BackEnd, pc[r] = "called",
         Op(r) \in Asking, down[r] # <<>>, Head(down[r]).tag = AskTag(Op(r))
  PROVE  IsStart(Current(r), Head(down[r]))
<1>1. r \in Rank /\ r \in Nodes /\ FrontEnd \in Rank
  BY Tree DEF Rank
<1>2. PICK k \in DOMAIN Script : k = Current(r) /\ Op(r) = Script[k]
  BY <1>1, CurrentCall, Tree
<1>3. Head(down[r]) = down[r][1] /\ 1 \in DOMAIN down[r]
  BY <1>1, TailFacts DEF Shape, NodeShape
<1>4. PacketRight(Head(down[r]))
  BY <1>1, <1>3 DEF PacketInv
<1>5. Current(FrontEnd) = k
  BY <1>2, StaleAsked DEF AskedOK
<1>6. ~(k <= Len(result[FrontEnd]))
  <2>1. Len(result[FrontEnd]) \in Nat /\ k = Len(result[FrontEnd]) + 1
    BY <1>1, <1>5, CurrentCall DEF Current
  <2>2. QED
    BY <2>1
<1>7. QED
  BY <1>2, <1>4, <1>6 DEF PacketRight, NoTwoAlike, IsStart

LEMMA StartBackEnd ==
  ASSUME NoTwoAlike, Shape, PacketInv, StaleInv, StartInv, NEW r \in BackEnd, Step(r),
         NEW k \in DOMAIN Script
  PROVE  \E D : StartOK(k, D)'
<1>1. PICK D : StartOK(k, D)
  BY DEF StartInv
<1>2. r \in Rank /\ r \in Nodes /\ FrontEnd \in Rank /\ r # FrontEnd /\ k \in Nat /\ [Next]_vars
  BY Tree DEF Next, Rank
<1>3. Past(FrontEnd, k) => Past(FrontEnd, k)'
  BY <1>2, PastKept
<1>4. \A q \in BackEnd : pc'[q] = "waiting" /\ Current(q)' = k =>
        q = r \/ (pc[q] = "waiting" /\ Current(q) = k)
  BY <1>2, StillWaiting
<1>5. pc'[r] # "waiting" =>
        \A q \in BackEnd : pc'[q] = "waiting" /\ Current(q)' = k => pc[q] = "waiting" /\ Current(q) = k
  BY <1>4
<1>6. CASE Call(r) \/ CallFails(r) \/ BackEndShutDown(r)
  <2>1. UNCHANGED down /\ pc'[r] # "waiting"
    BY <1>2, <1>6 DEF Call, CallFails, BackEndShutDown, Fail, Return, links, Shape
  <2>2. QED
    BY <1>1, <1>3, <1>5, <2>1, StartSame
<1>7. CASE BackEndBroadcast(r) \/ BackEndOperand(r) \/ BackEndResult(r)
  <2>1. down[r] # <<>> /\ down' = [down EXCEPT ![r] = Tail(@)]
    BY <1>7 DEF BackEndBroadcast, BackEndOperand, BackEndResult
  <2>2. down'[r] = Tail(down[r]) /\ \A c \in Nodes : c # r => down'[c] = down[c]
    BY <1>2, <2>1, TakenDown
  <2>3. \A c \in Nodes : Parent[c] # r
    BY <1>2, Tree
  <2>4. CASE IsStart(k, Head(down[r]))
    <3>1. StartOK(k, D \cup {r})'
      BY <1>1, <1>2, <1>3, <1>4, <2>1, <2>2, <2>3, <2>4, StartTake
    <3>2. QED
      BY <3>1
  <2>5. CASE ~IsStart(k, Head(down[r]))
    <3>1. \A n \in Nodes : /\ None(k, down[n]) => None(k, down'[n])
                           /\ Once(k, down[n]) => Once(k, down'[n])
      BY <1>2, <2>1, <2>2, StartRest DEF Shape, NodeShape
    <3>2. ~(pc'[r] = "waiting" /\ Current(r)' = k)
      <4>1. CASE BackEndBroadcast(r) \/ BackEndResult(r) \/ Fail(r)
        BY <1>2, <4>1 DEF BackEndBroadcast, BackEndResult, Fail, Return, Shape
      <4>2. CASE BackEndOperand(r) /\ ~Fail(r)
        <5>1. /\ pc[r] = "called" /\ Op(r) \in Asking /\ Head(down[r]).tag = AskTag(Op(r))
              /\ UNCHANGED result
          BY <4>2 DEF BackEndOperand, Asking
        <5>2. IsStart(Current(r), Head(down[r])) /\ Current(r)' = Current(r)
          BY <2>1, <5>1, RequestIsStart DEF Current
        <5>3. QED
          BY <2>5, <5>2
      <4>3. QED
        BY <1>7, <4>1, <4>2
    <3>3. StartOK(k, D)'
      BY <1>1, <1>3, <1>4, <3>1, <3>2, StartSame
    <3>4. QED
      BY <3>3
  <2>6. QED
    BY <2>4, <2>5
<1>8. QED
  BY <1>2, <1>6, <1>7 DEF Step

LEMMA StartForward ==
  ASSUME Shape, StartInv, NEW n \in CommNode, Forward(n), NEW k \in DOMAIN Script
  PROVE  \E D : StartOK(k, D)'
<1>1. PICK D : StartOK(k, D)
  BY DEF StartInv
<1>2. n \in Nodes /\ UNCHANGED <<pc, result>>
  BY Tree DEF Forward, FilterDown, FilterUp
<1>3. /\ Past(FrontEnd, k) => Past(FrontEnd, k)'
      /\ \A r \in BackEnd : pc'[r] = "waiting" /\ Current(r)' = k => pc[r] = "waiting" /\ Current(r) = k
  BY <1>2 DEF Past, Current
<1>4. CASE FilterUp(n)
  BY <1>1, <1>3, <1>4, StartSame DEF FilterUp
<1>5. CASE FilterDown(n)
  <2>1. PICK p : p = Head(down[n])
    OBVIOUS
  <2>2. down[n] # <<>> /\ down' = [ToChildren(n, p) EXCEPT ![n] = Tail(down[n])]
    BY <1>5, <2>1 DEF FilterDown
  <2>3. \A c \in Nodes : IsSeq(down[c])
    BY DEF Shape, NodeShape
  <2>4. p.tag \in Operation
    <3>1. p = down[n][1] /\ 1 \in DOMAIN down[n]
      BY <1>2, <2>1, <2>2, <2>3, TailFacts
    <3>2. QED
      BY <1>2, <3>1 DEF Shape, NodeShape
  <2>5. PICK d : d = ToChildren(n, p)
    OBVIOUS
  <2>6. /\ d = [c \in Nodes |-> d[c]]
        /\ \A c \in Nodes : /\ Parent[c] = n => d[c] = Append(down[c], p)
                            /\ Parent[c] # n => d[c] = down[c]
    BY <2>4, <2>5, SentDown
  <2>7. /\ down'[n] = Tail(down[n])
        /\ \A c \in Nodes \ {n} :
             down'[c] = IF Parent[c] = n THEN Append(down[c], p) ELSE down[c]
    BY <1>2, <2>2, <2>5, <2>6
  <2>8. CASE IsStart(k, p)
    <3>1. StartOK(k, D \cup {n})'
      BY <1>1, <1>2, <1>3, <2>1, <2>2, <2>7, <2>8, StartTake
    <3>2. QED
      BY <3>1
  <2>9. CASE ~IsStart(k, p)
    <3>1. \A c \in Nodes : /\ None(k, down[c]) => None(k, down'[c])
                           /\ Once(k, down[c]) => Once(k, down'[c])
      BY <1>2, <2>2, <2>3, <2>7, <2>9, StartRest, StartMore
    <3>2. QED
      BY <1>1, <1>3, <3>1, StartSame
  <2>10. QED
    BY <2>8, <2>9
<1>6. QED
  BY <1>4, <1>5 DEF Forward

LEMMA StartStep ==
  ASSUME NoTwoAlike, Shape, PacketInv, StaleInv, StartInv, [Next]_vars
  PROVE  StartInv'
<1>1. ASSUME NEW k \in DOMAIN Script PROVE \E D : StartOK(k, D)'
  <2>1. CASE UNCHANGED vars
    <3>1. PICK D : StartOK(k, D)
      BY DEF StartInv
    <3>2. UNCHANGED <<down, pc, result>>
      BY <2>1 DEF vars, links
    <3>3. StartOK(k, D)'
      BY <3>1, <3>2, StartSame DEF Past, Current
    <3>4. QED
      BY <3>3
  <2>2. QED
    BY <2>1, StartFrontEnd, StartBackEnd, StartForward DEF Next, Rank
<1>2. QED
  BY <1>1 DEF StartInv

(* What a back end returns is the front end's, if it is successful.        *)
BackRight ==
  \A r \in BackEnd : \A k \in 1 .. Len(result[r]) : result[r][k].ok =>
    IF Script[k] = "finalize" THEN result[r][k].val = 0
    ELSE /\ k <= Len(result[FrontEnd]) /\ result[FrontEnd][k].ok
         /\ result[r][k].val = result[FrontEnd][k].val

(* A packet with the tag of the call r is in that does not ask for it.     *)
LEMMA ResultPacket ==
  ASSUME NoTwoAlike, Shape, PacketInv, NEW r \in BackEnd, down[r] # <<>>,
         NEW k \in DOMAIN Script, Head(down[r]).tag = Script[k], AskTag(Script[k]) = Script[k],
         Script[k] \in Broadcast \/ ~IsStart(k, Head(down[r]))
  PROVE  /\ k <= Len(result[FrontEnd]) /\ Head(down[r]).val = result[FrontEnd][k].val
         /\ result[FrontEnd][k].ok \/ (Script[k] = "bor" /\ Head(down[r]).val = NoBytes)
         /\ Head(down[r]).start = FALSE
<1>1. r \in Nodes
  BY Tree
<1>2. Head(down[r]) = down[r][1] /\ 1 \in DOMAIN down[r]
  BY <1>1, TailFacts DEF Shape, NodeShape
<1>3. PacketRight(Head(down[r]))
  BY <1>1, <1>2 DEF PacketInv
<1>4. \A op \in Asking : AskTag(op) \notin Broadcast
  BY DEF Asking, AskTag, Broadcast, Reduction, Session, MapOp, IntOp
<1>5. Head(down[r]).start = FALSE
  BY <1>3, <1>4 DEF PacketRight, IsStart
<1>6. QED
  BY <1>3, <1>5 DEF PacketRight, NoTwoAlike

LEMMA BackRightReturn ==
  ASSUME Shape, [Next]_vars, BackRight, NEW r \in BackEnd, Step(r), pc[r] # "idle",
         NEW ok, NEW val, Return(r, ok, val), NEW k, k = Current(r),
         ok => IF Script[k] = "finalize" THEN val = 0
               ELSE /\ k <= Len(result[FrontEnd]) /\ result[FrontEnd][k].ok
                    /\ val = result[FrontEnd][k].val
  PROVE  BackRight'
<1>1. r \in Rank /\ r # FrontEnd /\ FrontEnd \in Rank /\ BackEnd \subseteq Rank
  BY Tree DEF Rank
<1>2. PICK n \in Nat : n = Len(result[r]) /\ k = n + 1
  BY <1>1, CurrentCall DEF Current
<1>3. /\ Len(result'[r]) = n + 1 /\ result'[r][k] = [ok |-> ok, val |-> val]
      /\ \A j \in 1 .. n : result'[r][j] = result[r][j]
      /\ \A q \in Rank \ {r} : result'[q] = result[q]
  <2>1. /\ Len(result'[r]) = Len(result[r]) + 1
        /\ result'[r][Current(r)] = [ok |-> ok, val |-> val]
        /\ \A j \in 1 .. Len(result[r]) : result'[r][j] = result[r][j]
        /\ \A q \in Rank \ {r} : result'[q] = result[q]
    BY <1>1, ReturnLeaves
  <2>2. QED
    BY <1>2, <2>1
<1>4. ASSUME NEW q \in BackEnd, NEW j \in 1 .. Len(result'[q]), result'[q][j].ok
      PROVE  IF Script[j] = "finalize" THEN result'[q][j].val = 0
             ELSE /\ j <= Len(result[FrontEnd]) /\ result[FrontEnd][j].ok
                  /\ result'[q][j].val = result[FrontEnd][j].val
  <2>1. CASE q = r /\ j = k
    BY <1>3, <1>4, <2>1
  <2>2. CASE q = r /\ j # k
    <3>1. j \in 1 .. n
      BY <1>2, <1>3, <2>2
    <3>2. j \in 1 .. Len(result[r]) /\ result'[q][j] = result[r][j]
      BY <1>2, <1>3, <2>2, <3>1
    <3>3. QED
      BY <1>4, <3>2 DEF BackRight
  <2>3. CASE q # r
    BY <1>1, <1>3, <1>4, <2>3 DEF BackRight
  <2>4. QED
    BY <2>1, <2>2, <2>3
<1>5. result'[FrontEnd] = result[FrontEnd]
  BY <1>1, <1>3
<1>6. QED
  BY <1>4, <1>5 DEF BackRight

LEMMA BackRightStep ==
  ASSUME NoTwoAlike, Shape, PacketInv, StartInv, BackRight, [Next]_vars
  PROVE  BackRight'
<1>1. FrontEnd \in Rank /\ FrontEnd \notin BackEnd /\ BackEnd \subseteq Rank
  BY Tree DEF Rank
<1>2. Grown(result[FrontEnd], result'[FrontEnd])
  BY AlwaysGrows
<1>3. ASSUME \A r \in BackEnd : result'[r] = result[r] PROVE BackRight'
  <2>1. ASSUME NEW r \in BackEnd, NEW k \in 1 .. Len(result[r]), k <= Len(result[FrontEnd])
        PROVE  k <= Len(result'[FrontEnd]) /\ result'[FrontEnd][k] = result[FrontEnd][k]
    <3>1. Len(result[r]) \in Nat
      BY <1>1, CurrentCall
    <3>2. QED
      BY <1>2, <2>1, <3>1 DEF Grown
  <2>2. ASSUME NEW r \in BackEnd, NEW k \in 1 .. Len(result[r]), result[r][k].ok
        PROVE  IF Script[k] = "finalize" THEN result[r][k].val = 0
               ELSE /\ k <= Len(result'[FrontEnd]) /\ result'[FrontEnd][k].ok
                    /\ result[r][k].val = result'[FrontEnd][k].val
    <3>1. CASE Script[k] = "finalize"
      BY <2>2, <3>1 DEF BackRight
    <3>2. CASE Script[k] # "finalize"
      <4>1. /\ k <= Len(result[FrontEnd]) /\ result[FrontEnd][k].ok
            /\ result[r][k].val = result[FrontEnd][k].val
        BY <2>2, <3>2 DEF BackRight
      <4>2. QED
        BY <2>1, <3>2, <4>1
    <3>3. QED
      BY <3>1, <3>2
  <2>3. QED
    BY <1>3, <2>2 DEF BackRight
<1>4. CASE Step(FrontEnd)
  BY <1>1, <1>3, <1>4, StepMoves DEF Moves
<1>5. CASE UNCHANGED result
  BY <1>3, <1>5
<1>6. ASSUME NEW r \in BackEnd, Step(r) PROVE BackRight'
  <2>1. r \in Rank /\ r # FrontEnd
    BY <1>1
  <2>2. pc[r] # "idle" => Current(r) \in DOMAIN Script /\ Op(r) = Script[Current(r)]
    BY <2>1, CurrentCall, Tree
  <2>3. CASE UNCHANGED result
    BY <1>3, <2>3
  <2>4. CASE pc[r] # "idle" /\ Fail(r)
    BY <1>6, <2>4, BackRightReturn DEF Fail
  <2>5. CASE BackEndBroadcast(r) /\ ~Fail(r)
    <3>1. /\ pc[r] = "called" /\ Op(r) \in Broadcast /\ down[r] # <<>>
          /\ Head(down[r]).tag = Op(r) /\ Return(r, TRUE, Head(down[r]).val)
      BY <2>5 DEF BackEndBroadcast
    <3>2. AskTag(Op(r)) = Op(r) /\ Op(r) # "bor" /\ Op(r) # "finalize"
      BY <3>1 DEF AskTag, Broadcast
    <3>3. /\ Current(r) <= Len(result[FrontEnd]) /\ result[FrontEnd][Current(r)].ok
          /\ Head(down[r]).val = result[FrontEnd][Current(r)].val
      BY <2>2, <3>1, <3>2, ResultPacket
    <3>4. QED
      BY <1>6, <2>2, <3>1, <3>2, <3>3, BackRightReturn
  <2>6. CASE BackEndResult(r) /\ ~Fail(r)
    <3>1. /\ pc[r] = "waiting" /\ Op(r) # "finalize" /\ down[r] # <<>>
          /\ Head(down[r]).tag = Op(r) /\ Return(r, TRUE, Head(down[r]).val)
          /\ Op(r) = "bor" => FilterLength(Head(down[r])) = FilterBytes
      BY <2>6 DEF BackEndResult
    <3>2. AskTag(Op(r)) = Op(r)
      BY <3>1 DEF AskTag
    <3>3. ~IsStart(Current(r), Head(down[r]))
      <4>1. PICK D : StartOK(Current(r), D)
        BY <2>2, <3>1 DEF StartInv
      <4>2. r \in D /\ r \in Nodes
        BY <3>1, <4>1, Tree DEF StartOK
      <4>3. QED
        BY <3>1, <4>1, <4>2, StartRest DEF StartOK, Shape, NodeShape
    <3>4. /\ Current(r) <= Len(result[FrontEnd]) /\ Head(down[r]).start = FALSE
          /\ Head(down[r]).val = result[FrontEnd][Current(r)].val
          /\ \/ result[FrontEnd][Current(r)].ok
             \/ Op(r) = "bor" /\ Head(down[r]).val = NoBytes
      BY <2>2, <3>1, <3>2, <3>3, ResultPacket
    <3>5. result[FrontEnd][Current(r)].ok
      BY <3>1, <3>4, TreeAssumption DEF FilterLength
    <3>6. QED
      BY <1>6, <2>2, <3>1, <3>4, <3>5, BackRightReturn
  <2>7. CASE BackEndShutDown(r)
    <3>1. pc[r] = "waiting" /\ Op(r) = "finalize" /\ Return(r, TRUE, 0)
      BY <2>7 DEF BackEndShutDown
    <3>2. QED
      BY <1>6, <2>2, <3>1, BackRightReturn
  <2>8. QED
    BY <1>6, <2>1, <2>3, <2>4, <2>5, <2>6, <2>7
       DEF Step, Call, CallFails, BackEndBroadcast, BackEndOperand, BackEndResult
<1>7. QED
  BY <1>4, <1>5, <1>6 DEF Next, Forward, FilterDown, FilterUp, vars, Rank

LEMMA BackRightInit == Init => PacketInv /\ StartInv /\ BackRight
<1> SUFFICES ASSUME Init PROVE PacketInv /\ StartInv /\ BackRight
  OBVIOUS
<1>1. \A n \in Nodes : down[n] = <<>>
  BY DEF Init, Nodes
<1>2. DOMAIN <<>> = {}
  BY EmptyFacts, SeqFacts
<1>3. \A r \in Rank : Len(result[r]) = 0 /\ pc[r] = "idle"
  BY EmptyFacts DEF Init
<1>4. PacketInv
  BY <1>1, <1>2 DEF PacketInv
<1>5. \A k : StartOK(k, {})
  BY <1>1, <1>2, <1>3 DEF StartOK, None, Once, Rank
<1>6. QED
  BY <1>3, <1>4, <1>5 DEF StartInv, BackRight, Rank

LEMMA BackRightLossless ==
  ASSUME Shape, FrontResults, SameOK
  PROVE  BackRight
<1> SUFFICES ASSUME NEW r \in BackEnd, NEW k \in 1 .. Len(result[r]), result[r][k].ok
             PROVE  IF Script[k] = "finalize" THEN result[r][k].val = 0
                    ELSE /\ k <= Len(result[FrontEnd]) /\ result[FrontEnd][k].ok
                         /\ result[r][k].val = result[FrontEnd][k].val
  BY DEF BackRight
<1>1. Len(result[r]) \in Nat /\ Len(result[FrontEnd]) \in Nat
  BY CurrentCall, Tree DEF Rank
<1>2. Len(result[r]) <= Len(result[FrontEnd]) /\ result[r][k] = result[FrontEnd][k]
  BY DEF SameOK
<1>3. k \in 1 .. Len(result[FrontEnd]) /\ k <= Len(result[FrontEnd])
  BY <1>1, <1>2
<1>4. QED
  BY <1>2, <1>3 DEF FrontResults

-----------------------------------------------------------------------------
(* What the results mean to the callers.                                   *)

LEMMA SuccessIsFront ==
  ASSUME Shape, FrontRight, BackRight, NEW r \in Rank, NEW k \in Successful(r)
  PROVE  /\ k \in 1 .. Len(result[r]) /\ result[r][k].val \in Outcome(k, item)
         /\ Script[k] # "finalize" =>
              /\ k \in 1 .. Len(result[FrontEnd]) /\ result[FrontEnd][k].ok
              /\ result[r][k].val = result[FrontEnd][k].val
<1>1. k \in 1 .. Len(result[r]) /\ result[r][k].ok
  BY SeqFacts DEF Successful, Shape, RankShape
<1>2. Len(result[r]) \in Nat /\ Len(result[FrontEnd]) \in Nat
  BY CurrentCall, Tree
<1>3. CASE r = FrontEnd
  BY <1>1, <1>3 DEF FrontRight
<1>4. CASE r \in BackEnd /\ Script[k] = "finalize"
  BY <1>1, <1>4, SessionRight DEF BackRight, Session
<1>5. CASE r \in BackEnd /\ Script[k] # "finalize"
  <2>1. /\ k <= Len(result[FrontEnd]) /\ result[FrontEnd][k].ok
        /\ result[r][k].val = result[FrontEnd][k].val
    BY <1>1, <1>5 DEF BackRight
  <2>2. k \in 1 .. Len(result[FrontEnd])
    BY <1>1, <1>2, <2>1
  <2>3. QED
    BY <1>1, <2>1, <2>2 DEF FrontRight
<1>6. QED
  BY <1>3, <1>4, <1>5 DEF Rank

LEMMA RightFollows == Shape /\ FrontRight /\ BackRight => RightOrFalse
BY SuccessIsFront DEF RightOrFalse

LEMMA TableFollows == Shape /\ FrontRight /\ BackRight => ProctableComplete
<1> SUFFICES ASSUME Shape, FrontRight, BackRight, NEW r \in Rank, NEW k \in Successful(r),
                    Script[k] = "debug"
             PROVE  Range(proctable) = Rank /\ Len(proctable) = Cardinality(Rank)
  BY DEF ProctableComplete
<1>1. k \in 1 .. Len(result[FrontEnd]) /\ result[FrontEnd][k].ok
  BY SuccessIsFront
<1>2. QED
  BY <1>1 DEF FrontRight, IsListOf

(* The maps that name any holder of an item are those of all ranks.        *)
LEMMA OutcomeIsMap ==
  ASSUME NEW m \in MapsOf(item)
  PROVE  IsMapOf(Rank, m)
<1> DEFINE items == {item[r] : r \in Rank}
           holders(u) == {r \in Rank : item[r] = u}
<1>1. PICK f \in [items -> Rank] :
        /\ \A u \in items : f[u] \in holders(u)
        /\ m = [u \in items |-> [first |-> f[u], count |-> Cardinality(holders(u))]]
  BY DEF MapsOf
<1>2. DOMAIN m = items
  BY <1>1
<1>3. \A u \in items : m[u] = [first |-> f[u], count |-> Cardinality(holders(u))]
  BY <1>1
<1>4. \A u \in items : m[u].first = f[u] /\ m[u].count = Cardinality(holders(u))
  <2> SUFFICES ASSUME NEW u \in items
               PROVE  m[u].first = f[u] /\ m[u].count = Cardinality(holders(u))
    OBVIOUS
  <2>1. m[u] = [first |-> f[u], count |-> Cardinality(holders(u))]
    BY <1>3
  <2>2. QED
    BY <2>1
<1>5. m = [u \in items |-> [first |-> m[u].first, count |-> m[u].count]]
  BY <1>1, <1>4
<1>6. \A u \in items : m[u].first \in Rank /\ item[m[u].first] = u
  BY <1>1, <1>4
<1>7. QED
  BY <1>2, <1>4, <1>5, <1>6 DEF IsMapOf

(* Each key of a map has the number of those that it is the item of, the   *)
(* first rank being one of them.  U are the items as each rank sees them.  *)
Counts(U, v) ==
  /\ U \in [Rank -> DOMAIN v]
  /\ \A u \in DOMAIN v : /\ v[u].first \in Rank /\ U[v[u].first] = u
                         /\ v[u].count = Cardinality({q \in Rank : U[q] = u})

LEMMA PlainCounts ==
  ASSUME ItemsOK, NEW m \in MapsOf(item)
  PROVE  Counts([r \in Rank |-> item[r]], m)
<1>1. PICK U : U = [r \in Rank |-> item[r]]
  OBVIOUS
<1>2. /\ DOMAIN m = {item[r] : r \in Rank}
      /\ \A u \in DOMAIN m : /\ m[u].first \in Rank /\ item[m[u].first] = u
                             /\ m[u].count = Cardinality({r \in Rank : item[r] = u})
  BY OutcomeIsMap DEF IsMapOf
<1>3. U \in [Rank -> DOMAIN m] /\ \A r \in Rank : U[r] = item[r]
  BY <1>1, <1>2
<1>4. \A u : {q \in Rank : U[q] = u} = {r \in Rank : item[r] = u}
  BY <1>3
<1>5. \A u \in DOMAIN m : /\ m[u].first \in Rank /\ U[m[u].first] = u
                         /\ m[u].count = Cardinality({q \in Rank : U[q] = u})
  BY <1>2, <1>3, <1>4
<1>6. Counts(U, m)
  BY <1>3, <1>5 DEF Counts
<1>7. QED
  BY <1>1, <1>6

LEMMA EliminatedCounts ==
  ASSUME ItemsOK, NEW m \in MapsOf(item), NEW v, v = EliminateUriAlias(m)
  PROVE  Counts([r \in Rank |-> AdjustUri(item[r], v)], v)
<1>1. /\ DOMAIN m = {item[r] : r \in Rank}
      /\ \A u \in DOMAIN m : /\ m[u].first \in Rank /\ item[m[u].first] = u
                             /\ m[u].count = Cardinality({r \in Rank : item[r] = u})
  BY OutcomeIsMap DEF IsMapOf
<1>2. CASE ~AliasDetected(m)
  <2>1. v = m
    BY <1>2 DEF EliminateUriAlias
  <2>2. \A r \in Rank : AdjustUri(item[r], v) = item[r]
    BY <1>1, <2>1 DEF AdjustUri
  <2>3. [r \in Rank |-> AdjustUri(item[r], v)] = [r \in Rank |-> item[r]]
    BY <2>2
  <2>4. QED
    BY <2>1, <2>3, PlainCounts
<1>3. CASE AliasDetected(m)
  <2>1. PICK s, e : s = Survivor(m) /\ e = Erased(m)
    OBVIOUS
  <2>2. DOMAIN m \subseteq Uri
    BY <1>1, RankFacts
  <2>3. s \in DOMAIN m /\ e \in DOMAIN m /\ s # e /\ DOMAIN m = {s, e}
    BY <1>3, <2>1, <2>2, TwoKeys DEF AliasDetected
  <2>4. v = [u \in {s} |-> [first |-> m[u].first, count |-> m[u].count + m[e].count]]
    BY <1>3, <2>1 DEF EliminateUriAlias
  <2>5. DOMAIN v = {s} /\ v[s].first = m[s].first /\ v[s].count = m[s].count + m[e].count
    BY <2>4
  <2>6. Cardinality(DOMAIN v) = 1
    BY <2>5, FS_Singleton
  <2>7. \A r \in Rank : AdjustUri(item[r], v) = s
    BY <2>5, <2>6 DEF AdjustUri
  <2>8. PICK U : U = [r \in Rank |-> AdjustUri(item[r], v)]
    OBVIOUS
  <2>9. U \in [Rank -> {s}] /\ \A r \in Rank : U[r] = s
    BY <2>7, <2>8
  <2>10. v[s].count = Cardinality(Rank)
    <3> DEFINE S == {r \in Rank : item[r] = s}
               E == {r \in Rank : item[r] = e}
    <3>1. S \cap E = {} /\ S \cup E = Rank
      BY <1>1, <2>3
    <3>2. IsFiniteSet(S) /\ IsFiniteSet(E)
      BY RankFacts
    <3>3. m[s].count = Cardinality(S) /\ m[e].count = Cardinality(E)
      BY <1>1, <2>3
    <3> HIDE DEF S, E
    <3>4. Cardinality(Rank) = Cardinality(S) + Cardinality(E)
      BY <3>1, <3>2, CardinalityApart
    <3>5. QED
      BY <2>5, <3>3, <3>4
  <2>11. {q \in Rank : U[q] = s} = Rank
    BY <2>9
  <2>12. Counts(U, v)
    BY <1>1, <2>3, <2>5, <2>9, <2>10, <2>11 DEF Counts
  <2>13. QED
    BY <2>8, <2>12
<1>4. QED
  BY <1>2, <1>3

(* Who has the same first rank is of the same item.                        *)
Derived(info, U, v) == \A q \in Rank : info[q] = SetGroupInfo(NoGroupInfo, q, U[q], v)

GroupOf(info, r, mine, reps) ==
  /\ mine = {q \in Rank : info[q].groupId = info[r].groupId}
  /\ reps = {q \in mine : IsRep(info[q])}

LEMMA CountsGroup ==
  ASSUME ItemsOK, NEW v, NEW U, Counts(U, v), NEW info, Derived(info, U, v), NEW r \in Rank,
         NEW mine, NEW reps, GroupOf(info, r, mine, reps)
  PROVE  /\ IsGroupingDone(info[r]) /\ Cardinality(reps) = 1
         /\ info[r].groupSize = Cardinality(mine)
<1> DEFINE key(q) == v[U[q]].first
<1>1. ASSUME NEW q \in Rank
      PROVE  /\ info[q].groupId = key(q) /\ info[q].repInGroup = key(q)
             /\ info[q].rankInGroup = q /\ info[q].groupSize = v[U[q]].count
  <2>1. U[q] \in DOMAIN v
    BY DEF Counts
  <2>2. info[q] = [numOfGroups |-> Cardinality(DOMAIN v), groupId |-> key(q),
                   rankInGroup |-> q, groupSize |-> v[U[q]].count, repInGroup |-> key(q)]
    BY <2>1, FirstGroupInfo DEF Derived
  <2> HIDE DEF key
  <2>3. QED
    BY <2>2
<1>2. ASSUME NEW q \in Rank
      PROVE  /\ key(q) \in Rank /\ U[key(q)] = U[q]
             /\ v[U[q]].count = Cardinality({p \in Rank : U[p] = U[q]})
  <2>1. U[q] \in DOMAIN v
    BY DEF Counts
  <2>2. QED
    BY <2>1 DEF Counts
<1>3. \A p, q \in Rank : key(p) = key(q) <=> U[p] = U[q]
  BY <1>2
<1> HIDE DEF key
<1>4. \A q \in Rank : IsGroupingDone(info[q])
  <2> SUFFICES ASSUME NEW q \in Rank PROVE IsGroupingDone(info[q])
    OBVIOUS
  <2>1. info[q].groupId = key(q) /\ key(q) \in Nat
    BY <1>1, <1>2, RankFacts
  <2>2. QED
    BY <2>1 DEF IsGroupingDone, NotFilled
<1>5. mine = {q \in Rank : U[q] = U[r]}
  <2>1. \A q \in Rank : info[q].groupId = info[r].groupId <=> U[q] = U[r]
    BY <1>1, <1>3
  <2>2. QED
    BY <2>1 DEF GroupOf
<1>6. reps = {key(r)}
  <2>1. key(r) \in mine
    BY <1>2, <1>5
  <2>2. ASSUME NEW q \in mine PROVE IsRep(info[q]) <=> q = key(r)
    <3>1. q \in Rank /\ key(q) = key(r)
      BY <1>3, <1>5
    <3>2. info[q].rankInGroup = q /\ info[q].repInGroup = key(r) /\ IsGroupingDone(info[q])
      BY <1>1, <1>4, <3>1
    <3>3. QED
      BY <3>2 DEF IsRep
  <2>3. QED
    BY <2>1, <2>2 DEF GroupOf
<1>7. Cardinality({key(r)}) = 1
  BY FS_Singleton
<1>8. info[r].groupSize = Cardinality(mine)
  BY <1>1, <1>2, <1>5
<1>9. QED
  BY <1>4, <1>6, <1>7, <1>8

LEMMA GroupsFollow == Shape /\ FrontRight /\ BackRight => GroupsRight
<1> SUFFICES ASSUME Shape, FrontRight, BackRight,
                    NEW k \in 1 .. Len(Script), Script[k] \in MapOp,
                    \A r \in Rank : k \in Successful(r), NEW r \in Rank
             PROVE  LET mine == {q \in Rank : InfoOf(q, k).groupId = InfoOf(r, k).groupId}
                    IN  /\ IsGroupingDone(InfoOf(r, k))
                        /\ Cardinality({q \in mine : IsRep(InfoOf(q, k))}) = 1
                        /\ InfoOf(r, k).groupSize = Cardinality(mine)
  BY DEF GroupsRight
<1>1. ItemsOK
  BY DEF Shape, ItemsOK
<1>2. Script[k] # "finalize"
  BY DEF MapOp
<1>3. PICK v : v = result[FrontEnd][k].val
  OBVIOUS
<1>4. v \in Outcome(k, item) /\ \A q \in Rank : result[q][k].val = v
  BY <1>2, <1>3, SuccessIsFront, Tree
<1>5. PICK U : /\ Counts(U, v)
               /\ \A q \in Rank :
                    U[q] = IF Script[k] = "mapElim" THEN AdjustUri(item[q], v) ELSE item[q]
  <2>1. CASE Script[k] = "map"
    <3>1. v \in MapsOf(item)
      BY <1>4, <2>1 DEF Outcome, Session
    <3>2. QED
      BY <1>1, <2>1, <3>1, PlainCounts
  <2>2. CASE Script[k] = "mapElim"
    <3>1. PICK m \in MapsOf(item) : v = EliminateUriAlias(m)
      BY <1>4, <2>2 DEF Outcome, Session
    <3>2. PICK U : U = [q \in Rank |-> AdjustUri(item[q], v)]
      OBVIOUS
    <3>3. Counts(U, v)
      BY <1>1, <3>1, <3>2, EliminatedCounts
    <3>4. \A q \in Rank : U[q] = AdjustUri(item[q], v)
      BY <3>2
    <3>5. QED
      BY <2>2, <3>3, <3>4
  <2>3. QED
    BY <2>1, <2>2 DEF MapOp
<1>6. PICK info : info = [q \in Rank |-> InfoOf(q, k)]
  OBVIOUS
<1>7. \A q \in Rank : info[q] = InfoOf(q, k)
  BY <1>6
<1>8. Derived(info, U, v)
  BY <1>4, <1>5, <1>7 DEF InfoOf, Derived
<1>9. PICK mine, reps : GroupOf(info, r, mine, reps)
  BY DEF GroupOf
<1>10. /\ IsGroupingDone(info[r]) /\ Cardinality(reps) = 1
       /\ info[r].groupSize = Cardinality(mine)
  BY <1>1, <1>5, <1>8, <1>9, CountsGroup
<1>11. /\ mine = {q \in Rank : InfoOf(q, k).groupId = InfoOf(r, k).groupId}
       /\ reps = {q \in mine : IsRep(InfoOf(q, k))}
  BY <1>7, <1>9 DEF GroupOf
<1>12. QED
  BY <1>7, <1>10, <1>11

-----------------------------------------------------------------------------
(* The theorems.                                                           *)

(* Either nothing fails before it has sent or taken its packet, or the     *)
(* program's calls are told apart by their tags.                           *)
ToldApart == NothingFails \/ NoTwoAlike

LEMMA UpAlways ==
  ASSUME ToldApart
  PROVE  Spec => [](Shape /\ UpInv)
<1>1. CASE NothingFails
  BY <1>1, LosslessAlways, PTL
<1>2. CASE NoTwoAlike
  BY <1>2, StaleAlways, PTL
<1>3. QED
  BY <1>1, <1>2 DEF ToldApart

LEMMA ValuesAlways ==
  ASSUME ToldApart
  PROVE  Spec => [](Shape /\ FrontRight /\ BackRight)
<1>1. CASE NothingFails
  <2>1. Shape /\ DownInv /\ FrontResults /\ AmountsInv /\ [Next]_vars => AmountsInv'
    BY LosslessAsked, AmountsStep
  <2>2. Shape /\ FrontResults /\ SameOK => BackRight
    BY BackRightLossless
  <2>3. QED
    BY <1>1, <2>1, <2>2, LosslessAlways, AmountsInit, FrontRightInit, FrontRightStep, PTL DEF Spec
<1>2. CASE NoTwoAlike
  <2>1. Shape /\ StaleInv /\ AmountsInv /\ [Next]_vars => AmountsInv'
    BY StaleAsked, AmountsStep
  <2>2. Shape /\ StaleInv /\ PacketInv /\ StartInv /\ BackRight /\ [Next]_vars
          => (PacketInv /\ StartInv /\ BackRight)'
    BY <1>2, PacketStep, StartStep, BackRightStep
  <2>3. QED
    BY <1>2, <2>1, <2>2, StaleAlways, AmountsInit, FrontRightInit, FrontRightStep, BackRightInit,
       PTL DEF Spec
<1>3. QED
  BY <1>1, <1>2 DEF ToldApart

(* The links hold at most one operand up and two packets a call down, with *)
(* the tag of an operation each; no process makes a call more than the     *)
(* program has (MRNetCommFabric.C:145-646).                                *)
THEOREM TypeIsInvariant ==
  ASSUME ToldApart
  PROVE  Spec => []TypeOK
<1>1. Shape /\ CountInv /\ [Next]_vars => CountInv'
  BY CountStep
<1>2. Init => CountInv
  BY CountInit
<1>3. Shape /\ UpInv /\ CountInv => TypeOK
  BY TypesFollow
<1>4. QED
  BY <1>1, <1>2, <1>3, UpAlways, PTL DEF Spec

(* Every wave of operands that a filter merges belongs to one operation:   *)
(* FGFSFilterUp never skips a packet for its tag, also when calls have     *)
(* failed on some ranks and left their packets behind                      *)
(* (MRNetFilterUp.C:39-498).                                               *)
THEOREM OneTagAlways ==
  ASSUME ToldApart
  PROVE  Spec => []OneTagPerWave
BY UpAlways, UpOneTag, PTL

(* Where nothing fails every process has the front end's result of every   *)
(* call, whichever way the filters have merged, and a filter that the      *)
(* front end had no memory for fails on all (MRNetCommFabric.C:291-646).   *)
THEOREM SameResultAlways ==
  ASSUME NothingFails
  PROVE  Spec => []SameResult
<1>1. Shape /\ SameOK => SameResult
  <2> SUFFICES ASSUME Shape, SameOK, NEW r \in Rank, NEW q \in Rank,
                      NEW k \in DOMAIN result[r] \cap DOMAIN result[q]
               PROVE  result[r][k] = result[q][k]
    BY DEF SameResult
  <2>1. ASSUME NEW p \in Rank, k \in DOMAIN result[p] PROVE result[p][k] = result[FrontEnd][k]
    <3>1. k \in 1 .. Len(result[p])
      BY <2>1, SeqFacts DEF Shape, RankShape
    <3>2. QED
      BY <3>1 DEF SameOK, Rank
  <2>2. QED
    BY <2>1
<1>2. QED
  BY <1>1, LosslessAlways, PTL

(* A call that returns true returns what everybody's operands amount to,   *)
(* whatever has failed before and in whatever order the filters have       *)
(* merged: a packet left behind by a call that failed is never taken for   *)
(* the result of another (MRNetCommFabric.C:480-646).                      *)
THEOREM RightOrFalseAlways ==
  ASSUME ToldApart
  PROVE  Spec => []RightOrFalse
BY ValuesAlways, RightFollows, PTL

(* Every process in the table, once, before anyone gets past the           *)
(* debugger's stop (MRNetFilterUp.C:409-486, FgfsMRNetWrapper.C:97-131).   *)
THEOREM TableAlways ==
  ASSUME ToldApart
  PROVE  Spec => []ProctableComplete
BY ValuesAlways, TableFollows, PTL

(* A grouping that has succeeded everywhere has told every process its     *)
(* group, with one representative and the size it really has, also where   *)
(* two names of a server have been made one (MRNetCommFabric.C:291-446).   *)
THEOREM GroupsRightAlways ==
  ASSUME ToldApart
  PROVE  Spec => []GroupsRight
BY ValuesAlways, GroupsFollow, PTL
-----------------------------------------------------------------------------
(* The abstract specification.                                             *)

FrontEndRight ==
  \A k \in 1 .. Len(result[FrontEnd]) : result[FrontEnd][k].val \in Outcome(k, item)

Values(s) == [k \in DOMAIN s |-> s[k].val]
Entered(r) == Len(result[r]) + IF pc[r] = "idle" THEN 0 ELSE 1

LEMMA ValuesFacts ==
  ASSUME NEW s, IsSeq(s)
  PROVE  /\ IsSeq(Values(s)) /\ Len(Values(s)) = Len(s)
         /\ \A k \in 1 .. Len(s) : Values(s)[k] = s[k].val
<1>1. DOMAIN s = 1 .. Len(s) /\ Len(s) \in Nat
  BY SeqFacts
<1>2. PICK V : V = {s[k].val : k \in DOMAIN s}
  OBVIOUS
<1>3. Values(s) \in [1 .. Len(s) -> V]
  BY <1>1, <1>2 DEF Values
<1>4. Values(s) \in Seq(V) /\ Len(Values(s)) = Len(s)
  BY <1>1, <1>3
<1>5. QED
  BY <1>1, <1>4 DEF IsSeq, Values

LEMMA ValuesMore ==
  ASSUME NEW s, IsSeq(s), NEW m, IsSeq(m), Len(m) = Len(s) + 1,
         \A k \in 1 .. Len(s) : m[k] = s[k]
  PROVE  Values(m) = Append(Values(s), m[Len(s) + 1].val)
<1>1. PICK n \in Nat : n = Len(s)
  BY SeqFacts
<1>2. PICK v : v = Values(s)
  OBVIOUS
<1>3. PICK w : w = Append(v, m[n + 1].val)
  OBVIOUS
<1>4. /\ IsSeq(v) /\ Len(v) = n /\ \A k \in 1 .. n : v[k] = s[k].val
  BY <1>1, <1>2, ValuesFacts
<1>5. /\ IsSeq(w) /\ Len(w) = n + 1 /\ w[n + 1] = m[n + 1].val
      /\ \A k \in 1 .. n : w[k] = v[k]
  BY <1>3, <1>4, AppendFacts
<1>6. w = [k \in 1 .. n + 1 |-> w[k]]
  BY <1>5, SeqFacts
<1>7. DOMAIN m = 1 .. n + 1
  BY <1>1, SeqFacts
<1>8. \A k \in 1 .. n + 1 : w[k] = m[k].val
  <2>1. \A k \in 1 .. n + 1 : k \in 1 .. n \/ k = n + 1
    BY <1>1
  <2>2. QED
    BY <1>1, <1>4, <1>5, <2>1
<1>9. Values(m) = w
  BY <1>6, <1>7, <1>8 DEF Values
<1>10. QED
  BY <1>1, <1>2, <1>3, <1>9

LEMMA InitCollectives == Init => Abstract!Init
<1> SUFFICES ASSUME Init PROVE Abstract!Init
  OBVIOUS
<1>1. \A r \in Rank : result[r] = <<>> /\ pc[r] = "idle"
  BY DEF Init
<1>2. \A r \in Rank : Len(result[r]) + (IF pc[r] = "idle" THEN 0 ELSE 1) = 0
  <2> SUFFICES ASSUME NEW r \in Rank PROVE Len(result[r]) + (IF pc[r] = "idle" THEN 0 ELSE 1) = 0
    OBVIOUS
  <2>1. Len(result[r]) = 0
    BY <1>1, EmptyFacts
  <2>2. QED
    BY <1>1, <2>1
<1>3. \A r \in Rank : [k \in DOMAIN result[r] |-> result[r][k].val] = <<>>
  <2>1. IsSeq(<<>>) /\ IsSeq(Values(<<>>)) /\ Len(Values(<<>>)) = 0
    BY EmptyFacts, ValuesFacts
  <2>2. Values(<<>>) = <<>>
    <3>1. PICK v : v = Values(<<>>)
      OBVIOUS
    <3>2. QED
      BY <2>1, <3>1, SeqFacts
  <2>3. QED
    BY <1>1, <2>2 DEF Values
<1>4. QED
  BY <1>2, <1>3 DEF Abstract!Init

(* A step of a process is one of the abstract specification, or none.      *)
LEMMA StepCollectives ==
  ASSUME Shape, NEW r \in Rank, Step(r), Shape', FrontResults', SameOK', FrontEndRight'
  PROVE  [Abstract!Next]_Abstract!vars
<1> DEFINE ent == [q \in Rank |-> Len(result[q]) + IF pc[q] = "idle" THEN 0 ELSE 1]
           res == [q \in Rank |-> [k \in DOMAIN result[q] |-> result[q][k].val]]
           entN == [q \in Rank |-> Len(result'[q]) + IF pc'[q] = "idle" THEN 0 ELSE 1]
           resN == [q \in Rank |-> [k \in DOMAIN result'[q] |-> result'[q][k].val]]
<1>1. FrontEnd \in Rank /\ FrontEnd \notin BackEnd
  BY Tree
<1>2. UNCHANGED item
  BY DEF Step, Call, CallFails, FrontEndBroadcast, FrontEndStart, FrontEndReduce, FrontEndSpawned,
         FrontEndFinalize, BackEndBroadcast, BackEndOperand, BackEndResult, BackEndShutDown
<1>3. Moves(r)
  BY StepMoves
<1>4. \A q \in Rank \ {r} : pc'[q] = pc[q] /\ result'[q] = result[q]
  BY <1>3 DEF Moves
<1>5. PICK n \in Nat : n = Len(result[r])
  BY CurrentCall
<1>6. \A q \in Rank : IsSeq(result[q]) /\ IsSeq(result'[q])
  BY DEF Shape, RankShape
<1>7. \A q \in Rank : /\ res[q] = Values(result[q]) /\ resN[q] = Values(result'[q])
                      /\ Len(res[q]) = Len(result[q])
  <2>1. \A q \in Rank : res[q] = Values(result[q]) /\ resN[q] = Values(result'[q])
    BY DEF Values
  <2>2. QED
    BY <1>6, <2>1, ValuesFacts
<1>8. /\ ent[r] = n + (IF pc[r] = "idle" THEN 0 ELSE 1)
      /\ entN[r] = Len(result'[r]) + (IF pc'[r] = "idle" THEN 0 ELSE 1)
      /\ \A q \in Rank \ {r} : entN[q] = ent[q] /\ resN[q] = res[q]
  BY <1>4, <1>5
<1>9. /\ ent = [q \in Rank |-> ent[q]] /\ entN = [q \in Rank |-> entN[q]]
      /\ res = [q \in Rank |-> res[q]] /\ resN = [q \in Rank |-> resN[q]]
  OBVIOUS
<1>10. /\ Abstract!vars = <<item, ent, res>>
       /\ Abstract!vars' = <<item', entN, resN>>
       /\ Abstract!Enter(r) <=>
            /\ ent[r] = Len(res[r]) /\ ent[r] < Len(Script)
            /\ entN = [ent EXCEPT ![r] = @ + 1]
            /\ item' = item /\ resN = res
       /\ Abstract!Learn(r) <=>
            /\ r # FrontEnd /\ ent[r] = Len(res[r]) + 1 /\ Len(res[FrontEnd]) >= ent[r]
            /\ resN = [res EXCEPT ![r] = Append(@, res[FrontEnd][ent[r]])]
            /\ item' = item /\ entN = ent
       /\ Abstract!Decide <=>
            /\ ent[FrontEnd] = Len(res[FrontEnd]) + 1
            /\ Script[ent[FrontEnd]] \in Asking => \A p \in Rank : ent[p] >= ent[FrontEnd]
            /\ \E v \in Outcome(ent[FrontEnd], item) :
                 resN = [res EXCEPT ![FrontEnd] = Append(@, v)]
            /\ item' = item /\ entN = ent
  BY DEF Abstract!vars, Abstract!Enter, Abstract!Learn, Abstract!Decide, Abstract!Pending, Asking
<1> HIDE DEF ent, res, entN, resN
<1>11. CASE pc[r] = "idle" /\ pc'[r] = "called" /\ result'[r] = result[r]
  <2>1. ent[r] = n /\ entN[r] = n + 1 /\ resN[r] = res[r] /\ Len(res[r]) = n
    BY <1>5, <1>7, <1>8, <1>11
  <2>2. n < Len(Script)
    <3>1. n < Len(Script)
      BY <1>5, <1>11 DEF Shape, RankShape
    <3>2. QED
      BY <3>1
  <2>3. entN = [ent EXCEPT ![r] = @ + 1] /\ resN = res
    BY <1>8, <1>9, <2>1
  <2>4. Abstract!Enter(r)
    BY <1>2, <1>10, <2>1, <2>2, <2>3
  <2>5. QED
    BY <2>4 DEF Abstract!Next
<1>12. CASE pc[r] = "called" /\ pc'[r] = "waiting" /\ result'[r] = result[r]
  <2>1. entN[r] = ent[r] /\ resN[r] = res[r]
    BY <1>5, <1>7, <1>8, <1>12
  <2>2. entN = ent /\ resN = res
    BY <1>8, <1>9, <2>1
  <2>3. QED
    BY <1>2, <1>10, <2>2
<1>13. CASE pc[r] # "idle" /\ pc'[r] = "idle" /\ \E ok, val : Return(r, ok, val)
  <2>1. /\ Len(result'[r]) = n + 1 /\ \A k \in 1 .. n : result'[r][k] = result[r][k]
        /\ Current(r) = n + 1
    BY <1>5, <1>13, ReturnLeaves DEF Current
  <2>2. resN[r] = Append(res[r], result'[r][n + 1].val)
    BY <1>5, <1>6, <1>7, <2>1, ValuesMore
  <2>3. ent[r] = n + 1 /\ entN[r] = n + 1 /\ Len(res[r]) = n
    BY <1>5, <1>7, <1>8, <1>13, <2>1
  <2>4. entN = ent /\ resN = [res EXCEPT ![r] = Append(@, result'[r][n + 1].val)]
    BY <1>8, <1>9, <2>2, <2>3
  <2>5. n + 1 \in 1 .. Len(Script) /\ n + 1 \in 1 .. Len(result'[r])
    BY <1>13, <2>1, CurrentCall
  <2>6. CASE r = FrontEnd
    <3>1. result'[r][n + 1].val \in Outcome(n + 1, item)
      <4>1. result'[r][n + 1].val \in Outcome(n + 1, item)'
        BY <2>5, <2>6 DEF FrontEndRight
      <4>2. QED
        BY <1>2, <4>1
    <3>2. ASSUME Script[n + 1] \in Asking, NEW p \in Rank PROVE ent[p] >= n + 1
      <4>1. CASE p = FrontEnd
        BY <2>3, <2>6, <4>1
      <4>2. CASE p # FrontEnd
        <5>1. p \in BackEnd /\ Past(p, n + 1)'
          BY <2>5, <2>6, <3>2, <4>2 DEF FrontResults, Answered, Rank
        <5>2. Past(p, n + 1) /\ Len(result[p]) \in Nat
          BY <1>4, <2>6, <4>2, <5>1, CurrentCall DEF Past, Current
        <5>3. ent[p] = Len(result[p]) + (IF pc[p] = "idle" THEN 0 ELSE 1)
          BY DEF ent
        <5>4. PICK m \in Nat : m = Len(result[p])
          BY <5>2
        <5>5. m >= n + 1 \/ (pc[p] = "waiting" /\ m + 1 = n + 1)
          BY <5>2, <5>4 DEF Past, Current
        <5>6. (pc[p] = "idle" /\ ent[p] = m + 0) \/ (pc[p] # "idle" /\ ent[p] = m + 1)
          BY <5>3, <5>4
        <5>7. QED
          BY <5>4, <5>5, <5>6
      <4>3. QED
        BY <4>1, <4>2
    <3>3. Abstract!Decide
      BY <1>2, <1>10, <2>3, <2>4, <2>6, <3>1, <3>2
    <3>4. QED
      BY <3>3 DEF Abstract!Next
  <2>7. CASE r # FrontEnd
    <3>1. r \in BackEnd /\ FrontEnd \in Rank \ {r}
      BY <1>1, <2>7 DEF Rank
    <3>2. /\ n + 1 <= Len(result[FrontEnd]) /\ result'[r][n + 1] = result[FrontEnd][n + 1]
          /\ Len(result[FrontEnd]) \in Nat
      BY <1>1, <1>4, <2>1, <2>5, <3>1, CurrentCall DEF SameOK
    <3>3. res[FrontEnd][n + 1] = result'[r][n + 1].val /\ Len(res[FrontEnd]) = Len(result[FrontEnd])
      <4>1. n + 1 \in 1 .. Len(result[FrontEnd])
        BY <3>2
      <4>2. QED
        BY <1>1, <1>6, <1>7, <3>2, <4>1, ValuesFacts
    <3>4. Abstract!Learn(r)
      BY <1>2, <1>10, <2>3, <2>4, <2>7, <3>2, <3>3
    <3>5. QED
      BY <3>4 DEF Abstract!Next
  <2>8. QED
    BY <2>6, <2>7
<1>14. QED
  BY <1>3, <1>11, <1>12, <1>13 DEF Moves

LEMMA RestCollectives ==
  ASSUME UNCHANGED <<item, pc, result>>
  PROVE  UNCHANGED Abstract!vars
BY DEF Abstract!vars

(* Where nothing fails the tree is the abstract sequence of collectives:   *)
(* no reduction has a result before every process is in it, and all leave  *)
(* it with the front end's, which is what everybody's operands amount to   *)
(* (MRNetCommFabric.C:145-446).                                            *)
THEOREM CollectivesImplemented ==
  ASSUME NothingFails
  PROVE  Spec => ImplementsCollectives
<1>1. Init => Abstract!Init
  BY InitCollectives
<1>2. /\ Shape /\ [Next]_vars /\ Shape' /\ FrontResults' /\ SameOK' /\ FrontEndRight'
      => [Abstract!Next]_Abstract!vars
  BY StepCollectives, RestCollectives DEF Next, Forward, FilterDown, FilterUp, vars
<1>3. FrontRight => FrontEndRight
  BY DEF NothingFails, FrontRight, FrontEndRight
<1>4. ToldApart
  BY DEF ToldApart
<1>5. QED
  BY <1>1, <1>2, <1>3, <1>4, LosslessAlways, ValuesAlways, PTL
     DEF Spec, ImplementsCollectives, Abstract!Spec
=============================================================================
