------------------------- MODULE MPIMapReduce_proofs ------------------------
(***************************************************************************)
(* MPIMapReduce for every number of processes, every set of URIs and every *)
(* choice of aliases, buffering and failing allocations.                   *)
(***************************************************************************)
EXTENDS MPIMapReduce, DistDesc_lemmas

(* Rank 0 has no bit set, so it never sends (MPIReduction.h:72-88).        *)
LEMMA RootIsClear == ASSUME NEW m \in Nat \ {0} PROVE (0 \div m) % 2 = 0
<1>1. 0 \div m = 0
  BY SMT
<1>2. QED
  BY <1>1

(* A rank whose bit mask is set has a parent of lower rank.                *)
LEMMA ParentIsLower ==
  ASSUME NEW m \in Nat \ {0}, NEW r \in Nat, (r \div m) % 2 # 0
  PROVE  m <= r
<1>1. SUFFICES ASSUME r < m PROVE FALSE
  OBVIOUS
<1>2. r \div m = 0
  BY <1>1, SMT
<1>3. QED
  BY <1>2

(* The ranks are finitely many numbers, among them 0.                      *)
LEMMA RankFacts == /\ Rank \subseteq Nat
                   /\ IsFiniteSet(Rank)
                   /\ 0 \in Rank
BY CallAssumption, FS_Interval DEF Rank

-----------------------------------------------------------------------------
(* Type correctness, together with the shape of the tree, which the sends  *)
(* and receives need for their partners to be ranks.                       *)

TypeInv == TypeOK /\ TreeOK

(* The types hold of a job that has not started.                           *)
LEMMA TypeInit == Init => TypeInv
<1> SUFFICES ASSUME Init PROVE TypeInv
  OBVIOUS
<1>1. NoGroupInfo \in GroupInfo
  BY DEF NoGroupInfo, GroupInfo, FilledId
<1>2. TypeOK
  BY <1>1, EmptyMapType DEF Init, TypeOK, FilledId, NoSize, NoMap
<1>3. TreeOK
  BY DEF Init, TreeOK, At
<1>4. QED
  BY <1>2, <1>3 DEF TypeInv

(* No step of a rank breaks a type or sends to a process that is none.     *)
LEMMA TypeStep ==
  ASSUME TypeInv, NEW r \in Rank, Step(r)
  PROVE  TypeInv'
<1> USE DEF At, Goto, Widen
<1>1. TypeOK /\ TreeOK /\ r \in Nat /\ mask[r] \in Nat \ {0} /\ N \in Nat
  BY RankFacts, CallAssumption DEF TypeInv, TypeOK
<1>2. CASE Begin(r)
  <2>1. IsGroupingMap(Insert(map[r], items[r], r))
    BY <1>1, InsertType DEF TypeOK, InputOK
  <2>2. (IF Call = "grouping" THEN ItemOf(r) ELSE uri[r]) \in Uri \cup {NoUri}
    BY <1>1 DEF TypeOK, InputOK, ItemOf
  <2>3. TypeOK'
    BY <1>1, <1>2, <2>1, <2>2 DEF Begin, TypeOK, InputOK, wire
  <2>4. TreeOK'
    BY <1>1, <1>2 DEF Begin, TreeOK, TypeOK, Source, Destination
  <2>5. QED
    BY <2>3, <2>4 DEF TypeInv
<1>3. CASE NoSource(r)
  <2>1. TypeOK'
    BY <1>1, <1>3 DEF NoSource, TypeOK, InputOK, desc, wire
  <2>2. TreeOK'
    BY <1>1, <1>3 DEF NoSource, TreeOK, TypeOK, Source, Destination
  <2>3. QED
    BY <2>1, <2>2 DEF TypeInv
<1>4. CASE ReceiveSize(r)
  <2>1. Source(r) \in Rank
    BY <1>1, <1>4 DEF ReceiveSize, Source, Rank
  <2>2. TypeOK'
    BY <1>1, <1>4, <2>1 DEF ReceiveSize, TypeOK, InputOK, desc, FilledId, NoSize
  <2>3. TreeOK'
    BY <1>1, <1>4, <2>1 DEF ReceiveSize, TreeOK, TypeOK, Source, Destination
  <2>4. QED
    BY <2>2, <2>3 DEF TypeInv
<1>5. CASE ReceiveMap(r)
  <2>1. Source(r) \in Rank
    BY <1>1, <1>5 DEF ReceiveMap, TreeOK
  <2>2. IsGroupingMap(Unpack(map[r], mapMsg[Source(r)].body))
    BY <1>1, <2>1, UnpackType DEF TypeOK
  <2>3. IsGroupingMap(NoMap.body) /\ NoMap.dest = NotFilled
    BY EmptyMapType DEF NoMap
  <2>4. TypeOK'
    BY <1>1, <1>5, <2>1, <2>2, <2>3 DEF ReceiveMap, TypeOK, InputOK
  <2>5. TreeOK'
    BY <1>1, <1>5 DEF ReceiveMap, TreeOK, TypeOK, Source, Destination
  <2>6. QED
    BY <2>4, <2>5 DEF TypeInv
<1>6. CASE SendSize(r)
  <2>1. mask[r] <= r
    BY <1>1, <1>6, ParentIsLower DEF SendSize, Clear
  <2>2. r # 0
    BY <1>1, <2>1
  <2>3. Destination(r) \in Rank
    BY <1>1, <2>1 DEF Destination, Rank
  <2>4. PackedSize(map[r]) \in Nat
    BY <1>1, MapKeys DEF TypeOK
  <2>5. TypeOK'
    BY <1>1, <1>6, <2>3, <2>4 DEF SendSize, TypeOK, InputOK, desc
  <2>6. TreeOK'
    BY <1>1, <1>6, <2>2, <2>3 DEF SendSize, TreeOK, TypeOK, Source, Destination
  <2>7. QED
    BY <2>5, <2>6 DEF TypeInv
<1>7. CASE SendMap(r)
  <2>1. Destination(r) \in Rank
    BY <1>1, <1>7 DEF SendMap, TreeOK
  <2>2. TypeOK'
    BY <1>1, <1>7, <2>1 DEF SendMap, TypeOK, InputOK, desc
  <2>3. TreeOK'
    BY <1>1, <1>7 DEF SendMap, TreeOK, TypeOK, Source, Destination
  <2>4. QED
    BY <2>2, <2>3 DEF TypeInv
<1>8. CASE FinishReduce(r)
  <2>1. IsGroupingMap(Condensed(r))
    BY <1>1, EliminateType DEF Condensed, TypeOK
  <2>2. PackedSize(Condensed(r)) \in Nat
    BY <2>1, MapKeys
  <2>3. AdjustUri(uri[r], Condensed(r)) \in Uri \cup {NoUri}
    BY <1>1, <2>1, AdjustType DEF TypeOK
  <2>4. TypeOK'
    BY <1>1, <1>8, <2>1, <2>2, <2>3
       DEF FinishReduce, TypeOK, InputOK, FilledId
  <2>5. TreeOK'
    BY <1>1, <1>8 DEF FinishReduce, TreeOK, TypeOK, Source, Destination
  <2>6. QED
    BY <2>4, <2>5 DEF TypeInv
<1>9. CASE BcastSize(r)
  <2>1. TypeOK'
    BY <1>1, <1>9 DEF BcastSize, TypeOK, InputOK, desc, wire
  <2>2. TreeOK'
    BY <1>1, <1>9 DEF BcastSize, TreeOK, TypeOK, Source, Destination
  <2>3. QED
    BY <2>1, <2>2 DEF TypeInv
<1>10. CASE MallocFails(r)
  <2>1. TypeOK'
    BY <1>1, <1>10 DEF MallocFails, TypeOK, InputOK, desc, wire
  <2>2. TreeOK'
    BY <1>1, <1>10 DEF MallocFails, TreeOK, TypeOK, Source, Destination
  <2>3. QED
    BY <2>1, <2>2 DEF TypeInv
<1>11. CASE BcastMap(r)
  <2>1. IsGroupingMap(map[r]) /\ IsGroupingMap(Unpack(EmptyMap, bcastMap.body))
    BY <1>1, UnpackType, EmptyMapType DEF TypeOK
  <2>2. TypeOK'
    <3>1. CASE r = 0
      <4>1. bcastMap'.posted = TRUE /\ bcastMap'.body = map[r]
        BY <1>11, <3>1 DEF BcastMap
      <4>2. QED
        BY <1>1, <1>11, <2>1, <3>1, <4>1 DEF BcastMap, TypeOK, InputOK
    <3>2. CASE r # 0
      BY <1>1, <1>11, <2>1, <3>2 DEF BcastMap, TypeOK, InputOK
    <3>3. QED
      BY <3>1, <3>2
  <2>3. TreeOK'
    BY <1>1, <1>11 DEF BcastMap, TreeOK, TypeOK, Source, Destination
  <2>4. QED
    BY <2>2, <2>3 DEF TypeInv
<1>12. CASE Finish(r)
  <2>1. SetGroupInfo(info[r], r, uri[r], map[r]) \in GroupInfo
    BY <1>1, SetGroupInfoType DEF TypeOK
  <2>2. TypeOK'
    BY <1>1, <1>12, <2>1 DEF Finish, TypeOK, InputOK, wire
  <2>3. TreeOK'
    BY <1>1, <1>12 DEF Finish, TreeOK, TypeOK, Source, Destination
  <2>4. QED
    BY <2>2, <2>3 DEF TypeInv
<1>13. QED
  BY <1>2, <1>3, <1>4, <1>5, <1>6, <1>7, <1>8, <1>9, <1>10, <1>11, <1>12
     DEF Step

(* Nor does a step that changes nothing.                                   *)
LEMMA TypeStutter == TypeInv /\ UNCHANGED vars => TypeInv'
BY DEF TypeInv, TypeOK, TreeOK, InputOK, At, Source, Destination, vars, desc, wire

(* Every variable keeps its type, and every message goes to a rank.        *)
THEOREM TypeCorrect == Spec => [](TypeOK /\ TreeOK)
<1>1. TypeInv /\ [Next]_vars => TypeInv'
  BY TypeStep, TypeStutter DEF Next
<1>2. QED
  BY TypeInit, <1>1, PTL DEF Spec, TypeInv

-----------------------------------------------------------------------------
(* The map of the whole job.                                               *)

(* The holders in two disjoint sets of ranks.                              *)
LEMMA HoldersUnion ==
  ASSUME NEW lists, NEW u, NEW S \in SUBSET Rank, NEW T \in SUBSET Rank,
         S \cap T = {}
  PROVE  /\ Holders(lists, u, S \cup T) = Holders(lists, u, S) \cup Holders(lists, u, T)
         /\ Cardinality(Holders(lists, u, S)) \in Nat
         /\ Cardinality(Holders(lists, u, T)) \in Nat
         /\ Cardinality(Holders(lists, u, S \cup T)) =
              Cardinality(Holders(lists, u, S)) + Cardinality(Holders(lists, u, T))
         /\ Holders(lists, u, S) = {} => Cardinality(Holders(lists, u, S)) = 0
         /\ Holders(lists, u, T) = {} => Cardinality(Holders(lists, u, T)) = 0
<1> DEFINE A == Holders(lists, u, S)
           B == Holders(lists, u, T)
<1>1. A \subseteq Rank /\ B \subseteq Rank /\ A \cap B = {}
  BY DEF Holders
<1>2. Holders(lists, u, S \cup T) = A \cup B
  BY DEF Holders
<1>3. IsFiniteSet(A) /\ IsFiniteSet(B)
  BY <1>1, RankFacts, FS_Subset
<1>4. Cardinality(A) \in Nat /\ Cardinality(B) \in Nat
  BY <1>3, FS_CardinalityType
<1>5. Cardinality(A \cup B) = Cardinality(A) + Cardinality(B) - Cardinality(A \cap B)
  BY <1>3, FS_Union
<1>6. Cardinality(A \cap B) = 0
  BY <1>1, FS_EmptySet
<1>7. Cardinality(A \cup B) = Cardinality(A) + Cardinality(B)
  BY <1>4, <1>5, <1>6
<1>8. (A = {} => Cardinality(A) = 0) /\ (B = {} => Cardinality(B) = 0)
  BY FS_EmptySet
<1>9. QED
  BY <1>2, <1>4, <1>7, <1>8

(* Unpacking the map of a set of higher ranks into that of a set of lower  *)
(* ones gives the map of both sets (DistDesc.C:365-392).                   *)
LEMMA MergeExact ==
  ASSUME NEW lists, NEW S \in SUBSET Rank, NEW T \in SUBSET Rank,
         \A s \in S, t \in T : s < t,
         NEW a, IsGroupingMap(a), Exact(lists, a, S),
         NEW b, IsGroupingMap(b), Exact(lists, b, T)
  PROVE  Exact(lists, Unpack(a, b), S \cup T)
<1> DEFINE m == Unpack(a, b)
<1>1. S \cap T = {} /\ S \subseteq Nat /\ T \subseteq Nat
  BY RankFacts
<1>2. DOMAIN m = DOMAIN a \cup DOMAIN b
  BY DEF Unpack
<1>3. DOMAIN m = {u \in Uri : Holders(lists, u, S \cup T) # {}}
  BY <1>1, <1>2, HoldersUnion DEF Exact
<1>4. ASSUME NEW u \in DOMAIN m
      PROVE  /\ m[u].count = Cardinality(Holders(lists, u, S \cup T))
             /\ m[u].first \in Holders(lists, u, S \cup T)
             /\ \A q \in Holders(lists, u, S \cup T) : m[u].first <= q
  <2> DEFINE A == Holders(lists, u, S)
             B == Holders(lists, u, T)
  <2>1. A \subseteq S /\ B \subseteq T
    BY DEF Holders
  <2>2. Holders(lists, u, S \cup T) = A \cup B
    BY <1>1, HoldersUnion
  <2>3. u \in Uri
    BY <1>2 DEF IsGroupingMap
  <2>4. CASE u \notin DOMAIN b
    <3>1. m[u] = a[u] /\ u \in DOMAIN a
      BY <1>2, <2>4 DEF Unpack
    <3>2. B = {}
      BY <2>3, <2>4 DEF Exact
    <3>3. Holders(lists, u, S \cup T) = A
      BY <2>2, <3>2
    <3>4. QED
      BY <3>1, <3>3 DEF Exact
  <2>5. CASE u \in DOMAIN b /\ u \notin DOMAIN a
    <3>1. m[u] = b[u]
      BY <1>2, <2>5 DEF Unpack
    <3>2. A = {}
      BY <2>3, <2>5 DEF Exact
    <3>3. Holders(lists, u, S \cup T) = B
      BY <2>2, <3>2
    <3>4. QED
      BY <2>5, <3>1, <3>3 DEF Exact
  <2>6. CASE u \in DOMAIN b /\ u \in DOMAIN a
    <3>1. m[u].first = a[u].first /\ m[u].count = b[u].count + a[u].count
      BY <1>2, <2>6 DEF Unpack
    <3>2. /\ a[u].first \in A /\ a[u].count = Cardinality(A)
          /\ \A q \in A : a[u].first <= q
          /\ b[u].count = Cardinality(B)
      BY <2>6 DEF Exact
    <3>3. ASSUME NEW q \in B PROVE a[u].first <= q
      <4>1. a[u].first \in S /\ q \in T
        BY <2>1, <3>2
      <4>2. a[u].first < q /\ a[u].first \in Nat /\ q \in Nat
        BY <1>1, <4>1
      <4>3. QED
        BY <4>2
    <3>4. m[u].count = Cardinality(Holders(lists, u, S \cup T))
      BY <1>1, <3>1, <3>2, HoldersUnion
    <3>5. QED
      BY <2>2, <3>1, <3>2, <3>3, <3>4
  <2>7. QED
    BY <2>4, <2>5, <2>6
<1>5. QED
  BY <1>3, <1>4 DEF Exact

(* What a rank inserts describes the rank alone.                           *)
LEMMA InsertExact ==
  ASSUME NEW lists \in [Rank -> SUBSET Uri], NEW r \in Rank
  PROVE  Exact(lists, Insert(EmptyMap, lists[r], r), {r})
<1> DEFINE m == Insert(EmptyMap, lists[r], r)
<1>1. DOMAIN m = lists[r] /\ lists[r] \subseteq Uri
  BY DEF Insert, EmptyMap
<1>2. \A u \in Uri : Holders(lists, u, {r}) = IF u \in lists[r] THEN {r} ELSE {}
  BY DEF Holders
<1>3. \A u \in DOMAIN m : m[u] = [first |-> r, count |-> 1]
  BY <1>1 DEF Insert
<1>4. Cardinality({r}) = 1 /\ r \in Nat
  BY FS_Singleton, RankFacts
<1>5. QED
  BY <1>1, <1>2, <1>3, <1>4 DEF Exact

(* Only one map describes the whole job.                                   *)
LEMMA ExactIsReference ==
  ASSUME NEW lists, NEW m, IsGroupingMap(m), Exact(lists, m, Rank)
  PROVE  m = Reference(lists)
<1> DEFINE H(u) == Holders(lists, u, Rank)
           ref == Reference(lists)
<1>1. DOMAIN m = DOMAIN ref
  BY DEF Exact, Reference, MapOf
<1>2. ASSUME NEW u \in DOMAIN m PROVE m[u] = ref[u]
  <2>1. /\ m[u].first \in H(u) /\ \A q \in H(u) : m[u].first <= q
        /\ m[u].count = Cardinality(H(u))
    BY DEF Exact
  <2>2. H(u) \subseteq Nat
    BY RankFacts DEF Holders
  <2> DEFINE low == CHOOSE q \in H(u) : \A p \in H(u) : q <= p
  <2>3. low \in H(u) /\ \A p \in H(u) : low <= p
    BY <2>1
  <2>4. low = m[u].first
    BY <2>1, <2>2, <2>3
  <2>5. ref[u] = [first |-> low, count |-> Cardinality(H(u))]
    BY <1>1 DEF Reference, MapOf
  <2>6. m[u] \in ReduceDesc
    BY DEF IsGroupingMap
  <2>7. m[u] = [first |-> m[u].first, count |-> m[u].count]
    BY <2>6 DEF ReduceDesc
  <2>8. QED
    BY <2>1, <2>4, <2>5, <2>7
<1>3. m = [u \in DOMAIN m |-> m[u]] /\ ref = [u \in DOMAIN ref |-> ref[u]]
  BY DEF IsGroupingMap, Reference, MapOf
<1>4. QED
  BY <1>1, <1>2, <1>3

(* The ranks a rank gathers as its bit moves on.                           *)
LEMMA SpanFacts ==
  ASSUME NEW r \in Rank, NEW m \in Nat \ {0}
  PROVE  /\ Span(r, 1) = {r}
         /\ Span(r, m) \subseteq Rank
         /\ Span(r, 2 * m) = Span(r, m) \cup Span(r + m, m)
         /\ r + m >= N => Span(r, 2 * m) = Span(r, m)
         /\ m >= N => Span(0, m) = Rank
         /\ \A s \in Span(r, m), t \in Span(r + m, m) : s < t
BY CallAssumption DEF Span, Rank

-----------------------------------------------------------------------------
(* The inductive invariant.                                                *)

(* A job that has not started has gathered and sent nothing.               *)
LEMMA InvInit == Init => IInv
<1> SUFFICES ASSUME Init PROVE IInv
  OBVIOUS
<1>1. TypeOK /\ TreeOK
  BY TypeInit DEF TypeInv
<1>2. \A s \in Rank : pc[s] = "call" /\ mapMsg[s].dest = NotFilled
  BY DEF Init, NoMap
<1>3. GatheredOK /\ MessagesOK
  BY <1>2 DEF Init, GatheredOK, MessagesOK, At
<1>4. BroadcastOK /\ MapExact
  BY <1>2, RankFacts DEF Init, BroadcastOK, MapExact, At
<1>5. QED
  BY <1>1, <1>3, <1>4 DEF IInv

(* Each step of a rank keeps maps, messages and broadcast exact.           *)
LEMMA InvStep ==
  ASSUME IInv, NEW r \in Rank, Step(r)
  PROVE  IInv'
<1> USE DEF At, Goto, Widen
<1>1. /\ TypeOK /\ TreeOK /\ GatheredOK /\ MessagesOK /\ BroadcastOK /\ MapExact
      /\ r \in Nat /\ N \in Nat /\ mask[r] \in Nat \ {0}
      /\ 0 \in Rank
  BY RankFacts, CallAssumption DEF IInv, TypeOK
<1>2. TypeOK' /\ TreeOK'
  BY <1>1, TypeStep DEF TypeInv
<1>3. DOMAIN pc = Rank /\ DOMAIN mask = Rank /\ DOMAIN map = Rank
      /\ DOMAIN mapMsg = Rank /\ DOMAIN rc = Rank
  BY <1>1 DEF TypeOK
<1>4. CASE Begin(r)
  <2>1. mapMsg[r].dest = NotFilled
    BY <1>1, <1>4 DEF Begin, MessagesOK
  <2>2. Exact(items, Insert(EmptyMap, items[r], r), Span(r, 1))
    <3>1. Span(r, 1) = {r}
      BY <1>1, SpanFacts
    <3>2. items \in [Rank -> SUBSET Uri]
      BY <1>1 DEF TypeOK, InputOK
    <3>3. Exact(items, Insert(EmptyMap, items[r], r), {r})
      BY <3>2, InsertExact
    <3>4. QED
      BY <3>1, <3>3
  <2>3. mask[r] = 1 /\ map[r] = EmptyMap
    BY <1>1, <1>4 DEF Begin, GatheredOK
  <2>4. GatheredOK'
    BY <1>1, <1>3, <1>4, <2>2, <2>3 DEF Begin, GatheredOK
  <2>5. MessagesOK'
    BY <1>1, <1>3, <1>4, <2>1 DEF Begin, MessagesOK, wire, Destination
  <2>6. BroadcastOK' /\ MapExact'
    BY <1>1, <1>3, <1>4 DEF Begin, BroadcastOK, MapExact, wire
  <2>7. QED
    BY <1>2, <2>4, <2>5, <2>6 DEF IInv
<1>5. CASE NoSource(r)
  <2>1. Exact(items, map[r], Span(r, 2 * mask[r]))
    BY <1>1, <1>5, SpanFacts DEF NoSource, GatheredOK, Source
  <2>2. GatheredOK'
    BY <1>1, <1>3, <1>5, <2>1 DEF NoSource, GatheredOK, desc
  <2>3. MessagesOK'
    BY <1>1, <1>3, <1>5 DEF NoSource, MessagesOK, wire, Destination
  <2>4. BroadcastOK' /\ MapExact'
    BY <1>1, <1>3, <1>5 DEF NoSource, BroadcastOK, MapExact, wire, desc
  <2>5. QED
    BY <1>2, <2>2, <2>3, <2>4 DEF IInv
<1>6. CASE ReceiveSize(r)
  <2>1. GatheredOK'
    BY <1>1, <1>3, <1>6 DEF ReceiveSize, GatheredOK, desc
  <2>2. MessagesOK'
    BY <1>1, <1>3, <1>6 DEF ReceiveSize, MessagesOK, Destination
  <2>3. BroadcastOK' /\ MapExact'
    BY <1>1, <1>3, <1>6 DEF ReceiveSize, BroadcastOK, MapExact, desc
  <2>4. QED
    BY <1>2, <2>1, <2>2, <2>3 DEF IInv
<1>7. CASE ReceiveMap(r)
  <2> DEFINE s == Source(r)
             body == mapMsg[s].body
  <2>1. s \in Rank /\ s # r /\ s = r + mask[r] /\ mask[s] \in Nat \ {0} /\ s \in Nat
    BY <1>1, <1>7, RankFacts DEF ReceiveMap, TreeOK, TypeOK, Source
  <2>2. mapMsg[s].dest = r /\ r # NotFilled
    BY <1>1, <1>7 DEF ReceiveMap, NotFilled
  <2>3. r = s - mask[s] /\ Exact(items, body, Span(s, mask[s]))
    BY <1>1, <2>1, <2>2 DEF MessagesOK, Destination
  <2>4. mask[s] = mask[r]
    BY <1>1, <2>1, <2>3
  <2>5. Exact(items, map[r], Span(r, mask[r]))
    BY <1>1, <1>7 DEF ReceiveMap, GatheredOK
  <2>6. Exact(items, Unpack(map[r], body), Span(r, 2 * mask[r]))
    <3>1. Exact(items, body, Span(r + mask[r], mask[r]))
      BY <2>1, <2>3, <2>4
    <3>2. IsGroupingMap(map[r]) /\ IsGroupingMap(body)
      BY <1>1, <2>1 DEF TypeOK
    <3>3. /\ Span(r, mask[r]) \subseteq Rank
          /\ Span(r + mask[r], mask[r]) \subseteq Rank
          /\ \A p \in Span(r, mask[r]), q \in Span(r + mask[r], mask[r]) : p < q
          /\ Span(r, 2 * mask[r]) = Span(r, mask[r]) \cup Span(r + mask[r], mask[r])
      BY <1>1, <2>1, SpanFacts
    <3>4. QED
      BY <2>5, <3>1, <3>2, <3>3, MergeExact
  <2>7. GatheredOK'
    BY <1>1, <1>3, <1>7, <2>6 DEF ReceiveMap, GatheredOK
  <2>8. mapMsg[r].dest = NotFilled
    BY <1>1, <1>7 DEF ReceiveMap, MessagesOK
  <2>9. MessagesOK'
    BY <1>1, <1>3, <1>7, <2>1, <2>8 DEF ReceiveMap, MessagesOK, Destination, NoMap
  <2>10. BroadcastOK' /\ MapExact'
    BY <1>1, <1>3, <1>7 DEF ReceiveMap, BroadcastOK, MapExact
  <2>11. QED
    BY <1>2, <2>7, <2>9, <2>10 DEF IInv
<1>8. CASE SendSize(r)
  <2>1. GatheredOK'
    BY <1>1, <1>3, <1>8 DEF SendSize, GatheredOK, desc
  <2>2. MessagesOK'
    BY <1>1, <1>3, <1>8 DEF SendSize, MessagesOK, Destination
  <2>3. BroadcastOK' /\ MapExact'
    BY <1>1, <1>3, <1>8 DEF SendSize, BroadcastOK, MapExact, desc
  <2>4. QED
    BY <1>2, <2>1, <2>2, <2>3 DEF IInv
<1>9. CASE SendMap(r)
  <2>1. Exact(items, map[r], Span(r, mask[r]))
    BY <1>1, <1>9 DEF SendMap, GatheredOK
  <2>2. GatheredOK'
    BY <1>1, <1>3, <1>9 DEF SendMap, GatheredOK, desc
  <2>3. MessagesOK'
    BY <1>1, <1>3, <1>9, <2>1 DEF SendMap, MessagesOK, Destination, desc
  <2>4. BroadcastOK' /\ MapExact'
    BY <1>1, <1>3, <1>9 DEF SendMap, BroadcastOK, MapExact, desc
  <2>5. QED
    BY <1>2, <2>2, <2>3, <2>4 DEF IInv
<1>10. CASE FinishReduce(r)
  <2>1. ASSUME r = 0 PROVE Condensed(0) = Expected(items)
    <3>1. pc[0] = "reduce" /\ mask[0] >= N
      BY <1>1, <1>10, <2>1 DEF FinishReduce, Reduced, TreeOK
    <3>2. Exact(items, map[0], Rank)
      BY <1>1, <2>1, <3>1, SpanFacts DEF GatheredOK
    <3>3. map[0] = Reference(items)
      BY <1>1, <3>2, ExactIsReference DEF TypeOK
    <3>4. QED
      BY <3>3 DEF Condensed, Expected
  <2>2. pc[r] \in {"reduce", "sent"} /\ pc' = [pc EXCEPT ![r] = IF r = 0 THEN "bcast" ELSE "size"]
    BY <1>10 DEF FinishReduce, Reduced
  <2>3. GatheredOK'
    BY <1>1, <1>3, <1>10, <2>2 DEF FinishReduce, GatheredOK
  <2>4. MessagesOK'
    BY <1>1, <1>3, <1>10, <2>2 DEF FinishReduce, MessagesOK, Destination
  <2>5. BroadcastOK'
    BY <1>1, <1>3, <1>10, <2>1, <2>2 DEF FinishReduce, BroadcastOK
  <2>6. MapExact'
    BY <1>1, <1>3, <1>10, <2>2 DEF FinishReduce, MapExact
  <2>7. QED
    BY <1>2, <2>3, <2>4, <2>5, <2>6 DEF IInv
<1>11. CASE BcastSize(r)
  <2>1. GatheredOK'
    BY <1>1, <1>3, <1>11 DEF BcastSize, GatheredOK, desc
  <2>2. MessagesOK'
    BY <1>1, <1>3, <1>11 DEF BcastSize, MessagesOK, Destination, wire
  <2>3. BroadcastOK' /\ MapExact'
    BY <1>1, <1>3, <1>11 DEF BcastSize, BroadcastOK, MapExact, TreeOK, desc, wire
  <2>4. QED
    BY <1>2, <2>1, <2>2, <2>3 DEF IInv
<1>12. CASE MallocFails(r)
  <2>1. GatheredOK'
    BY <1>1, <1>3, <1>12 DEF MallocFails, GatheredOK, desc
  <2>2. MessagesOK'
    BY <1>1, <1>3, <1>12 DEF MallocFails, MessagesOK, Destination, wire
  <2>3. BroadcastOK' /\ MapExact'
    BY <1>1, <1>3, <1>12 DEF MallocFails, BroadcastOK, MapExact, desc, wire
  <2>4. QED
    BY <1>2, <2>1, <2>2, <2>3 DEF IInv
<1>13. CASE BcastMap(r)
  <2>1. map'[r] = Expected(items) /\ (bcastMap'.posted => bcastMap'.body = Expected(items))
    <3>1. CASE r = 0
      BY <1>1, <1>13, <3>1 DEF BcastMap, BroadcastOK
    <3>2. CASE r # 0
      <4>1. bcastMap.body = Expected(items) /\ IsGroupingMap(bcastMap.body)
        BY <1>1, <1>13, <3>2 DEF BcastMap, BroadcastOK, TypeOK
      <4>2. QED
        BY <1>3, <1>13, <3>2, <4>1, UnpackIntoEmpty DEF BcastMap
    <3>3. QED
      BY <3>1, <3>2
  <2>2. \A q \in Rank \ {r} : map'[q] = map[q]
    BY <1>3, <1>13 DEF BcastMap
  <2>3. /\ pc[r] = "bcast" /\ pc' = [pc EXCEPT ![r] = "group"]
        /\ UNCHANGED <<items, mask, mapMsg, rc>>
    BY <1>13 DEF BcastMap
  <2>4. GatheredOK'
    BY <1>1, <1>3, <2>2, <2>3 DEF GatheredOK
  <2>5. MessagesOK'
    BY <1>1, <1>3, <2>3 DEF MessagesOK, Destination
  <2>6. BroadcastOK' /\ MapExact'
    BY <1>1, <1>3, <2>1, <2>2, <2>3 DEF BroadcastOK, MapExact
  <2>7. QED
    BY <1>2, <2>4, <2>5, <2>6 DEF IInv
<1>14. CASE Finish(r)
  <2>1. GatheredOK'
    BY <1>1, <1>3, <1>14 DEF Finish, GatheredOK
  <2>2. MessagesOK'
    BY <1>1, <1>3, <1>14 DEF Finish, MessagesOK, Destination, wire
  <2>3. BroadcastOK' /\ MapExact'
    BY <1>1, <1>3, <1>14 DEF Finish, BroadcastOK, MapExact, wire
  <2>4. QED
    BY <1>2, <2>1, <2>2, <2>3 DEF IInv
<1>15. QED
  BY <1>4, <1>5, <1>6, <1>7, <1>8, <1>9, <1>10, <1>11, <1>12, <1>13, <1>14
     DEF Step

(* A step that changes nothing keeps them too.                             *)
LEMMA InvStutter == IInv /\ UNCHANGED vars => IInv'
<1> SUFFICES ASSUME IInv, UNCHANGED vars PROVE IInv'
  OBVIOUS
<1>1. TypeOK' /\ TreeOK'
  BY TypeStutter DEF IInv, TypeInv
<1>2. GatheredOK' /\ MessagesOK' /\ BroadcastOK' /\ MapExact'
  BY DEF IInv, GatheredOK, MessagesOK, BroadcastOK, MapExact, At, Destination,
         vars, desc, wire
<1>3. QED
  BY <1>1, <1>2 DEF IInv

(* In every reachable state each map that takes part in the reduction, in  *)
(* a rank or on the wire, describes exactly the ranks it stands for.       *)
THEOREM Invariance == Spec => []IInv
<1>1. IInv /\ [Next]_vars => IInv'
  BY InvStep, InvStutter DEF Next
<1>2. QED
  BY InvInit, <1>1, PTL DEF Spec

(* A rank for which mapReduce succeeds has the map of the whole job.       *)
THEOREM MapIsExact == Spec => []MapExact
<1>1. IInv => MapExact
  BY DEF IInv
<1>2. QED
  BY <1>1, Invariance, PTL

-----------------------------------------------------------------------------
(* The refinement of Grouping.                                             *)

(* Without aliases the elimination changes no map.                         *)
LEMMA NothingToEliminate ==
  ASSUME AliasFree, NEW map0, DOMAIN map0 \subseteq Uri
  PROVE  EliminateUriAlias(map0) = map0
<1>1. SUFFICES ASSUME AliasDetected(map0) PROVE FALSE
  BY DEF EliminateUriAlias
<1>2. /\ Cardinality(DOMAIN map0) = 2
      /\ Aliased(FirstKey(map0), LastKey(map0))
  BY <1>1 DEF AliasDetected
<1>3. /\ Survivor(map0) \in DOMAIN map0 /\ Erased(map0) \in DOMAIN map0
      /\ Survivor(map0) # Erased(map0)
  BY <1>2, TwoKeys
<1>4. /\ FirstKey(map0) \in Uri /\ LastKey(map0) \in Uri
      /\ FirstKey(map0) # LastKey(map0)
  BY <1>3 DEF Survivor, Erased
<1>5. QED
  BY <1>2, <1>4 DEF AliasFree

(* Between its start and its return a grouping call leaves its rank's own  *)
(* item as its URI, and no group information but the fresh one.            *)
CallerOK ==
  \A r \in Rank :
    /\ pc[r] # "call" => uri[r] = ItemOf(r)
    /\ pc[r] # "done" => info[r] = NoGroupInfo

(* CallerOK survives every step when there are no aliases.                 *)
LEMMA CallerStep ==
  ASSUME AliasFree, Call = "grouping", IInv, CallerOK, [Next]_vars
  PROVE  CallerOK'
<1> USE DEF At, Goto, Widen
<1>1. TypeOK /\ TreeOK /\ GatheredOK
  BY DEF IInv
<1>2. DOMAIN pc = Rank /\ DOMAIN uri = Rank /\ DOMAIN info = Rank
  BY <1>1 DEF TypeOK
<1>3. CASE UNCHANGED vars
  BY <1>3 DEF CallerOK, vars, desc, ItemOf
<1>4. ASSUME NEW r \in Rank, Step(r) PROVE CallerOK'
  <2>1. CASE Begin(r)
    BY <1>2, <2>1 DEF Begin, CallerOK, ItemOf
  <2>2. CASE FinishReduce(r)
    <3>1. pc[r] \in {"reduce", "sent"}
      BY <2>2 DEF FinishReduce, Reduced
    <3>2. Exact(items, map[r], Span(r, mask[r]))
      BY <1>1, <3>1 DEF GatheredOK
    <3>3. ItemOf(r) \in items[r] /\ ItemOf(r) \in Uri
      BY <1>1 DEF TypeOK, InputOK, ItemOf
    <3>4. r \in Span(r, mask[r])
      BY <1>1, RankFacts DEF TypeOK, Span
    <3>5. uri[r] = ItemOf(r) /\ ItemOf(r) \in DOMAIN map[r]
      BY <3>1, <3>2, <3>3, <3>4 DEF Exact, Holders, CallerOK
    <3>6. Condensed(r) = map[r]
      BY <1>1, NothingToEliminate DEF Condensed, TypeOK, IsGroupingMap
    <3>7. AdjustUri(uri[r], Condensed(r)) = uri[r]
      BY <3>5, <3>6 DEF AdjustUri
    <3>8. uri' = uri
      <4>1. uri' = [uri EXCEPT ![r] = uri[r]]
        BY <2>2, <3>7 DEF FinishReduce
      <4>2. uri = [q \in Rank |-> uri[q]]
        BY <1>1 DEF TypeOK
      <4>3. QED
        BY <4>1, <4>2
    <3>9. UNCHANGED <<items, info>>
      BY <2>2 DEF FinishReduce
    <3>10. PICK l \in {"bcast", "size"} : pc' = [pc EXCEPT ![r] = l]
      BY <2>2 DEF FinishReduce
    <3>11. QED
      BY <1>2, <3>1, <3>8, <3>9, <3>10 DEF CallerOK, ItemOf
  <2>3. CASE Finish(r)
    BY <1>2, <2>3 DEF Finish, CallerOK, ItemOf
  <2>4. CASE NoSource(r)
    BY <2>4 DEF NoSource, CallerOK, ItemOf, desc
  <2>5. CASE \/ ReceiveSize(r) \/ ReceiveMap(r) \/ SendSize(r) \/ SendMap(r)
             \/ BcastSize(r) \/ MallocFails(r) \/ BcastMap(r)
    <3>1. UNCHANGED <<items, uri, info>>
      BY <2>5 DEF ReceiveSize, ReceiveMap, SendSize, SendMap, BcastSize,
         MallocFails, BcastMap, desc
    <3>2. PICK l \in {"payload", "reduce", "sending", "sent", "bcast", "group"} :
             pc' = [pc EXCEPT ![r] = l]
      BY <2>5 DEF ReceiveSize, ReceiveMap, SendSize, SendMap, BcastSize,
         MallocFails, BcastMap
    <3>3. pc[r] \notin {"call", "done"}
      BY <2>5 DEF ReceiveSize, ReceiveMap, SendSize, SendMap, BcastSize,
         MallocFails, BcastMap
    <3>4. QED
      BY <1>2, <3>1, <3>2, <3>3 DEF CallerOK, ItemOf
  <2>6. QED
    BY <1>4, <2>1, <2>2, <2>3, <2>4, <2>5 DEF Step
<1>5. QED
  BY <1>3, <1>4 DEF Next

(* The group a rank finds in the map of the whole job is its true group.   *)
LEMMA GroupIsTrue ==
  ASSUME AliasFree, Call = "grouping", TypeOK, NEW r \in Rank,
         map[r] = Expected(items), info[r] = NoGroupInfo, uri[r] = ItemOf(r)
  PROVE  SetGroupInfo(info[r], r, uri[r], map[r]) = Abstract!GroupOf(r)
<1> DEFINE u == ItemOf(r)
           H == Holders(items, u, Rank)
           low == CHOOSE q \in H : \A p \in H : q <= p
           ref == Reference(items)
<1>1. \A q \in Rank : ItemOf(q) \in Uri /\ items[q] = {ItemOf(q)}
  BY DEF TypeOK, InputOK, ItemOf
<1>2. H = {q \in Rank : ItemOf(q) = u} /\ r \in H /\ u \in Uri
  BY <1>1 DEF Holders
<1>3. DOMAIN ref = {ItemOf(q) : q \in Rank}
  BY <1>1 DEF Reference, MapOf, Holders
<1>4. ref[u] = [first |-> low, count |-> Cardinality(H)]
  BY <1>2 DEF Reference, MapOf
<1>5. map[r] = ref
  BY <1>1, <1>3, NothingToEliminate DEF Expected
<1>6. SetGroupInfo(info[r], r, uri[r], map[r]) =
        [numOfGroups |-> Cardinality(DOMAIN ref), groupId |-> low,
         rankInGroup |-> r, groupSize |-> Cardinality(H), repInGroup |-> low]
  <2>1. u \in DOMAIN ref /\ ref[u].first = low /\ ref[u].count = Cardinality(H)
    BY <1>2, <1>3, <1>4
  <2>2. SetGroupInfo(NoGroupInfo, r, u, ref) =
        [numOfGroups |-> Cardinality(DOMAIN ref), groupId |-> ref[u].first,
         rankInGroup |-> r, groupSize |-> ref[u].count, repInGroup |-> ref[u].first]
    BY <2>1, FirstGroupInfo
  <2>3. QED
    BY <1>5, <2>1, <2>2
<1>7. Abstract!Group(r) = H
  BY <1>2 DEF Abstract!Group, Abstract!Rank, Rank
<1>8. {[q \in Rank |-> ItemOf(q)][p] : p \in Abstract!Rank} = {ItemOf(q) : q \in Rank}
  BY DEF Abstract!Rank, Rank
<1>9. \A S : Abstract!Cardinality(S) = Cardinality(S)
  BY DEF Abstract!Cardinality, Cardinality, Abstract!IsFiniteSet, IsFiniteSet
<1>10. Abstract!GroupOf(r) =
        [numOfGroups |-> Cardinality({ItemOf(q) : q \in Rank}), groupId |-> low,
         rankInGroup |-> r, groupSize |-> Cardinality(H), repInGroup |-> low]
  BY <1>7, <1>8, <1>9 DEF Abstract!GroupOf
<1>11. QED
  BY <1>3, <1>6, <1>10

(* CallerOK holds of a job that has not started.                           *)
LEMMA CallerInit == Init => CallerOK
BY DEF Init, CallerOK

(* Initial states of the fabric are initial states of Grouping.            *)
LEMMA AbstractInit ==
  ASSUME Call = "grouping", Init
  PROVE  Abstract!Init
<1>1. \A r \in Rank : ItemOf(r) \in Uri
  BY DEF Init, InputOK, ItemOf
<1>2. [r \in Rank |-> ItemOf(r)] \in [Abstract!Rank -> Uri]
  BY <1>1 DEF Abstract!Rank, Rank
<1>3. \A r \in Rank : ~Learnt(r)
  BY DEF Init, Learnt, At
<1>4. QED
  BY <1>2, <1>3 DEF Abstract!Init, Abstract!Rank, Abstract!Pending, Rank

(* Every step of a rank is a step of Grouping or changes nothing of it.    *)
LEMMA AbstractStep ==
  ASSUME AliasFree, Call = "grouping", IInv, CallerOK, [Next]_vars
  PROVE  [Abstract!Next]_(Abstract!vars)
<1> USE DEF At, Goto
<1> DEFINE result == [r \in Rank |-> IF Learnt(r) THEN info[r] ELSE [pending |-> TRUE]]
           item == [r \in Rank |-> ItemOf(r)]
<1>1. TypeOK /\ TreeOK /\ MapExact
  BY DEF IInv
<1>2. DOMAIN pc = Rank /\ DOMAIN rc = Rank /\ DOMAIN info = Rank
  BY <1>1 DEF TypeOK
<1>3. UNCHANGED items
  BY DEF Next, Step, vars, Begin, NoSource, ReceiveSize, ReceiveMap, SendSize,
     SendMap, FinishReduce, BcastSize, MallocFails, BcastMap, Finish
<1>4. item' = item
  BY <1>3 DEF ItemOf
<1>5. CASE UNCHANGED vars
  <2>1. result' = result
    BY <1>5 DEF vars, desc, Learnt
  <2>2. QED
    BY <1>4, <2>1 DEF Abstract!vars
<1>6. ASSUME NEW r \in Rank, Finish(r), rc[r] PROVE Abstract!Learn(r)
  <2>1. pc[r] = "group" /\ pc' = [pc EXCEPT ![r] = "done"] /\ rc' = rc
    BY <1>6 DEF Finish
  <2>2. info' = [info EXCEPT ![r] = Abstract!GroupOf(r)]
    <3>1. map[r] = Expected(items)
      BY <1>1, <1>6, <2>1 DEF MapExact
    <3>2. info[r] = NoGroupInfo /\ uri[r] = ItemOf(r)
      BY <2>1 DEF CallerOK
    <3>3. info' = [info EXCEPT ![r] = SetGroupInfo(info[r], r, uri[r], map[r])]
      BY <1>6 DEF Finish
    <3>4. QED
      BY <1>1, <3>1, <3>2, <3>3, GroupIsTrue
  <2>3. result[r] = [pending |-> TRUE]
    BY <2>1 DEF Learnt
  <2>4. \A q \in Rank : Learnt(q)' <=> (q = r \/ Learnt(q))
    BY <1>2, <1>6, <2>1 DEF Learnt
  <2>5. result' = [result EXCEPT ![r] = Abstract!GroupOf(r)]
    BY <1>2, <2>2, <2>4
  <2>6. QED
    BY <1>4, <2>3, <2>5 DEF Abstract!Learn, Abstract!Pending
<1>7. ASSUME NEW r \in Rank, Step(r), ~(Finish(r) /\ rc[r])
      PROVE  result' = result
  <2>1. CASE Finish(r)
    <3>1. /\ ~rc[r] /\ rc' = rc /\ pc' = [pc EXCEPT ![r] = "done"]
          /\ \E new : info' = [info EXCEPT ![r] = new]
      BY <1>7, <2>1 DEF Finish
    <3>2. QED
      BY <1>2, <3>1 DEF Learnt
  <2>2. CASE ~Finish(r)
    <3>1. info' = info /\ pc[r] # "done"
      BY <1>7, <2>2 DEF Step, Begin, NoSource, ReceiveSize, ReceiveMap, SendSize,
         SendMap, FinishReduce, Reduced, BcastSize, MallocFails, BcastMap, desc
    <3>2. /\ pc'[r] # "done"
          /\ \A q \in Rank \ {r} : pc'[q] = pc[q] /\ rc'[q] = rc[q]
      BY <1>2, <1>7, <2>2, <3>1 DEF Step, Begin, NoSource, ReceiveSize, ReceiveMap, SendSize,
         SendMap, FinishReduce, Reduced, BcastSize, MallocFails, BcastMap
    <3>3. \A q \in Rank : Learnt(q)' <=> Learnt(q)
      BY <3>1, <3>2 DEF Learnt
    <3>4. QED
      BY <3>1, <3>3
  <2>3. QED
    BY <2>1, <2>2
<1>8. ASSUME NEW r \in Rank, Step(r) PROVE [Abstract!Next]_(Abstract!vars)
  <2>1. CASE Finish(r) /\ rc[r]
    BY <1>6, <2>1 DEF Abstract!Next, Abstract!Rank, Rank
  <2>2. CASE ~(Finish(r) /\ rc[r])
    BY <1>4, <1>7, <1>8, <2>2 DEF Abstract!vars
  <2>3. QED
    BY <2>1, <2>2
<1>9. QED
  BY <1>5, <1>8 DEF Next

(* When no two URIs are aliases, grouping over MPI implements Grouping.    *)
THEOREM GroupingImplemented ==
  ASSUME AliasFree, Call = "grouping"
  PROVE  Spec => ImplementsGrouping
<1>1. Init => Abstract!Init /\ CallerOK
  BY AbstractInit, CallerInit
<1>2. IInv /\ CallerOK /\ [Next]_vars => CallerOK'
  BY CallerStep
<1>3. IInv /\ CallerOK /\ [Next]_vars => [Abstract!Next]_(Abstract!vars)
  BY AbstractStep
<1>4. QED
  BY <1>1, <1>2, <1>3, Invariance, PTL DEF Spec, ImplementsGrouping, Abstract!Spec

-----------------------------------------------------------------------------
(* The lengths that are announced before the maps.                         *)

(* The map of the whole job is a map, and the first rank of each of its    *)
(* items is one that has the item, also after the elimination.             *)
LEMMA ExpectedFacts ==
  ASSUME NEW lists
  PROVE  /\ IsGroupingMap(Expected(lists))
         /\ \A u \in DOMAIN Expected(lists) :
              Expected(lists)[u].first \in Holders(lists, u, Rank)
<1> DEFINE ref == Reference(lists)
<1>1. \A u \in DOMAIN ref :
        /\ u \in Uri /\ Holders(lists, u, Rank) # {}
        /\ ref[u] = [first |-> CHOOSE q \in Holders(lists, u, Rank) :
                                 \A p \in Holders(lists, u, Rank) : q <= p,
                     count |-> Cardinality(Holders(lists, u, Rank))]
  BY DEF Reference, MapOf
<1>2. ASSUME NEW u \in DOMAIN ref
      PROVE  /\ ref[u] \in ReduceDesc
             /\ ref[u].first \in Holders(lists, u, Rank)
  <2> DEFINE H == Holders(lists, u, Rank)
  <2>1. H \subseteq Rank /\ H \subseteq Nat /\ H # {}
    BY <1>1, RankFacts DEF Holders
  <2>2. \E q \in H : \A p \in H : q <= p
    BY <2>1, LowestNumber
  <2>3. (CHOOSE q \in H : \A p \in H : q <= p) \in H
    BY <2>2
  <2>4. Cardinality(H) \in Nat
    BY <2>1, RankFacts, FS_Subset, FS_CardinalityType
  <2> DEFINE low == CHOOSE q \in H : \A p \in H : q <= p
  <2>5. ref[u] = [first |-> low, count |-> Cardinality(H)]
    BY <1>1
  <2> HIDE DEF low
  <2>6. low \in H /\ low \in Nat
    BY <2>1, <2>3 DEF low
  <2>7. QED
    BY <2>4, <2>5, <2>6 DEF ReduceDesc
<1>3. IsGroupingMap(ref)
  <2>1. ref = [u \in DOMAIN ref |-> ref[u]] /\ DOMAIN ref \subseteq Uri
    BY DEF Reference, MapOf
  <2>2. QED
    BY <1>2, <2>1 DEF IsGroupingMap
<1>4. CASE ElimAlias /\ AliasDetected(ref)
  <2>1. Expected(lists) = EliminateUriAlias(ref)
    BY <1>4 DEF Expected
  <2>2. \A u \in DOMAIN Expected(lists) :
          u \in DOMAIN ref /\ Expected(lists)[u].first = ref[u].first
    <3>1. Survivor(ref) \in DOMAIN ref
      BY <1>3, <1>4, TwoKeys DEF AliasDetected, IsGroupingMap
    <3>2. QED
      BY <1>4, <2>1, <3>1 DEF EliminateUriAlias
  <2>3. QED
    BY <1>2, <1>3, <2>1, <2>2, EliminateType
<1>5. CASE ~(ElimAlias /\ AliasDetected(ref))
  <2>1. Expected(lists) = ref
    BY <1>5 DEF Expected, EliminateUriAlias
  <2>2. QED
    BY <1>2, <1>3, <2>1
<1>6. QED
  BY <1>4, <1>5

(* The length a rank has announced is that of the map it is about to send, *)
(* or has sent.                                                            *)
Announced(s, length) ==
  \/ At(s, "sending") /\ length = PackedSize(map[s])
  \/ /\ pc[s] \notin {"call", "reduce", "payload", "sending"}
     /\ mapMsg[s].dest # NotFilled
     /\ length = PackedSize(mapMsg[s].body)

LengthsOK ==
  /\ \A s \in Rank : sizeMsg[s].dest # NotFilled =>
       /\ sizeMsg[s].dest = Destination(s)
       /\ Announced(s, sizeMsg[s].body)
  /\ \A r \in Rank : At(r, "payload") =>
       /\ Destination(Source(r)) = r
       /\ sizeMsg[Source(r)].dest = NotFilled
       /\ Announced(Source(r), bufSize[r])

(* A step of a rank keeps the lengths on the tree's edges and the maps     *)
(* they announce together.                                                 *)
LEMMA LengthsStep ==
  ASSUME IInv, LengthsOK, NEW r \in Rank, Step(r)
  PROVE  LengthsOK'
<1> USE DEF At, Goto, Widen
<1>1. /\ TypeOK /\ TreeOK /\ GatheredOK /\ MessagesOK
      /\ r \in Nat /\ N \in Nat /\ mask[r] \in Nat \ {0}
  BY RankFacts, CallAssumption DEF IInv, TypeOK
<1>2. /\ DOMAIN pc = Rank /\ DOMAIN mask = Rank /\ DOMAIN map = Rank
      /\ DOMAIN mapMsg = Rank /\ DOMAIN sizeMsg = Rank /\ DOMAIN bufSize = Rank
      /\ \A q \in Rank : q \in Nat /\ mask[q] \in Nat /\ q # NotFilled
  BY <1>1, RankFacts DEF TypeOK, NotFilled
<1>3. \A q \in Rank : pc[q] = "payload" => Source(q) \in Rank
  BY <1>1 DEF TreeOK
<1>4. CASE Begin(r)
  BY <1>2, <1>3, <1>4 DEF Begin, LengthsOK, Announced, Source, Destination, wire
<1>5. CASE NoSource(r)
  BY <1>2, <1>3, <1>5 DEF NoSource, LengthsOK, Announced, Source, Destination, desc, wire
<1>6. CASE ReceiveSize(r)
  <2> DEFINE s == Source(r)
  <2>1. s \in Rank /\ s # r /\ s = r + mask[r]
    BY <1>1, <1>6 DEF ReceiveSize, Source, Rank
  <2>2. /\ sizeMsg[s].dest = r /\ Destination(s) = r
        /\ Announced(s, sizeMsg[s].body)
    BY <1>2, <1>6, <2>1 DEF ReceiveSize, LengthsOK
  <2>3. /\ pc' = [pc EXCEPT ![r] = "payload"] /\ pc[r] = "reduce"
        /\ bufSize' = [bufSize EXCEPT ![r] = sizeMsg[s].body]
        /\ sizeMsg' = [sizeMsg EXCEPT ![s] = NoSize]
        /\ UNCHANGED <<mask, map, mapMsg>>
    BY <1>6 DEF ReceiveSize, desc
  <2>4. \A q \in Rank : \A n : Announced(q, n) => Announced(q, n)'
    BY <1>2, <2>3 DEF Announced
  <2>5. \A q \in Rank : pc[q] = "payload" => Source(q) # s
    BY <1>2, <2>2 DEF LengthsOK
  <2>6. \A q \in Rank : sizeMsg'[q].dest # NotFilled =>
          q # s /\ sizeMsg'[q] = sizeMsg[q]
    BY <1>2, <2>1, <2>3 DEF NoSize
  <2>7. \A q \in Rank : Source(q)' = Source(q) /\ Destination(q)' = Destination(q)
    BY <2>3 DEF Source, Destination
  <2>8. ASSUME NEW q \in Rank, sizeMsg'[q].dest # NotFilled
        PROVE  sizeMsg'[q].dest = Destination(q)' /\ Announced(q, sizeMsg[q].body)'
    BY <2>4, <2>6, <2>7, <2>8 DEF LengthsOK
  <2>9. ASSUME NEW q \in Rank, pc'[q] = "payload"
        PROVE  /\ Destination(Source(q))' = q
               /\ sizeMsg'[Source(q)'].dest = NotFilled
               /\ Announced(Source(q), bufSize[q])'
    <3>1. CASE q = r
      <4>1. sizeMsg'[s].dest = NotFilled /\ bufSize'[r] = sizeMsg[s].body
        BY <1>2, <2>1, <2>3 DEF NoSize
      <4>2. Source(r)' = s /\ Destination(s)' = r
        BY <2>2, <2>1, <2>7
      <4>3. Announced(Source(r), bufSize[r])'
        BY <2>1, <2>2, <2>4, <4>1, <4>2 DEF Announced
      <4>4. Destination(Source(r))' = r
        BY <4>2 DEF Destination
      <4>5. QED
        BY <3>1, <4>1, <4>2, <4>3, <4>4
    <3>2. CASE q # r
      <4>1. pc[q] = "payload" /\ bufSize'[q] = bufSize[q] /\ Source(q) \in Rank
        BY <1>2, <1>3, <2>3, <2>9, <3>2
      <4>2. /\ Destination(Source(q)) = q /\ sizeMsg[Source(q)].dest = NotFilled
            /\ Announced(Source(q), bufSize[q])
        BY <4>1 DEF LengthsOK
      <4>3. QED
        BY <1>2, <2>3, <2>4, <2>5, <4>1, <4>2 DEF Announced, Source, Destination
    <3>3. QED
      BY <3>1, <3>2
  <2>10. QED
    BY <2>8, <2>9 DEF LengthsOK, Announced
<1>7. CASE ReceiveMap(r)
  <2> DEFINE s == Source(r)
  <2>1. /\ s \in Rank /\ Destination(s) = r /\ sizeMsg[s].dest = NotFilled
        /\ pc[r] = "payload" /\ s # r
    BY <1>1, <1>2, <1>3, <1>7 DEF ReceiveMap, LengthsOK, Source
  <2>2. /\ pc' = [pc EXCEPT ![r] = "reduce"] /\ mask' = [mask EXCEPT ![r] = 2 * mask[r]]
        /\ mapMsg' = [mapMsg EXCEPT ![s] = NoMap]
        /\ \A q \in Rank \ {r} : map'[q] = map[q]
        /\ UNCHANGED <<bufSize, sizeMsg>>
    BY <1>2, <1>7 DEF ReceiveMap
  <2>3. \A q \in Rank \ {s} : \A n : Announced(q, n) => Announced(q, n)'
    BY <1>2, <2>1, <2>2 DEF Announced
  <2>4. \A q \in Rank : q # r => Source(q)' = Source(q) /\ Destination(q)' = Destination(q)
    BY <1>2, <2>2 DEF Source, Destination
  <2>5. ASSUME NEW q \in Rank, sizeMsg'[q].dest # NotFilled
        PROVE  sizeMsg'[q].dest = Destination(q)' /\ Announced(q, sizeMsg[q].body)'
    <3>1. q # s /\ sizeMsg[q].dest # NotFilled
      BY <2>1, <2>2, <2>5
    <3>2. Announced(q, sizeMsg[q].body) /\ sizeMsg[q].dest = Destination(q)
      BY <3>1 DEF LengthsOK
    <3>3. q # r
      BY <2>1, <3>2 DEF Announced
    <3>4. QED
      BY <2>2, <2>3, <2>4, <3>1, <3>2, <3>3 DEF Announced
  <2>6. ASSUME NEW q \in Rank, pc'[q] = "payload"
        PROVE  /\ Destination(Source(q))' = q
               /\ sizeMsg'[Source(q)'].dest = NotFilled
               /\ Announced(Source(q), bufSize[q])'
    <3>1. q # r /\ pc[q] = "payload" /\ Source(q) \in Rank
      BY <1>2, <1>3, <2>2, <2>6
    <3>2. /\ Destination(Source(q)) = q /\ sizeMsg[Source(q)].dest = NotFilled
          /\ Announced(Source(q), bufSize[q])
      BY <3>1 DEF LengthsOK
    <3>3. Source(q) # s /\ Source(q) # r
      BY <2>1, <3>1, <3>2 DEF Announced
    <3>4. QED
      BY <1>2, <2>2, <2>3, <2>4, <3>1, <3>2, <3>3 DEF Announced, Source, Destination
  <2>7. QED
    BY <2>5, <2>6 DEF LengthsOK, Announced
<1>8. CASE SendSize(r)
  BY <1>1, <1>2, <1>3, <1>8 DEF SendSize, LengthsOK, Announced, Source, Destination, desc
<1>9. CASE SendMap(r)
  <2>1. /\ pc[r] = "sending" /\ pc' = [pc EXCEPT ![r] = "sent"]
        /\ mapMsg' = [mapMsg EXCEPT ![r] = [dest |-> Destination(r), body |-> map[r]]]
        /\ UNCHANGED <<mask, map, bufSize, sizeMsg>>
    BY <1>9 DEF SendMap, desc
  <2>2. Destination(r) # NotFilled
    BY <1>1, <1>2, <2>1 DEF TreeOK
  <2>3. \A q \in Rank : \A n : Announced(q, n) => Announced(q, n)'
    BY <1>2, <2>1, <2>2 DEF Announced
  <2>4. QED
    BY <1>2, <1>3, <2>1, <2>3 DEF LengthsOK, Announced, Source, Destination
<1>10. CASE FinishReduce(r)
  <2>1. /\ pc[r] \in {"reduce", "sent"}
        /\ pc' = [pc EXCEPT ![r] = IF r = 0 THEN "bcast" ELSE "size"]
        /\ UNCHANGED <<mask, sizeMsg, mapMsg>>
        /\ \A q \in Rank \ {r} : map'[q] = map[q] /\ bufSize'[q] = bufSize[q]
    BY <1>2, <1>10 DEF FinishReduce, Reduced
  <2>2. \A q \in Rank : \A n : Announced(q, n) => Announced(q, n)'
    BY <1>2, <2>1 DEF Announced
  <2>3. QED
    BY <1>2, <1>3, <2>1, <2>2 DEF LengthsOK, Announced, Source, Destination
<1>11. CASE BcastSize(r)
  BY <1>2, <1>3, <1>11 DEF BcastSize, LengthsOK, Announced, Source, Destination, desc, wire
<1>12. CASE MallocFails(r)
  BY <1>2, <1>3, <1>12 DEF MallocFails, LengthsOK, Announced, Source, Destination, desc, wire
<1>13. CASE BcastMap(r)
  <2>1. /\ pc[r] = "bcast" /\ pc' = [pc EXCEPT ![r] = "group"]
        /\ \A q \in Rank \ {r} : map'[q] = map[q]
        /\ UNCHANGED <<mask, mapMsg, sizeMsg, bufSize>>
    BY <1>2, <1>13 DEF BcastMap
  <2>2. QED
    BY <1>2, <1>3, <2>1 DEF LengthsOK, Announced, Source, Destination
<1>14. CASE Finish(r)
  BY <1>2, <1>3, <1>14 DEF Finish, LengthsOK, Announced, Source, Destination, wire
<1>15. QED
  BY <1>4, <1>5, <1>6, <1>7, <1>8, <1>9, <1>10, <1>11, <1>12, <1>13, <1>14
     DEF Step

(* When the elimination has nothing to take away the map of the whole job  *)
(* has the keys of every part of it.                                       *)
KeepsKeys == ~ElimAlias \/ AliasFree

(* The length rank 0 broadcasts is that of the map of the whole job, and   *)
(* no rank that is to pack its own map has a key the whole job has not.    *)
BroadcastLengthOK ==
  /\ bcastSize # NotFilled => bcastSize = PackedSize(Expected(items))
  /\ \A r \in Rank :
       /\ pc[r] \in {"size", "bcast"} => DOMAIN map[r] \subseteq DOMAIN Expected(items)
       /\ At(r, "bcast") => bufSize[r] = PackedSize(Expected(items))

(* What a part of the job has gathered the whole job has.                  *)
LEMMA PartHasNoOtherKeys ==
  ASSUME KeepsKeys, NEW lists, NEW S \in SUBSET Rank, NEW m, Exact(lists, m, S)
  PROVE  DOMAIN m \subseteq DOMAIN Expected(lists)
<1>1. DOMAIN Reference(lists) = {u \in Uri : Holders(lists, u, Rank) # {}}
  BY DEF Reference, MapOf
<1>2. Expected(lists) = Reference(lists)
  BY <1>1, NothingToEliminate DEF Expected, KeepsKeys
<1>3. QED
  BY <1>1, <1>2 DEF Exact, Holders

(* A step of a rank keeps the broadcast length and the keys it covers.     *)
LEMMA BroadcastLengthStep ==
  ASSUME KeepsKeys, IInv, IInv', BroadcastLengthOK, NEW r \in Rank, Step(r)
  PROVE  BroadcastLengthOK'
<1> USE DEF At, Goto, Widen
<1> DEFINE Same == /\ UNCHANGED items
                   /\ bcastSize' = bcastSize
                   /\ \A q \in Rank \ {r} : /\ pc'[q] = pc[q] /\ map'[q] = map[q]
                                            /\ bufSize'[q] = bufSize[q]
<1>1. /\ TypeOK /\ TreeOK /\ GatheredOK /\ BroadcastOK /\ BroadcastOK'
      /\ mask[r] \in Nat \ {0} /\ 0 \in Rank
  BY RankFacts DEF IInv, TypeOK
<1>2. /\ DOMAIN pc = Rank /\ DOMAIN map = Rank /\ DOMAIN bufSize = Rank
  BY <1>1 DEF TypeOK
<1>3. UNCHANGED items
  BY DEF Step, Begin, NoSource, ReceiveSize, ReceiveMap, SendSize,
     SendMap, FinishReduce, BcastSize, MallocFails, BcastMap, Finish
<1>4. Expected(items)' = Expected(items)
  BY <1>3 DEF Expected, Reference
<1>5. CASE FinishReduce(r)
  <2>1. /\ pc[r] \in {"reduce", "sent"}
        /\ pc' = [pc EXCEPT ![r] = IF r = 0 THEN "bcast" ELSE "size"]
        /\ map' = [map EXCEPT ![r] = Condensed(r)]
    BY <1>5 DEF FinishReduce, Reduced
  <2>2. CASE r = 0
    <3>1. map'[0] = Expected(items) /\ map'[0] = Condensed(0)
      BY <1>1, <1>2, <1>4, <2>1, <2>2 DEF BroadcastOK
    <3>2. /\ bufSize' = [bufSize EXCEPT ![0] = PackedSize(Expected(items))]
          /\ bcastSize' = PackedSize(Expected(items))
      BY <1>5, <2>2, <3>1 DEF FinishReduce
    <3>3. QED
      BY <1>2, <1>4, <2>1, <2>2, <3>1, <3>2 DEF BroadcastLengthOK
  <2>3. CASE r # 0
    <3>1. Exact(items, map[r], Span(r, mask[r])) /\ Span(r, mask[r]) \subseteq Rank
      BY <1>1, <2>1, SpanFacts DEF GatheredOK
    <3>2. DOMAIN map[r] \subseteq DOMAIN Expected(items)
      BY <3>1, PartHasNoOtherKeys
    <3>3. map'[r] = map[r]
      BY <1>2, <2>1, <2>3 DEF Condensed
    <3>4. UNCHANGED <<bufSize, bcastSize>>
      BY <1>5, <2>3 DEF FinishReduce
    <3>5. QED
      BY <1>2, <1>4, <2>1, <2>3, <3>2, <3>3, <3>4 DEF BroadcastLengthOK
  <2>4. QED
    BY <2>2, <2>3
<1>6. CASE BcastSize(r)
  BY <1>2, <1>4, <1>6 DEF BcastSize, BroadcastLengthOK, desc, wire
<1>7. CASE ~FinishReduce(r) /\ ~BcastSize(r)
  <2>1. pc'[r] \notin {"size", "bcast"}
    BY <1>2, <1>7 DEF Step, Begin, NoSource, ReceiveSize, ReceiveMap, SendSize,
       SendMap, MallocFails, BcastMap, Finish
  <2>2. \A q \in Rank \ {r} : /\ pc'[q] = pc[q] /\ map'[q] = map[q]
                              /\ bufSize'[q] = bufSize[q]
    BY <1>2, <1>7 DEF Step, Begin, NoSource, ReceiveSize, ReceiveMap, SendSize,
       SendMap, MallocFails, BcastMap, Finish, desc
  <2>3. bcastSize' = bcastSize
    BY <1>7 DEF Step, Begin, NoSource, ReceiveSize, ReceiveMap, SendSize,
       SendMap, MallocFails, BcastMap, Finish, wire
  <2>4. QED
    BY <1>4, <2>1, <2>2, <2>3 DEF BroadcastLengthOK
<1>8. QED
  BY <1>5, <1>6, <1>7

(* The lengths hold of a job that has not started.                         *)
LEMMA LengthsInit == Init => LengthsOK /\ BroadcastLengthOK
BY DEF Init, LengthsOK, BroadcastLengthOK, At, NoSize

(* They are kept by a step that changes nothing.                           *)
LEMMA LengthsStutter ==
  LengthsOK /\ BroadcastLengthOK /\ UNCHANGED vars => (LengthsOK /\ BroadcastLengthOK)'
BY DEF LengthsOK, BroadcastLengthOK, Announced, At, Source, Destination, Expected,
       Reference, vars, desc, wire

(* Maps of lengths that are announced and covered fit.                     *)
LEMMA LengthsFit == IInv /\ LengthsOK /\ BroadcastLengthOK => BuffersFit
<1> SUFFICES ASSUME IInv, LengthsOK, BroadcastLengthOK, NEW r \in Rank
             PROVE  /\ At(r, "bcast") => PackedSize(map[r]) <= bufSize[r]
                    /\ At(r, "payload") /\ mapMsg[Source(r)].dest = r =>
                         PackedSize(mapMsg[Source(r)].body) = bufSize[r]
  BY DEF BuffersFit
<1>1. TypeOK /\ TreeOK /\ MessagesOK
  BY DEF IInv
<1>2. ASSUME At(r, "bcast") PROVE PackedSize(map[r]) <= bufSize[r]
  <2>1. DOMAIN map[r] \subseteq DOMAIN Expected(items)
    BY <1>2 DEF BroadcastLengthOK, At
  <2>2. DOMAIN Expected(items) \subseteq Uri
    BY ExpectedFacts DEF IsGroupingMap
  <2>3. Bytes(DOMAIN map[r]) <= Bytes(DOMAIN Expected(items))
    BY <2>1, <2>2, BytesAssumption
  <2>4. QED
    BY <1>2, <2>3 DEF BroadcastLengthOK, PackedSize
<1>3. ASSUME At(r, "payload"), mapMsg[Source(r)].dest = r
      PROVE  PackedSize(mapMsg[Source(r)].body) = bufSize[r]
  <2>1. Source(r) \in Rank /\ Announced(Source(r), bufSize[r])
    BY <1>1, <1>3 DEF LengthsOK, TreeOK
  <2>2. mapMsg[Source(r)].dest # NotFilled
    BY <1>3, RankFacts DEF NotFilled
  <2>3. ~At(Source(r), "sending")
    BY <1>1, <2>1, <2>2 DEF MessagesOK, At
  <2>4. QED
    BY <2>1, <2>3 DEF Announced
<1>4. QED
  BY <1>2, <1>3

(* What is packed and unpacked fits the buffer of the announced length, in *)
(* the tree and in the broadcast, when no URI is eliminated.               *)
THEOREM BuffersAlwaysFit ==
  ASSUME KeepsKeys
  PROVE  Spec => []BuffersFit
<1>1. /\ IInv /\ IInv' /\ LengthsOK /\ BroadcastLengthOK /\ [Next]_vars
      => (LengthsOK /\ BroadcastLengthOK)'
  BY LengthsStep, BroadcastLengthStep, LengthsStutter DEF Next
<1>2. QED
  BY LengthsInit, <1>1, LengthsFit, Invariance, PTL DEF Spec

-----------------------------------------------------------------------------
(* The representatives, with or without aliases.                           *)

(* A grouping call keeps its rank's item as the URI unless the elimination *)
(* has erased that item, and derives the group information from the map of *)
(* the whole job and that URI.                                             *)
FilledOK ==
  \A r \in Rank :
    /\ pc[r] # "call" /\ ItemOf(r) \in DOMAIN Expected(items) => uri[r] = ItemOf(r)
    /\ pc[r] # "done" => info[r] = NoGroupInfo
    /\ At(r, "done") /\ rc[r] =>
         info[r] = SetGroupInfo(NoGroupInfo, r, uri[r], Expected(items))

(* A step of a rank keeps the item as its URI where no elimination erased  *)
(* it, and fills the group information from the map of the whole job.      *)
LEMMA FilledStep ==
  ASSUME Call = "grouping", IInv, IInv', FilledOK, NEW r \in Rank, Step(r)
  PROVE  FilledOK'
<1> USE DEF At, Goto, Widen
<1>1. /\ TypeOK /\ TreeOK /\ GatheredOK /\ MapExact /\ BroadcastOK'
      /\ mask[r] \in Nat \ {0} /\ 0 \in Rank
  BY RankFacts DEF IInv, TypeOK
<1>2. /\ DOMAIN pc = Rank /\ DOMAIN map = Rank /\ DOMAIN uri = Rank
      /\ DOMAIN info = Rank /\ DOMAIN rc = Rank
  BY <1>1 DEF TypeOK
<1>3. UNCHANGED items
  BY DEF Step, Begin, NoSource, ReceiveSize, ReceiveMap, SendSize,
     SendMap, FinishReduce, BcastSize, MallocFails, BcastMap, Finish
<1>4. /\ Expected(items)' = Expected(items)
      /\ \A q \in Rank : ItemOf(q)' = ItemOf(q)
  BY <1>3 DEF Expected, Reference, ItemOf
<1>5. \A q \in Rank \ {r} : /\ pc'[q] = pc[q] /\ uri'[q] = uri[q]
                            /\ info'[q] = info[q] /\ rc'[q] = rc[q]
  BY <1>2 DEF Step, Begin, NoSource, ReceiveSize, ReceiveMap, SendSize,
     SendMap, FinishReduce, BcastSize, MallocFails, BcastMap, Finish, desc
<1> DEFINE Own == /\ pc'[r] # "call" /\ ItemOf(r) \in DOMAIN Expected(items) =>
                       uri'[r] = ItemOf(r)
                  /\ pc'[r] # "done" => info'[r] = NoGroupInfo
                  /\ pc'[r] = "done" /\ rc'[r] =>
                       info'[r] = SetGroupInfo(NoGroupInfo, r, uri'[r], Expected(items))
<1>6. SUFFICES Own
  BY <1>4, <1>5 DEF FilledOK
<1>7. CASE Begin(r)
  BY <1>2, <1>7 DEF Begin, FilledOK
<1>8. CASE FinishReduce(r)
  <2>1. /\ pc[r] \in {"reduce", "sent"} /\ info' = info /\ rc' = rc
        /\ pc' = [pc EXCEPT ![r] = IF r = 0 THEN "bcast" ELSE "size"]
        /\ map' = [map EXCEPT ![r] = Condensed(r)]
        /\ uri' = [uri EXCEPT ![r] =
                     IF ElimAlias THEN AdjustUri(uri[r], Condensed(r)) ELSE uri[r]]
    BY <1>8 DEF FinishReduce, Reduced
  <2>2. ASSUME ItemOf(r) \in DOMAIN Expected(items)
        PROVE  ItemOf(r) \in DOMAIN Condensed(r)
    <3>1. CASE r = 0
      <4>1. map'[0] = Expected(items) /\ map'[0] = Condensed(0)
        BY <1>1, <1>2, <1>4, <2>1, <3>1 DEF BroadcastOK
      <4>2. QED
        BY <2>2, <3>1, <4>1
    <3>2. CASE r # 0
      <4>1. Exact(items, map[r], Span(r, mask[r]))
        BY <1>1, <2>1 DEF GatheredOK
      <4>2. ItemOf(r) \in items[r] /\ ItemOf(r) \in Uri
        BY <1>1 DEF TypeOK, InputOK, ItemOf
      <4>3. r \in Span(r, mask[r])
        BY <1>1, RankFacts DEF Span
      <4>4. ItemOf(r) \in DOMAIN map[r]
        BY <4>1, <4>2, <4>3 DEF Exact, Holders
      <4>5. QED
        BY <3>2, <4>4 DEF Condensed
    <3>3. QED
      BY <3>1, <3>2
  <2>3. ASSUME ItemOf(r) \in DOMAIN Expected(items) PROVE uri'[r] = ItemOf(r)
    <3>1. uri[r] = ItemOf(r)
      BY <2>1, <2>3 DEF FilledOK
    <3>2. QED
      BY <1>2, <2>1, <2>2, <2>3, <3>1 DEF AdjustUri
  <2>4. info'[r] = NoGroupInfo /\ pc'[r] # "done"
    BY <1>2, <2>1 DEF FilledOK
  <2>5. QED
    BY <2>3, <2>4
<1>9. CASE Finish(r)
  <2>1. /\ pc[r] = "group" /\ pc'[r] = "done" /\ uri' = uri /\ rc' = rc
        /\ info'[r] = SetGroupInfo(info[r], r, uri[r], map[r])
    BY <1>2, <1>9 DEF Finish
  <2>2. info[r] = NoGroupInfo /\ (rc[r] => map[r] = Expected(items))
    BY <1>1, <2>1 DEF FilledOK, MapExact
  <2>3. ItemOf(r) \in DOMAIN Expected(items) => uri[r] = ItemOf(r)
    BY <2>1 DEF FilledOK
  <2>4. QED
    BY <2>1, <2>2, <2>3
<1>10. CASE ~Begin(r) /\ ~FinishReduce(r) /\ ~Finish(r)
  <2>1. /\ pc[r] \notin {"call", "done"} /\ pc'[r] # "done"
        /\ uri' = uri /\ info' = info
    BY <1>2, <1>10 DEF Step, NoSource, ReceiveSize, ReceiveMap, SendSize, SendMap,
       BcastSize, MallocFails, BcastMap, desc
  <2>2. QED
    BY <2>1 DEF FilledOK
<1>11. QED
  BY <1>7, <1>8, <1>9, <1>10

(* No rank's information is filled in a job that has not started.          *)
LEMMA FilledInit == Init => FilledOK
BY DEF Init, FilledOK, At

(* A step that changes nothing keeps the information.                      *)
LEMMA FilledStutter == FilledOK /\ UNCHANGED vars => FilledOK'
BY DEF FilledOK, At, Expected, Reference, ItemOf, vars, desc

(* With the information all ranks have filled that way, the first rank of  *)
(* an item takes itself for the representative and no other rank does.     *)
LEMMA FilledHasOneRep ==
  Call = "grouping" /\ IInv /\ FilledOK => OneRepPerGroup
<1> SUFFICES ASSUME Call = "grouping", IInv, FilledOK, Returned, \A q \in Rank : rc[q],
                    NEW u \in DOMAIN map[0]
             PROVE  \E r \in Holders(items, u, Rank) :
                      /\ IsRep(info[r])
                      /\ info[r].groupId = map[0][u].first
                      /\ \A q \in Rank \ {r} : IsRep(info[q]) =>
                           info[q].groupId # info[r].groupId
  BY DEF OneRepPerGroup
<1> DEFINE all == Expected(items)
           r == all[u].first
<1>1. TypeOK /\ map[0] = all
  BY RankFacts DEF IInv, MapExact, Returned, At
<1>2. /\ r \in Holders(items, u, Rank) /\ r \in Rank
      /\ \A v \in DOMAIN all : all[v].first \in Rank
  BY <1>1, ExpectedFacts DEF Holders
<1>3. \A q \in Rank : q \in Nat /\ q # NotFilled
  BY RankFacts DEF NotFilled
<1>4. ItemOf(r) = u
  BY <1>1, <1>2 DEF Holders, TypeOK, InputOK, ItemOf
<1>5. \A q \in Rank : info[q] = SetGroupInfo(NoGroupInfo, q, uri[q], all)
  BY DEF FilledOK, Returned
<1>6. uri[r] = u
  BY <1>1, <1>2, <1>4 DEF FilledOK, Returned, At
<1>7. info[r].groupId = r /\ info[r].rankInGroup = r /\ info[r].repInGroup = r
  BY <1>1, <1>2, <1>5, <1>6, FirstGroupInfo
<1>8. ASSUME NEW q \in Rank \ {r}, IsRep(info[q]) PROVE info[q].groupId # r
  <2>1. CASE uri[q] \in DOMAIN all
    <3>1. /\ info[q].groupId = all[uri[q]].first /\ info[q].rankInGroup = q
          /\ info[q].repInGroup = all[uri[q]].first
      BY <1>5, <2>1, FirstGroupInfo
    <3>2. QED
      BY <1>8, <3>1 DEF IsRep
  <2>2. CASE uri[q] \notin DOMAIN all
    <3>1. info[q] = [NoGroupInfo EXCEPT !.numOfGroups = Cardinality(DOMAIN all)]
      BY <1>5, <2>2 DEF SetGroupInfo
    <3>2. info[q].groupId = NotFilled
      BY <3>1 DEF NoGroupInfo
    <3>3. QED
      BY <1>8, <3>2 DEF IsRep, IsGroupingDone
  <2>3. QED
    BY <2>1, <2>2
<1>9. IsRep(info[r])
  BY <1>2, <1>3, <1>7 DEF IsRep, IsGroupingDone
<1>10. QED
  BY <1>1, <1>2, <1>7, <1>8, <1>9

(* When grouping has succeeded everywhere, every group has one member that *)
(* takes itself for the representative, and it holds the group's item.     *)
THEOREM GroupsHaveOneRep ==
  ASSUME Call = "grouping"
  PROVE  Spec => []OneRepPerGroup
<1>1. IInv /\ IInv' /\ FilledOK /\ [Next]_vars => FilledOK'
  BY FilledStep, FilledStutter DEF Next
<1>2. IInv /\ FilledOK => OneRepPerGroup
  BY FilledHasOneRep
<1>3. QED
  BY FilledInit, <1>1, <1>2, Invariance, PTL DEF Spec

-----------------------------------------------------------------------------
(* Nothing is lost on the way to rank 0.                                   *)

(* A rank in the reducer has passed over clear bits only, so it is a       *)
(* multiple of its mask (MPIReduction.h:66-88).                            *)
LEMMA MultipleDiv ==
  ASSUME NEW k \in Nat, NEW m \in Nat \ {0}
  PROVE  (k * m) \div m = k
OBVIOUS

(* With the next bit clear it is one of twice the mask.                    *)
LEMMA EvenMultiple ==
  ASSUME NEW k \in Nat, NEW m \in Nat \ {0}, ((k * m) \div m) % 2 = 0
  PROVE  \E j \in Nat : k * m = j * (2 * m)
<1>1. k % 2 = 0
  BY MultipleDiv
<1>2. PICK j \in Nat : k = 2 * j
  BY <1>1
<1>3. (2 * j) * m = j * (2 * m)
  BY SMT
<1>4. QED
  BY <1>2, <1>3

(* The only multiple below the mask is 0.                                  *)
LEMMA SmallMultiple ==
  ASSUME NEW k \in Nat, NEW m \in Nat \ {0}, k * m < m
  PROVE  k * m = 0
<1>1. CASE k = 0
  BY <1>1
<1>2. CASE k # 0
  <2>1. PICK j \in Nat : k = j + 1
    BY <1>2
  <2>2. k * m = j * m + m /\ j * m >= 0
    BY <2>1
  <2>3. QED
    BY <2>2
<1>3. QED
  BY <1>1, <1>2

(* The count of a map is a number, and 0 of a map without keys.            *)
LEMMA CountType ==
  /\ \A m : IsGroupingMap(m) => CountIn(m) \in Int
  /\ CountIn(EmptyMap) = 0
<1>1. ASSUME NEW m, IsGroupingMap(m) PROVE CountIn(m) \in Int
  <2> DEFINE f == [u \in DOMAIN m |-> m[u].count]
  <2>1. IsFiniteSet(DOMAIN m) /\ \A u \in DOMAIN m : f[u] \in Int
    BY <1>1, MapKeys
  <2>2. SumOver(DOMAIN m, f) \in Int
    BY <2>1, SumType
  <2>3. QED
    BY <2>2 DEF CountIn
<1>2. CountIn(EmptyMap) = 0
  <2>1. DOMAIN EmptyMap = {} /\ IsFiniteSet({})
    BY FS_EmptySet DEF EmptyMap
  <2>2. QED
    BY <2>1, SumUnfolds DEF CountIn
<1>3. QED
  BY <1>1, <1>2

(* A rank that inserts its items counts each once (DistDesc.C:365-392).    *)
LEMMA CountOfInsert ==
  ASSUME NEW own \in SUBSET Uri, NEW r
  PROVE  CountIn(Insert(EmptyMap, own, r)) = Cardinality(own)
<1> DEFINE m == Insert(EmptyMap, own, r)
           f == [u \in DOMAIN m |-> m[u].count]
<1>1. DOMAIN m = own /\ IsFiniteSet(own)
  BY UriAssumption, FS_Subset DEF Insert, EmptyMap
<1>2. \A u \in own : f[u] = 1
  BY <1>1 DEF Insert, EmptyMap
<1> HIDE DEF f
<1>3. SumOver(own, f) = Cardinality(own)
  BY <1>1, <1>2, SumOfOnes
<1>4. QED
  BY <1>1, <1>3 DEF CountIn, f

(* The counts of two maps add up in the map they are unpacked into,        *)
(* whether they share keys or not.                                         *)
LEMMA CountOfUnpack ==
  ASSUME NEW a, IsGroupingMap(a), NEW b, IsGroupingMap(b)
  PROVE  CountIn(Unpack(a, b)) = CountIn(a) + CountIn(b)
<1> DEFINE m == Unpack(a, b)
           A == DOMAIN a
           B == DOMAIN b
           S == A \cup B
           OnlyA == A \ B
           OnlyB == B \ A
           Both == A \cap B
           fa == [u \in A |-> a[u].count]
           fb == [u \in B |-> b[u].count]
           fm == [u \in DOMAIN m |-> m[u].count]
<1>1. /\ IsFiniteSet(A) /\ IsFiniteSet(B) /\ IsFiniteSet(S)
      /\ \A u \in A : fa[u] \in Int
      /\ \A u \in B : fb[u] \in Int
  <2>1. IsFiniteSet(A) /\ IsFiniteSet(B)
    BY MapKeys
  <2>2. IsFiniteSet(S)
    BY <2>1, FS_Union
  <2>3. \A u \in A : fa[u] \in Int
    BY MapKeys
  <2>4. \A u \in B : fb[u] \in Int
    BY MapKeys
  <2>5. QED
    BY <2>1, <2>2, <2>3, <2>4
<1>2. /\ DOMAIN m = S
      /\ \A u \in OnlyA : fm[u] = fa[u]
      /\ \A u \in OnlyB : fm[u] = fb[u]
      /\ \A u \in Both : fm[u] = fb[u] + fa[u]
  <2>1. DOMAIN m = S
    BY DEF Unpack
  <2>2. \A u \in OnlyA : fm[u] = fa[u]
    BY DEF Unpack
  <2>3. \A u \in OnlyB : fm[u] = fb[u]
    BY DEF Unpack
  <2>4. \A u \in Both : fm[u] = fb[u] + fa[u]
    BY DEF Unpack
  <2>5. QED
    BY <2>1, <2>2, <2>3, <2>4
<1>3. \A u \in S : fm[u] \in Int
  <2>1. \A u \in S : u \in OnlyA \/ u \in OnlyB \/ (u \in Both /\ u \in A /\ u \in B)
    OBVIOUS
  <2>2. \A u \in OnlyA : u \in A
    OBVIOUS
  <2>3. \A u \in OnlyB : u \in B
    OBVIOUS
  <2> HIDE DEF fm, fa, fb, OnlyA, OnlyB, Both, S, A, B
  <2>4. QED
    BY <1>1, <1>2, <2>1, <2>2, <2>3
<1>4. /\ CountIn(m) = SumOver(S, fm)
      /\ CountIn(a) = SumOver(A, fa) /\ CountIn(b) = SumOver(B, fb)
  BY <1>2 DEF CountIn
<1>5. /\ A = OnlyA \cup Both /\ OnlyA \cap Both = {} /\ OnlyA \subseteq A /\ Both \subseteq A
      /\ B = OnlyB \cup Both /\ OnlyB \cap Both = {} /\ OnlyB \subseteq B /\ Both \subseteq B
      /\ S = A \cup OnlyB /\ A \cap OnlyB = {} /\ A \subseteq S /\ OnlyB \subseteq S
      /\ OnlyA \subseteq S /\ Both \subseteq S
  OBVIOUS
<1> HIDE DEF fm, fa, fb, OnlyA, OnlyB, Both, S, A, B, m
<1>6. SumOver(A, fa) = SumOver(OnlyA, fa) + SumOver(Both, fa)
  BY <1>1, <1>5, SumApart
<1>7. SumOver(B, fb) = SumOver(OnlyB, fb) + SumOver(Both, fb)
  BY <1>1, <1>5, SumApart
<1>8. SumOver(S, fm) = SumOver(A, fm) + SumOver(OnlyB, fm)
  BY <1>1, <1>3, <1>5, SumApart
<1>9. SumOver(A, fm) = SumOver(OnlyA, fm) + SumOver(Both, fm)
  <2>1. \A u \in A : fm[u] \in Int
    BY <1>3, <1>5
  <2>2. QED
    BY <1>1, <1>5, <2>1, SumApart
<1>10. IsFiniteSet(OnlyA) /\ IsFiniteSet(OnlyB) /\ IsFiniteSet(Both)
  BY <1>1, <1>5, FS_Subset
<1>11. SumOver(OnlyA, fm) = SumOver(OnlyA, fa)
  BY <1>2, <1>10, SumSame
<1>12. SumOver(OnlyB, fm) = SumOver(OnlyB, fb)
  BY <1>2, <1>10, SumSame
<1>13. SumOver(Both, fm) = SumOver(Both, fb) + SumOver(Both, fa)
  <2>1. \A u \in Both : fb[u] \in Int /\ fa[u] \in Int /\ fm[u] = fb[u] + fa[u]
    BY <1>1, <1>2, <1>5
  <2>2. QED
    BY <1>10, <2>1, SumAdds
<1>14. /\ SumOver(OnlyA, fa) \in Int /\ SumOver(Both, fa) \in Int
       /\ SumOver(OnlyB, fb) \in Int /\ SumOver(Both, fb) \in Int
  <2>1. \A u \in OnlyA : fa[u] \in Int
    BY <1>1, <1>5
  <2>2. \A u \in Both : fa[u] \in Int /\ fb[u] \in Int
    BY <1>1, <1>5
  <2>3. \A u \in OnlyB : fb[u] \in Int
    BY <1>1, <1>5
  <2>4. QED
    BY <1>10, <2>1, <2>2, <2>3, SumType
<1>15. CountIn(m) = CountIn(a) + CountIn(b)
  BY <1>4, <1>6, <1>7, <1>8, <1>9, <1>11, <1>12, <1>13, <1>14
<1>16. QED
  BY <1>15 DEF m

(* The elimination of an alias keeps the count: the survivor takes over    *)
(* that of the name that is erased (DistDesc.C:516-536).                   *)
LEMMA CountOfEliminate ==
  ASSUME NEW m, IsGroupingMap(m)
  PROVE  CountIn(EliminateUriAlias(m)) = CountIn(m)
<1>1. CASE ~AliasDetected(m)
  BY <1>1 DEF EliminateUriAlias
<1>2. CASE AliasDetected(m)
  <2> DEFINE s == Survivor(m)
             e == Erased(m)
             K == DOMAIN m
             f == [u \in K |-> m[u].count]
             c == m[s].count + m[e].count
             one == [u \in {s} |-> c]
  <2>1. s \in K /\ e \in K /\ s # e /\ K = {s, e}
    BY <1>2, TwoKeys DEF AliasDetected, IsGroupingMap
  <2>2. IsFiniteSet(K) /\ \A u \in K : f[u] \in Int
    BY MapKeys
  <2>3. f[s] = m[s].count /\ f[e] = m[e].count
    BY <2>1
  <2>4. CountIn(m) = SumOver(K, f)
    BY DEF CountIn
  <2>5. CountIn(EliminateUriAlias(m)) = SumOver({s}, one)
    <3>1. EliminateUriAlias(m) = [u \in {s} |-> [first |-> m[u].first,
                                                 count |-> m[u].count + m[e].count]]
      BY <1>2 DEF EliminateUriAlias
    <3> DEFINE left == [u \in {s} |-> [first |-> m[u].first,
                                       count |-> m[u].count + m[e].count]]
    <3>2. DOMAIN left = {s} /\ [u \in {s} |-> left[u].count] = one
      OBVIOUS
    <3>3. CountIn(left) = SumOver({s}, one)
      BY <3>2 DEF CountIn
    <3>4. QED
      BY <3>1, <3>3
  <2>6. one[s] = c /\ c = f[s] + f[e] /\ c \in Int /\ f[s] \in Int /\ f[e] \in Int
    BY <2>1, <2>2, <2>3
  <2> HIDE DEF f, c, one, K, s, e
  <2>7. SumOver(K, f) = f[s] + SumOver(K \ {s}, f)
    BY <2>1, <2>2, SumMore
  <2>8. SumOver(K \ {s}, f) = f[e] + SumOver({}, f)
    <3>1. K \ {s} = {e} /\ {e} \ {e} = {} /\ {e} \in SUBSET K
      BY <2>1
    <3>2. SumOver({e}, f) = f[e] + SumOver({e} \ {e}, f)
      BY <2>2, <3>1, SumMore
    <3>3. QED
      BY <3>1, <3>2
  <2>9. SumOver({s}, one) = one[s] + SumOver({}, one)
    <3>1. IsFiniteSet({s}) /\ {s} \ {s} = {} /\ \A x \in {s} : one[x] \in Int
      BY <2>6, FS_Singleton
    <3>2. SumOver({s}, one) = one[s] + SumOver({s} \ {s}, one)
      BY <3>1, SumMore
    <3>3. QED
      BY <3>1, <3>2
  <2>10. SumOver({}, f) = 0 /\ SumOver({}, one) = 0
    BY FS_EmptySet, SumUnfolds
  <2>11. QED
    BY <2>4, <2>5, <2>6, <2>7, <2>8, <2>9, <2>10
<1>3. QED
  BY <1>1, <1>2

(* What a rank and its message carry, and what it has given, are numbers.  *)
CarriedOK ==
  \A r \in Rank : /\ CountIn(map[r]) \in Int /\ CountIn(mapMsg[r].body) \in Int
                  /\ Carried(r) \in Int /\ Given(r) \in Int

LEMMA CarriedType == TypeOK => CarriedOK
<1> SUFFICES ASSUME TypeOK, NEW r \in Rank
             PROVE  /\ CountIn(map[r]) \in Int /\ CountIn(mapMsg[r].body) \in Int
                    /\ Carried(r) \in Int /\ Given(r) \in Int
  BY DEF CarriedOK
<1>1. CountIn(map[r]) \in Int /\ CountIn(mapMsg[r].body) \in Int
  BY CountType DEF TypeOK
<1>2. Cardinality(items[r]) \in Int
  <2>1. items[r] \subseteq Uri
    BY DEF TypeOK, InputOK
  <2>2. QED
    BY <2>1, UriAssumption, FS_Subset, FS_CardinalityType
<1>3. QED
  BY <1>1, <1>2 DEF Carried, Given

(* They are after the next step, too.                                      *)
LEMMA CarriedNext == TypeOK' => CarriedOK'
BY CarriedType, PTL

(* A slot that is not in use is empty, and a rank in the reducer is a      *)
(* multiple of its mask, so that only rank 0 runs out of bits.             *)
SlotsOK == \A r \in Rank : mapMsg[r].dest = NotFilled => mapMsg[r].body = EmptyMap

MultipleOK ==
  \A r \in Rank :
    /\ At(r, "reduce") => \E k \in Nat : r = k * mask[r]
    /\ At(r, "payload") => \E k \in Nat : r = k * (2 * mask[r])

(* A step of a rank keeps them.                                            *)
LEMMA SlotsStep ==
  ASSUME IInv, SlotsOK, MultipleOK, NEW r \in Rank, Step(r)
  PROVE  SlotsOK' /\ MultipleOK'
<1> USE DEF At, Goto, Widen
<1>1. /\ TypeOK /\ TreeOK /\ GatheredOK
      /\ r \in Nat /\ N \in Nat /\ mask[r] \in Nat \ {0}
  BY RankFacts, CallAssumption DEF IInv, TypeOK
<1>2. DOMAIN pc = Rank /\ DOMAIN mask = Rank /\ DOMAIN mapMsg = Rank
  BY <1>1 DEF TypeOK
<1>3. SlotsOK'
  <2>1. CASE ReceiveMap(r)
    <3>1. mapMsg' = [mapMsg EXCEPT ![Source(r)] = NoMap]
      BY <2>1 DEF ReceiveMap
    <3>2. QED
      BY <1>2, <3>1 DEF SlotsOK, NoMap
  <2>2. CASE SendMap(r)
    <3>1. /\ mapMsg' = [mapMsg EXCEPT ![r] = [dest |-> Destination(r), body |-> map[r]]]
          /\ Destination(r) # NotFilled
      BY <1>1, <2>2, RankFacts DEF SendMap, TreeOK, NotFilled
    <3>2. QED
      BY <1>2, <3>1 DEF SlotsOK
  <2>3. CASE ~ReceiveMap(r) /\ ~SendMap(r)
    <3>1. mapMsg' = mapMsg
      BY <2>3 DEF Step, Begin, NoSource, ReceiveSize, SendSize, FinishReduce,
         BcastSize, MallocFails, BcastMap, Finish, wire
    <3>2. QED
      BY <3>1 DEF SlotsOK
  <2>4. QED
    BY <2>1, <2>2, <2>3
<1>4. MultipleOK'
  <2>1. CASE Begin(r)
    <3>1. pc' = [pc EXCEPT ![r] = "reduce"] /\ mask' = mask /\ mask[r] = 1
      BY <1>1, <2>1 DEF Begin, GatheredOK
    <3>2. r = r * mask'[r]
      BY <1>1, <3>1
    <3>3. \E k \in Nat : r = k * mask'[r]
      BY <1>1, <3>2
    <3>4. QED
      BY <1>2, <3>1, <3>3 DEF MultipleOK
  <2>2. CASE NoSource(r) \/ ReceiveSize(r)
    <3>1. pc[r] = "reduce" /\ (r \div mask[r]) % 2 = 0
      BY <2>2 DEF NoSource, ReceiveSize, Clear
    <3>2. PICK k \in Nat : r = k * mask[r]
      BY <3>1 DEF MultipleOK
    <3>3. \E j \in Nat : r = j * (2 * mask[r])
      <4>1. ((k * mask[r]) \div mask[r]) % 2 = 0
        BY <3>1, <3>2
      <4>2. \E j \in Nat : k * mask[r] = j * (2 * mask[r])
        BY <1>1, <4>1, EvenMultiple
      <4>3. QED
        BY <3>2, <4>2
    <3>4. CASE NoSource(r)
      <4>1. pc' = pc /\ mask' = [mask EXCEPT ![r] = 2 * mask[r]]
        BY <3>4 DEF NoSource
      <4>2. \E j \in Nat : r = j * mask'[r]
        BY <1>2, <3>3, <4>1
      <4>3. QED
        BY <1>2, <3>1, <4>1, <4>2 DEF MultipleOK
    <3>5. CASE ReceiveSize(r)
      <4>1. pc' = [pc EXCEPT ![r] = "payload"] /\ mask' = mask
        BY <3>5 DEF ReceiveSize
      <4>2. QED
        BY <1>2, <3>3, <4>1 DEF MultipleOK
    <3>6. QED
      BY <2>2, <3>4, <3>5
  <2>3. CASE ReceiveMap(r)
    <3>1. /\ pc[r] = "payload" /\ pc' = [pc EXCEPT ![r] = "reduce"]
          /\ mask' = [mask EXCEPT ![r] = 2 * mask[r]]
      BY <2>3 DEF ReceiveMap
    <3>2. \E k \in Nat : r = k * (2 * mask[r])
      BY <3>1 DEF MultipleOK
    <3>3. \E k \in Nat : r = k * mask'[r]
      BY <1>2, <3>1, <3>2
    <3>4. QED
      BY <1>2, <3>1, <3>3 DEF MultipleOK
  <2>4. CASE ~Begin(r) /\ ~NoSource(r) /\ ~ReceiveSize(r) /\ ~ReceiveMap(r)
    <3>1. pc'[r] \notin {"reduce", "payload"} /\ mask' = mask
      BY <1>2, <2>4 DEF Step, SendSize, SendMap, FinishReduce, BcastSize,
         MallocFails, BcastMap, Finish
    <3>2. \A q \in Rank \ {r} : pc'[q] = pc[q]
      BY <1>2, <2>4 DEF Step, SendSize, SendMap, FinishReduce, BcastSize,
         MallocFails, BcastMap, Finish
    <3>3. QED
      BY <3>1, <3>2 DEF MultipleOK
  <2>5. QED
    BY <2>1, <2>2, <2>3, <2>4
<1>5. QED
  BY <1>3, <1>4

(* Only rank 0 leaves the reducer without having sent.                     *)
LEMMA OnlyRootKeeps ==
  ASSUME TypeOK, TreeOK, MultipleOK, NEW r \in Rank, Reduced(r)
  PROVE  At(r, "reduce") <=> r = 0
<1>1. r \in Nat /\ N \in Nat /\ r < N /\ mask[r] \in Nat \ {0}
  BY RankFacts, CallAssumption DEF TypeOK, Rank
<1>2. ASSUME At(r, "reduce") PROVE r = 0
  <2>1. mask[r] >= N
    BY <1>2 DEF Reduced, At
  <2>2. PICK k \in Nat : r = k * mask[r]
    BY <1>2 DEF MultipleOK
  <2>3. k * mask[r] < mask[r]
    BY <1>1, <2>1, <2>2
  <2>4. QED
    BY <1>1, <2>2, <2>3, SmallMultiple
<1>3. ASSUME ~At(r, "reduce") PROVE r # 0
  BY <1>3 DEF Reduced, TreeOK, At
<1>4. QED
  BY <1>2, <1>3

(* Each step carries on what it finds: only the start of a rank adds to    *)
(* the counts, and it adds what the rank gives.                            *)
LEMMA NothingLostStep ==
  ASSUME IInv, IInv', SlotsOK, MultipleOK, NothingLost, NEW r \in Rank, Step(r)
  PROVE  NothingLost'
<1> USE DEF At, Goto, Widen
<1> DEFINE f == [q \in Rank |-> Carried(q)]
           h == [q \in Rank |-> Carried(q)']
           g == [q \in Rank |-> Given(q)]
           k == [q \in Rank |-> Given(q)']
<1>1. /\ TypeOK /\ TypeOK' /\ TreeOK /\ GatheredOK /\ MessagesOK
      /\ r \in Nat /\ mask[r] \in Nat \ {0} /\ IsFiniteSet(Rank)
  BY RankFacts DEF IInv, TypeOK
<1>2. /\ DOMAIN pc = Rank /\ DOMAIN map = Rank /\ DOMAIN mapMsg = Rank
  BY <1>1 DEF TypeOK
<1>3. UNCHANGED items
  BY DEF Step, Begin, NoSource, ReceiveSize, ReceiveMap, SendSize,
     SendMap, FinishReduce, BcastSize, MallocFails, BcastMap, Finish
<1>4. \A q \in Rank : /\ f[q] \in Int /\ h[q] \in Int
                      /\ g[q] \in Int /\ k[q] \in Int
  <2>1. \A q \in Rank : Carried(q) \in Int /\ Given(q) \in Int
    BY <1>1, CarriedType DEF CarriedOK
  <2>2. \A q \in Rank : Carried(q)' \in Int /\ Given(q)' \in Int
    BY <1>1, CarriedNext DEF CarriedOK
  <2>3. QED
    BY <2>1, <2>2
<1>5. SumOver(Rank, f) = SumOver(Rank, g)
  BY DEF NothingLost
<1>6. NothingLost' <=> SumOver(Rank, h) = SumOver(Rank, k)
  BY DEF NothingLost, SumOver, FoldFunctionOnSet, MapThenFoldSet
<1>7. ASSUME \A q \in Rank \ {r} : h[q] = f[q] /\ k[q] = g[q],
             h[r] - f[r] = k[r] - g[r]
      PROVE  NothingLost'
  <2>a. /\ \A q \in Rank : f[q] \in Int /\ h[q] \in Int
        /\ \A q \in Rank \ {r} : h[q] = f[q]
    BY <1>4, <1>7
  <2>c. IsFiniteSet(Rank) /\ r \in Rank
    BY <1>1
  <2>b. /\ \A q \in Rank : g[q] \in Int /\ k[q] \in Int
        /\ \A q \in Rank \ {r} : k[q] = g[q]
    BY <1>4, <1>7
  <2> HIDE DEF f, h, g, k
  <2>1. SumOver(Rank, h) = SumOver(Rank, f) + h[r] - f[r]
    BY <2>a, <2>c, SumOneChanges
  <2>2. SumOver(Rank, k) = SumOver(Rank, g) + k[r] - g[r]
    BY <2>b, <2>c, SumOneChanges
  <2>3. SumOver(Rank, f) \in Int
    BY <1>1, <1>4, SumType
  <2>4. QED
    BY <1>4, <1>5, <1>6, <1>7, <2>1, <2>2, <2>3
<1>8. ASSUME \A q \in Rank \ {r} : /\ pc'[q] = pc[q] /\ map'[q] = map[q]
                                   /\ mapMsg'[q] = mapMsg[q]
      PROVE  \A q \in Rank \ {r} : h[q] = f[q] /\ k[q] = g[q]
  BY <1>3, <1>8 DEF Carried, Given, CarriesOwn, CountIn
<1>9. CASE Begin(r)
  <2>1. /\ pc[r] = "call" /\ pc' = [pc EXCEPT ![r] = "reduce"] /\ map[r] = EmptyMap
        /\ map' = [map EXCEPT ![r] = Insert(EmptyMap, items[r], r)]
        /\ mapMsg' = mapMsg
    BY <1>2, <1>9 DEF Begin, wire
  <2>2. CountIn(map'[r]) = Cardinality(items[r]) /\ items[r] \in SUBSET Uri
    BY <1>1, <1>2, <2>1, CountOfInsert DEF TypeOK, InputOK
  <2>3. /\ pc'[r] = "reduce" /\ mapMsg'[r] = mapMsg[r] /\ items'[r] = items[r]
    BY <1>2, <1>3, <2>1
  <2> DEFINE n == CountIn(mapMsg[r].body)
             c == Cardinality(items[r])
  <2>4. f[r] = 0 + n /\ g[r] = 0
    BY <1>9, <2>1 DEF Carried, Given, CarriesOwn, Begin
  <2>5. h[r] = c + n /\ k[r] = c
    BY <1>3, <2>1, <2>2, <2>3 DEF Carried, Given, CarriesOwn, CountIn
  <2>6. n \in Int /\ c \in Int
    BY <1>1, <1>4, <2>5, CarriedType DEF CarriedOK
  <2>7. h[r] - f[r] = k[r] - g[r]
    BY <2>4, <2>5, <2>6
  <2>8. QED
    BY <1>2, <1>7, <1>8, <2>1, <2>7
<1>10. CASE ReceiveMap(r)
  <2> DEFINE s == Source(r)
             a == CountIn(map[r])
             b == CountIn(mapMsg[s].body)
             d == CountIn(mapMsg[r].body)
  <2>1. /\ s \in Rank /\ s # r /\ mapMsg[s].dest = r
        /\ pc[r] = "payload" /\ pc' = [pc EXCEPT ![r] = "reduce"]
        /\ map' = [map EXCEPT ![r] = Unpack(map[r], mapMsg[s].body)]
        /\ mapMsg' = [mapMsg EXCEPT ![s] = NoMap]
    BY <1>1, <1>10, RankFacts DEF ReceiveMap, TreeOK, Source
  <2>2. CountIn(map'[r]) = a + b
    BY <1>1, <1>2, <2>1, CountOfUnpack DEF TypeOK
  <2>3. CountIn(mapMsg'[s].body) = 0
    BY <1>2, <2>1, CountType DEF NoMap
  <2>4. pc'[r] = "reduce" /\ pc'[s] = pc[s] /\ map'[s] = map[s] /\ mapMsg'[r] = mapMsg[r]
    BY <1>2, <2>1
  <2> DEFINE own == IF CarriesOwn(s) THEN CountIn(map[s]) ELSE 0
  <2>5. f[r] = a + d /\ f[s] = own + b
    BY <2>1 DEF Carried, CarriesOwn
  <2>6. h[r] = (a + b) + d
    BY <2>1, <2>2, <2>4 DEF Carried, CarriesOwn, CountIn
  <2>7. h[s] = own + 0
    BY <2>1, <2>3, <2>4 DEF Carried, CarriesOwn, CountIn
  <2>8. a \in Int /\ b \in Int /\ d \in Int /\ own \in Int
    <3>1. CarriedOK
      BY <1>1, CarriedType
    <3>2. CountIn(map[s]) \in Int /\ b \in Int
      BY <2>1, <3>1 DEF CarriedOK
    <3>3. a \in Int /\ d \in Int
      BY <3>1 DEF CarriedOK
    <3>4. QED
      BY <3>2, <3>3
  <2>9. h[r] + h[s] = f[r] + f[s]
    BY <2>5, <2>6, <2>7, <2>8
  <2>10. \A q \in Rank \ {r, s} : h[q] = f[q]
    <3>1. \A q \in Rank \ {r, s} : pc'[q] = pc[q] /\ map'[q] = map[q] /\ mapMsg'[q] = mapMsg[q]
      BY <1>2, <2>1
    <3>2. QED
      BY <3>1 DEF Carried, CarriesOwn, CountIn
  <2>11. \A q \in Rank : k[q] = g[q]
    BY <1>2, <1>3, <2>1 DEF Given
  <2>a. /\ \A q \in Rank : f[q] \in Int /\ h[q] \in Int
        /\ IsFiniteSet(Rank) /\ r \in Rank /\ s \in Rank /\ r # s
    BY <1>1, <1>4, <2>1
  <2> HIDE DEF f, h, g, k, s
  <2>12. SumOver(Rank, h) = SumOver(Rank, f)
    BY <2>a, <2>9, <2>10, SumMoves
  <2>13. SumOver(Rank, k) = SumOver(Rank, g)
    BY <1>1, <2>11, SumSame
  <2>14. QED
    BY <1>5, <1>6, <2>12, <2>13
<1>11. CASE SendMap(r)
  <2>1. /\ pc[r] = "sending" /\ pc' = [pc EXCEPT ![r] = "sent"] /\ map' = map
        /\ mapMsg' = [mapMsg EXCEPT ![r] = [dest |-> Destination(r), body |-> map[r]]]
        /\ r # 0
    BY <1>1, <1>11 DEF SendMap, TreeOK, desc
  <2>2. mapMsg[r].body = EmptyMap
    BY <1>1, <2>1 DEF MessagesOK, SlotsOK
  <2> DEFINE a == CountIn(map[r])
  <2>3. f[r] = a + 0 /\ a \in Int
    BY <1>1, <2>1, <2>2, CountType, CarriedType DEF Carried, CarriesOwn, CarriedOK
  <2>4. pc'[r] = "sent" /\ mapMsg'[r].body = map[r] /\ map'[r] = map[r]
    BY <1>2, <2>1
  <2>5. h[r] = 0 + a
    BY <2>1, <2>4 DEF Carried, CarriesOwn, CountIn
  <2>6. g[r] = k[r]
    BY <1>3, <2>1, <2>4 DEF Given
  <2>7. h[r] - f[r] = k[r] - g[r]
    BY <1>4, <2>3, <2>5, <2>6
  <2>8. QED
    BY <1>2, <1>7, <1>8, <2>1, <2>7
<1>12. CASE FinishReduce(r)
  <2>1. /\ pc[r] \in {"reduce", "sent"} /\ (pc[r] = "reduce" <=> r = 0)
        /\ pc' = [pc EXCEPT ![r] = IF r = 0 THEN "bcast" ELSE "size"]
        /\ map' = [map EXCEPT ![r] = Condensed(r)] /\ mapMsg' = mapMsg
    BY <1>1, <1>12, OnlyRootKeeps DEF FinishReduce, Reduced
  <2>2. h[r] = f[r]
    <3>1. CASE r = 0
      <4>1. CountIn(map'[r]) = CountIn(map[r])
        BY <1>1, <1>2, <2>1, CountOfEliminate DEF Condensed, TypeOK
      <4>2. pc'[r] = "bcast" /\ mapMsg'[r] = mapMsg[r]
        BY <1>2, <2>1, <3>1
      <4>3. QED
        BY <2>1, <3>1, <4>1, <4>2 DEF Carried, CarriesOwn, CountIn
    <3>2. CASE r # 0
      <4>1. pc[r] = "sent" /\ pc'[r] = "size" /\ mapMsg'[r] = mapMsg[r]
        BY <1>2, <2>1, <3>2
      <4>2. QED
        BY <3>2, <4>1 DEF Carried, CarriesOwn, CountIn
    <3>3. QED
      BY <3>1, <3>2
  <2>3. g[r] = k[r]
    BY <1>2, <1>3, <2>1 DEF Given
  <2>4. h[r] - f[r] = k[r] - g[r]
    BY <1>4, <2>2, <2>3
  <2>5. QED
    BY <1>2, <1>7, <1>8, <2>1, <2>4
<1>13. CASE /\ ~Begin(r) /\ ~ReceiveMap(r) /\ ~SendMap(r) /\ ~FinishReduce(r)
  <2>1. /\ mapMsg' = mapMsg /\ pc[r] # "call" /\ pc'[r] # "call"
        /\ \A q \in Rank \ {r} : pc'[q] = pc[q] /\ map'[q] = map[q]
        /\ CarriesOwn(r) => CarriesOwn(r)' /\ map'[r] = map[r]
        /\ CarriesOwn(r)' => CarriesOwn(r)
    BY <1>2, <1>13 DEF Step, NoSource, ReceiveSize, SendSize, BcastSize, MallocFails,
       BcastMap, Finish, CarriesOwn, desc, wire
  <2>2. h[r] = f[r]
    BY <2>1 DEF Carried, CountIn
  <2>3. g[r] = k[r]
    BY <1>3, <2>1 DEF Given
  <2>4. h[r] - f[r] = k[r] - g[r]
    BY <1>4, <2>2, <2>3
  <2>5. QED
    BY <1>7, <1>8, <2>1, <2>4
<1>14. QED
  BY <1>9, <1>10, <1>11, <1>12, <1>13

(* A job that has not started carries nothing and has given nothing.       *)
LEMMA NothingLostInit == Init => SlotsOK /\ MultipleOK /\ NothingLost
<1> SUFFICES ASSUME Init PROVE SlotsOK /\ MultipleOK /\ NothingLost
  OBVIOUS
<1>1. SlotsOK /\ MultipleOK
  BY DEF Init, SlotsOK, MultipleOK, NoMap, At
<1>2. \A r \in Rank : Carried(r) = 0 /\ Given(r) = 0
  BY CountType DEF Init, Carried, CarriesOwn, Given, At, NoMap
<1>3. [r \in Rank |-> Carried(r)] = [r \in Rank |-> Given(r)]
  BY <1>2
<1>4. QED
  BY <1>1, <1>3 DEF NothingLost

(* Nor does a step that changes nothing lose anything.                     *)
LEMMA NothingLostStutter ==
  SlotsOK /\ MultipleOK /\ NothingLost /\ UNCHANGED vars
    => (SlotsOK /\ MultipleOK /\ NothingLost)'
<1> SUFFICES ASSUME SlotsOK, MultipleOK, NothingLost, UNCHANGED vars
             PROVE  (SlotsOK /\ MultipleOK /\ NothingLost)'
  OBVIOUS
<1>1. UNCHANGED <<items, pc, mask, map, mapMsg>>
  BY DEF vars, desc, wire
<1>2. SlotsOK' /\ MultipleOK'
  BY <1>1 DEF SlotsOK, MultipleOK, At
<1>3. \A r \in Rank : Carried(r)' = Carried(r) /\ Given(r)' = Given(r)
  BY <1>1 DEF Carried, Given, CarriesOwn, CountIn, At
<1>4. NothingLost'
  <2>1. /\ [r \in Rank |-> Carried(r)]' = [r \in Rank |-> Carried(r)]
        /\ [r \in Rank |-> Given(r)]' = [r \in Rank |-> Given(r)]
    BY <1>3
  <2>2. NothingLost' <=> SumOver(Rank, [r \in Rank |-> Carried(r)]') = 
                           SumOver(Rank, [r \in Rank |-> Given(r)]')
    BY DEF NothingLost
  <2>3. QED
    BY <2>1, <2>2 DEF NothingLost
<1>5. QED
  BY <1>2, <1>4

(* No contribution of any rank is lost, and none counted twice, whatever   *)
(* the number of ranks, the order of the messages and the elimination.     *)
THEOREM NothingIsLost == Spec => []NothingLost
<1>1. IInv /\ IInv' /\ SlotsOK /\ MultipleOK /\ NothingLost /\ [Next]_vars
      => (SlotsOK /\ MultipleOK /\ NothingLost)'
  BY SlotsStep, NothingLostStep, NothingLostStutter DEF Next
<1>2. QED
  BY NothingLostInit, <1>1, Invariance, PTL DEF Spec
=============================================================================
