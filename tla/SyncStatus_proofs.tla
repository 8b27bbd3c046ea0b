------------------------- MODULE SyncStatus_proofs -------------------------
(***************************************************************************)
(* What holds of every program of SyncStatus, whatever is wrong with the   *)
(* nodes: its variables keep their types, what a process knows of the      *)
(* groups is what the grouping tells it, and the Bloom filter of a job     *)
(* that keeps its promise on the number of servers is never full           *)
(* (LegalInv).  And of the errors of signiture: unless they may cancel in  *)
(* their sum nobody goes on after one, and isConsistent says yes of no     *)
(* files that differ (FailInv).  And that the calls implement Survey.      *)
(***************************************************************************)
EXTENDS SyncProgram, FileStatusBase_lemmas

(* A step that leaves what the ranks find on their nodes as it was.        *)
NodeSame ==
  /\ script' = script /\ uri' = uri /\ remote' = remote
  /\ file' = file /\ health' = health

(* A rank that a step does not touch.                                      *)
SameAt(q) ==
  /\ call'[q] = call[q] /\ pc'[q] = pc[q] /\ stage'[q] = stage[q]
  /\ ready'[q] = ready[q] /\ got'[q] = got[q] /\ said'[q] = said[q]
  /\ generator'[q] = generator[q] /\ card'[q] = card[q] /\ cutoff'[q] = cutoff[q]
  /\ nodeLocal'[q] = nodeLocal[q] /\ known'[q] = known[q]
  /\ info'[q] = info[q] /\ mapped'[q] = mapped[q]
  /\ rc'[q] = rc[q] /\ sig'[q] = sig[q] /\ size'[q] = size[q] /\ comm'[q] = comm[q]

-----------------------------------------------------------------------------
(* What a local step leaves alone.                                         *)

(* A step of rank r alone.                                                 *)
Frame(r) ==
  /\ NodeSame /\ Domains' /\ ready' \in [Rank -> BOOLEAN]
  /\ \A q \in Rank \ {r} : SameAt(q)

(* The ways to move on within the program.                                 *)
ControlStep(r) ==
  \/ \E point : GoTo(r, point)
  \/ \E answer : Return(r, answer)
  \/ \E part : Broadcast(r, part)

(* A local step goes on to a point of the call, returns or broadcasts.     *)
LEMMA LocalControl ==
  ASSUME NEW r \in Rank, Local(r)
  PROVE  ControlStep(r)
<1> USE DEF ControlStep
  <1>1. CASE Initialize(r) \/ Triage(r) \/ TriageRemote(r) \/ TriageBloom(r) \/ Ask(r) \/ ForceInfo(r)
  BY <1>1 DEF Initialize, Triage, TriageRemote, TriageBloom, Ask, ForceInfo, YesIf
<1>2. CASE Unique(r)
  <2>1. ASSUME NEW answer, UniqueIs(r, answer) PROVE ControlStep(r)
    BY <2>1 DEF UniqueIs
  <2>2. GoTo(r, "groupUnique") \/ \E answer : UniqueIs(r, answer)
    BY <1>2 DEF Unique
  <2>3. QED
    BY <2>1, <2>2
<1>3. CASE SignUnregistered(r) \/ SignUngrouped(r) \/ SignByRep(r) \/ SignAlone(r)
  BY <1>3 DEF SignUnregistered, SignUngrouped, SignByRep, SignAlone, NoSigniture, Signed
<1>4. CASE SumRc(r) \/ Split(r) \/ Share(r) \/ Compare(r)
  BY <1>4 DEF SumRc, Split, Share, Compare, NoSigniture, Signed, YesIf
<1>5. QED
  BY <1>1, <1>2, <1>3, <1>4 DEF Local

(* The local steps of a rank change nothing of the others.                 *)
LEMMA LocalFrame ==
  ASSUME Domains, ready \in [Rank -> BOOLEAN], NEW r \in Rank, Local(r)
  PROVE  Frame(r)
<1> USE DEF NodeSame, node, dist, desc, locals
<1>1. NodeSame
  BY DEF Local, Initialize, Triage, TriageRemote, TriageBloom, Ask, ForceInfo, Unique,
     SignUnregistered, SignUngrouped, SignByRep, SignAlone, SumRc, Split, Share, Compare
<1>2. ControlStep(r)
  BY LocalControl
<1>3. /\ DOMAIN call' = Rank /\ DOMAIN pc' = Rank /\ DOMAIN stage' = Rank
      /\ ready' \in [Rank -> BOOLEAN] /\ DOMAIN got' = Rank /\ DOMAIN said' = Rank
      /\ \A q \in Rank \ {r} :
           /\ call'[q] = call[q] /\ pc'[q] = pc[q] /\ stage'[q] = stage[q]
           /\ ready'[q] = ready[q] /\ got'[q] = got[q] /\ said'[q] = said[q]
  <2>1. CASE \E point : GoTo(r, point)
    BY <2>1 DEF GoTo, Domains
  <2>2. CASE \E answer : Return(r, answer)
    BY <2>2 DEF Return, Domains
  <2>3. CASE \E part : Broadcast(r, part)
    BY <2>3 DEF Broadcast, Domains
  <2>4. QED
    BY <1>2, <2>1, <2>2, <2>3 DEF ControlStep
<1>4. /\ DOMAIN generator' = Rank /\ DOMAIN card' = Rank /\ DOMAIN cutoff' = Rank
      /\ DOMAIN nodeLocal' = Rank /\ DOMAIN known' = Rank
      /\ DOMAIN info' = Rank /\ DOMAIN mapped' = Rank
      /\ DOMAIN rc' = Rank /\ DOMAIN sig' = Rank /\ DOMAIN size' = Rank
      /\ DOMAIN comm' = Rank
      /\ \A q \in Rank \ {r} :
           /\ generator'[q] = generator[q] /\ card'[q] = card[q] /\ cutoff'[q] = cutoff[q]
           /\ nodeLocal'[q] = nodeLocal[q] /\ known'[q] = known[q]
           /\ info'[q] = info[q] /\ mapped'[q] = mapped[q]
           /\ rc'[q] = rc[q] /\ sig'[q] = sig[q] /\ size'[q] = size[q] /\ comm'[q] = comm[q]
  <2> USE DEF Domains
  <2>1. CASE Initialize(r) \/ Triage(r) \/ Ask(r) \/ ForceInfo(r) \/ Unique(r)
    BY <2>1 DEF Initialize, Triage, Ask, ForceInfo, Unique
  <2>2. CASE TriageRemote(r) \/ TriageBloom(r)
    BY <2>2 DEF TriageRemote, TriageBloom
  <2>3. CASE SignUnregistered(r) \/ SignUngrouped(r) \/ SignByRep(r) \/ SignAlone(r)
    BY <2>3 DEF SignUnregistered, SignUngrouped, SignByRep, SignAlone
  <2>4. CASE SumRc(r) \/ Split(r) \/ Share(r) \/ Compare(r)
    BY <2>4 DEF SumRc, Split, Share, Compare
  <2>5. QED
    BY <2>1, <2>2, <2>3, <2>4 DEF Local
<1>5. QED
  BY <1>1, <1>3, <1>4 DEF Frame, SameAt, Domains

-----------------------------------------------------------------------------
(* What holds of every program, rank by rank.                              *)

Point == {"idle", "sign", "classify", "anyRemote", "bloom", "groupUnique", "groupSign",
          "groupForce", "sumRc", "split", "share", "compare", "differ"}

Alias == AliasDetected(UriMap(uri))     \* grouping eliminates one of two URIs

(* Its place in the program.                                               *)
PlaceTyped(r) ==
  /\ call[r] \in 1 .. Len(script) + 1 /\ (pc[r] # "idle" => call[r] <= Len(script))
  /\ said[r] \in Seq(Answer) /\ Len(said[r]) = call[r] - 1
  /\ pc[r] \in Point /\ stage[r] \in 0 .. 3
  /\ pc[r] \in {"split", "share"} => stage[r] # 0

(* What a collective has given it.                                         *)
GotTyped(r) ==
  /\ got[r] \in Int
  /\ In(r, "bloom") => got[r] = PopCount(Filter(uri))
  /\ In(r, "share") /\ stage[r] = 2 => got[r] \in {0, 1}
  /\ In(r, "share") /\ stage[r] = 3 => got[r] \in Sig \cup {NoSig}

(* What the object and the call hold.                                      *)
DataTyped(r) ==
  /\ generator[r] \in BOOLEAN /\ cutoff[r] \in Int
  /\ card[r] \in {NotFilled, N, Estimate(PopCount(Filter(uri)))}
  /\ nodeLocal[r] \in BOOLEAN /\ known[r] \in BOOLEAN
  /\ rc[r] \in {-1, 0, 1} /\ sig[r] \in Sig \cup {NoSig} /\ size[r] \in {0, 1}

(* What it knows of the groups: a rank waits to be grouped only without    *)
(* the groups, and signs and shares only with them.                        *)
GroupsTyped(r) ==
  /\ mapped[r] \in BOOLEAN
  /\ info[r] = IF mapped[r] THEN GroupInfoAt(uri, r) ELSE NoGroupInfo
  /\ comm[r] # {} => comm[r] = Mates(r) /\ ~Alias
  /\ pc[r] \in {"groupUnique", "groupSign", "groupForce"} => (ready[r] <=> mapped[r])
  /\ pc[r] \in {"sumRc", "split", "share"} => mapped[r]
  /\ pc[r] = "split" => GroupWise(r)

(* All that the ranks hold is a function of the rank.                      *)
Functions ==
  /\ call = [r \in Rank |-> call[r]] /\ pc = [r \in Rank |-> pc[r]]
  /\ stage = [r \in Rank |-> stage[r]] /\ ready = [r \in Rank |-> ready[r]]
  /\ got = [r \in Rank |-> got[r]] /\ said = [r \in Rank |-> said[r]]
  /\ generator = [r \in Rank |-> generator[r]] /\ card = [r \in Rank |-> card[r]]
  /\ cutoff = [r \in Rank |-> cutoff[r]] /\ nodeLocal = [r \in Rank |-> nodeLocal[r]]
  /\ known = [r \in Rank |-> known[r]] /\ info = [r \in Rank |-> info[r]]
  /\ mapped = [r \in Rank |-> mapped[r]] /\ rc = [r \in Rank |-> rc[r]]
  /\ sig = [r \in Rank |-> sig[r]] /\ size = [r \in Rank |-> size[r]]
  /\ comm = [r \in Rank |-> comm[r]]

Legal(r) == PlaceTyped(r) /\ GotTyped(r) /\ DataTyped(r) /\ GroupsTyped(r)

LegalInv ==
  /\ script \in Scripts /\ NodesOK /\ Functions
  /\ ready \in [Rank -> BOOLEAN]
  /\ \A r \in Rank : Legal(r)
  /\ \A r, q \in Rank : mapped[r] <=> mapped[q]

-----------------------------------------------------------------------------
(* The invariant is one of types.                                          *)

(* Each part of the invariant on its own.                                  *)
LEMMA LegalParts ==
  ASSUME LegalInv, NEW r \in Rank
  PROVE  /\ PlaceTyped(r) /\ GotTyped(r) /\ DataTyped(r) /\ GroupsTyped(r)
         /\ Domains /\ ready[r] \in BOOLEAN /\ Len(script) \in Nat
         /\ uri \in [Rank -> Uri] /\ file[r] \in Sig
<1>1. Len(script) \in Nat
  BY ScriptAssumption DEF LegalInv
<1>2. Domains
  BY DEF LegalInv, Functions, Domains
<1>3. QED
  BY <1>1, <1>2 DEF LegalInv, Legal, NodesOK

(* Every variable has its type.                                            *)
LEMMA LegalTypes ==
  ASSUME LegalInv
  PROVE  TypeOK
<1>1. /\ script \in Scripts
      /\ uri \in [Rank -> Uri] /\ remote \in [Rank -> BOOLEAN]
      /\ file \in [Rank -> Sig] /\ health \in [Rank -> Health]
      /\ ready \in [Rank -> BOOLEAN]
  BY DEF LegalInv, NodesOK
<1>2. \A r \in Rank : PlaceTyped(r) /\ GotTyped(r) /\ DataTyped(r) /\ GroupsTyped(r)
  BY LegalParts
<1>3. Functions
  BY DEF LegalInv
<1>4. /\ call \in [Rank -> 1 .. Len(script) + 1] /\ pc \in [Rank -> Point]
      /\ stage \in [Rank -> 0 .. 3] /\ got \in [Rank -> Int]
      /\ \A r \in Rank : said[r] \in Seq(Answer) /\ Len(said[r]) = call[r] - 1
  BY <1>2, <1>3 DEF Functions, PlaceTyped, GotTyped
<1>5. /\ generator \in [Rank -> BOOLEAN] /\ cutoff \in [Rank -> Int]
      /\ card \in [Rank -> {NotFilled, N, Estimate(PopCount(Filter(uri)))}]
      /\ nodeLocal \in [Rank -> BOOLEAN] /\ known \in [Rank -> BOOLEAN]
      /\ rc \in [Rank -> {-1, 0, 1}] /\ sig \in [Rank -> Sig \cup {NoSig}]
      /\ size \in [Rank -> {0, 1}]
  BY <1>2, <1>3 DEF Functions, DataTyped
<1>6. mapped \in [Rank -> BOOLEAN] /\ info \in [Rank -> GroupInfo]
  <2>1. NoGroupInfo \in GroupInfo
    BY DEF NoGroupInfo, GroupInfo, FilledId
  <2>2. \A r \in Rank : GroupInfoAt(uri, r) \in GroupInfo
    BY <1>1, GroupInfoType
  <2>3. \A r \in Rank : mapped[r] \in BOOLEAN /\ info[r] \in GroupInfo
    BY <1>2, <2>1, <2>2 DEF GroupsTyped
  <2>4. QED
    BY <1>3, <2>3 DEF Functions
<1>7. comm \in [Rank -> SUBSET Rank]
  <2>1. \A r \in Rank : comm[r] \in SUBSET Rank
    BY <1>2 DEF GroupsTyped, Mates
  <2>2. QED
    BY <1>3, <2>1 DEF Functions
<1>8. QED
  BY <1>1, <1>4, <1>5, <1>6, <1>7 DEF TypeOK, Point

-----------------------------------------------------------------------------
(* A local step.                                                           *)

(* A rank that a step does not touch keeps the invariant.                  *)
LEMMA OthersLegal ==
  ASSUME NodeSame, NEW q \in Rank, Legal(q), SameAt(q)
  PROVE  Legal(q)'
<1> USE DEF NodeSame, SameAt
<1>1. PlaceTyped(q)'
  BY DEF Legal, PlaceTyped
<1>2. GotTyped(q)'
  BY DEF Legal, GotTyped, In
<1>3. DataTyped(q)'
  BY DEF Legal, DataTyped
<1>4. GroupsTyped(q)'
  BY DEF Legal, GroupsTyped, Mates, Alias, GroupWise, Grouped
<1>5. QED
  BY <1>1, <1>2, <1>3, <1>4 DEF Legal

(* What the ranks hold stays a function of the rank.                       *)
LEMMA LocalFunctions ==
  ASSUME Functions, NEW r \in Rank, Local(r)
  PROVE  Functions'
<1> USE DEF dist, desc, locals
<1>1. ControlStep(r)
  BY LocalControl
<1>2. /\ call' = [q \in Rank |-> call'[q]] /\ pc' = [q \in Rank |-> pc'[q]]
      /\ stage' = [q \in Rank |-> stage'[q]] /\ ready' = [q \in Rank |-> ready'[q]]
      /\ got' = [q \in Rank |-> got'[q]] /\ said' = [q \in Rank |-> said'[q]]
  BY <1>1 DEF ControlStep, GoTo, Return, Broadcast, Functions
<1>3. /\ generator' = [q \in Rank |-> generator'[q]] /\ card' = [q \in Rank |-> card'[q]]
      /\ cutoff' = [q \in Rank |-> cutoff'[q]] /\ nodeLocal' = [q \in Rank |-> nodeLocal'[q]]
      /\ known' = [q \in Rank |-> known'[q]] /\ info' = [q \in Rank |-> info'[q]]
      /\ mapped' = [q \in Rank |-> mapped'[q]] /\ rc' = [q \in Rank |-> rc'[q]]
      /\ sig' = [q \in Rank |-> sig'[q]] /\ size' = [q \in Rank |-> size'[q]]
      /\ comm' = [q \in Rank |-> comm'[q]]
  <2> USE DEF Functions
  <2>1. CASE Initialize(r) \/ Triage(r) \/ Ask(r) \/ ForceInfo(r) \/ Unique(r)
    BY <2>1 DEF Initialize, Triage, Ask, ForceInfo, Unique
  <2>2. CASE TriageRemote(r) \/ TriageBloom(r)
    BY <2>2 DEF TriageRemote, TriageBloom
  <2>3. CASE SignUnregistered(r) \/ SignUngrouped(r) \/ SignByRep(r) \/ SignAlone(r)
    BY <2>3 DEF SignUnregistered, SignUngrouped, SignByRep, SignAlone
  <2>4. CASE SumRc(r) \/ Split(r) \/ Share(r) \/ Compare(r)
    BY <2>4 DEF SumRc, Split, Share, Compare
  <2>5. QED
    BY <2>1, <2>2, <2>3, <2>4 DEF Local
<1>4. QED
  BY <1>2, <1>3 DEF Functions

(* No local step changes what a rank knows of the groups.                  *)
GroupsStay == UNCHANGED <<desc, comm>>

(* Nothing local groups anybody, or splits a communicator.                 *)
LEMMA LocalGroups ==
  ASSUME NEW r \in Rank, Local(r)
  PROVE  GroupsStay
BY DEF GroupsStay, Local, Initialize, Triage, TriageRemote, TriageBloom, Ask, ForceInfo, Unique,
   SignUnregistered, SignUngrouped, SignByRep, SignAlone, SumRc, Split, Share, Compare,
   locals

(* What a rank holds of the groups stays legal, wherever it goes on to     *)
(* with them.                                                              *)
LEMMA GroupsKeep ==
  ASSUME LegalInv, NEW r \in Rank, NodeSame, GroupsStay, ~ready'[r],
         pc'[r] \in {"groupUnique", "groupSign", "groupForce"} => ~mapped[r],
         pc'[r] \in {"sumRc", "split", "share"} => mapped[r],
         pc'[r] = "split" => GroupWise(r)
  PROVE  GroupsTyped(r)'
BY LegalParts DEF GroupsTyped, NodeSame, GroupsStay, desc, Mates, Alias, GroupWise, Grouped

(* A step that goes on to a point of the call.                             *)
LEMMA GoToLegal ==
  ASSUME LegalInv, NEW r \in Rank, NodeSame, GroupsStay, DataTyped(r)',
         NEW point \in Point \ {"split"}, GoTo(r, point), call[r] <= Len(script),
         point \in {"groupUnique", "groupSign", "groupForce"} => ~mapped[r],
         point \in {"sumRc", "share"} => mapped[r],
         point = "share" => stage[r] # 0
  PROVE  Legal(r)'
<1>1. /\ pc'[r] = point /\ ready'[r] = FALSE /\ call'[r] = call[r] /\ stage'[r] = stage[r]
      /\ got'[r] = got[r] /\ said'[r] = said[r] /\ script' = script
  BY LegalParts DEF GoTo, Domains, NodeSame
<1>2. PlaceTyped(r)'
  BY <1>1, LegalParts DEF PlaceTyped
<1>3. GotTyped(r)'
  BY <1>1, LegalParts DEF GotTyped, In
<1>4. GroupsTyped(r)'
  BY <1>1, GroupsKeep
<1>5. QED
  BY <1>2, <1>3, <1>4 DEF Legal

(* A step that returns from the call.                                      *)
LEMMA ReturnLegal ==
  ASSUME LegalInv, NEW r \in Rank, NodeSame, GroupsStay, DataTyped(r)',
         NEW answer \in Answer, Return(r, answer), call[r] <= Len(script)
  PROVE  Legal(r)'
<1>1. /\ pc'[r] = "idle" /\ ready'[r] = FALSE /\ call'[r] = call[r] + 1 /\ stage'[r] = 0
      /\ got'[r] = 0 /\ said'[r] = Append(said[r], answer) /\ script' = script
  BY LegalParts DEF Return, Domains, NodeSame
<1>2. PlaceTyped(r)'
  <2>1. /\ call[r] \in 1 .. Len(script) + 1 /\ Len(script) \in Nat
        /\ said[r] \in Seq(Answer) /\ Len(said[r]) = call[r] - 1
    BY LegalParts DEF PlaceTyped
  <2>2. said'[r] \in Seq(Answer) /\ Len(said'[r]) = call'[r] - 1
    BY <1>1, <2>1
  <2>3. QED
    BY <1>1, <2>1, <2>2 DEF PlaceTyped, Point
<1>3. GotTyped(r)'
  BY <1>1 DEF GotTyped, In
<1>4. GroupsTyped(r)'
  BY <1>1, GroupsKeep
<1>5. QED
  BY <1>2, <1>3, <1>4 DEF Legal

(* A step that starts a broadcast.                                         *)
LEMMA BroadcastLegal ==
  ASSUME LegalInv, NEW r \in Rank, NodeSame, GroupsStay, DataTyped(r)',
         NEW part \in 1 .. 3, Broadcast(r, part), call[r] <= Len(script), mapped[r]
  PROVE  Legal(r)'
<1>1. /\ pc'[r] = IF GroupWise(r) THEN "split" ELSE "share"
      /\ ready'[r] = FALSE /\ call'[r] = call[r] /\ stage'[r] = part
      /\ got'[r] = got[r] /\ said'[r] = said[r] /\ script' = script
  BY LegalParts DEF Broadcast, Domains, NodeSame
<1>2. PlaceTyped(r)'
  BY <1>1, LegalParts DEF PlaceTyped, Point
<1>3. GotTyped(r)'
  BY <1>1, LegalParts DEF GotTyped, In
<1>4. GroupsTyped(r)'
  BY <1>1, GroupsKeep
<1>5. QED
  BY <1>2, <1>3, <1>4 DEF Legal

(* A step that leaves what the object and the call hold.                   *)
LEMMA DataKeeps ==
  ASSUME LegalInv, NEW r \in Rank, NodeSame, UNCHANGED <<dist, locals>>
  PROVE  DataTyped(r)'
BY LegalParts DEF DataTyped, NodeSame, dist, locals

(* A rank that is asked begins a call of the program.                      *)
LEMMA AskedFacts ==
  ASSUME LegalInv, NEW r \in Rank, NEW methods,
         Asked(r, methods) \/ pc[r] # "idle"
  PROVE  call[r] <= Len(script)
BY LegalParts DEF Asked, PlaceTyped

(* Triage counts the groups as N or estimates them from the filter.        *)
LEMMA TriageLegal ==
  ASSUME LegalInv, NEW r \in Rank, NodeSame, Triage(r) \/ TriageRemote(r) \/ TriageBloom(r)
  PROVE  Legal(r)'
<1>0. GroupsStay /\ call[r] <= Len(script) /\ Limit \in Nat
  BY AskedFacts, LimitType, LocalGroups
     DEF Triage, TriageRemote, TriageBloom, In, Local
<1>1. /\ DataTyped(r) /\ Domains /\ uri' = uri /\ "true" \in Answer /\ "false" \in Answer
      /\ "anyRemote" \in Point \ {"split"} /\ "bloom" \in Point \ {"split"}
  BY LegalParts DEF NodeSame, Answer, Point
<1>2. CASE Triage(r)
  <2>1. DataTyped(r)'
    BY <1>2, DataKeeps DEF Triage
  <2>2. QED
    BY <1>0, <1>1, <1>2, <2>1, GoToLegal DEF Triage
<1>3. CASE TriageRemote(r)
  <2>1. /\ UNCHANGED <<generator, locals>>
        /\ cutoff'[r] = Limit /\ known'[r] \in BOOLEAN /\ nodeLocal'[r] \in BOOLEAN
        /\ card'[r] \in {N, card[r]}
    BY <1>1, <1>3 DEF TriageRemote, DataTyped, Domains
  <2>2. DataTyped(r)'
    BY <1>0, <1>1, <2>1 DEF DataTyped, locals
  <2>3. GoTo(r, "bloom") \/ Return(r, "true") \/ Return(r, "false")
    BY <1>3 DEF TriageRemote
  <2>4. QED
    BY <1>0, <1>1, <2>2, <2>3, GoToLegal, ReturnLegal
<1>4. CASE TriageBloom(r)
  <2>1. card'[r] = Estimate(PopCount(Filter(uri)))
    BY <1>1, <1>4, LegalParts DEF TriageBloom, GotTyped, Domains
  <2>2. DataTyped(r)'
    BY <1>1, <1>4, <2>1 DEF DataTyped, TriageBloom, locals
  <2>3. QED
    BY <1>0, <1>1, <1>4, <2>2, ReturnLegal DEF TriageBloom
<1>5. QED
  BY <1>2, <1>3, <1>4

(* A rank that answers a query, groups or asks for uniqueness.             *)
LEMMA QueryLegal ==
  ASSUME LegalInv, NEW r \in Rank, NodeSame,
         Initialize(r) \/ Ask(r) \/ ForceInfo(r) \/ Unique(r)
  PROVE  Legal(r)'
<1>0. GroupsStay /\ call[r] <= Len(script)
  BY AskedFacts, LocalGroups DEF Initialize, Ask, ForceInfo, Unique, In, Local
<1>1. {"true", "false", "yes", "no", "error"} \subseteq Answer
  BY DEF Answer
<1>2. {"classify", "groupForce", "groupUnique", "sign"} \subseteq Point \ {"split"}
  BY DEF Point
<1>3. CASE Initialize(r)
  <2>1. generator'[r] \in BOOLEAN /\ UNCHANGED <<card, cutoff, nodeLocal, known, locals>>
    BY <1>3, LegalParts DEF Initialize, DataTyped, Domains
  <2>2. DataTyped(r)'
    BY <2>1, LegalParts DEF DataTyped, NodeSame, locals
  <2>3. GoTo(r, "classify") \/ Return(r, "true")
    BY <1>3 DEF Initialize
  <2>4. QED
    BY <1>0, <1>1, <1>2, <2>2, <2>3, GoToLegal, ReturnLegal
<1>4. CASE Ask(r)
  <2>1. DataTyped(r)'
    BY <1>4, DataKeeps DEF Ask
  <2>2. \E answer \in {"yes", "no", "error"} : Return(r, answer)
    BY <1>4 DEF Ask, PoorlyAnswer, WellAnswer, YesIf
  <2>3. QED
    BY <1>0, <1>1, <2>1, <2>2, ReturnLegal
<1>5. CASE ForceInfo(r)
  <2>1. DataTyped(r)'
    BY <1>5, DataKeeps DEF ForceInfo
  <2>2. (GoTo(r, "groupForce") /\ ~mapped[r]) \/ Return(r, "true") \/ Return(r, "false")
    BY <1>5 DEF ForceInfo, CanGroup
  <2>3. QED
    BY <1>0, <1>1, <1>2, <2>1, <2>2, GoToLegal, ReturnLegal
<1>6. CASE Unique(r)
  <2>1. DataTyped(r)'
    BY <1>6, DataKeeps DEF Unique
  <2>2. \/ GoTo(r, "groupUnique") /\ ~mapped[r]
        \/ \E answer \in {"yes", "no", "error"} : UniqueIs(r, answer)
    BY <1>6 DEF Unique, CanGroup, YesIf
  <2>3. \/ GoTo(r, "groupUnique") /\ ~mapped[r]
        \/ GoTo(r, "sign")
        \/ \E answer \in {"yes", "no", "error"} : Return(r, answer)
    BY <2>2 DEF UniqueIs
  <2>4. QED
    BY <1>0, <1>1, <1>2, <2>1, <2>3, GoToLegal, ReturnLegal
<1>7. QED
  BY <1>3, <1>4, <1>5, <1>6

(* A rank whose signature fails, or that has it.                           *)
LEMMA SignedLegal ==
  ASSUME LegalInv, NEW r \in Rank, NodeSame, GroupsStay, DataTyped(r)', call[r] <= Len(script),
         NoSigniture(r) \/ Signed(r)
  PROVE  Legal(r)'
<1>1. {"NULL", "error", "buffer"} \subseteq Answer /\ "compare" \in Point \ {"split"}
  BY DEF Answer, Point
<1>2. GoTo(r, "compare") \/ \E answer \in {"NULL", "error", "buffer"} : Return(r, answer)
  BY DEF NoSigniture, Signed
<1>3. QED
  BY <1>1, <1>2, GoToLegal, ReturnLegal

(* A rank is grouped where the groups are known.                           *)
LEMMA GroupedFact ==
  ASSUME LegalInv, NEW r \in Rank, Grouped(r)
  PROVE  mapped[r]
BY LegalParts DEF Grouped, GroupsTyped, IsGroupingDone, NoGroupInfo

(* A rank that signs.                                                      *)
LEMMA SignLegal ==
  ASSUME LegalInv, NEW r \in Rank, NodeSame,
         SignUnregistered(r) \/ SignUngrouped(r) \/ SignByRep(r) \/ SignAlone(r)
  PROVE  Legal(r)'
<1>0. GroupsStay /\ call[r] <= Len(script)
  BY AskedFacts, LocalGroups
     DEF SignUnregistered, SignUngrouped, SignByRep, SignAlone, Signs, AtSign, In, Local
<1>1. DataTyped(r) /\ Domains /\ file[r] \in Sig /\ NoSig \in Sig \cup {NoSig}
      /\ uri' = uri
  BY LegalParts DEF NodeSame
<1>2. "groupSign" \in Point \ {"split"} /\ "sumRc" \in Point \ {"split"}
  BY DEF Point
<1>3. CASE SignUnregistered(r) \/ SignUngrouped(r)
  <2>1. DataTyped(r)'
    BY <1>3, DataKeeps DEF SignUnregistered, SignUngrouped
  <2>2. (GoTo(r, "groupSign") /\ ~mapped[r]) \/ NoSigniture(r)
    BY <1>3 DEF SignUnregistered, SignUngrouped, CanGroup
  <2>3. QED
    BY <1>0, <1>2, <2>1, <2>2, GoToLegal, SignedLegal
<1>4. CASE SignByRep(r)
  <2>1. /\ rc'[r] \in {-1, 0, 1} /\ sig'[r] \in Sig \cup {NoSig} /\ size'[r] \in {0, 1}
        /\ UNCHANGED dist
    BY <1>1, <1>4 DEF SignByRep, StatRc, Domains
  <2>2. DataTyped(r)'
    BY <1>1, <2>1 DEF DataTyped, dist
  <2>3. mapped[r]
    BY <1>4, LegalParts, GroupedFact DEF SignByRep, In, GroupsTyped
  <2>4. QED
    BY <1>0, <1>2, <1>4, <2>2, <2>3, GoToLegal DEF SignByRep
<1>5. CASE SignAlone(r)
  <2>1. /\ sig'[r] \in Sig \cup {NoSig} /\ size'[r] \in {0, 1}
        /\ UNCHANGED <<dist, rc>>
    BY <1>1, <1>5 DEF SignAlone, DataTyped, Domains
  <2>2. DataTyped(r)'
    BY <1>1, <2>1 DEF DataTyped, dist
  <2>3. NoSigniture(r) \/ Signed(r)
    BY <1>5 DEF SignAlone
  <2>4. QED
    BY <1>0, <2>2, <2>3, SignedLegal
<1>6. QED
  BY <1>3, <1>4, <1>5

(* A rank that sums, splits, shares or compares.                           *)
LEMMA ShareLegal ==
  ASSUME LegalInv, NEW r \in Rank, NodeSame,
         SumRc(r) \/ Split(r) \/ Share(r) \/ Compare(r)
  PROVE  Legal(r)'
<1>0. GroupsStay /\ call[r] <= Len(script)
  BY AskedFacts, LocalGroups DEF SumRc, Split, Share, Compare, In, Local
<1>1. /\ DataTyped(r) /\ Domains /\ PlaceTyped(r) /\ GroupsTyped(r) /\ GotTyped(r)
      /\ uri' = uri
  BY LegalParts DEF NodeSame
<1>2. {"share", "differ"} \subseteq Point \ {"split"} /\ {"yes", "no"} \subseteq Answer
  BY DEF Point, Answer
<1>3. CASE SumRc(r)
  <2>1. DataTyped(r)' /\ mapped[r]
    BY <1>1, <1>3, DataKeeps DEF SumRc, GroupsTyped, In
  <2>2. NoSigniture(r) \/ Broadcast(r, 1)
    BY <1>3 DEF SumRc
  <2>3. QED
    BY <1>0, <2>1, <2>2, SignedLegal, BroadcastLegal
<1>4. CASE Split(r)
  <2>1. DataTyped(r)' /\ mapped[r] /\ stage[r] # 0
    BY <1>1, <1>4, DataKeeps DEF Split, GroupsTyped, In, PlaceTyped
  <2>2. QED
    BY <1>0, <1>2, <1>4, <2>1, GoToLegal DEF Split
<1>5. CASE Share(r)
  <2>1. pc[r] = "share" /\ ready[r] /\ stage[r] \in 1 .. 3 /\ mapped[r]
    BY <1>1, <1>5 DEF Share, In, PlaceTyped, GroupsTyped
  <2>2. /\ sig'[r] \in Sig \cup {NoSig} /\ size'[r] \in {0, 1}
        /\ UNCHANGED <<dist, rc>>
    BY <1>1, <1>5, <2>1 DEF Share, DataTyped, GotTyped, Domains, In
  <2>3. DataTyped(r)'
    BY <1>1, <2>2 DEF DataTyped, dist
  <2>4. Signed(r) \/ \E part \in 1 .. 3 : Broadcast(r, part)
    BY <1>5, <2>1 DEF Share
  <2>5. QED
    BY <1>0, <2>1, <2>3, <2>4, SignedLegal, BroadcastLegal
<1>6. CASE Compare(r)
  <2>1. DataTyped(r)'
    BY <1>6, DataKeeps DEF Compare
  <2>2. GoTo(r, "differ") \/ \E answer \in {"yes", "no"} : Return(r, answer)
    BY <1>6 DEF Compare, YesIf
  <2>3. QED
    BY <1>0, <1>2, <2>1, <2>2, GoToLegal, ReturnLegal
<1>7. QED
  BY <1>3, <1>4, <1>5, <1>6

(* The local steps keep the invariant.                                     *)
LEMMA LocalLegal ==
  ASSUME LegalInv, NEW r \in Rank, Local(r)
  PROVE  LegalInv' /\ Frame(r) /\ GroupsStay
<1>1. Frame(r) /\ GroupsStay /\ NodeSame
  BY LegalParts, LocalFrame, LocalGroups DEF LegalInv, Frame
<1>2. Legal(r)'
  BY <1>1, TriageLegal, QueryLegal, SignLegal, ShareLegal DEF Local
<1>3. \A q \in Rank \ {r} : Legal(q)'
  BY <1>1, OthersLegal DEF Frame, LegalInv
<1>4. Functions' /\ ready' \in [Rank -> BOOLEAN]
  BY <1>1, LocalFunctions DEF LegalInv, Frame
<1>5. script' \in Scripts /\ NodesOK'
  BY <1>1 DEF LegalInv, NodeSame, NodesOK
<1>6. \A p, q \in Rank : mapped'[p] <=> mapped'[q]
  BY <1>1 DEF LegalInv, GroupsStay, desc
<1>7. QED
  BY <1>1, <1>2, <1>3, <1>4, <1>5, <1>6 DEF LegalInv

-----------------------------------------------------------------------------
(* A collective.                                                           *)

(* What every collective leaves alone.                                     *)
Still ==
  /\ NodeSame /\ UNCHANGED <<dist, rc, sig, size, call, pc, stage, said>>

(* So that only what it gives is to be shown legal.                        *)
LEMMA StillLegal ==
  ASSUME LegalInv, Still, ready' \in [Rank -> BOOLEAN],
         got' = [r \in Rank |-> got'[r]], info' = [r \in Rank |-> info'[r]],
         mapped' = [r \in Rank |-> mapped'[r]], comm' = [r \in Rank |-> comm'[r]],
         \A r \in Rank : GotTyped(r)' /\ GroupsTyped(r)',
         \A r, q \in Rank : mapped'[r] <=> mapped'[q]
  PROVE  LegalInv'
<1>0. /\ NodeSame /\ call' = call /\ pc' = pc /\ stage' = stage /\ said' = said
      /\ generator' = generator /\ card' = card /\ cutoff' = cutoff
      /\ nodeLocal' = nodeLocal /\ known' = known
      /\ rc' = rc /\ sig' = sig /\ size' = size /\ script' = script /\ uri' = uri
  BY DEF Still, NodeSame, dist
<1>1. Functions'
  BY <1>0 DEF LegalInv, Functions
<1>2. \A r \in Rank : PlaceTyped(r)' /\ DataTyped(r)'
  BY <1>0, LegalParts DEF PlaceTyped, DataTyped
<1>3. script' \in Scripts /\ NodesOK'
  BY <1>0 DEF LegalInv, NodeSame, NodesOK
<1>4. QED
  BY <1>1, <1>2, <1>3 DEF LegalInv, Legal

(* The collectives that tell nothing of the groups.                        *)
LEMMA GroupsStill ==
  ASSUME LegalInv, Still, UNCHANGED <<desc, comm>>, NEW r \in Rank,
         pc[r] \in {"groupUnique", "groupSign", "groupForce"} => (ready'[r] <=> ready[r])
  PROVE  GroupsTyped(r)'
<1>1. /\ pc' = pc /\ info' = info /\ mapped' = mapped /\ comm' = comm /\ uri' = uri
  BY DEF Still, NodeSame, desc
<1>2. GroupsTyped(r)
  BY LegalParts
<1>3. QED
  BY <1>1, <1>2 DEF GroupsTyped, Mates, Alias, GroupWise, Grouped

(* One value for all, of the right kind.                                   *)
LEMMA EverywhereLegal ==
  ASSUME LegalInv, Still, UNCHANGED <<desc, comm>>, NEW value \in Int, Everywhere(value),
         \A r \in Rank : pc[r] \in {"anyRemote", "differ", "bloom", "sumRc", "compare"},
         \A r \in Rank : pc[r] = "bloom" => value = PopCount(Filter(uri))
  PROVE  LegalInv'
<1>0. /\ pc' = pc /\ uri' = uri /\ info' = info /\ mapped' = mapped /\ comm' = comm
  BY DEF Still, NodeSame, desc
<1>1. /\ ready' \in [Rank -> BOOLEAN] /\ got' = [r \in Rank |-> got'[r]]
      /\ \A r \in Rank : got'[r] = value
  BY DEF Everywhere
<1>2. \A r \in Rank : GotTyped(r)'
  BY <1>0, <1>1 DEF GotTyped, In
<1>3. \A r \in Rank : GroupsTyped(r)'
  BY GroupsStill
<1>4. QED
  BY <1>0, <1>1, <1>2, <1>3, StillLegal DEF LegalInv, Functions

(* The reductions, and rank 0's broadcast (MPICommFabric.C).               *)
LEMMA ReduceLegal ==
  ASSUME LegalInv, ReduceMax \/ ReduceBor \/ ReduceSum \/ BcastCompare
  PROVE  LegalInv'
<1>0. Still /\ UNCHANGED <<desc, comm>> /\ 0 \in Rank
  BY BaseAssumption
     DEF ReduceMax, ReduceBor, ReduceSum, BcastCompare, Still, NodeSame, node, locals, Rank
<1>1. CASE ReduceMax
  <2> DEFINE value == IF \E r \in Rank : Operand(r) THEN 1 ELSE 0
  <2>1. value \in Int /\ Everywhere(value)
    BY <1>1 DEF ReduceMax
  <2>2. \A r \in Rank : pc[r] \in {"anyRemote", "differ"}
    BY <1>1 DEF ReduceMax, AllBlocked, Blocked
  <2> HIDE DEF value
  <2>3. QED
    BY <1>0, <2>1, <2>2, EverywhereLegal
<1>2. CASE ReduceBor
  <2>1. PopCount(Filter(uri)) \in Int /\ Everywhere(PopCount(Filter(uri)))
    BY <1>2, FilterFinite DEF ReduceBor, LegalInv, NodesOK
  <2>2. \A r \in Rank : pc[r] = "bloom"
    BY <1>2 DEF ReduceBor, AllBlocked, Blocked
  <2>3. QED
    BY <1>0, <2>1, <2>2, EverywhereLegal
<1>3. CASE ReduceSum
  <2> DEFINE more == {r \in Rank : rc[r] = 1}
             less == {r \in Rank : rc[r] = -1}
  <2>1. Cardinality(more) \in Nat /\ Cardinality(less) \in Nat
    <3>1. IsFiniteSet(Rank)
      BY BaseAssumption, FS_Interval DEF Rank
    <3>2. IsFiniteSet(more) /\ IsFiniteSet(less)
      BY <3>1, FS_Subset
    <3>3. QED
      BY <3>2, FS_CardinalityType
  <2>2. Everywhere(Cardinality(more) - Cardinality(less))
    BY <1>3 DEF ReduceSum
  <2>3. \A r \in Rank : pc[r] = "sumRc"
    BY <1>3 DEF ReduceSum, AllBlocked, Blocked
  <2> HIDE DEF more, less
  <2>4. Cardinality(more) - Cardinality(less) \in Int
    BY <2>1
  <2>5. QED
    BY <1>0, <2>2, <2>3, <2>4, EverywhereLegal
<1>4. CASE BcastCompare
  <2>1. sig[0] \in Int /\ Everywhere(sig[0])
    <3>1. sig[0] \in Sig \cup {NoSig}
      BY <1>0, LegalParts DEF DataTyped
    <3>2. (\A s \in Sig : s \in Int) /\ NoSig \in Int
      BY ScriptAssumption DEF NoSig
    <3>3. sig[0] \in Int
      BY <3>1, <3>2, Zenon
    <3>4. QED
      BY <1>4, <3>3 DEF BcastCompare
  <2>2. \A r \in Rank : pc[r] = "compare"
    BY <1>4 DEF BcastCompare, AllBlocked, Blocked
  <2>3. QED
    BY <1>0, <2>1, <2>2, EverywhereLegal
<1>5. QED
  BY <1>1, <1>2, <1>3, <1>4

(* The classification gives nothing.                                       *)
LEMMA ClassifyLegal ==
  ASSUME LegalInv, Classify
  PROVE  LegalInv'
<1>0. /\ Still /\ UNCHANGED <<desc, comm>> /\ got' = got /\ ready' = [r \in Rank |-> TRUE]
      /\ \A r \in Rank : pc[r] = "classify"
  BY DEF Classify, Still, NodeSame, node, locals, AllBlocked, Blocked
<1>1. \A r \in Rank : GotTyped(r)'
  BY <1>0, LegalParts DEF GotTyped, In, Still
<1>2. \A r \in Rank : GroupsTyped(r)'
  BY <1>0, GroupsStill
<1>3. QED
  BY <1>0, <1>1, <1>2, StillLegal DEF LegalInv, Functions, desc

(* grouping gives every rank its group information, the same whatever it   *)
(* held before (FastGlobalFileStat.C:565-587).                             *)
LEMMA GroupingLegal ==
  ASSUME LegalInv, Grouping
  PROVE  LegalInv'
<1>0. /\ Still /\ got' = got /\ comm' = comm /\ pc' = pc /\ uri' = uri
      /\ ready' = [r \in Rank |-> TRUE] /\ mapped' = [r \in Rank |-> TRUE]
      /\ info' = [r \in Rank |-> GroupInfoOf(info[r], uri, r)]
      /\ \A r \in Rank : /\ pc[r] \in {"groupUnique", "groupSign", "groupForce"}
                         /\ ~ready[r]
  BY DEF Grouping, Still, NodeSame, node, locals, AllBlocked, Blocked
<1>1. \A r \in Rank : GotTyped(r)'
  BY <1>0, LegalParts DEF GotTyped, In, Still
<1>2. ASSUME NEW r \in Rank PROVE GroupsTyped(r)'
  <2>1. info[r] = NoGroupInfo
    BY <1>0, LegalParts DEF GroupsTyped
  <2>2. info'[r] = GroupInfoAt(uri, r)
    BY <1>0, <2>1 DEF GroupInfoAt
  <2>3. comm[r] # {} => comm[r] = Mates(r) /\ ~Alias
    BY LegalParts DEF GroupsTyped
  <2>4. QED
    BY <1>0, <2>2, <2>3 DEF GroupsTyped, Mates, Alias
<1>3. QED
  BY <1>0, <1>1, <1>2, StillLegal DEF LegalInv, Functions

(* Where there are several groups nothing was eliminated, and a rank's     *)
(* group is the ranks that share its URI.                                  *)
LEMMA GroupWiseFacts ==
  ASSUME LegalInv, NEW r \in Rank, GroupWise(r)
  PROVE  /\ ~Alias /\ mapped[r] /\ info[r] = GroupInfoAt(uri, r) /\ ~OneUri
         /\ info[r].groupId \in Mates(r) /\ Lowest(info[r].groupId)
         /\ IsRep(info[r]) <=> Lowest(r)
<1>1. mapped[r] /\ info[r] = GroupInfoAt(uri, r) /\ uri \in [Rank -> Uri]
  BY LegalParts, GroupedFact DEF GroupWise, GroupsTyped
<1>2. ~Alias
  BY <1>1, EliminatedFacts DEF GroupWise, Alias
<1>3. (\A q : Mates(q) = Sharers(uri, q)) /\ (OneUri <=> IsOneUri(uri))
  BY DEF Mates, Sharers, OneUri, IsOneUri
<1>4. \A q : Lowest(q) <=> IsLowest(uri, q)
  BY <1>3 DEF Lowest, IsLowest
<1>5. QED
  BY <1>1, <1>2, <1>3, <1>4, GroupInfoFacts DEF GroupWise, Alias

(* The lowest rank of a group is the lowest of its mates.                  *)
LEMMA OneLowest ==
  ASSUME NEW r \in Rank, NEW q \in Rank, Lowest(r), Lowest(q), uri[r] = uri[q]
  PROVE  r = q
<1>1. r \in Mates(q) /\ q \in Mates(r) /\ r \in Nat /\ q \in Nat
  BY DEF Mates, Rank
<1>2. r <= q /\ q <= r
  BY <1>1 DEF Lowest
<1>3. QED
  BY <1>1, <1>2

(* MPI_Comm_split by the group id gives the ranks that share a URI.        *)
LEMMA CommSplitLegal ==
  ASSUME LegalInv, CommSplit
  PROVE  LegalInv'
<1>0. /\ Still /\ UNCHANGED desc /\ got' = got /\ pc' = pc /\ uri' = uri /\ info' = info
      /\ mapped' = mapped /\ ready' = [r \in Rank |-> TRUE]
      /\ comm' = [r \in Rank |-> {q \in Rank : info[q].groupId = info[r].groupId}]
      /\ \A r \in Rank : pc[r] = "split"
  BY DEF CommSplit, Still, NodeSame, node, desc, AllBlocked, Blocked
<1>1. \A r \in Rank : GroupWise(r)
  BY <1>0, LegalParts DEF GroupsTyped
<1>2. ASSUME NEW r \in Rank
      PROVE  ~Alias /\ info[r].groupId \in Mates(r) /\ Lowest(info[r].groupId)
  BY <1>1, GroupWiseFacts
<1>3. ASSUME NEW r \in Rank PROVE comm'[r] = Mates(r)
  <2>1. ASSUME NEW q \in Rank, info[q].groupId = info[r].groupId PROVE uri[q] = uri[r]
    BY <1>2, <2>1 DEF Mates
  <2>2. ASSUME NEW q \in Rank, uri[q] = uri[r] PROVE info[q].groupId = info[r].groupId
    <3> DEFINE a == info[q].groupId
               b == info[r].groupId
    <3>1. /\ a \in Rank /\ b \in Rank /\ Lowest(a) /\ Lowest(b) /\ uri[a] = uri[b]
      BY <1>2, <2>2 DEF Mates
    <3> HIDE DEF a, b
    <3>2. a = b
      BY <3>1, OneLowest
    <3>3. QED
      BY <3>2 DEF a, b
  <2>3. QED
    BY <1>0, <2>1, <2>2 DEF Mates
<1>4. \A r \in Rank : GotTyped(r)'
  BY <1>0, LegalParts DEF GotTyped, In, Still
<1>5. ASSUME NEW r \in Rank PROVE GroupsTyped(r)'
  <2>1. GroupsTyped(r)
    BY LegalParts
  <2>2. comm'[r] = Mates(r) /\ ~Alias
    BY <1>2, <1>3
  <2>3. QED
    BY <1>0, <2>1, <2>2 DEF GroupsTyped, Mates, Alias, GroupWise, Grouped
<1>6. QED
  BY <1>0, <1>4, <1>5, StillLegal DEF LegalInv, Functions

(* The root of a broadcast is one of those that take part.                 *)
LEMMA RootFacts ==
  ASSUME LegalInv, NEW S, NEW groupwise \in BOOLEAN, BcastShare(S, groupwise),
         \/ S = Rank /\ ~groupwise
         \/ groupwise /\ \E s \in Rank : S = comm[s]
  PROVE  /\ S \subseteq Rank /\ Root(S, groupwise) \in S
         /\ groupwise => /\ IsRep(info[Root(S, groupwise)])
                         /\ \A q \in S : uri[q] = uri[Root(S, groupwise)]
<1>1. S # {} /\ \A q \in S : pc[q] = "share" /\ GroupWise(q) = groupwise
  BY DEF BcastShare, Blocked
<1>2. CASE S = Rank /\ ~groupwise
  <2>1. 0 \in Rank /\ \A p \in Rank : 0 <= p
    BY BaseAssumption DEF Rank
  <2>2. Root(S, groupwise) = CHOOSE q \in Rank : \A p \in Rank : q <= p
    BY <1>2 DEF Root
  <2>3. QED
    BY <1>2, <2>1, <2>2
<1>3. CASE groupwise /\ \E s \in Rank : S = comm[s]
  <2>1. PICK s \in Rank : S = comm[s]
    BY <1>3
  <2>2. S = Mates(s) /\ S \subseteq Rank /\ \A q, p \in S : uri[q] = uri[p]
    BY <1>1, <2>1, LegalParts DEF GroupsTyped, Mates
  <2>3. PICK q \in S : TRUE
    BY <1>1
  <2>4. Mates(q) = S /\ GroupWise(q)
    BY <1>1, <1>3, <2>2, <2>3 DEF Mates
  <2>5. info[q].groupId \in S /\ Lowest(info[q].groupId)
    BY <2>2, <2>4, GroupWiseFacts
  <2>6. IsRep(info[info[q].groupId])
    BY <1>1, <1>3, <2>2, <2>5, GroupWiseFacts
  <2>7. Root(S, groupwise) = CHOOSE p \in S : \A o \in S : IsRep(info[p])
    BY <1>3 DEF Root
  <2>8. Root(S, groupwise) \in S /\ IsRep(info[Root(S, groupwise)])
    BY <2>5, <2>6, <2>7
  <2>9. QED
    BY <2>2, <2>8
<1>4. QED
  BY <1>2, <1>3

(* A broadcast gives what its root holds, of the part that all are at.     *)
LEMMA BcastShareLegal ==
  ASSUME LegalInv, NEW S, NEW groupwise \in BOOLEAN, BcastShare(S, groupwise),
         \/ S = Rank /\ ~groupwise
         \/ groupwise /\ \E s \in Rank : S = comm[s]
  PROVE  LegalInv'
<1> DEFINE root == Root(S, groupwise)
<1>0. /\ Still /\ UNCHANGED <<desc, comm>> /\ pc' = pc /\ stage' = stage /\ uri' = uri
      /\ got' = [r \in Rank |-> IF r \in S THEN Buffer(root) ELSE got[r]]
      /\ ready' = [r \in Rank |-> ready[r] \/ r \in S]
      /\ \A q \in S : pc[q] = "share"
      /\ \A q, p \in S : stage[q] = stage[p]
      /\ info' = info /\ mapped' = mapped /\ comm' = comm
  BY DEF BcastShare, Still, NodeSame, node, locals, Blocked, desc
<1>1. root \in S /\ S \subseteq Rank
  BY RootFacts
<1> HIDE DEF root
<1>2. /\ DataTyped(root) /\ root \in Rank /\ stage[root] \in 1 .. 3
  BY <1>0, <1>1, LegalParts DEF PlaceTyped
<1>3. /\ stage[root] = 1 => Buffer(root) = 0
      /\ stage[root] = 2 => Buffer(root) \in {0, 1}
      /\ stage[root] = 3 => Buffer(root) \in Sig \cup {NoSig}
      /\ Buffer(root) \in Int
  BY <1>2, ScriptAssumption DEF Buffer, DataTyped, NoSig
<1>4. ASSUME NEW r \in Rank PROVE GotTyped(r)'
  <2>1. CASE r \in S
    <3>1. /\ got'[r] = Buffer(root) /\ pc'[r] = "share" /\ stage'[r] = stage[root]
      BY <1>0, <1>1, <2>1
    <3>2. QED
      BY <1>3, <3>1 DEF GotTyped, In
  <2>2. CASE r \notin S
    <3>1. GotTyped(r) /\ ready[r] \in BOOLEAN
      BY LegalParts
    <3>2. got'[r] = got[r] /\ (ready'[r] <=> ready[r])
      BY <1>0, <2>2
    <3>3. QED
      BY <1>0, <3>1, <3>2 DEF GotTyped, In
  <2>3. QED
    BY <2>1, <2>2
<1>5. \A r \in Rank : GroupsTyped(r)'
  <2>1. \A r \in Rank : pc[r] # "share" => (ready'[r] <=> ready[r])
    BY <1>0
  <2>2. QED
    BY <1>0, <2>1, GroupsStill
<1>6. ready' \in [Rank -> BOOLEAN]
  BY <1>0, LegalParts
<1>7. QED
  BY <1>0, <1>4, <1>5, <1>6, StillLegal DEF LegalInv, Functions

(* The collectives keep the invariant.                                     *)
LEMMA CollectiveLegal ==
  ASSUME LegalInv, Collective
  PROVE  LegalInv'
<1>1. CASE BcastShare(Rank, FALSE)
  BY <1>1, BcastShareLegal
<1>2. ASSUME NEW s \in Rank, BcastShare(comm[s], TRUE) PROVE LegalInv'
  BY <1>2, BcastShareLegal
<1>3. QED
  BY <1>1, <1>2, ReduceLegal, ClassifyLegal, GroupingLegal, CommSplitLegal DEF Collective

-----------------------------------------------------------------------------
(* What holds of every behaviour.                                          *)

(* A program begins so,                                                    *)
LEMMA InitLegal == Init => LegalInv
<1> SUFFICES ASSUME Init PROVE LegalInv
  OBVIOUS
<1>1. script \in Scripts /\ Len(script) \in Nat
  BY ScriptAssumption DEF Init
<1>2. Functions
  BY DEF Init, Functions
<1>3. ASSUME NEW r \in Rank PROVE Legal(r)
  <2>1. PlaceTyped(r)
    <3>1. <<>> \in Seq(Answer) /\ Len(<<>>) = 0
      OBVIOUS
    <3>2. QED
      BY <1>1, <3>1 DEF Init, PlaceTyped, Point
  <2>2. GotTyped(r) /\ GroupsTyped(r)
    BY DEF Init, GotTyped, GroupsTyped, In
  <2>3. DataTyped(r)
    BY DEF Init, DataTyped, NotFilled
  <2>4. QED
    BY <2>1, <2>2, <2>3 DEF Legal
<1>4. QED
  BY <1>1, <1>2, <1>3 DEF Init, LegalInv

(* no step leaves it,                                                      *)
LEMMA NextLegal == LegalInv /\ [Next]_vars => LegalInv'
<1> SUFFICES ASSUME LegalInv, [Next]_vars PROVE LegalInv'
  OBVIOUS
<1>1. CASE UNCHANGED vars
  <2>1. NodeSame /\ \A q \in Rank : SameAt(q)
    BY <1>1 DEF vars, node, dist, desc, locals, control, NodeSame, SameAt
  <2>2. \A q \in Rank : Legal(q)'
    BY <2>1, OthersLegal DEF LegalInv
  <2>3. QED
    BY <1>1, <2>2 DEF LegalInv, Functions, NodesOK, vars, node, dist, desc, locals, control
<1>2. CASE Collective
  BY <1>2, CollectiveLegal
<1>3. ASSUME NEW r \in Rank, Local(r) PROVE LegalInv'
  BY <1>3, LocalLegal
<1>4. QED
  BY <1>1, <1>2, <1>3 DEF Next

(* and so it stays.                                                        *)
LEMMA AlwaysLegal == Spec => []LegalInv
BY InitLegal, NextLegal, PTL DEF Spec

(* Every variable keeps its type in every program, whatever fails: a       *)
(* position in the program for every rank, the cardinality one of three    *)
(* values, group information that a grouping gives (FastGlobalFileStat.C,  *)
(* SyncFastGlobalFileStat.C).                                              *)
THEOREM TypeIsInvariant == Spec => []TypeOK
BY AlwaysLegal, LegalTypes, PTL

(* The estimate is finite where the filter was made for as many servers    *)
(* as there are: always, unless MAX_DEGREE_DISTRIBUTION promised too much  *)
(* (FastGlobalFileStat.C:470-537).                                         *)
THEOREM EstimateIsDefined == Spec => []EstimateDefined
<1>1. LegalInv => EstimateDefined
  <2> SUFFICES ASSUME LegalInv,
                      MaxDegree > 0 => Cardinality({uri[r] : r \in Rank}) <= MaxDegree,
                      NEW r \in Rank, In(r, "bloom")
               PROVE  got[r] < NumBits
    BY DEF EstimateDefined
  <2>1. uri \in [Rank -> Uri] /\ got[r] = PopCount(Filter(uri))
    BY LegalParts DEF GotTyped
  <2>2. QED
    BY <2>1, NeverFull
<1>2. QED
  BY <1>1, AlwaysLegal, PTL

-----------------------------------------------------------------------------
(* Where a rank may fail: what the sum of the errors vouches for.          *)

(* The two errors that cancel in the sum of rc do not both happen.         *)
OneSignOfError == ~({"stat", "open"} \subseteq Health)

(* What signing leaves in rc of a rank.                                    *)
SignsOf(q) == IF IsRep(info[q]) THEN StatRc(q) ELSE 0

(* Where its errors come from.                                             *)
RcTyped(r) == (rc[r] = 1 => "open" \in Health) /\ (rc[r] = -1 => "stat" \in Health)

(* A rank that has seen no error in the sum, and what that vouches for.    *)
SumSeen(r) == pc[r] \in {"split", "share"} \/ (In(r, "sumRc") /\ got[r] = 0)

(* Every representative has signed.                                        *)
RepsFine == \A q \in Rank : mapped[q] /\ rc[q] = 0 /\ SignsOf(q) = 0

(* A rank that has rank 0's signature and has not got the answer.          *)
Comparing(r) == In(r, "compare") \/ (pc[r] = "differ" /\ ~ready[r])

(* Where the files differ the ranks come to know it.                       *)
SeesDifference(r) ==
  /\ \A k \in 1 .. call[r] - 1 :
       script[k] \in {"isConsistent", "isConsistentSerial"} => said[r][k] # "yes"
  /\ pc[r] \in {"sumRc", "split", "share"} /\ IsRep(info[r]) /\ StatRc(r) = 0 =>
       size[r] = 1 /\ sig[r] = file[r]
  /\ pc[r] \in {"split", "share"} /\ stage[r] = 3 => size[r] = 1
  /\ In(r, "share") /\ stage[r] = 2 => got[r] = 1
  /\ In(r, "share") /\ stage[r] = 3 => got[r] = file[r]
  /\ pc[r] \in {"compare", "differ"} => size[r] = 1 /\ sig[r] = file[r]
  /\ Comparing(r) => got[r] = file[0]
  /\ In(r, "differ") => got[r] = 1

(* The sum of rc is what signing left, a sum of zero vouches for every     *)
(* representative, the comparison is one of all ranks, and where the       *)
(* files differ every rank comes to know it.                               *)
FailInv ==
  /\ LegalInv
  /\ \A r \in Rank : RcTyped(r)
  /\ \A r \in Rank : pc[r] = "sumRc" => rc[r] = SignsOf(r)
  /\ (\E r \in Rank : SumSeen(r)) => RepsFine
  /\ (\E r \in Rank : Comparing(r)) => \A r \in Rank : Comparing(r)
  /\ ~AllSame => \A r \in Rank : SeesDifference(r)

(* Each part of the invariant on its own.                                  *)
LEMMA FailParts ==
  ASSUME FailInv, NEW r \in Rank
  PROVE  /\ LegalInv /\ RcTyped(r) /\ (pc[r] = "sumRc" => rc[r] = SignsOf(r))
         /\ SumSeen(r) => RepsFine
         /\ Comparing(r) => \A q \in Rank : Comparing(q)
         /\ ~AllSame => SeesDifference(r)
BY DEF FailInv

(* One group is one server, and one server has one file.                   *)
LEMMA SingleServer ==
  ASSUME LegalInv, NEW r \in Rank, IsSingleGroup(info[r])
  PROVE  OneFileServer /\ AllSame
<1>1. uri \in [Rank -> Uri] /\ mapped[r] /\ info[r] = GroupInfoAt(uri, r) /\ 0 \in Rank
  BY LegalParts, BaseAssumption
     DEF GroupsTyped, IsSingleGroup, NoGroupInfo, NotFilled, Rank
<1>2. OneFileServer
  <2>1. CASE Alias
    BY <1>1, <2>1, EliminatedFacts DEF Alias, OneFileServer
  <2>2. CASE ~Alias
    <3>1. IsOneUri(uri)
      BY <1>1, <2>2, GroupInfoFacts DEF Alias
    <3>2. QED
      BY <1>1, <3>1 DEF IsOneUri, OneFileServer, SameServer
  <2>3. QED
    BY <2>1, <2>2
<1>3. AllSame
  BY <1>1, <1>2 DEF OneFileServer, LegalInv, NodesOK, AllSame
<1>4. QED
  BY <1>2, <1>3

(* What a step of rank r owes to the invariant.                            *)
FailStep(r) ==
  /\ RcTyped(r)' /\ (pc'[r] = "sumRc" => rc'[r] = SignsOf(r)')
  /\ rc'[r] \in {rc[r], SignsOf(r)}
  /\ SumSeen(r)' => SumSeen(r)
  /\ Comparing(r)' <=> Comparing(r)
  /\ ~AllSame => SeesDifference(r)'

(* A call that returns, if it does not say yes of files that differ.       *)
LEMMA ReturnFails ==
  ASSUME FailInv, NEW r \in Rank, NodeSame, NEW answer, Return(r, answer), rc'[r] = rc[r],
         ~Comparing(r),
         answer = "yes" /\ script[call[r]] \in {"isConsistent", "isConsistentSerial"}
           => AllSame
  PROVE  FailStep(r)
<1> DEFINE cons == {"isConsistent", "isConsistentSerial"}
<1>1. /\ pc'[r] = "idle" /\ ready'[r] = FALSE /\ call'[r] = call[r] + 1
      /\ said'[r] = Append(said[r], answer)
      /\ call[r] \in Nat /\ said[r] \in Seq(Answer) /\ Len(said[r]) = call[r] - 1
      /\ RcTyped(r) /\ script' = script
  BY FailParts, LegalParts DEF Return, Domains, NodeSame, PlaceTyped
<1>2. ~AllSame => SeesDifference(r)'
  <2> SUFFICES ASSUME ~AllSame PROVE SeesDifference(r)'
    OBVIOUS
  <2>1. \A k \in 1 .. call[r] - 1 : script[k] \in cons => said[r][k] # "yes"
    BY FailParts DEF SeesDifference
  <2>2. ASSUME NEW k \in 1 .. call[r], script[k] \in cons PROVE said'[r][k] # "yes"
    <3>1. CASE k = call[r]
      BY <1>1, <2>2, <3>1
    <3>2. CASE k # call[r]
      BY <1>1, <2>1, <2>2, <3>2
    <3>3. QED
      BY <3>1, <3>2
  <2>3. \A k \in 1 .. call'[r] - 1 : script'[k] \in cons => said'[r][k] # "yes"
    BY <1>1, <2>2
  <2>4. QED
    BY <1>1, <2>3 DEF SeesDifference, In, Comparing
<1>3. QED
  BY <1>1, <1>2 DEF FailStep, RcTyped, SumSeen, Comparing, In

(* A rank that goes on to a point where no signature is at stake.          *)
LEMMA GoToFails ==
  ASSUME FailInv, NEW r \in Rank, NodeSame, NEW point, GoTo(r, point), rc'[r] = rc[r],
         point \notin {"sumRc", "split", "share", "compare", "differ"}, ~Comparing(r)
  PROVE  FailStep(r)
<1>1. /\ pc'[r] = point /\ ready'[r] = FALSE /\ call'[r] = call[r] /\ said'[r] = said[r]
      /\ RcTyped(r) /\ script' = script
  BY FailParts, LegalParts DEF GoTo, Domains, NodeSame
<1>2. ~AllSame => SeesDifference(r)'
  BY <1>1, FailParts DEF SeesDifference, In, Comparing
<1>3. QED
  BY <1>1, <1>2 DEF FailStep, RcTyped, SumSeen, Comparing, In

(* A rank that has its signature, of the file it sees where the files      *)
(* differ.                                                                 *)
LEMMA SignedFails ==
  ASSUME FailInv, NEW r \in Rank, NodeSame, Signed(r), rc'[r] = rc[r], ~Comparing(r),
         ~AllSame => size'[r] = 1 /\ sig'[r] = file[r]
  PROVE  FailStep(r)
<1>1. CASE Return(r, "buffer")
  BY <1>1, ReturnFails
<1>2. CASE GoTo(r, "compare")
  <2>1. /\ pc'[r] = "compare" /\ ready'[r] = FALSE /\ call'[r] = call[r] /\ said'[r] = said[r]
        /\ RcTyped(r) /\ script' = script /\ file' = file
    BY <1>2, FailParts, LegalParts DEF GoTo, Domains, NodeSame
  <2>2. ~AllSame => SeesDifference(r)'
    BY <2>1, FailParts DEF SeesDifference, In, Comparing
  <2>3. QED
    BY <2>1, <2>2 DEF FailStep, RcTyped, SumSeen, Comparing, In
<1>3. QED
  BY <1>1, <1>2 DEF Signed

(* A rank without a signature.                                             *)
LEMMA NoSignitureFails ==
  ASSUME FailInv, NEW r \in Rank, NodeSame, NoSigniture(r), rc'[r] = rc[r], ~Comparing(r)
  PROVE  FailStep(r)
<1>1. Return(r, "NULL") \/ Return(r, "error")
  BY DEF NoSigniture
<1>2. QED
  BY <1>1, ReturnFails

(* Triage, the queries and the groups.                                     *)
LEMMA QueryFails ==
  ASSUME FailInv, NEW r \in Rank, NodeSame,
         \/ Initialize(r) \/ Triage(r) \/ TriageRemote(r) \/ TriageBloom(r)
         \/ Ask(r) \/ ForceInfo(r)
  PROVE  FailStep(r)
<1>1. rc' = rc /\ pc[r] \notin {"compare", "differ"}
  BY DEF Initialize, Triage, TriageRemote, TriageBloom, Ask, ForceInfo, locals, Asked, In
<1>2. ~Comparing(r)
  BY <1>1 DEF Comparing, In
<1>3. CASE Ask(r)
  <2>1. /\ script[call[r]] \notin {"isConsistent", "isConsistentSerial"}
        /\ \E answer : Return(r, answer)
    BY <1>3 DEF Ask, Asked
  <2>2. QED
    BY <1>1, <1>2, <2>1, ReturnFails
<1>4. CASE ~Ask(r)
  <2>1. \/ \E point \in {"classify", "anyRemote", "bloom", "groupForce"} : GoTo(r, point)
        \/ Return(r, "true") \/ Return(r, "false")
    BY <1>4 DEF Initialize, Triage, TriageRemote, TriageBloom, ForceInfo
  <2>2. QED
    BY <1>1, <1>2, <2>1, ReturnFails, GoToFails
<1>5. QED
  BY <1>3, <1>4

(* isUnique says yes only of a single group.                               *)
LEMMA UniqueFails ==
  ASSUME FailInv, NEW r \in Rank, NodeSame, Unique(r)
  PROVE  FailStep(r)
<1>1. rc' = rc /\ pc[r] \notin {"compare", "differ"} /\ ~Comparing(r)
  BY DEF Unique, locals, Asked, In, Comparing
<1>2. \/ GoTo(r, "groupUnique") \/ UniqueIs(r, "error")
      \/ UniqueIs(r, YesIf(FewGroups(r) /\ IsSingleGroup(info[r])))
      \/ UniqueIs(r, YesIf(IsSingleGroup(info[r])))
      \/ UniqueIs(r, "no")
  BY DEF Unique, YesIf
<1>3. \/ GoTo(r, "groupUnique") \/ GoTo(r, "sign")
      \/ \E answer : Return(r, answer) /\ (answer = "yes" => IsSingleGroup(info[r]))
  <2>1. /\ YesIf(FewGroups(r) /\ IsSingleGroup(info[r])) = "yes" => IsSingleGroup(info[r])
        /\ YesIf(IsSingleGroup(info[r])) = "yes" => IsSingleGroup(info[r])
        /\ "error" # "yes" /\ "no" # "yes"
    BY DEF YesIf
  <2>2. \A answer : UniqueIs(r, answer) => GoTo(r, "sign") \/ Return(r, answer)
    BY DEF UniqueIs
  <2>3. QED
    BY <1>2, <2>1, <2>2
<1>4. IsSingleGroup(info[r]) => AllSame
  BY FailParts, SingleServer
<1>5. QED
  BY <1>1, <1>3, <1>4, ReturnFails, GoToFails

(* A representative that fails has its error in rc.                        *)
LEMMA SignFails ==
  ASSUME FailInv, NEW r \in Rank, NodeSame, GroupsStay,
         SignUnregistered(r) \/ SignUngrouped(r) \/ SignByRep(r) \/ SignAlone(r)
  PROVE  FailStep(r)
<1>1. pc[r] \notin {"compare", "differ"} /\ ~Comparing(r) /\ Domains
  BY FailParts, LegalParts
     DEF SignUnregistered, SignUngrouped, SignByRep, SignAlone, Signs, AtSign, Asked, In, Comparing
<1>2. CASE SignUnregistered(r) \/ SignUngrouped(r)
  BY <1>1, <1>2, GoToFails, NoSignitureFails DEF SignUnregistered, SignUngrouped, locals
<1>3. CASE SignByRep(r)
  <2>1. /\ pc'[r] = "sumRc" /\ ready'[r] = FALSE /\ call'[r] = call[r] /\ said'[r] = said[r]
        /\ rc'[r] = SignsOf(r)
        /\ IsRep(info[r]) /\ StatRc(r) = 0 => size'[r] = 1 /\ sig'[r] = file[r]
    BY <1>1, <1>3 DEF SignByRep, GoTo, SignsOf, Domains
  <2>2. /\ script' = script /\ file' = file /\ info' = info
        /\ SignsOf(r)' = SignsOf(r) /\ StatRc(r)' = StatRc(r)
    BY DEF NodeSame, GroupsStay, desc, SignsOf, StatRc
  <2>3. RcTyped(r)'
    <3>1. health[r] \in Health
      BY FailParts DEF LegalInv, NodesOK
    <3>2. QED
      BY <2>1, <3>1 DEF RcTyped, SignsOf, StatRc
  <2>4. ~AllSame => SeesDifference(r)'
    BY <2>1, <2>2, FailParts DEF SeesDifference, In, Comparing
  <2>5. QED
    BY <1>1, <2>1, <2>2, <2>3, <2>4 DEF FailStep, SumSeen, Comparing, In
<1>4. CASE SignAlone(r)
  <2>1. rc' = rc
    BY <1>4 DEF SignAlone
  <2>2. CASE StatRc(r) = 0
    <3>1. Signed(r) /\ size'[r] = 1 /\ sig'[r] = file[r]
      BY <1>1, <1>4, <2>2 DEF SignAlone, Domains
    <3>2. QED
      BY <1>1, <2>1, <3>1, SignedFails
  <2>3. CASE StatRc(r) # 0
    BY <1>1, <1>4, <2>1, <2>3, NoSignitureFails DEF SignAlone
  <2>4. QED
    BY <2>2, <2>3
<1>5. QED
  BY <1>2, <1>3, <1>4

(* A rank that starts the broadcast of a part.                             *)
LEMMA BroadcastFails ==
  ASSUME FailInv, NEW r \in Rank, NodeSame, GroupsStay, SumSeen(r), rc'[r] = rc[r], ~Comparing(r),
         NEW part \in 1 .. 3, Broadcast(r, part),
         ~AllSame => /\ IsRep(info[r]) => size'[r] = 1 /\ sig'[r] = file[r]
                     /\ part = 3 => size'[r] = 1
  PROVE  FailStep(r)
<1>1. /\ pc'[r] \in {"split", "share"} /\ ready'[r] = FALSE /\ call'[r] = call[r]
      /\ said'[r] = said[r] /\ stage'[r] = part /\ RcTyped(r)
  BY FailParts, LegalParts DEF Broadcast, Domains
<1>2. script' = script /\ file' = file /\ info' = info
  BY DEF NodeSame, GroupsStay, desc
<1>3. ~AllSame => SeesDifference(r)'
  BY <1>1, <1>2, FailParts DEF SeesDifference, In, Comparing
<1>4. QED
  BY <1>1, <1>3 DEF FailStep, RcTyped, SumSeen, Comparing, In

(* A rank shares once the sum has vouched for its representative.          *)
LEMMA ShareFails ==
  ASSUME FailInv, NEW r \in Rank, NodeSame, GroupsStay, SumRc(r) \/ Split(r) \/ Share(r)
  PROVE  FailStep(r)
<1>1. pc[r] \notin {"compare", "differ"} /\ ~Comparing(r) /\ Domains /\ rc' = rc
  BY FailParts, LegalParts DEF SumRc, Split, Share, In, Comparing, locals
<1>2. ~AllSame => SeesDifference(r)
  BY FailParts
<1>3. SumSeen(r) /\ IsRep(info[r]) => StatRc(r) = 0
  BY FailParts DEF RepsFine, SignsOf
<1>4. CASE SumRc(r)
  <2>1. pc[r] = "sumRc" /\ sig' = sig /\ size' = size
    BY <1>4 DEF SumRc, In, locals
  <2>2. CASE got[r] # 0
    BY <1>1, <1>4, <2>2, NoSignitureFails DEF SumRc
  <2>3. CASE got[r] = 0
    <3>1. SumSeen(r) /\ Broadcast(r, 1)
      BY <1>4, <2>3 DEF SumRc, SumSeen
    <3>2. ~AllSame => (IsRep(info[r]) => size'[r] = 1 /\ sig'[r] = file[r])
      BY <1>2, <1>3, <2>1, <3>1 DEF SeesDifference
    <3>3. QED
      BY <1>1, <3>1, <3>2, BroadcastFails
  <2>4. QED
    BY <2>2, <2>3
<1>5. CASE Split(r)
  <2>1. /\ pc[r] = "split" /\ sig' = sig /\ size' = size /\ GoTo(r, "share")
    BY <1>5 DEF Split, In, locals
  <2>2. /\ pc'[r] = "share" /\ ready'[r] = FALSE /\ call'[r] = call[r]
        /\ said'[r] = said[r] /\ stage'[r] = stage[r] /\ RcTyped(r)
    BY <1>1, <2>1, FailParts DEF GoTo, Domains
  <2>3. script' = script /\ file' = file /\ info' = info /\ StatRc(r)' = StatRc(r)
    BY DEF NodeSame, GroupsStay, desc, StatRc
  <2>4. ~AllSame => SeesDifference(r)'
    BY <1>2, <2>1, <2>2, <2>3 DEF SeesDifference, In, Comparing
  <2>5. QED
    BY <1>1, <2>1, <2>2, <2>4 DEF FailStep, RcTyped, SumSeen, Comparing, In
<1>6. CASE Share(r)
  <2>1. /\ pc[r] = "share" /\ ready[r] /\ stage[r] \in 1 .. 3 /\ SumSeen(r)
        /\ size'[r] = IF stage[r] = 2 THEN got[r] ELSE size[r]
        /\ sig'[r] = IF stage[r] = 3 THEN got[r] ELSE sig[r]
    BY <1>1, <1>6, FailParts, LegalParts DEF Share, In, PlaceTyped, Domains, SumSeen
  <2>2. ~AllSame => /\ IsRep(info[r]) => size'[r] = 1 /\ sig'[r] = file[r]
                    /\ stage[r] = 2 => size'[r] = 1
                    /\ stage[r] = 3 => size'[r] = 1 /\ sig'[r] = file[r]
    BY <1>2, <1>3, <2>1 DEF SeesDifference, In
  <2>3. CASE stage[r] < 3
    <3>1. Broadcast(r, stage[r] + 1) /\ stage[r] + 1 \in 1 .. 3
      BY <1>6, <2>1, <2>3 DEF Share
    <3>2. stage[r] + 1 = 3 => stage[r] = 2
      BY <2>1
    <3>3. QED
      BY <1>1, <2>1, <2>2, <3>1, <3>2, BroadcastFails
  <2>4. CASE ~(stage[r] < 3)
    <3>1. Signed(r) /\ stage[r] = 3
      BY <1>6, <2>1, <2>4 DEF Share
    <3>2. QED
      BY <1>1, <2>2, <3>1, SignedFails
  <2>5. QED
    BY <2>3, <2>4
<1>7. QED
  BY <1>4, <1>5, <1>6

(* A rank says yes once no signature differs from rank 0's.                *)
LEMMA CompareFails ==
  ASSUME FailInv, NEW r \in Rank, NodeSame, Compare(r)
  PROVE  FailStep(r)
<1>0. /\ rc' = rc /\ sig' = sig /\ size' = size /\ script' = script /\ file' = file
      /\ Domains /\ RcTyped(r)
  BY FailParts, LegalParts DEF Compare, locals, NodeSame
<1>1. ~AllSame => SeesDifference(r)
  BY FailParts
<1>2. CASE In(r, "compare") /\ GoTo(r, "differ")
  <2>1. /\ pc'[r] = "differ" /\ ready'[r] = FALSE /\ call'[r] = call[r] /\ got'[r] = got[r]
        /\ said'[r] = said[r] /\ pc[r] = "compare" /\ ready[r] /\ Comparing(r)
    BY <1>0, <1>2 DEF GoTo, Domains, In, Comparing
  <2>2. ~AllSame => SeesDifference(r)'
    BY <1>0, <1>1, <2>1 DEF SeesDifference, In, Comparing
  <2>3. QED
    BY <1>0, <2>1, <2>2 DEF FailStep, RcTyped, SumSeen, Comparing, In
<1>3. CASE In(r, "differ") /\ Return(r, YesIf(got[r] = 0))
  <2>1. ~Comparing(r)
    BY <1>3 DEF In, Comparing
  <2>2. ~AllSame => YesIf(got[r] = 0) # "yes"
    BY <1>1, <1>3 DEF SeesDifference, YesIf
  <2>3. QED
    BY <1>0, <1>3, <2>1, <2>2, ReturnFails
<1>4. QED
  BY <1>2, <1>3 DEF Compare

(* Every local step of a rank owes the invariant no more than that.        *)
LEMMA LocalFails ==
  ASSUME FailInv, NEW r \in Rank, NodeSame, GroupsStay, Local(r)
  PROVE  FailStep(r)
<1>1. ASSUME Initialize(r) \/ Triage(r) \/ TriageRemote(r) \/ TriageBloom(r) \/ Ask(r)
               \/ ForceInfo(r)
      PROVE  FailStep(r)
  BY <1>1, QueryFails
<1>2. ASSUME SignUnregistered(r) \/ SignUngrouped(r) \/ SignByRep(r) \/ SignAlone(r)
      PROVE  FailStep(r)
  BY <1>2, SignFails
<1>3. ASSUME SumRc(r) \/ Split(r) \/ Share(r) PROVE FailStep(r)
  BY <1>3, ShareFails
<1>4. QED
  BY <1>1, <1>2, <1>3, UniqueFails, CompareFails DEF Local

(* A local step keeps the invariant.                                       *)
LEMMA LocalFailKeeps ==
  ASSUME FailInv, NEW r \in Rank, Local(r)
  PROVE  FailInv'
<1>1. LegalInv' /\ Frame(r) /\ GroupsStay
  BY FailParts, LocalLegal
<1>2. /\ NodeSame /\ info' = info /\ mapped' = mapped /\ \A q \in Rank \ {r} : SameAt(q)
      /\ file' = file /\ health' = health /\ script' = script
  BY <1>1 DEF Frame, GroupsStay, desc, NodeSame
<1>3. FailStep(r)
  BY <1>1, <1>2, LocalFails
<1>4. \A q \in Rank : SignsOf(q)' = SignsOf(q) /\ StatRc(q)' = StatRc(q)
  BY <1>2 DEF SignsOf, StatRc
<1>5. \A q \in Rank \ {r} : /\ RcTyped(q)' <=> RcTyped(q)
                            /\ SumSeen(q)' <=> SumSeen(q)
                            /\ Comparing(q)' <=> Comparing(q)
  BY <1>2 DEF SameAt, RcTyped, SumSeen, Comparing, In
<1>6. ASSUME NEW q \in Rank, q # r, SeesDifference(q) PROVE SeesDifference(q)'
  <2>1. q \in Rank \ {r}
    BY <1>6
  <2>2. SameAt(q) /\ StatRc(q)' = StatRc(q)
    BY <1>2, <1>4, <2>1
  <2>3. QED
    BY <1>2, <1>6, <2>2 DEF SameAt, SeesDifference, Comparing, In
<1>7. RepsFine => RepsFine'
  <2> SUFFICES ASSUME RepsFine, NEW q \in Rank
               PROVE  mapped'[q] /\ rc'[q] = 0 /\ SignsOf(q)' = 0
    BY DEF RepsFine
  <2>1. mapped[q] /\ rc[q] = 0 /\ SignsOf(q) = 0
    BY DEF RepsFine
  <2>2. rc'[q] \in {rc[q], SignsOf(q)}
    BY <1>2, <1>3 DEF SameAt, FailStep
  <2>3. QED
    BY <1>2, <1>4, <2>1, <2>2
<1>8. AllSame' <=> AllSame
  BY <1>2 DEF AllSame
<1>9. \A q \in Rank : RcTyped(q)' /\ (pc'[q] = "sumRc" => rc'[q] = SignsOf(q)')
  <2>1. \A q \in Rank \ {r} : pc'[q] = pc[q] /\ rc'[q] = rc[q]
    BY <1>2 DEF SameAt
  <2>2. ASSUME NEW q \in Rank, q # r
        PROVE  RcTyped(q)' /\ (pc'[q] = "sumRc" => rc'[q] = SignsOf(q)')
    BY <1>4, <1>5, <2>1, <2>2, FailParts
  <2>3. RcTyped(r)' /\ (pc'[r] = "sumRc" => rc'[r] = SignsOf(r)')
    BY <1>3 DEF FailStep
  <2>4. QED
    BY <2>2, <2>3
<1>10. (\E q \in Rank : SumSeen(q)') => RepsFine'
  BY <1>3, <1>5, <1>7, FailParts DEF FailStep
<1>11. (\E q \in Rank : Comparing(q)') => \A q \in Rank : Comparing(q)'
  BY <1>3, <1>5, FailParts DEF FailStep
<1>12. ~AllSame' => \A q \in Rank : SeesDifference(q)'
  BY <1>3, <1>6, <1>8, FailParts DEF FailStep
<1>13. QED
  BY <1>1, <1>9, <1>10, <1>11, <1>12 DEF FailInv

(* What a collective owes to the invariant.                                *)
LEMMA StillFails ==
  ASSUME FailInv, Still, LegalInv', info' = info, mapped' = mapped,
         (\E r \in Rank : SumSeen(r)') => RepsFine,
         (\E r \in Rank : Comparing(r)') => \A r \in Rank : Comparing(r)',
         ~AllSame => \A r \in Rank : SeesDifference(r)'
  PROVE  FailInv'
<1>1. rc' = rc /\ pc' = pc /\ health' = health /\ file' = file
  BY DEF Still, NodeSame
<1>2. \A r \in Rank : SignsOf(r)' = SignsOf(r)
  BY <1>1 DEF SignsOf, StatRc
<1>3. \A r \in Rank : RcTyped(r)' /\ (pc'[r] = "sumRc" => rc'[r] = SignsOf(r)')
  BY <1>1, <1>2, FailParts DEF RcTyped
<1>4. RepsFine => RepsFine'
  BY <1>1, <1>2 DEF RepsFine
<1>5. AllSame' <=> AllSame
  BY <1>1 DEF AllSame
<1>6. QED
  BY <1>3, <1>4, <1>5 DEF FailInv

(* Ranks that wait for no signature are no party to the comparison.        *)
LEMMA QuietFails ==
  ASSUME FailInv, Still, LegalInv', info' = info, mapped' = mapped,
         \A r \in Rank : pc[r] \in {"classify", "anyRemote", "bloom"}
  PROVE  FailInv'
<1>1. pc' = pc /\ size' = size /\ sig' = sig /\ call' = call /\ said' = said /\ script' = script
  BY DEF Still, NodeSame
<1>2. \A r \in Rank : ~SumSeen(r)' /\ ~Comparing(r)'
  BY <1>1 DEF SumSeen, Comparing, In
<1>3. ~AllSame => \A r \in Rank : SeesDifference(r)'
  BY <1>1, <1>2, FailParts DEF SeesDifference, In
<1>4. QED
  BY <1>2, <1>3, StillFails

(* The maximum: whether a file differs from that of rank 0.                *)
LEMMA ReduceMaxFails ==
  ASSUME FailInv, ReduceMax
  PROVE  FailInv'
<1>0. /\ Still /\ LegalInv' /\ UNCHANGED desc
      /\ \A r \in Rank : pc[r] \in {"anyRemote", "differ"} /\ ~ready[r]
      /\ ready' = [r \in Rank |-> TRUE]
      /\ got' = [r \in Rank |-> IF \E q \in Rank : Operand(q) THEN 1 ELSE 0]
  <2>1. LegalInv'
    BY ReduceLegal DEF FailInv
  <2>2. QED
    BY <2>1 DEF ReduceMax, Still, NodeSame, node, locals, AllBlocked, Blocked, Everywhere
<1>1. /\ pc' = pc /\ size' = size /\ sig' = sig /\ call' = call /\ said' = said
      /\ script' = script /\ file' = file /\ info' = info /\ mapped' = mapped
  BY <1>0 DEF Still, NodeSame, desc
<1>2. \A r \in Rank : ~SumSeen(r)' /\ ~Comparing(r)'
  BY <1>0, <1>1 DEF SumSeen, Comparing, In
<1>3. ASSUME ~AllSame, NEW r \in Rank, pc[r] = "differ" PROVE got'[r] = 1
  <2>1. \A q \in Rank : Comparing(q) /\ SeesDifference(q)
    <3>1. Comparing(r)
      BY <1>0, <1>3 DEF Comparing
    <3>2. QED
      BY <1>3, <3>1, FailParts
  <2>2. PICK q \in Rank : file[q] # file[0]
    BY <1>3 DEF AllSame
  <2>3. pc[q] = "differ" /\ size[q] = 1 /\ sig[q] = file[q] /\ got[q] = file[0]
    BY <1>0, <2>1 DEF Comparing, In, SeesDifference
  <2>4. Operand(q)
    BY <2>2, <2>3 DEF Operand
  <2>5. QED
    BY <1>0, <2>4
<1>4. ASSUME ~AllSame, NEW r \in Rank PROVE SeesDifference(r)'
  <2>1. SeesDifference(r)
    BY <1>4, FailParts
  <2>2. QED
    BY <1>0, <1>1, <1>2, <1>3, <1>4, <2>1 DEF SeesDifference, In
<1>5. QED
  BY <1>0, <1>1, <1>2, <1>4, StillFails

(* The sum: of errors of one sign none is lost, so that where it is zero   *)
(* every representative has signed.                                        *)
LEMMA ReduceSumFails ==
  ASSUME FailInv, ReduceSum, OneSignOfError
  PROVE  FailInv'
<1> DEFINE more == {r \in Rank : rc[r] = 1}
           less == {r \in Rank : rc[r] = -1}
<1>0. /\ Still /\ LegalInv' /\ UNCHANGED desc
      /\ \A r \in Rank : pc[r] = "sumRc"
      /\ ready' = [r \in Rank |-> TRUE]
      /\ got' = [r \in Rank |-> Cardinality(more) - Cardinality(less)]
  <2>1. LegalInv'
    BY ReduceLegal DEF FailInv
  <2>2. QED
    BY <2>1 DEF ReduceSum, Still, NodeSame, node, locals, AllBlocked, Blocked, Everywhere
<1>1. /\ pc' = pc /\ size' = size /\ sig' = sig /\ call' = call /\ said' = said
      /\ script' = script /\ file' = file /\ info' = info /\ mapped' = mapped
      /\ \A r \in Rank : StatRc(r)' = StatRc(r)
  BY <1>0 DEF Still, NodeSame, desc, StatRc
<1>2. more = {} \/ less = {}
  BY FailParts DEF RcTyped, OneSignOfError
<1>3. Cardinality(more) - Cardinality(less) = 0 => more = {} /\ less = {}
  <2>1. IsFiniteSet(Rank)
    BY BaseAssumption, FS_Interval DEF Rank
  <2>2. IsFiniteSet(more) /\ IsFiniteSet(less)
    BY <2>1, FS_Subset
  <2> HIDE DEF more, less
  <2>3. /\ Cardinality(more) \in Nat /\ Cardinality(less) \in Nat
        /\ (Cardinality(more) = 0) <=> (more = {})
        /\ (Cardinality(less) = 0) <=> (less = {})
    BY <2>2, FS_CardinalityType, FS_EmptySet
  <2>4. QED
    BY <1>2, <2>3
<1>4. ASSUME NEW r \in Rank, SumSeen(r)' PROVE RepsFine
  <2>1. more = {} /\ less = {}
    <3>1. Cardinality(more) - Cardinality(less) = 0
      BY <1>0, <1>1, <1>4 DEF SumSeen
    <3>2. QED
      BY <1>3, <3>1
  <2>2. ASSUME NEW q \in Rank PROVE mapped[q] /\ rc[q] = 0 /\ SignsOf(q) = 0
    <3>1. mapped[q] /\ rc[q] \in {-1, 0, 1} /\ rc[q] = SignsOf(q)
      BY <1>0, FailParts, LegalParts DEF GroupsTyped, DataTyped
    <3>2. rc[q] # 1 /\ rc[q] # -1
      BY <2>1
    <3>3. QED
      BY <3>1, <3>2
  <2>3. QED
    BY <2>2 DEF RepsFine
<1>5. \A r \in Rank : ~Comparing(r)'
  BY <1>0, <1>1 DEF Comparing, In
<1>6. ASSUME ~AllSame, NEW r \in Rank PROVE SeesDifference(r)'
  <2>1. SeesDifference(r)
    BY <1>6, FailParts
  <2>2. QED
    BY <1>0, <1>1, <1>5, <2>1 DEF SeesDifference, In
<1>7. QED
  BY <1>0, <1>1, <1>4, <1>5, <1>6, StillFails

(* grouping and MPI_Comm_split.                                            *)
LEMMA GroupingFails ==
  ASSUME FailInv, Grouping
  PROVE  FailInv'
<1>0. LegalInv'
  BY GroupingLegal DEF FailInv
<1>1. /\ pc' = pc /\ size' = size /\ sig' = sig /\ call' = call /\ said' = said /\ rc' = rc
      /\ script' = script /\ file' = file /\ health' = health
      /\ \A r \in Rank : pc[r] \in {"groupUnique", "groupSign", "groupForce"}
  BY DEF Grouping, node, locals, AllBlocked, Blocked
<1>2. \A r \in Rank : ~SumSeen(r)' /\ ~Comparing(r)'
  BY <1>1 DEF SumSeen, Comparing, In
<1>3. \A r \in Rank : RcTyped(r)' /\ pc'[r] # "sumRc"
  BY <1>1, FailParts DEF RcTyped
<1>4. AllSame' <=> AllSame
  BY <1>1 DEF AllSame
<1>5. ASSUME ~AllSame, NEW r \in Rank PROVE SeesDifference(r)'
  <2>1. SeesDifference(r)
    BY <1>5, FailParts
  <2>2. QED
    BY <1>1, <1>2, <2>1 DEF SeesDifference, In
<1>6. QED
  BY <1>0, <1>2, <1>3, <1>4, <1>5 DEF FailInv

(* To split a communicator tells nothing of the files.                     *)
LEMMA CommSplitFails ==
  ASSUME FailInv, CommSplit
  PROVE  FailInv'
<1>0. /\ Still /\ LegalInv' /\ UNCHANGED desc
      /\ \A r \in Rank : pc[r] = "split"
  <2>1. LegalInv'
    BY CommSplitLegal DEF FailInv
  <2>2. QED
    BY <2>1 DEF CommSplit, Still, NodeSame, node, AllBlocked, Blocked
<1>1. /\ pc' = pc /\ size' = size /\ sig' = sig /\ call' = call /\ said' = said
      /\ script' = script /\ file' = file /\ info' = info /\ mapped' = mapped /\ stage' = stage
      /\ \A r \in Rank : StatRc(r)' = StatRc(r)
  BY <1>0 DEF Still, NodeSame, desc, StatRc
<1>2. \A r \in Rank : ~Comparing(r)' /\ SumSeen(r)
  BY <1>0, <1>1 DEF Comparing, In, SumSeen
<1>3. RepsFine
  <2>1. 0 \in Rank
    BY BaseAssumption DEF Rank
  <2>2. QED
    BY <1>2, <2>1, FailParts
<1>4. ASSUME ~AllSame, NEW r \in Rank PROVE SeesDifference(r)'
  <2>1. SeesDifference(r)
    BY <1>4, FailParts
  <2>2. QED
    BY <1>0, <1>1, <1>2, <2>1 DEF SeesDifference, In
<1>5. QED
  BY <1>0, <1>1, <1>2, <1>3, <1>4, StillFails

(* The broadcasts in a group: its representative has signed, and signed    *)
(* what all of the group see.                                              *)
LEMMA BcastShareFails ==
  ASSUME FailInv, NEW S, NEW groupwise \in BOOLEAN, BcastShare(S, groupwise),
         \/ S = Rank /\ ~groupwise
         \/ groupwise /\ \E s \in Rank : S = comm[s]
  PROVE  FailInv'
<1> DEFINE root == Root(S, groupwise)
<1>0. /\ Still /\ UNCHANGED <<desc, comm>> /\ S # {} /\ LegalInv /\ LegalInv'
      /\ got' = [r \in Rank |-> IF r \in S THEN Buffer(root) ELSE got[r]]
      /\ ready' = [r \in Rank |-> ready[r] \/ r \in S]
      /\ \A q \in S : pc[q] = "share" /\ GroupWise(q) = groupwise
      /\ \A q, p \in S : stage[q] = stage[p]
  <2>1. LegalInv /\ LegalInv'
    BY BcastShareLegal DEF FailInv
  <2>2. QED
    BY <2>1 DEF BcastShare, Still, NodeSame, node, locals, Blocked
<1>1. /\ pc' = pc /\ size' = size /\ sig' = sig /\ call' = call /\ said' = said
      /\ script' = script /\ file' = file /\ info' = info /\ mapped' = mapped /\ stage' = stage
      /\ \A r \in Rank : StatRc(r)' = StatRc(r)
  BY <1>0 DEF Still, NodeSame, desc, StatRc
<1>2. /\ root \in S /\ S \subseteq Rank
      /\ groupwise => IsRep(info[root]) /\ \A q \in S : uri[q] = uri[root]
  BY <1>0, RootFacts
<1> HIDE DEF root
<1>3. RepsFine /\ pc[root] = "share"
  BY <1>0, <1>2, FailParts DEF SumSeen
<1>4. \A r \in Rank : Comparing(r)' <=> Comparing(r)
  <2>1. \A r \in Rank : pc[r] # "share" => (ready'[r] <=> ready[r])
    BY <1>0
  <2>2. QED
    BY <1>1, <2>1 DEF Comparing, In
<1>5. ASSUME ~AllSame PROVE groupwise
  <2> SUFFICES ASSUME ~groupwise PROVE FALSE
    OBVIOUS
  <2>1. root \in Rank /\ mapped[root] /\ (GroupWise(root) <=> FALSE)
    BY <1>0, <1>2, <1>3 DEF RepsFine
  <2>2. info[root] = GroupInfoAt(uri, root) /\ uri \in [Rank -> Uri]
    BY <1>0, <2>1, LegalParts DEF GroupsTyped
  <2>3. IsSingleGroup(info[root])
    BY <2>1, <2>2, GroupInfoFacts, EliminatedFacts DEF GroupWise, Grouped
  <2>4. QED
    BY <1>0, <1>5, <2>1, <2>3, SingleServer
<1>6. ASSUME ~AllSame, NEW r \in S
      PROVE  /\ stage[r] = 2 => Buffer(root) = 1
             /\ stage[r] = 3 => Buffer(root) = file[r]
  <2>1. /\ root \in Rank /\ r \in Rank /\ IsRep(info[root]) /\ uri[r] = uri[root]
        /\ stage[r] = stage[root]
    BY <1>0, <1>2, <1>5, <1>6
  <2>2. size[root] = 1 /\ sig[root] = file[root]
    <3>1. SignsOf(root) = 0 /\ SeesDifference(root)
      BY <1>3, <1>6, <2>1, FailParts DEF RepsFine
    <3>2. StatRc(root) = 0
      BY <2>1, <3>1 DEF SignsOf
    <3>3. QED
      BY <1>3, <2>1, <3>1, <3>2 DEF SeesDifference
  <2>3. file[r] = file[root]
    BY <1>0, <2>1 DEF LegalInv, NodesOK, SameServer
  <2>4. QED
    BY <2>1, <2>2, <2>3 DEF Buffer
<1>7. ASSUME ~AllSame, NEW r \in Rank PROVE SeesDifference(r)'
  <2>1. SeesDifference(r)
    BY <1>7, FailParts
  <2>2. CASE r \in S
    <3>1. got'[r] = Buffer(root) /\ pc[r] = "share"
      BY <1>0, <2>2
    <3>2. /\ stage[r] = 2 => got'[r] = 1
          /\ stage[r] = 3 => got'[r] = file[r]
      BY <1>6, <1>7, <2>2, <3>1
    <3>3. QED
      BY <1>1, <2>1, <3>1, <3>2 DEF SeesDifference, In, Comparing
  <2>3. CASE r \notin S
    <3>1. got'[r] = got[r] /\ (ready'[r] <=> ready[r])
      BY <1>0, <2>3
    <3>2. QED
      BY <1>1, <2>1, <3>1 DEF SeesDifference, In, Comparing
  <2>4. QED
    BY <2>2, <2>3
<1>8. QED
  BY <1>0, <1>1, <1>3, <1>4, <1>7, FailParts, StillFails

(* The broadcast of rank 0's signature.                                    *)
LEMMA BcastCompareFails ==
  ASSUME FailInv, BcastCompare
  PROVE  FailInv'
<1>0. /\ Still /\ LegalInv' /\ UNCHANGED desc /\ 0 \in Rank
      /\ \A r \in Rank : pc[r] = "compare"
      /\ ready' = [r \in Rank |-> TRUE] /\ got' = [r \in Rank |-> sig[0]]
  <2>1. LegalInv'
    BY ReduceLegal DEF FailInv
  <2>2. QED
    BY <2>1, BaseAssumption
       DEF BcastCompare, Still, NodeSame, node, locals, AllBlocked, Blocked, Everywhere, Rank
<1>1. /\ pc' = pc /\ size' = size /\ sig' = sig /\ call' = call /\ said' = said
      /\ script' = script /\ file' = file /\ info' = info /\ mapped' = mapped
  BY <1>0 DEF Still, NodeSame, desc
<1>2. \A r \in Rank : ~SumSeen(r)' /\ Comparing(r)'
  BY <1>0, <1>1 DEF SumSeen, Comparing, In
<1>3. ASSUME ~AllSame, NEW r \in Rank PROVE SeesDifference(r)'
  <2>1. SeesDifference(r) /\ SeesDifference(0)
    BY <1>0, <1>3, FailParts
  <2>2. got'[r] = file[0]
    BY <1>0, <2>1 DEF SeesDifference
  <2>3. QED
    BY <1>0, <1>1, <2>1, <2>2 DEF SeesDifference, In
<1>4. QED
  BY <1>0, <1>1, <1>2, <1>3, StillFails

(* The collectives keep the invariant.                                     *)
LEMMA CollectiveFails ==
  ASSUME FailInv, OneSignOfError, Collective
  PROVE  FailInv'
<1>1. CASE Classify
  <2>1. /\ Still /\ info' = info /\ mapped' = mapped /\ \A r \in Rank : pc[r] = "classify"
    BY <1>1 DEF Classify, Still, NodeSame, node, locals, desc, AllBlocked, Blocked
  <2>2. LegalInv'
    BY <1>1, ClassifyLegal DEF FailInv
  <2>3. QED
    BY <2>1, <2>2, QuietFails
<1>2. CASE ReduceBor
  <2>1. /\ Still /\ info' = info /\ mapped' = mapped /\ \A r \in Rank : pc[r] = "bloom"
    BY <1>2 DEF ReduceBor, Still, NodeSame, node, locals, desc, AllBlocked, Blocked
  <2>2. LegalInv'
    BY <1>2, ReduceLegal DEF FailInv
  <2>3. QED
    BY <2>1, <2>2, QuietFails
<1>3. CASE BcastShare(Rank, FALSE)
  BY <1>3, BcastShareFails
<1>4. ASSUME NEW s \in Rank, BcastShare(comm[s], TRUE) PROVE FailInv'
  BY <1>4, BcastShareFails
<1>5. QED
  BY <1>1, <1>2, <1>3, <1>4, ReduceMaxFails, ReduceSumFails, GroupingFails, CommSplitFails,
     BcastCompareFails DEF Collective

(* A program begins so,                                                    *)
LEMMA InitFails == Init => FailInv
<1> SUFFICES ASSUME Init PROVE FailInv
  OBVIOUS
<1>1. LegalInv
  BY InitLegal
<1>2. ASSUME NEW r \in Rank
      PROVE  /\ RcTyped(r) /\ pc[r] = "idle" /\ ~SumSeen(r) /\ ~Comparing(r)
             /\ SeesDifference(r)
  BY DEF Init, RcTyped, SumSeen, Comparing, In, SeesDifference
<1>3. QED
  BY <1>1, <1>2 DEF FailInv

(* no step leaves it where the errors are of one sign,                     *)
LEMMA NextFails == FailInv /\ OneSignOfError /\ [Next]_vars => FailInv'
<1> SUFFICES ASSUME FailInv, OneSignOfError, [Next]_vars PROVE FailInv'
  OBVIOUS
<1>1. CASE UNCHANGED vars
  <2>1. /\ Still /\ info' = info /\ mapped' = mapped /\ ready' = ready /\ got' = got
        /\ pc' = pc /\ size' = size /\ sig' = sig /\ call' = call /\ said' = said
        /\ stage' = stage /\ script' = script /\ file' = file
        /\ \A r \in Rank : StatRc(r)' = StatRc(r)
    BY <1>1 DEF vars, node, dist, desc, locals, control, Still, NodeSame, StatRc
  <2>2. LegalInv'
    BY <1>1, NextLegal DEF FailInv
  <2>3. \A r \in Rank : /\ SumSeen(r)' <=> SumSeen(r)
                        /\ Comparing(r)' <=> Comparing(r)
                        /\ SeesDifference(r) => SeesDifference(r)'
    BY <2>1 DEF SumSeen, Comparing, In, SeesDifference
  <2>4. QED
    BY <2>1, <2>2, <2>3, FailParts, StillFails
<1>2. CASE Collective
  BY <1>2, CollectiveFails
<1>3. ASSUME NEW r \in Rank, Local(r) PROVE FailInv'
  BY <1>3, LocalFailKeeps
<1>4. QED
  BY <1>1, <1>2, <1>3 DEF Next

(* The two properties that the invariant is for.                           *)
LEMMA FailInvImplies ==
  ASSUME FailInv
  PROVE  StatErrorSeen /\ NoFalseYes
<1>1. StatErrorSeen
  BY FailParts DEF StatErrorSeen, SumSeen, RepsFine
<1>2. NoFalseYes
  <2> SUFFICES ASSUME NEW r \in Rank, NEW k \in Calls,
                      Said(r, k, "isConsistent", "yes") \/ Said(r, k, "isConsistentSerial", "yes"),
                      NEW q \in Rank, NEW p \in Rank
               PROVE  file[q] = file[p]
    BY DEF NoFalseYes
  <2>1. /\ k \in DOMAIN said[r] /\ said[r][k] = "yes"
        /\ script[k] \in {"isConsistent", "isConsistentSerial"}
    BY DEF Said
  <2>2. k \in 1 .. call[r] - 1
    BY <2>1, FailParts, LegalParts DEF PlaceTyped
  <2>3. AllSame
    BY <2>1, <2>2, FailParts DEF SeesDifference
  <2>4. QED
    BY <2>3 DEF AllSame
<1>3. QED
  BY <1>1, <1>2

(* and so it stays.                                                        *)
LEMMA AlwaysFails ==
  ASSUME OneSignOfError
  PROVE  Spec => []FailInv
<1>1. FailInv /\ [Next]_vars => FailInv'
  BY NextFails
<1>2. QED
  BY <1>1, InitFails, PTL DEF Spec

(* Nobody shares a signature after a representative has failed, in jobs    *)
(* whose nodes fail in only one of the two ways that cancel in the sum     *)
(* (SyncFastGlobalFileStat.C:346-360).                                     *)
THEOREM StatErrorIsSeen ==
  ASSUME OneSignOfError
  PROVE  Spec => []StatErrorSeen
<1>1. FailInv => StatErrorSeen
  BY FailInvImplies
<1>2. QED
  BY <1>1, AlwaysFails, PTL

(* isConsistent says yes only of files that are all the same, in such      *)
(* jobs, whatever fails on whichever ranks, with aliases or without        *)
(* (SyncFastGlobalFileStat.C:179-278).                                     *)
THEOREM YesIsNeverFalse ==
  ASSUME OneSignOfError
  PROVE  Spec => []NoFalseYes
<1>1. FailInv => NoFalseYes
  BY FailInvImplies
<1>2. QED
  BY <1>1, AlwaysFails, PTL

-----------------------------------------------------------------------------
(* The calls implement Survey wherever every node finds the mount point of *)
(* the path, whatever else is wrong with it, and of any two URIs, aliases  *)
(* too: a triage is the step of TriageRemote or TriageBloom that fills the *)
(* cardinality, the grouping that of Grouping, and all else is a step that *)
(* leaves what the queries know as it was.                                 *)

(* Every node finds the mount point.                                       *)
NoLookupFails == \A r \in Rank : health[r] # "lookup"

(* What rank r knows of the file, and is about to.                         *)
Surveying(r) ==
  /\ In(r, "anyRemote") => got[r] = IF AnyRemote THEN 1 ELSE 0
  /\ pc[r] = "bloom" => AnyRemote /\ Limit > 0
  /\ card[r] \in {NotFilled, CardinalityEst(uri, AnyRemote)}
  /\ nodeLocal[r] <=> card[r] # NotFilled /\ ~AnyRemote

(* Where one rank waits for the maximum of a comparison all wait for it,   *)
(* so that no other reduction is mixed up with it.                         *)
SurveyInv ==
  /\ LegalInv /\ NoLookupFails
  /\ \A r \in Rank : Surveying(r)
  /\ (\E r \in Rank : Comparing(r)) => \A r \in Rank : Comparing(r)

(* A step of Survey, or one that tells nothing.                            *)
SurveyStep == [Abstract!Next]_(Abstract!vars)

(* Each part of the invariant on its own.                                  *)
LEMMA SurveyParts ==
  ASSUME SurveyInv, NEW r \in Rank
  PROVE  /\ LegalInv /\ Surveying(r) /\ health[r] # "lookup"
         /\ Comparing(r) => \A q \in Rank : Comparing(q)
         /\ Domains /\ Functions /\ Limit \in Nat
         /\ card = [q \in Rank |-> card[q]] /\ nodeLocal \in [Rank -> BOOLEAN]
<1>1. LegalInv /\ Functions /\ \A q \in Rank : nodeLocal[q] \in BOOLEAN
  BY LegalParts DEF SurveyInv, LegalInv, DataTyped
<1>2. nodeLocal \in [Rank -> BOOLEAN]
  BY <1>1 DEF Functions
<1>3. QED
  BY <1>1, <1>2, LegalParts, LimitType DEF SurveyInv, NoLookupFails, Functions

(* A step that tells no query anything.                                    *)
LEMMA Tells ==
  ASSUME NodeSame, UNCHANGED <<card, nodeLocal, info>>
  PROVE  SurveyStep
BY DEF SurveyStep, Abstract!vars, NodeSame

(* The local steps other than those of a triage.                           *)
LEMMA QuietSurvey ==
  ASSUME SurveyInv, NEW r \in Rank, Local(r), NodeSame, GroupsStay,
         ~TriageRemote(r), ~TriageBloom(r)
  PROVE  Surveying(r)' /\ SurveyStep
<1>1. UNCHANGED <<card, nodeLocal, info>>
  BY DEF Local, Initialize, Triage, Ask, ForceInfo, Unique, SignUnregistered, SignUngrouped,
     SignByRep, SignAlone, SumRc, Split, Share, Compare, dist, desc
<1>2. /\ ready'[r] = FALSE /\ pc'[r] # "bloom"
  <2>1. ControlStep(r) /\ Domains
    BY LocalControl, SurveyParts
  <2>2. ready'[r] = FALSE
    BY <2>1 DEF ControlStep, GoTo, Return, Broadcast, Domains
  <2>3. \/ \E point : point # "bloom" /\ GoTo(r, point)
        \/ \E answer : Return(r, answer)
        \/ \E part : Broadcast(r, part)
    <3>1. CASE Unique(r)
      <4>1. ASSUME NEW answer, UniqueIs(r, answer) PROVE GoTo(r, "sign") \/ Return(r, answer)
        BY <4>1 DEF UniqueIs
      <4>2. GoTo(r, "groupUnique") \/ \E answer : UniqueIs(r, answer)
        BY <3>1 DEF Unique
      <4>3. QED
        BY <4>1, <4>2
    <3>2. CASE Initialize(r) \/ Triage(r) \/ Ask(r) \/ ForceInfo(r)
      BY <3>2 DEF Initialize, Triage, Ask, ForceInfo, YesIf
    <3>3. CASE SignUnregistered(r) \/ SignUngrouped(r) \/ SignByRep(r) \/ SignAlone(r)
      BY <3>3 DEF SignUnregistered, SignUngrouped, SignByRep, SignAlone, NoSigniture, Signed
    <3>4. CASE SumRc(r) \/ Split(r) \/ Share(r) \/ Compare(r)
      BY <3>4 DEF SumRc, Split, Share, Compare, NoSigniture, Signed, YesIf
    <3>5. QED
      BY <3>1, <3>2, <3>3, <3>4 DEF Local
  <2>4. pc'[r] # "bloom"
    BY <2>1, <2>3 DEF GoTo, Return, Broadcast, Domains
  <2>5. QED
    BY <2>2, <2>4
<1>3. AnyRemote' = AnyRemote /\ uri' = uri
  BY DEF NodeSame, AnyRemote
<1>4. Surveying(r)
  BY SurveyParts
<1>5. QED
  BY <1>1, <1>2, <1>3, <1>4, Tells DEF Surveying, In

(* What triage learns after its first reduction, and after its second.     *)
LEMMA TriageSurvey ==
  ASSUME SurveyInv, NEW r \in Rank, NodeSame, TriageRemote(r) \/ TriageBloom(r)
  PROVE  Surveying(r)' /\ SurveyStep
<1> DEFINE est == CardinalityEst(uri, AnyRemote)
<1>0. /\ AnyRemote' = AnyRemote /\ uri' = uri /\ remote' = remote
      /\ Surveying(r) /\ Domains /\ Limit \in Nat /\ health[r] # "lookup"
      /\ card = [q \in Rank |-> card[q]] /\ nodeLocal \in [Rank -> BOOLEAN]
      /\ info' = info
  BY SurveyParts DEF NodeSame, AnyRemote, TriageRemote, TriageBloom, desc
<1>1. est = IF AnyRemote /\ Limit > 0 THEN Estimate(PopCount(Filter(uri))) ELSE N
  BY DEF CardinalityEst
<1>2. N # NotFilled
  BY BaseAssumption DEF NotFilled
<1>3. Abstract!AnyRemote <=> AnyRemote
  BY DEF Abstract!AnyRemote, AnyRemote
<1> HIDE DEF est
<1>4. ASSUME card' = [card EXCEPT ![r] = est],
             nodeLocal' = [nodeLocal EXCEPT ![r] = ~AnyRemote],
             ready'[r] = FALSE, pc'[r] # "bloom"
      PROVE  Surveying(r)' /\ SurveyStep
  <2>1. card'[r] = est /\ (nodeLocal'[r] <=> ~AnyRemote)
    BY <1>0, <1>4
  <2>2. ~AnyRemote => est # NotFilled
    BY <1>1, <1>2
  <2>3. AnyRemote \/ nodeLocal'[r]
    BY <2>1
  <2>4. Surveying(r)'
    BY <1>0, <1>4, <2>1, <2>2 DEF Surveying, In, est
  <2>5. CASE card[r] = NotFilled
    <3>1. Abstract!Triage(r)
      BY <1>0, <1>3, <1>4, <2>5 DEF Abstract!Triage, est
    <3>2. QED
      BY <2>4, <3>1 DEF SurveyStep, Abstract!Next
  <2>6. CASE card[r] # NotFilled
    <3>1. card[r] = est /\ (nodeLocal[r] <=> ~AnyRemote)
      BY <1>0, <2>6 DEF Surveying, est
    <3>2. card' = card /\ nodeLocal' = nodeLocal
      BY <1>0, <1>4, <3>1
    <3>3. QED
      BY <1>0, <2>4, <3>2, Tells
  <2>7. QED
    BY <2>5, <2>6
<1>5. CASE TriageRemote(r)
  <2>1. (got[r] = 0) <=> ~AnyRemote
    BY <1>0, <1>5 DEF TriageRemote, Surveying
  <2>2. CASE ~AnyRemote \/ Limit = 0
    <3>1. /\ card' = [card EXCEPT ![r] = N]
          /\ nodeLocal' = [nodeLocal EXCEPT ![r] = @ \/ got[r] = 0]
          /\ Return(r, "true") /\ est = N
      BY <1>0, <1>1, <1>5, <2>1, <2>2 DEF TriageRemote
    <3>2. ready'[r] = FALSE /\ pc'[r] = "idle"
      BY <1>0, <3>1 DEF Return, Domains
    <3>3. (nodeLocal[r] \/ got[r] = 0) <=> ~AnyRemote
      BY <1>0, <2>1 DEF Surveying
    <3>4. nodeLocal' = [nodeLocal EXCEPT ![r] = ~AnyRemote]
      BY <1>0, <3>1, <3>3
    <3>5. QED
      BY <1>4, <3>1, <3>2, <3>4
  <2>3. CASE AnyRemote /\ Limit # 0
    <3>1. /\ card' = [card EXCEPT ![r] = @]
          /\ nodeLocal' = [nodeLocal EXCEPT ![r] = @ \/ got[r] = 0]
          /\ GoTo(r, "bloom") /\ ~(got[r] = 0)
      BY <1>0, <1>5, <2>1, <2>3 DEF TriageRemote
    <3>2. ready'[r] = FALSE /\ pc'[r] = "bloom" /\ Limit > 0
      BY <1>0, <2>3, <3>1 DEF GoTo, Domains
    <3>3. card' = card /\ nodeLocal' = nodeLocal
      BY <1>0, <3>1
    <3>4. QED
      BY <1>0, <2>3, <3>2, <3>3, Tells DEF Surveying, In
  <2>4. QED
    BY <2>2, <2>3
<1>6. CASE TriageBloom(r)
  <2>1. /\ card' = [card EXCEPT ![r] = Estimate(got[r])] /\ nodeLocal' = nodeLocal
        /\ Return(r, "true") /\ In(r, "bloom")
    BY <1>6 DEF TriageBloom
  <2>2. ready'[r] = FALSE /\ pc'[r] = "idle"
    BY <1>0, <2>1 DEF Return, Domains
  <2>3. AnyRemote /\ Limit > 0 /\ got[r] = PopCount(Filter(uri))
    BY <1>0, <2>1, SurveyParts, LegalParts DEF Surveying, GotTyped, In
  <2>4. Estimate(got[r]) = est /\ (nodeLocal[r] <=> ~AnyRemote)
    BY <1>0, <1>1, <2>3 DEF Surveying
  <2>5. nodeLocal' = [nodeLocal EXCEPT ![r] = ~AnyRemote]
    BY <1>0, <2>1, <2>4
  <2>6. QED
    BY <1>4, <2>1, <2>2, <2>4, <2>5
<1>7. QED
  BY <1>5, <1>6

(* No local step starts or ends the wait for a comparison.                 *)
LEMMA LocalCompares ==
  ASSUME SurveyInv, NEW r \in Rank, Local(r)
  PROVE  Comparing(r)' <=> Comparing(r)
<1>1. Domains
  BY SurveyParts
<1>2. CASE Compare(r)
  BY <1>1, <1>2 DEF Compare, GoTo, Return, Comparing, In, Domains
<1>3. CASE ~Compare(r)
  <2>1. ~Comparing(r)
    BY <1>3 DEF Local, Initialize, Triage, TriageRemote, TriageBloom, Ask, ForceInfo, Unique,
       SignUnregistered, SignUngrouped, SignByRep, SignAlone, SumRc, Split, Share,
       Signs, AtSign, Asked, Comparing, In
  <2>2. \/ \E point : point # "differ" /\ GoTo(r, point)
        \/ \E answer : Return(r, answer)
        \/ \E part : Broadcast(r, part)
    <3>1. CASE Unique(r)
      <4>1. ASSUME NEW answer, UniqueIs(r, answer) PROVE GoTo(r, "sign") \/ Return(r, answer)
        BY <4>1 DEF UniqueIs
      <4>2. GoTo(r, "groupUnique") \/ \E answer : UniqueIs(r, answer)
        BY <3>1 DEF Unique
      <4>3. QED
        BY <4>1, <4>2
    <3>2. CASE Initialize(r) \/ Triage(r) \/ TriageRemote(r) \/ TriageBloom(r) \/ Ask(r)
               \/ ForceInfo(r)
      BY <3>2 DEF Initialize, Triage, TriageRemote, TriageBloom, Ask, ForceInfo, YesIf
    <3>3. CASE SignUnregistered(r) \/ SignUngrouped(r) \/ SignByRep(r) \/ SignAlone(r)
      BY <3>3 DEF SignUnregistered, SignUngrouped, SignByRep, SignAlone, NoSigniture, Signed
    <3>4. CASE SumRc(r) \/ Split(r) \/ Share(r)
      BY <3>4 DEF SumRc, Split, Share, NoSigniture, Signed
    <3>5. QED
      BY <1>3, <3>1, <3>2, <3>3, <3>4 DEF Local
  <2>3. ~Comparing(r)'
    BY <1>1, <2>2 DEF GoTo, Return, Broadcast, Domains, Comparing, In
  <2>4. QED
    BY <2>1, <2>3
<1>4. QED
  BY <1>2, <1>3

(* A local step keeps the invariant and is one of Survey.                  *)
LEMMA LocalSurvey ==
  ASSUME SurveyInv, NEW r \in Rank, Local(r)
  PROVE  SurveyInv' /\ SurveyStep
<1>1. LegalInv' /\ Frame(r) /\ GroupsStay /\ NodeSame
  BY SurveyParts, LocalLegal DEF Frame
<1>2. Surveying(r)' /\ SurveyStep
  BY <1>1, QuietSurvey, TriageSurvey
<1>3. \A q \in Rank \ {r} : SameAt(q)
  BY <1>1 DEF Frame
<1>4. AnyRemote' = AnyRemote /\ uri' = uri /\ NoLookupFails'
  BY <1>1 DEF NodeSame, AnyRemote, SurveyInv, NoLookupFails
<1>5. \A q \in Rank \ {r} : Surveying(q)'
  BY <1>3, <1>4, SurveyParts DEF SameAt, Surveying, In
<1>6. \A q \in Rank : Comparing(q)' <=> Comparing(q)
  BY <1>3, LocalCompares DEF SameAt, Comparing, In
<1>7. QED
  BY <1>1, <1>2, <1>4, <1>5, <1>6, SurveyParts DEF SurveyInv

(* What a collective gives, and to whom.                                   *)
LEMMA CollectiveSurvey ==
  ASSUME SurveyInv, Collective
  PROVE  SurveyInv' /\ SurveyStep
<1>1. /\ LegalInv' /\ NodeSame /\ pc' = pc /\ card' = card /\ nodeLocal' = nodeLocal
  <2>1. LegalInv'
    BY CollectiveLegal DEF SurveyInv
  <2>2. NodeSame /\ pc' = pc /\ card' = card /\ nodeLocal' = nodeLocal
    BY DEF Collective, Classify, ReduceMax, ReduceBor, ReduceSum, Grouping, CommSplit,
       BcastCompare, BcastShare, NodeSame, node, dist
  <2>3. QED
    BY <2>1, <2>2
<1>2. AnyRemote' = AnyRemote /\ uri' = uri /\ NoLookupFails'
  BY <1>1 DEF NodeSame, AnyRemote, SurveyInv, NoLookupFails
<1>3. \A r \in Rank : In(r, "anyRemote")' => got'[r] = IF AnyRemote THEN 1 ELSE 0
  <2>1. CASE ReduceMax
    <3> SUFFICES ASSUME NEW r \in Rank, pc[r] = "anyRemote"
                 PROVE  got'[r] = IF AnyRemote THEN 1 ELSE 0
      BY <1>1 DEF In
    <3>1. ~Comparing(r)
      BY DEF Comparing, In
    <3>2. \A q \in Rank : pc[q] = "anyRemote"
      BY <2>1, <3>1, SurveyParts DEF ReduceMax, AllBlocked, Blocked, Comparing
    <3>3. (\E q \in Rank : Operand(q)) <=> AnyRemote
      BY <3>2, SurveyParts DEF Operand, AnyRemote
    <3>4. QED
      BY <2>1, <3>3 DEF ReduceMax, Everywhere
  <2>2. CASE ~ReduceMax
    <3>1. \A r \in Rank : pc[r] = "anyRemote" => got'[r] = got[r] /\ (ready'[r] <=> ready[r])
      BY <2>2, RootFacts, SurveyParts
         DEF Collective, Classify, ReduceBor, ReduceSum, Grouping, CommSplit, BcastCompare,
             BcastShare, AllBlocked, Blocked
    <3>2. QED
      BY <1>1, <3>1, SurveyParts DEF In, Surveying
  <2>3. QED
    BY <2>1, <2>2
<1>4. \A r \in Rank : Surveying(r)'
  BY <1>1, <1>2, <1>3, SurveyParts DEF Surveying
<1>5. (\E r \in Rank : Comparing(r)') => \A r \in Rank : Comparing(r)'
  <2>1. CASE ReduceMax
    BY <2>1 DEF ReduceMax, Everywhere, AllBlocked, Blocked, Comparing, In
  <2>2. CASE BcastCompare
    BY <2>2 DEF BcastCompare, Everywhere, AllBlocked, Blocked, Comparing, In
  <2>3. CASE ~ReduceMax /\ ~BcastCompare
    <3>1. \A r \in Rank : pc[r] \in {"compare", "differ"} => (ready'[r] <=> ready[r])
      BY <2>3, RootFacts, SurveyParts
         DEF Collective, Classify, ReduceBor, ReduceSum, Grouping, CommSplit,
             BcastShare, AllBlocked, Blocked
    <3>2. \A r \in Rank : Comparing(r)' <=> Comparing(r)
      BY <1>1, <3>1 DEF Comparing, In
    <3>3. QED
      BY <3>2, SurveyParts
  <2>4. QED
    BY <2>1, <2>2, <2>3
<1>6. SurveyStep
  <2>1. CASE Grouping
    <3>1. \A r \in Rank : info[r] = NoGroupInfo
      BY <2>1, SurveyParts, LegalParts DEF Grouping, AllBlocked, Blocked, GroupsTyped
    <3>2. info = [r \in Rank |-> NoGroupInfo]
      BY <3>1 DEF SurveyInv, LegalInv, Functions
    <3>3. info' = [r \in Rank |-> GroupInfoOf(NoGroupInfo, uri, r)]
      BY <2>1, <3>1 DEF Grouping
    <3>4. Abstract!Group
      BY <1>1, <3>2, <3>3 DEF Abstract!Group, NodeSame
    <3>5. QED
      BY <3>4 DEF SurveyStep, Abstract!Next
  <2>2. CASE ~Grouping
    <3>1. info' = info
      BY <2>2 DEF Collective, Classify, ReduceMax, ReduceBor, ReduceSum, CommSplit,
         BcastCompare, BcastShare, desc
    <3>2. QED
      BY <1>1, <3>1, Tells
  <2>3. QED
    BY <2>1, <2>2
<1>7. QED
  BY <1>1, <1>2, <1>4, <1>5, <1>6 DEF SurveyInv

(* In whichever order and by whichever calls the processes learn of the    *)
(* file, they learn what one survey of all nodes would tell, for good:     *)
(* the step that runClassification takes triage and grouping for           *)
(* (FastGlobalFileStat.C:370-587).                                         *)
THEOREM SurveyIsImplemented == Spec /\ NoLookupFails => ImplementsSurvey
<1>1. Init /\ NoLookupFails => SurveyInv /\ Abstract!Init
  <2> SUFFICES ASSUME Init, NoLookupFails PROVE SurveyInv /\ Abstract!Init
    OBVIOUS
  <2>1. \A r \in Rank : Surveying(r) /\ ~Comparing(r)
    BY DEF Init, Surveying, Comparing, In, NotFilled
  <2>2. Abstract!Init
    BY DEF Init, NodesOK, Abstract!Init
  <2>3. QED
    BY <2>1, <2>2, InitLegal DEF SurveyInv
<1>2. SurveyInv /\ [Next]_vars => SurveyInv' /\ [Abstract!Next]_(Abstract!vars)
  <2> SUFFICES ASSUME SurveyInv, [Next]_vars PROVE SurveyInv' /\ SurveyStep
    BY DEF SurveyStep
  <2>1. CASE UNCHANGED vars
    <3>1. /\ NodeSame /\ UNCHANGED <<card, nodeLocal, info>>
          /\ pc' = pc /\ ready' = ready /\ got' = got /\ health' = health
          /\ uri' = uri /\ AnyRemote' = AnyRemote
      BY <2>1 DEF vars, node, dist, desc, locals, control, NodeSame, AnyRemote
    <3>2. LegalInv'
      BY <2>1, NextLegal DEF SurveyInv
    <3>3. SurveyInv'
      BY <3>1, <3>2 DEF SurveyInv, NoLookupFails, Surveying, Comparing, In
    <3>4. QED
      BY <3>1, <3>3, Tells
  <2>2. CASE Collective
    BY <2>2, CollectiveSurvey
  <2>3. ASSUME NEW r \in Rank, Local(r) PROVE SurveyInv' /\ SurveyStep
    BY <2>3, LocalSurvey
  <2>4. QED
    BY <2>1, <2>2, <2>3 DEF Next
<1>3. QED
  BY <1>1, <1>2, PTL DEF Spec, ImplementsSurvey, Abstract!Spec
=============================================================================
