------------------------ MODULE SyncProgram_proofs ------------------------
(***************************************************************************)
(* Where nothing is wrong every process follows the program of             *)
(* SyncProgram.  A local step passes no collective that others wait in, so *)
(* that what is to be shown of it is that the rank itself is where the     *)
(* program has it (StepKeeps, ReturnKeeps, MoveKeeps).  Ranks that wait in *)
(* MPI_COMM_WORLD wait in the same operation, which completes for all with *)
(* what the program has it give.  LockInv is an invariant then, and what   *)
(* the calls should have answered follows from it.                         *)
(***************************************************************************)
EXTENDS SyncStatus_proofs

(* A step that passes no collective of the program.                        *)
DoneSame(r) ==
  \A k \in Calls : \A o \in 1 .. 13 : OnPath(k, o) => (Done(r, k, o)' <=> Done(r, k, o))

-----------------------------------------------------------------------------
(* The program's functions are of what the ranks find on their nodes.      *)
LEMMA ProgramSame ==
  ASSUME NodeSame
  PROVE  /\ Calls' = Calls /\ AnyRemote' = AnyRemote /\ AllSame' = AllSame /\ OneUri' = OneUri
         /\ \A k : /\ Triaged(k)' = Triaged(k) /\ Registered(k)' = Registered(k)
                   /\ CardAt(k)' = CardAt(k) /\ CutoffAt(k)' = CutoffAt(k)
                   /\ LocalAt(k)' = LocalAt(k) /\ UniqueAt(k)' = UniqueAt(k)
                   /\ ByRep(k)' = ByRep(k) /\ Alone(k)' = Alone(k)
                   /\ Compares(k)' = Compares(k) /\ Groups(k)' = Groups(k)
                   /\ Right(k)' = Right(k)
                   /\ \A o : OnPath(k, o)' = OnPath(k, o)
         /\ \A r : Mates(r)' = Mates(r) /\ Lowest(r)' = Lowest(r)
<1> USE DEF NodeSame
<1>1. AnyRemote' = AnyRemote /\ AllSame' = AllSame /\ OneUri' = OneUri /\ Calls' = Calls
  BY DEF AnyRemote, AllSame, OneUri, Calls
<1>2. \A k : Triaged(k)' = Triaged(k) /\ Registered(k)' = Registered(k)
  BY DEF Triaged, Registered
<1>3. \A k : /\ CardAt(k)' = CardAt(k) /\ CutoffAt(k)' = CutoffAt(k)
             /\ LocalAt(k)' = LocalAt(k)
  BY <1>1, <1>2 DEF CardAt, CutoffAt, LocalAt
<1>4. \A k : PoorlyAt(k)' = PoorlyAt(k) /\ FewAt(k)' = FewAt(k)
  BY <1>3 DEF PoorlyAt, FewAt
<1>5. \A k : UniqueAt(k)' = UniqueAt(k)
  BY <1>1, <1>2, <1>4 DEF UniqueAt, YesIf
<1>6. \A k : ByRep(k)' = ByRep(k) /\ Alone(k)' = Alone(k) /\ Compares(k)' = Compares(k)
  BY <1>2, <1>4, <1>5 DEF ByRep, Alone, Compares, Signing
<1>7. \A k : Needs(k)' = Needs(k)
  BY <1>2, <1>4, <1>6 DEF Needs
<1>8. \A k : Groups(k)' = Groups(k)
  BY <1>7 DEF Groups
<1>9. \A k : PoorlyAnswerAt(k)' = PoorlyAnswerAt(k)
  BY <1>3, <1>4 DEF PoorlyAnswerAt, YesIf
<1>10. \A k : WellAnswerAt(k)' = WellAnswerAt(k)
  BY <1>9 DEF WellAnswerAt
<1>11. \A k : Right(k)' = Right(k)
  BY <1>1, <1>2, <1>3, <1>5, <1>6, <1>9, <1>10 DEF Right, YesIf
<1>12. \A k, o : OnPath(k, o)' = OnPath(k, o)
  BY <1>1, <1>6, <1>8 DEF OnPath
<1>13. \A r : Mates(r)' = Mates(r)
  BY DEF Mates
<1>14. \A r : Lowest(r)' = Lowest(r)
  BY <1>13 DEF Lowest
<1>15. QED
  BY <1>1, <1>2, <1>3, <1>5, <1>6, <1>8, <1>11, <1>12, <1>13, <1>14

(* A rank that a step does not touch goes on following the program.        *)
LEMMA OthersKeep ==
  ASSUME NodeSame, NEW q \in Rank, RankOK(q), SameAt(q)
  PROVE  /\ RankOK(q)'
         /\ \A k, o : Done(q, k, o)' = Done(q, k, o)
<1> USE ProgramSame
<1>0. /\ script' = script /\ uri' = uri /\ file' = file
  BY DEF NodeSame
<1>1. Place(q)' = Place(q)
  BY DEF Place, SameAt
<1>2. \A k, o : Done(q, k, o)' = Done(q, k, o)
  BY <1>1 DEF Done, SameAt
<1>3. AnswersOK(q)'
  BY <1>0 DEF RankOK, AnswersOK, SameAt
<1>4. PlaceOK(q)'
  BY <1>0 DEF RankOK, PlaceOK, SameAt
<1>5. GotOK(q)'
  BY <1>0 DEF RankOK, GotOK, SameAt, In
<1>6. DistOK(q)'
  BY <1>0 DEF RankOK, DistOK, SameAt
<1>7. DescOK(q)'
  <2>1. Surveyed(q)' = Surveyed(q)
    BY <1>0, <1>2 DEF Surveyed, GroupPoint
  <2>2. QED
    BY <1>0, <2>1 DEF RankOK, DescOK, SameAt
<1>8. SignOK(q)'
  BY <1>0 DEF RankOK, SignOK, SameAt
<1>9. QED
  BY <1>2, <1>3, <1>4, <1>5, <1>6, <1>7, <1>8 DEF RankOK

-----------------------------------------------------------------------------
(* Where a rank is, in numbers.                                            *)
LEMMA Typed ==
  ASSUME LockInv, NEW r \in Rank
  PROVE  /\ call[r] \in Nat \ {0} /\ Len(script) \in Nat
         /\ Place(r) \in 0 .. 13 /\ ready[r] \in BOOLEAN
         /\ call[r] <= Len(script) => call[r] \in Calls
         /\ pc[r] # "idle" => call[r] \in Calls
         /\ script \in Scripts
<1>1. Len(script) \in Nat
  BY ScriptAssumption DEF LockInv
<1>2. call[r] \in 1 .. Len(script) + 1 /\ (pc[r] # "idle" => call[r] <= Len(script))
  BY DEF LockInv, RankOK, AnswersOK
<1>3. ready[r] \in BOOLEAN /\ script \in Scripts
  BY DEF LockInv
<1>4. PlaceOK(r)
  BY DEF LockInv, RankOK
<1>5. Place(r) \in 0 .. 13
  BY <1>4 DEF Place, Order, PlaceOK
<1>6. QED
  BY <1>1, <1>2, <1>3, <1>5 DEF Calls

(* A rank that goes on to a later point of its call, past no collective.   *)
LEMMA GoesOn ==
  ASSUME LockInv, NEW r \in Rank, NodeSame,
         call'[r] = call[r], ~ready'[r],
         Place(r)' \in 1 .. 13, Place(r) < Place(r)',
         \A o \in 1 .. 13 : Place(r) < o /\ o < Place(r)' => ~OnPath(call[r], o),
         OnPath(call[r], Place(r)) => ready[r]
  PROVE  DoneSame(r)
<1>1. Place(r) \in 0 .. 13
  BY Typed
<1> SUFFICES ASSUME NEW k \in Calls, NEW o \in 1 .. 13, OnPath(k, o)
             PROVE  Done(r, k, o)' <=> Done(r, k, o)
  BY DEF DoneSame
<1>2. CASE k # call[r]
  BY <1>2 DEF Done
<1>3. CASE k = call[r]
  <2>1. Done(r, k, o)' <=> o < Place(r)'
    BY <1>3, <1>1, Typed DEF Done
  <2>2. Done(r, k, o) <=> o < Place(r) \/ (o = Place(r) /\ ready[r])
    BY <1>3, <1>1, Typed DEF Done
  <2>3. QED
    BY <1>1, <1>3, <2>1, <2>2
<1>4. QED
  BY <1>2, <1>3

(* A rank that returns from the last collective of its call.               *)
LEMMA Leaves ==
  ASSUME LockInv, NEW r \in Rank, NodeSame,
         call'[r] = call[r] + 1, ~ready'[r], Place(r)' = 0,
         \A o \in 1 .. 13 : Place(r) < o => ~OnPath(call[r], o),
         OnPath(call[r], Place(r)) => ready[r]
  PROVE  DoneSame(r)
<1>1. Place(r) \in 0 .. 13 /\ call[r] \in Nat
  BY Typed
<1> SUFFICES ASSUME NEW k \in Calls, NEW o \in 1 .. 13, OnPath(k, o)
             PROVE  Done(r, k, o)' <=> Done(r, k, o)
  BY DEF DoneSame
<1>0. k \in Nat
  BY Typed DEF Calls
<1>2. Done(r, k, o)' <=> k <= call[r]
  BY <1>0, <1>1 DEF Done
<1>3. CASE k # call[r]
  BY <1>0, <1>1, <1>2, <1>3 DEF Done
<1>4. CASE k = call[r]
  BY <1>0, <1>1, <1>2, <1>4 DEF Done
<1>5. QED
  BY <1>3, <1>4

(* The rank knows the groups if and only if it did before.                 *)
LEMMA DescKeeps ==
  ASSUME LockInv, NEW r \in Rank, NodeSame, DoneSame(r),
         mapped'[r] = mapped[r], info'[r] = info[r]
  PROVE  DescOK(r)'
<1>1. DescOK(r)
  BY DEF LockInv, RankOK
<1>2. \A k \in Calls : Groups(k) => GroupPoint(k) \in 1 .. 13 /\ OnPath(k, GroupPoint(k))
  BY DEF GroupPoint, OnPath
<1>3. \A k : GroupPoint(k)' = GroupPoint(k)
  BY DEF GroupPoint, NodeSame
<1>4. Surveyed(r)' = Surveyed(r)
  BY <1>2, <1>3, ProgramSame DEF Surveyed, DoneSame
<1>5. uri' = uri
  BY DEF NodeSame
<1>6. QED
  BY <1>1, <1>4, <1>5 DEF DescOK

(* What the ranks find on their nodes stays as it was.                     *)
LEMMA NodesStay ==
  ASSUME LockInv, NodeSame
  PROVE  NodesOK' /\ NothingWrong' /\ script' \in Scripts
BY DEF LockInv, NodeSame, NodesOK, NothingWrong, NoAliases

(* All ranks follow the program again, each with the same collectives      *)
(* behind it as before.                                                    *)
LEMMA AllKeep ==
  ASSUME LockInv, NodeSame, Domains', ready' \in [Rank -> BOOLEAN],
         \A q \in Rank : RankOK(q)' /\ DoneSame(q)
  PROVE  LockInv'
<1>1. NodesOK' /\ NothingWrong' /\ script' \in Scripts
  BY NodesStay DEF LockInv
<1>2. InStep'
  <2> SUFFICES ASSUME NEW p \in Rank, NEW q \in Rank, NEW k \in Calls, NEW o \in 1 .. 13,
                      OnPath(k, o), Done(p, k, o)'
               PROVE  Done(q, k, o)'
    BY ProgramSame DEF InStep
  <2>1. Done(p, k, o)
    BY DEF DoneSame
  <2>2. Done(q, k, o)
    BY <2>1 DEF LockInv, InStep
  <2>3. QED
    BY <2>2 DEF DoneSame
<1>3. QED
  BY <1>1, <1>2 DEF LockInv

(* When a rank steps and keeps to the program, all do.                     *)
LEMMA StepKeeps ==
  ASSUME LockInv, NEW r \in Rank, NodeSame, Domains', ready' \in [Rank -> BOOLEAN],
         \A q \in Rank \ {r} : SameAt(q),
         RankOK(r)', DoneSame(r)
  PROVE  LockInv'
<1>1. \A q \in Rank \ {r} : RankOK(q)' /\ DoneSame(q)
  BY OthersKeep DEF LockInv, DoneSame
<1>2. \A q \in Rank : RankOK(q)' /\ DoneSame(q)
  BY <1>1
<1>3. QED
  BY <1>2, AllKeep

-----------------------------------------------------------------------------
(* What a call leaves to the next.                                         *)

(* What one more call makes of the triage and of the generator.            *)
LEMMA NextCall ==
  ASSUME NEW k \in Nat \ {0}
  PROVE  /\ Triaged(k + 1) <=> Triaged(k) \/ script[k] = "triage"
         /\ Registered(k + 1) <=> \/ script[k] = "initialize"
                                  \/ Registered(k) /\ script[k] # "initializeStorage"
<1>1. Triaged(k + 1) <=> Triaged(k) \/ script[k] = "triage"
  BY DEF Triaged
<1>2. ASSUME Registered(k + 1)
      PROVE  script[k] = "initialize" \/ (Registered(k) /\ script[k] # "initializeStorage")
  <2>1. PICK i \in 1 .. k : /\ script[i] = "initialize"
                            /\ \A j \in i+1 .. k : script[j] # "initializeStorage"
    BY <1>2 DEF Registered
  <2>2. CASE i = k
    BY <2>1, <2>2
  <2>3. CASE i # k
    BY <2>1, <2>3 DEF Registered
  <2>4. QED
    BY <2>2, <2>3
<1>3. ASSUME script[k] = "initialize" PROVE Registered(k + 1)
  BY <1>3 DEF Registered
<1>4. ASSUME Registered(k), script[k] # "initializeStorage" PROVE Registered(k + 1)
  <2>1. PICK i \in 1 .. k-1 : /\ script[i] = "initialize"
                              /\ \A j \in i+1 .. k-1 : script[j] # "initializeStorage"
    BY <1>4 DEF Registered
  <2>2. \A j \in i+1 .. k : script[j] # "initializeStorage"
    BY <1>4, <2>1
  <2>3. i \in 1 .. k
    BY <2>1
  <2>4. QED
    BY <2>1, <2>2, <2>3 DEF Registered
<1>5. QED
  BY <1>1, <1>2, <1>3, <1>4

(* A call that returns what it should keeps the rank on the program.       *)
LEMMA ReturnKeeps ==
  ASSUME LockInv, NEW r \in Rank, Frame(r), call[r] \in Calls,
         Return(r, Right(call[r])),
         \A o \in 1 .. 13 : Place(r) < o => ~OnPath(call[r], o),
         OnPath(call[r], Place(r)) => ready[r],
         mapped'[r] = mapped[r], info'[r] = info[r], comm'[r] = comm[r],
         DistOK(r)',
         script[call[r]] = "signiture" /\ (ByRep(call[r]) \/ Alone(call[r]))
           => sig'[r] = file[r]
  PROVE  LockInv'
<1> DEFINE k == call[r]
<1>0. NodeSame /\ k \in Nat \ {0} /\ k <= Len(script) /\ Len(script) \in Nat
  BY Typed DEF Frame, Calls
<1>1. /\ call'[r] = k + 1 /\ pc'[r] = "idle" /\ ready'[r] = FALSE
      /\ stage'[r] = 0 /\ got'[r] = 0
      /\ said'[r] = Append(said[r], Right(k))
  BY DEF Return, LockInv, Domains
<1>2. DoneSame(r)
  <2>1. Place(r)' = 0
    BY <1>1 DEF Place, Order
  <2>2. QED
    BY <1>0, <1>1, <2>1, Leaves
<1>3. DescOK(r)'
  BY <1>0, <1>2, DescKeeps
<1>4. AnswersOK(r)'
  <2>1. /\ said[r] \in Seq(Answer) /\ Len(said[r]) = k - 1
        /\ \A j \in 1 .. k - 1 : said[r][j] = Right(j)
    BY DEF LockInv, RankOK, AnswersOK
  <2>2. Right(k) \in Answer
    BY DEF Right, Answer, YesIf, UniqueAt, WellAnswerAt, PoorlyAnswerAt
  <2>3. said'[r] \in Seq(Answer) /\ Len(said'[r]) = k
    BY <1>0, <1>1, <2>1, <2>2
  <2>4. ASSUME NEW j \in 1 .. k PROVE said'[r][j] = Right(j)
    <3>1. CASE j = k
      BY <1>0, <1>1, <2>1, <3>1
    <3>2. CASE j # k
      <4>1. j \in 1 .. k - 1
        BY <1>0, <3>2
      <4>2. QED
        BY <1>0, <1>1, <2>1, <4>1
    <3>3. QED
      BY <3>1, <3>2
  <2>5. \A j : Right(j)' = Right(j)
    BY <1>0, ProgramSame
  <2>6. script' = script
    BY <1>0 DEF NodeSame
  <2>7. call'[r] - 1 = k /\ call'[r] \in 1 .. Len(script') + 1
    BY <1>0, <1>1, <2>6
  <2>8. \A j \in 1 .. call'[r] - 1 : said'[r][j] = Right(j)'
    BY <2>4, <2>5, <2>7
  <2>9. QED
    BY <1>1, <2>3, <2>7, <2>8 DEF AnswersOK
<1>5. PlaceOK(r)' /\ GotOK(r)'
  BY <1>1 DEF PlaceOK, GotOK, In
<1>6. SignOK(r)'
  <2>1. comm[r] \in {{}, Mates(r)}
    BY DEF LockInv, RankOK, SignOK
  <2>2. script' = script /\ file' = file /\ call'[r] - 1 = k
    BY <1>0, <1>1 DEF NodeSame
  <2>3. QED
    BY <1>0, <1>1, <2>1, <2>2, ProgramSame DEF SignOK
<1>7. QED
  BY <1>0, <1>2, <1>3, <1>4, <1>5, <1>6, StepKeeps DEF Frame, RankOK

(* So does one that goes on within its call, if it goes where it should.   *)
LEMMA MoveKeeps ==
  ASSUME LockInv, NEW r \in Rank, Frame(r), call[r] \in Calls,
         call'[r] = call[r], said'[r] = said[r], ready'[r] = FALSE,
         Place(r)' \in 1 .. 13, Place(r) < Place(r)',
         \A o \in 1 .. 13 : Place(r) < o /\ o < Place(r)' => ~OnPath(call[r], o),
         OnPath(call[r], Place(r)) => ready[r],
         mapped'[r] = mapped[r], info'[r] = info[r],
         PlaceOK(r)', GotOK(r)', DistOK(r)', SignOK(r)'
  PROVE  LockInv'
<1>1. NodeSame
  BY DEF Frame
<1>2. DoneSame(r)
  BY <1>1, GoesOn
<1>3. DescOK(r)'
  BY <1>1, <1>2, DescKeeps
<1>4. AnswersOK(r)'
  <2>1. script' = script /\ \A k : Right(k)' = Right(k)
    BY <1>1, ProgramSame DEF NodeSame
  <2>2. call[r] <= Len(script)
    BY DEF Calls
  <2>3. AnswersOK(r)
    BY DEF LockInv, RankOK
  <2>4. QED
    BY <2>1, <2>2, <2>3 DEF AnswersOK
<1>5. QED
  BY <1>1, <1>2, <1>3, <1>4, StepKeeps DEF Frame, RankOK

(* What the object holds does not change in most calls.                    *)
DistSame(r) ==
  /\ generator'[r] = generator[r] /\ card'[r] = card[r] /\ cutoff'[r] = cutoff[r]
  /\ nodeLocal'[r] = nodeLocal[r] /\ known'[r] = known[r]

(* A step that leaves the object alone.                                    *)
LEMMA DistKeeps ==
  ASSUME LockInv, NEW r \in Rank, NodeSame, DistSame(r),
         pc[r] \notin {"classify", "bloom"}, pc'[r] \notin {"classify", "bloom"},
         \/ call'[r] = call[r]
         \/ /\ call'[r] = call[r] + 1
            /\ script[call[r]] \notin {"initialize", "initializeStorage", "triage"}
  PROVE  DistOK(r)'
<1>1. DistOK(r) /\ call[r] \in Nat \ {0}
  BY Typed DEF LockInv, RankOK
<1>2. /\ Triaged(call'[r]) <=> Triaged(call[r])
      /\ Registered(call'[r]) <=> Registered(call[r])
  BY <1>1, NextCall
<1>3. /\ CardAt(call'[r]) = CardAt(call[r]) /\ CutoffAt(call'[r]) = CutoffAt(call[r])
      /\ LocalAt(call'[r]) = LocalAt(call[r])
  BY <1>2 DEF CardAt, CutoffAt, LocalAt
<1>4. QED
  BY <1>1, <1>2, <1>3, ProgramSame DEF DistOK, DistSame

(* What a process learns from the groups when no two URIs are aliases.     *)
LEMMA GroupFacts ==
  ASSUME NoAliases, uri \in [Rank -> Uri], NEW r \in Rank
  PROVE  /\ IsGroupingDone(GroupInfoAt(uri, r))
         /\ IsSingleGroup(GroupInfoAt(uri, r)) <=> OneUri
         /\ IsRep(GroupInfoAt(uri, r)) <=> Lowest(r)
         /\ GroupInfoAt(uri, r).groupId \in Mates(r)
         /\ Lowest(GroupInfoAt(uri, r).groupId)
         /\ r \in Mates(r)
<1>1. ~AliasDetected(UriMap(uri))
  BY NoneDetected DEF NoAliases
<1>2. (\A q : Mates(q) = Sharers(uri, q)) /\ (OneUri <=> IsOneUri(uri))
  BY DEF Mates, Sharers, OneUri, IsOneUri
<1>3. \A q : Lowest(q) <=> IsLowest(uri, q)
  BY <1>2 DEF Lowest, IsLowest
<1>4. QED
  BY <1>1, <1>2, <1>3, GroupInfoFacts

(* The first call that needs the groups makes them.                        *)
LEMMA FirstNeed ==
  ASSUME NEW k \in Calls, NEW j \in 1 .. k, Needs(j), Len(script) \in Nat
  PROVE  \E i \in 1 .. j : Groups(i) /\ i \in Calls
<1> DEFINE S == {i \in 1 .. k : Needs(i)}
<1>1. S \subseteq Nat /\ j \in S
  BY DEF Calls
<1>2. PICK i \in S : \A p \in S : i <= p
  BY <1>1, LowestNumber
<1>3. i \in 1 .. j /\ i \in Calls
  BY <1>1, <1>2 DEF Calls
<1>4. \A p \in 1 .. i-1 : ~Needs(p)
  BY <1>2 DEF Calls
<1>5. QED
  BY <1>2, <1>3, <1>4 DEF Groups

(* What a rank knows of the groups when it is at a point of its call.      *)
LEMMA DescFacts ==
  ASSUME LockInv, NEW r \in Rank
  PROVE  /\ Grouped(r) <=> mapped[r]
         /\ Grouped(r) => info[r] = GroupInfoAt(uri, r)
         /\ Grouped(r) => (IsSingleGroup(info[r]) <=> OneUri)
         /\ Grouped(r) => (IsRep(info[r]) <=> Lowest(r))
         /\ ~Grouped(r) => info[r] = NoGroupInfo
         /\ mapped[r] <=> Surveyed(r)
<1>1. DescOK(r) /\ uri \in [Rank -> Uri] /\ NoAliases
  BY DEF LockInv, RankOK, NodesOK, NothingWrong
<1>2. ~IsGroupingDone(NoGroupInfo)
  BY DEF IsGroupingDone, NoGroupInfo
<1>3. mapped[r] <=> Surveyed(r)
  BY <1>1 DEF DescOK, Surveyed
<1>4. CASE mapped[r]
  <2>1. info[r] = GroupInfoAt(uri, r)
    BY <1>1, <1>4 DEF DescOK, GroupInfoAt
  <2>2. QED
    BY <1>1, <1>3, <1>4, <2>1, GroupFacts DEF Grouped
<1>5. CASE ~mapped[r]
  <2>1. info[r] = NoGroupInfo
    BY <1>1, <1>5 DEF DescOK
  <2>2. QED
    BY <1>2, <1>3, <1>5, <2>1 DEF Grouped
<1>6. QED
  BY <1>3, <1>4, <1>5

(* A call that needs the groups is the one that makes them, or they are    *)
(* there; and where they are there the path was triaged.                   *)
LEMMA SurveyedFacts ==
  ASSUME LockInv, NEW r \in Rank, call[r] \in Calls
  PROVE  /\ Needs(call[r]) /\ ~Surveyed(r) =>
              Groups(call[r]) /\ Place(r) <= GroupPoint(call[r])
         /\ Surveyed(r) => Triaged(call[r])
         /\ Groups(call[r]) /\ Place(r) < GroupPoint(call[r]) => ~Surveyed(r)
         /\ Groups(call[r]) /\ Place(r) > GroupPoint(call[r]) => Surveyed(r)
         /\ \A j \in 1 .. call[r] - 1 : Needs(j) => Surveyed(r)
<1> DEFINE k == call[r]
<1>1. k \in Nat \ {0} /\ Len(script) \in Nat /\ Place(r) \in 0 .. 13 /\ k <= Len(script)
  BY Typed DEF Calls
<1>2. ASSUME NEW j \in 1 .. k - 1, Needs(j) PROVE Surveyed(r)
  <2>1. PICK i \in 1 .. j : Groups(i) /\ i \in Calls
    BY <1>1, <1>2, FirstNeed
  <2>2. i < call[r]
    BY <1>1
  <2>3. QED
    BY <2>1, <2>2 DEF Surveyed, Done
<1>3. ASSUME Needs(k), ~Surveyed(r) PROVE Groups(k) /\ Place(r) <= GroupPoint(k)
  <2>1. Groups(k)
    BY <1>2, <1>3 DEF Groups
  <2>2. ~(GroupPoint(k) < Place(r))
    BY <1>3, <2>1 DEF Surveyed, Done
  <2>3. QED
    BY <1>1, <2>1, <2>2 DEF GroupPoint
<1>4. ASSUME Surveyed(r) PROVE Triaged(k)
  <2>1. PICK j \in Calls : Groups(j) /\ j <= k
    BY <1>1, <1>4 DEF Surveyed, Done, Calls
  <2>2. Triaged(j)
    BY <2>1 DEF Groups, Needs, ByRep
  <2>3. QED
    BY <1>1, <2>1, <2>2 DEF Triaged, Calls
<1>5. ASSUME Groups(k), Place(r) < GroupPoint(k) PROVE ~Surveyed(r)
  <2> SUFFICES ASSUME NEW j \in Calls, Groups(j), Done(r, j, GroupPoint(j)) PROVE FALSE
    BY DEF Surveyed
  <2>1. j <= k /\ j \in Nat \ {0}
    BY <1>1 DEF Done, Calls
  <2>2. CASE j < k
    <3>1. j \in 1 .. k-1
      BY <1>1, <2>1, <2>2
    <3>2. QED
      BY <1>5, <3>1 DEF Groups
  <2>3. CASE j = k
    BY <1>1, <1>5, <2>3 DEF Done, GroupPoint
  <2>4. QED
    BY <1>1, <2>1, <2>2, <2>3
<1>6. ASSUME Groups(k), Place(r) > GroupPoint(k) PROVE Surveyed(r)
  BY <1>1, <1>6 DEF Surveyed, Done, GroupPoint
<1>7. QED
  BY <1>2, <1>3, <1>4, <1>5, <1>6

(* Where nothing is wrong stat and signature succeed.                      *)
LEMMA NothingFails ==
  ASSUME LockInv, NEW r \in Rank
  PROVE  health[r] = "ok" /\ StatRc(r) = 0
<1>1. health[r] \in Health
  BY DEF LockInv, NodesOK
<1>2. QED
  BY DEF LockInv, NothingWrong, StatRc

(* Each part of the invariant on its own.                                  *)
LEMMA Parts ==
  ASSUME LockInv, NEW r \in Rank
  PROVE  /\ AnswersOK(r) /\ PlaceOK(r) /\ GotOK(r) /\ DistOK(r) /\ DescOK(r) /\ SignOK(r)
         /\ DOMAIN call = Rank /\ DOMAIN pc = Rank /\ DOMAIN stage = Rank
         /\ DOMAIN ready = Rank /\ DOMAIN got = Rank /\ DOMAIN said = Rank
         /\ DOMAIN generator = Rank /\ DOMAIN card = Rank /\ DOMAIN cutoff = Rank
         /\ DOMAIN nodeLocal = Rank /\ DOMAIN known = Rank
         /\ DOMAIN rc = Rank /\ DOMAIN sig = Rank /\ DOMAIN size = Rank
         /\ ready[r] \in BOOLEAN
BY DEF LockInv, RankOK, Domains

(* A rank that is asked a method begins its next call with it.             *)
LEMMA Begins ==
  ASSUME LockInv, NEW r \in Rank, NEW methods, Asked(r, methods)
  PROVE  /\ pc[r] = "idle" /\ Place(r) = 0 /\ ~ready[r] /\ stage[r] = 0
         /\ call[r] \in Calls /\ script[call[r]] \in methods
         /\ \A o : OnPath(call[r], o) => o # Place(r)
<1>1. pc[r] = "idle" /\ call[r] \in Calls /\ script[call[r]] \in methods
  BY Typed DEF Asked
<1>2. Place(r) = 0 /\ ~ready[r] /\ stage[r] = 0
  BY <1>1, Parts DEF PlaceOK, Place, Order
<1>3. QED
  BY <1>1, <1>2 DEF OnPath

(* GoTo as the facts that MoveKeeps asks for.                              *)
LEMMA GoToFacts ==
  ASSUME LockInv, NEW r \in Rank, NEW point, GoTo(r, point)
  PROVE  /\ call'[r] = call[r] /\ said'[r] = said[r] /\ ready'[r] = FALSE
         /\ pc'[r] = point /\ stage'[r] = stage[r] /\ got'[r] = got[r]
         /\ point \in {"classify", "anyRemote", "groupUnique", "groupForce"} => Place(r)' = 1
         /\ point = "bloom" => Place(r)' = 2
         /\ point = "sign" => Place(r)' = 3
         /\ point = "groupSign" => Place(r)' = 4
         /\ point = "sumRc" => Place(r)' = 5
         /\ point = "share" => Place(r)' = 5 + 2 * stage[r]
         /\ point = "compare" => Place(r)' = 12
         /\ point = "differ" => Place(r)' = 13
<1>1. /\ call'[r] = call[r] /\ said'[r] = said[r] /\ ready'[r] = FALSE
      /\ pc'[r] = point /\ stage'[r] = stage[r] /\ got'[r] = got[r]
  BY Parts DEF GoTo
<1>2. Place(r)' = Order(point, stage[r])
  BY <1>1 DEF Place
<1>3. QED
  BY <1>1, <1>2 DEF Order

(* No signature is at stake at the points before the signing.              *)
LEMMA SignKeeps ==
  ASSUME LockInv, NEW r \in Rank, NodeSame, comm'[r] = comm[r],
         pc'[r] \notin {"idle", "sumRc", "split", "share", "compare", "differ"}
  PROVE  SignOK(r)'
BY Parts, ProgramSame DEF SignOK

(* The static initializers (SyncFastGlobalFileStat.C:72-79,                *)
(* MountPointsClassifier.C:278).                                           *)
LEMMA InitializeKeeps ==
  ASSUME LockInv, NEW r \in Rank, Frame(r), Initialize(r)
  PROVE  LockInv'
<1> DEFINE k == call[r]
<1>0. /\ NodeSame /\ k \in Nat \ {0}
      /\ UNCHANGED <<card, cutoff, nodeLocal, known, mapped, info, comm>>
  BY Typed DEF Frame, Initialize, desc, locals
<1>1. CASE Asked(r, {"initialize"}) /\ generator' = [generator EXCEPT ![r] = TRUE]
           /\ Return(r, "true")
  <2>1. script[k] = "initialize" /\ k \in Calls /\ pc[r] = "idle"
        /\ \A o : ~OnPath(k, o)
    BY <1>1, Begins DEF OnPath, Groups, Needs, ByRep, Compares, Alone, Signing
  <2>2. Right(k) = "true"
    BY <2>1 DEF Right
  <2>3. DistOK(r)'
    <3>1. /\ Registered(k + 1) /\ (Triaged(k + 1) <=> Triaged(k))
      BY <1>0, <2>1, NextCall
    <3>2. call'[r] = k + 1 /\ pc'[r] = "idle" /\ generator'[r] = TRUE
      BY <1>1, Parts DEF Return
    <3>3. QED
      BY <1>0, <2>1, <3>1, <3>2, Parts, ProgramSame DEF DistOK, CardAt, CutoffAt, LocalAt
  <2>4. QED
    BY <1>0, <1>1, <2>1, <2>2, <2>3, ReturnKeeps
<1>2. CASE Asked(r, {"initializeStorage"}) /\ generator' = [generator EXCEPT ![r] = FALSE]
           /\ GoTo(r, "classify")
  <2>1. script[k] = "initializeStorage" /\ k \in Calls /\ pc[r] = "idle"
        /\ Place(r) = 0 /\ ~OnPath(k, 0) /\ stage[r] = 0
    BY <1>2, Begins DEF OnPath
  <2>2. /\ call'[r] = call[r] /\ said'[r] = said[r] /\ ready'[r] = FALSE
        /\ pc'[r] = "classify" /\ stage'[r] = 0 /\ Place(r)' = 1
    BY <1>2, <2>1, GoToFacts
  <2>3. DistOK(r)'
    <3>1. generator'[r] = FALSE
      BY <1>2, Parts
    <3>2. QED
      BY <1>0, <2>1, <2>2, <3>1, Parts, ProgramSame DEF DistOK
  <2>4. PlaceOK(r)'
    BY <1>0, <2>1, <2>2 DEF PlaceOK, NodeSame
  <2>5. GotOK(r)'
    BY <2>2 DEF GotOK, In
  <2>6. SignOK(r)'
    BY <1>0, <2>2, SignKeeps
  <2>7. /\ Place(r)' \in 1 .. 13 /\ Place(r) < Place(r)'
        /\ \A o \in 1 .. 13 : Place(r) < o /\ o < Place(r)' => ~OnPath(call[r], o)
        /\ OnPath(call[r], Place(r)) => ready[r]
    BY <2>1, <2>2
  <2>8. QED
    BY <1>0, <2>1, <2>2, <2>3, <2>4, <2>5, <2>6, <2>7, MoveKeeps
<1>3. CASE In(r, "classify") /\ Return(r, "true") /\ UNCHANGED generator
  <2>1. script[k] = "initializeStorage" /\ k \in Calls /\ Place(r) = 1 /\ ready[r]
    BY <1>3, Parts, Typed DEF PlaceOK, In, Place, Order
  <2>2. Right(k) = "true" /\ \A o : OnPath(k, o) => o = 1
    BY <2>1 DEF Right, OnPath, Groups, Needs, ByRep, Compares, Alone, Signing
  <2>3. DistOK(r)'
    <3>1. ~Registered(k + 1) /\ (Triaged(k + 1) <=> Triaged(k))
      BY <1>0, <2>1, NextCall
    <3>2. call'[r] = k + 1 /\ pc'[r] = "idle" /\ pc[r] = "classify"
      BY <1>3, Parts DEF Return, In
    <3>3. QED
      BY <1>0, <1>3, <3>1, <3>2, Parts, ProgramSame DEF DistOK, CardAt, CutoffAt, LocalAt
  <2>4. QED
    BY <1>0, <1>3, <2>1, <2>2, <2>3, ReturnKeeps
<1>4. QED
  BY <1>1, <1>2, <1>3 DEF Initialize

(* A call of triage (FastGlobalFileStat.C:370-390).                        *)
LEMMA TriageKeeps ==
  ASSUME LockInv, NEW r \in Rank, Frame(r), Triage(r)
  PROVE  LockInv'
<1> DEFINE k == call[r]
<1>0. NodeSame /\ UNCHANGED <<dist, desc, locals>>
  BY DEF Frame, Triage
<1>1. script[k] = "triage" /\ k \in Calls /\ pc[r] = "idle"
      /\ Place(r) = 0 /\ ~OnPath(k, 0) /\ stage[r] = 0
  BY Begins DEF OnPath, Triage
<1>2. /\ call'[r] = call[r] /\ said'[r] = said[r] /\ ready'[r] = FALSE
      /\ pc'[r] = "anyRemote" /\ stage'[r] = 0 /\ Place(r)' = 1
  BY <1>1, GoToFacts DEF Triage
<1>3. DistOK(r)'
  BY <1>0, <1>1, <1>2, DistKeeps DEF DistSame, dist
<1>4. PlaceOK(r)'
  BY <1>0, <1>1, <1>2 DEF PlaceOK, NodeSame
<1>5. GotOK(r)'
  BY <1>2 DEF GotOK, In
<1>6. SignOK(r)'
  BY <1>0, <1>2, SignKeeps DEF locals
<1>7. /\ Place(r)' \in 1 .. 13 /\ Place(r) < Place(r)'
      /\ \A o \in 1 .. 13 : Place(r) < o /\ o < Place(r)' => ~OnPath(call[r], o)
      /\ OnPath(call[r], Place(r)) => ready[r]
  BY <1>1, <1>2
<1>8. QED
  BY <1>0, <1>1, <1>2, <1>3, <1>4, <1>5, <1>6, <1>7, MoveKeeps DEF desc

(* After its first reduction: all ranks have the same flag and take the    *)
(* same branch (FastGlobalFileStat.C:399-426).                             *)
LEMMA TriageRemoteKeeps ==
  ASSUME LockInv, NEW r \in Rank, Frame(r), TriageRemote(r)
  PROVE  LockInv'
<1> DEFINE k == call[r]
           sparse == got[r] = 0 \/ Limit = 0
<1>0. /\ NodeSame /\ k \in Nat \ {0} /\ k \in Calls /\ health[r] = "ok" /\ Limit \in Nat
      /\ UNCHANGED <<generator, mapped, info, comm>>
      /\ pc[r] = "anyRemote" /\ ready[r] /\ Place(r) = 1
      /\ script[k] = "triage" /\ stage[r] = 0
  BY Typed, NothingFails, LimitType, Parts
     DEF Frame, TriageRemote, desc, locals, In, PlaceOK, Place, Order
<1>1. sparse <=> ~AnyRemote \/ Limit = 0
  BY <1>0, Parts DEF GotOK, In
<1>2. got[r] = 0 <=> ~AnyRemote
  BY <1>0, Parts DEF GotOK, In
<1>3. /\ cutoff'[r] = Limit /\ known'[r] = TRUE /\ generator'[r] = generator[r]
      /\ card'[r] = IF sparse THEN N ELSE card[r]
      /\ nodeLocal'[r] <=> nodeLocal[r] \/ got[r] = 0
  BY <1>0, Parts DEF TriageRemote
<1>4. Triaged(k + 1) /\ (Registered(k + 1) <=> Registered(k))
  BY <1>0, NextCall
<1>5. DistOK(r)
  BY Parts
<1>6. CASE sparse
  <2>1. Return(r, "true") /\ Right(k) = "true"
    BY <1>0, <1>6 DEF TriageRemote, Right
  <2>2. \A o : OnPath(k, o) => o = 1
    BY <1>0, <1>1, <1>6 DEF OnPath, Groups, Needs, ByRep, Compares, Alone, Signing
  <2>3. call'[r] = k + 1 /\ pc'[r] = "idle"
    BY <2>1, Parts DEF Return
  <2>4. CardAt(k + 1) = N /\ CutoffAt(k + 1) = Limit /\ (LocalAt(k + 1) <=> ~AnyRemote)
    BY <1>0, <1>1, <1>4, <1>6 DEF CardAt, CutoffAt, LocalAt, CardinalityEst
  <2>5. nodeLocal[r] <=> Triaged(k) /\ ~AnyRemote
    BY <1>5 DEF DistOK, LocalAt
  <2>6. DistOK(r)'
    <3>1. nodeLocal'[r] <=> LocalAt(k + 1)
      BY <1>2, <1>3, <2>4, <2>5 DEF LocalAt
    <3>2. generator'[r] <=> Registered(k + 1)
      BY <1>0, <1>3, <1>4, <1>5 DEF DistOK, Registered
    <3>3. QED
      BY <1>0, <1>3, <1>4, <1>6, <2>3, <2>4, <3>1, <3>2, ProgramSame DEF DistOK
  <2>7. QED
    BY <1>0, <2>1, <2>2, <2>6, ReturnKeeps
<1>7. CASE ~sparse
  <2>1. GoTo(r, "bloom") /\ AnyRemote /\ Limit > 0
    BY <1>0, <1>1, <1>7 DEF TriageRemote
  <2>2. /\ call'[r] = call[r] /\ said'[r] = said[r] /\ ready'[r] = FALSE
        /\ pc'[r] = "bloom" /\ stage'[r] = 0 /\ Place(r)' = 2
    <3>1. PICK point : point = "bloom" /\ GoTo(r, point)
      BY <2>1
    <3>2. /\ call'[r] = call[r] /\ said'[r] = said[r] /\ ready'[r] = FALSE
          /\ pc'[r] = point /\ stage'[r] = stage[r] /\ Place(r)' = 2
      BY <3>1, GoToFacts
    <3>3. QED
      BY <1>0, <3>1, <3>2
  <2>3. OnPath(k, 2)
    BY <1>0, <2>1 DEF OnPath
  <2>4. DistOK(r)'
    <3>1. nodeLocal'[r] <=> LocalAt(k)
      BY <1>2, <1>3, <1>5, <2>1 DEF DistOK, LocalAt
    <3>2. (generator'[r] <=> Registered(k)) /\ card'[r] = CardAt(k)
      BY <1>0, <1>3, <1>5, <1>7 DEF DistOK, Registered
    <3>3. /\ cutoff'[r] = Limit /\ known'[r]
          /\ call'[r] = k /\ pc'[r] = "bloom"
      BY <1>3, <2>2
    <3>4. /\ Registered(call[r])' <=> Registered(k)
          /\ LocalAt(call[r])' <=> LocalAt(k)
          /\ CardAt(call[r])' = CardAt(k)
      BY <1>0, <3>3, ProgramSame
    <3>51. generator'[r] <=> pc'[r] # "classify" /\ Registered(call[r])'
      BY <3>1, <3>2, <3>3, <3>4
    <3>52. card'[r] = CardAt(call[r])'
      BY <3>1, <3>2, <3>3, <3>4
    <3>53. cutoff'[r] = IF pc'[r] = "bloom" THEN Limit' ELSE CutoffAt(call[r])'
      BY <3>3 DEF Limit
    <3>54. known'[r] <=> pc'[r] = "bloom" \/ Triaged(call[r])'
      BY <1>3, <2>2
    <3>55. nodeLocal'[r] <=> LocalAt(call[r])'
      BY <3>1, <3>2, <3>3, <3>4
    <3>5. QED
      BY <3>51, <3>52, <3>53, <3>54, <3>55 DEF DistOK
  <2>5. PlaceOK(r)'
    BY <1>0, <2>2, <2>3, ProgramSame DEF PlaceOK
  <2>6. GotOK(r)'
    BY <2>2 DEF GotOK, In
  <2>7. SignOK(r)'
    BY <1>0, <2>2, SignKeeps
  <2>8. /\ Place(r)' \in 1 .. 13 /\ Place(r) < Place(r)'
        /\ \A o \in 1 .. 13 : Place(r) < o /\ o < Place(r)' => ~OnPath(call[r], o)
        /\ OnPath(call[r], Place(r)) => ready[r]
    BY <1>0, <2>2
  <2>9. QED
    BY <1>0, <2>2, <2>4, <2>5, <2>6, <2>7, <2>8, MoveKeeps
<1>8. QED
  BY <1>6, <1>7

(* A rank that returns, or goes on, and leaves the object as it was.       *)
LEMMA AnswerKeeps ==
  ASSUME LockInv, NEW r \in Rank, Frame(r), call[r] \in Calls,
         UNCHANGED <<dist, desc, comm>>, Return(r, Right(call[r])),
         pc[r] \notin {"classify", "bloom"},
         script[call[r]] \notin {"initialize", "initializeStorage", "triage"},
         \A o \in 1 .. 13 : Place(r) < o => ~OnPath(call[r], o),
         OnPath(call[r], Place(r)) => ready[r],
         script[call[r]] = "signiture" /\ (ByRep(call[r]) \/ Alone(call[r]))
           => sig'[r] = file[r]
  PROVE  LockInv'
<1>1. call'[r] = call[r] + 1 /\ pc'[r] = "idle"
  BY Parts DEF Return
<1>2. DistSame(r) /\ NodeSame
  BY DEF DistSame, dist, Frame
<1>3. DistOK(r)'
  BY <1>1, <1>2, DistKeeps
<1>4. mapped'[r] = mapped[r] /\ info'[r] = info[r] /\ comm'[r] = comm[r]
  BY DEF desc
<1>5. QED
  BY <1>3, <1>4, ReturnKeeps

(* A step that goes on to a point that brings nothing with it.             *)
LEMMA GoKeeps ==
  ASSUME LockInv, NEW r \in Rank, Frame(r), call[r] \in Calls,
         UNCHANGED <<dist, desc>>,
         call'[r] = call[r], said'[r] = said[r], ready'[r] = FALSE,
         pc[r] \notin {"classify", "bloom"}, pc'[r] \notin {"classify", "bloom"},
         Place(r)' \in 1 .. 13, Place(r) < Place(r)',
         \A o \in 1 .. 13 : Place(r) < o /\ o < Place(r)' => ~OnPath(call[r], o),
         OnPath(call[r], Place(r)) => ready[r],
         PlaceOK(r)', GotOK(r)', SignOK(r)'
  PROVE  LockInv'
<1>1. DistSame(r) /\ NodeSame
  BY DEF DistSame, dist, Frame
<1>2. DistOK(r)'
  BY <1>1, DistKeeps
<1>3. mapped'[r] = mapped[r] /\ info'[r] = info[r]
  BY DEF desc
<1>4. QED
  BY <1>2, <1>3, MoveKeeps

(* What the object holds, at all points where the program says it.         *)
LEMMA Holds ==
  ASSUME LockInv, NEW r \in Rank, pc[r] \notin {"classify", "bloom"}
  PROVE  /\ Poorly(r) <=> PoorlyAt(call[r])
         /\ FewGroups(r) <=> FewAt(call[r])
         /\ card[r] = CardAt(call[r])
         /\ generator[r] <=> Registered(call[r])
         /\ known[r] <=> Triaged(call[r])
         /\ nodeLocal[r] <=> LocalAt(call[r])
         /\ ~Triaged(call[r]) => PoorlyAt(call[r])
         /\ PoorlyAt(call[r]) => FewAt(call[r])
<1>1. DistOK(r)
  BY Parts
<1>2. ~Triaged(call[r]) => PoorlyAt(call[r])
  BY DEF PoorlyAt, CardAt, CutoffAt, NotFilled
<1>3. QED
  BY <1>1, <1>2 DEF DistOK, Poorly, FewGroups, PoorlyAt, FewAt

(* After its second reduction (FastGlobalFileStat.C:520-548).              *)
LEMMA TriageBloomKeeps ==
  ASSUME LockInv, NEW r \in Rank, Frame(r), TriageBloom(r)
  PROVE  LockInv'
<1> DEFINE k == call[r]
<1>0. /\ NodeSame /\ k \in Nat \ {0} /\ k \in Calls /\ Limit \in Nat
      /\ UNCHANGED <<generator, cutoff, nodeLocal, known, mapped, info, comm>>
      /\ pc[r] = "bloom" /\ ready[r] /\ Place(r) = 2
      /\ script[k] = "triage" /\ AnyRemote /\ Limit > 0
  BY Typed, LimitType, Parts
     DEF Frame, TriageBloom, desc, locals, In, PlaceOK, Place, Order, OnPath, ByRep, Signing,
         Compares, Alone
<1>1. card'[r] = Estimate(PopCount(Filter(uri))) /\ Return(r, "true")
  BY <1>0, Parts DEF TriageBloom, GotOK, In
<1>2. Right(k) = "true"
  BY <1>0 DEF Right
<1>3. \A o : OnPath(k, o) => o \in {1, 2}
  BY <1>0 DEF OnPath, Groups, Needs, ByRep, Compares, Alone, Signing
<1>4. Triaged(k + 1) /\ (Registered(k + 1) <=> Registered(k))
  BY <1>0, NextCall
<1>5. call'[r] = k + 1 /\ pc'[r] = "idle"
  BY <1>1, Parts DEF Return
<1>6. DistOK(r)'
  <2>1. CardAt(k + 1) = card'[r]
    BY <1>0, <1>1, <1>4 DEF CardAt, CardinalityEst
  <2>2. CutoffAt(k + 1) = Limit /\ (LocalAt(k + 1) <=> LocalAt(k))
    BY <1>0, <1>4 DEF CutoffAt, LocalAt
  <2>3. DistOK(r)
    BY Parts
  <2>4. /\ generator'[r] <=> Registered(k + 1)
        /\ nodeLocal'[r] <=> LocalAt(k + 1)
        /\ cutoff'[r] = CutoffAt(k + 1)
        /\ known'[r]
    BY <1>0, <1>4, <2>2, <2>3 DEF DistOK
  <2>5. QED
    BY <1>0, <1>4, <1>5, <2>1, <2>4, ProgramSame DEF DistOK
<1>7. QED
  BY <1>0, <1>1, <1>2, <1>3, <1>6, ReturnKeeps

(* The queries that do not communicate                                     *)
(* (SyncFastGlobalFileStat.C:105-146).                                     *)
LEMMA AskKeeps ==
  ASSUME LockInv, NEW r \in Rank, Frame(r), Ask(r)
  PROVE  LockInv'
<1> DEFINE k == call[r]
<1>0. UNCHANGED <<dist, desc, comm>>
  BY DEF Ask, locals
<1>1. Asked(r, Query)
  BY DEF Ask, Asked, Query
<1>2. /\ script[k] \in Query /\ k \in Calls /\ pc[r] = "idle" /\ Place(r) = 0
      /\ ~OnPath(k, 0)
  BY <1>1, Begins
<1>3. \A o \in 1 .. 13 : ~OnPath(k, o)
  BY <1>2 DEF OnPath, Groups, Needs, ByRep, Compares, Alone, Signing, Query
<1>4. Return(r, Right(k))
  <2>1. /\ PoorlyAnswer(r) = PoorlyAnswerAt(k)
        /\ YesIf(nodeLocal[r]) = YesIf(LocalAt(k))
    BY <1>2, Holds DEF PoorlyAnswer, PoorlyAnswerAt, YesIf
  <2>2. WellAnswer(r) = WellAnswerAt(k)
    BY <2>1 DEF WellAnswer, WellAnswerAt
  <2>3. QED
    BY <2>1, <2>2 DEF Ask, Asked, Right
<1>5. QED
  BY <1>0, <1>2, <1>3, <1>4, AnswerKeeps DEF Query

(* forceComputeParallelInfo (SyncFastGlobalFileStat.C:535-554).            *)
LEMMA ForceInfoKeeps ==
  ASSUME LockInv, NEW r \in Rank, Frame(r), ForceInfo(r)
  PROVE  LockInv'
<1> DEFINE k == call[r]
<1>0. UNCHANGED <<dist, desc, comm>> /\ NodeSame
  BY DEF ForceInfo, locals, Frame
<1>1. CASE Asked(r, {"forceComputeParallelInfo"})
  <2>1. /\ script[k] = "forceComputeParallelInfo" /\ k \in Calls /\ pc[r] = "idle"
        /\ Place(r) = 0 /\ ~OnPath(k, 0) /\ stage[r] = 0
    BY <1>1, Begins
  <2>2. /\ known[r] <=> Triaged(k)
        /\ Grouped(r) <=> mapped[r]
        /\ mapped[r] <=> Surveyed(r)
    BY <2>1, Holds, DescFacts
  <2>3. /\ ~Surveyed(r) /\ Triaged(k) => Groups(k)
        /\ Surveyed(r) => Triaged(k) /\ ~Groups(k)
        /\ Groups(k) => Triaged(k)
    BY <2>1, SurveyedFacts DEF GroupPoint, Needs, Groups, ByRep, Signing
  <2>4. CASE Grouped(r) \/ ~CanGroup(r)
    <3>1. Return(r, Right(k)) /\ ~Groups(k)
      BY <1>1, <2>1, <2>2, <2>3, <2>4 DEF ForceInfo, CanGroup, Right, In
    <3>2. \A o \in 1 .. 13 : ~OnPath(k, o)
      BY <2>1, <3>1 DEF OnPath, ByRep, Compares, Alone, Signing
    <3>3. QED
      BY <1>0, <2>1, <3>1, <3>2, AnswerKeeps
  <2>5. CASE ~Grouped(r) /\ CanGroup(r)
    <3>1. GoTo(r, "groupForce") /\ Groups(k)
      BY <1>1, <2>1, <2>2, <2>3, <2>5 DEF ForceInfo, CanGroup, In
    <3>2. /\ call'[r] = call[r] /\ said'[r] = said[r] /\ ready'[r] = FALSE
          /\ pc'[r] = "groupForce" /\ stage'[r] = 0 /\ Place(r)' = 1
      BY <2>1, <3>1, GoToFacts
    <3>3. PlaceOK(r)'
      BY <1>0, <2>1, <3>1, <3>2, ProgramSame DEF PlaceOK, NodeSame
    <3>4. GotOK(r)'
      BY <3>2 DEF GotOK, In
    <3>5. SignOK(r)'
      BY <1>0, <3>2, SignKeeps
    <3>6. /\ Place(r)' \in 1 .. 13 /\ Place(r) < Place(r)'
          /\ \A o \in 1 .. 13 : Place(r) < o /\ o < Place(r)' => ~OnPath(call[r], o)
          /\ OnPath(call[r], Place(r)) => ready[r]
      BY <2>1, <3>2
    <3>7. QED
      BY <1>0, <2>1, <3>2, <3>3, <3>4, <3>5, <3>6, GoKeeps
  <2>6. QED
    BY <2>4, <2>5
<1>2. CASE In(r, "groupForce") /\ Return(r, "true")
  <2>1. /\ script[k] = "forceComputeParallelInfo" /\ k \in Calls /\ pc[r] = "groupForce"
        /\ Place(r) = 1 /\ Groups(k) /\ ready[r]
    BY <1>2, Parts, Typed DEF PlaceOK, In, Place, Order
  <2>2. Right(k) = "true" /\ \A o : OnPath(k, o) => o = 1
    BY <2>1 DEF Right, OnPath, Groups, Needs, ByRep, Compares, Alone, Signing
  <2>3. QED
    BY <1>0, <1>2, <2>1, <2>2, AnswerKeeps
<1>3. QED
  BY <1>1, <1>2 DEF ForceInfo

(* A rank that has found what isUnique answers.                            *)
LEMMA UniqueIsKeeps ==
  ASSUME LockInv, NEW r \in Rank, Frame(r), UNCHANGED <<dist, desc, locals>>,
         call[r] \in Calls, script[call[r]] \in {"isUnique", "isConsistent"},
         pc[r] \notin {"classify", "bloom"}, stage[r] = 0,
         \/ Place(r) = 0 /\ ~Groups(call[r])
         \/ Place(r) = 1 /\ ready[r],
         UniqueIs(r, UniqueAt(call[r]))
  PROVE  LockInv'
<1> DEFINE k == call[r]
<1>0. UNCHANGED <<dist, desc, comm>> /\ NodeSame
  BY DEF locals, Frame
<1>1. \A o \in 0 .. 13 : OnPath(k, o) => o = 1 \/ (o > 4 /\ UniqueAt(k) # "yes")
  BY DEF OnPath, ByRep, Compares, Alone, Signing
<1>2. /\ \A o \in 1 .. 13 : Place(r) < o /\ OnPath(k, o) => o > 4 /\ UniqueAt(k) # "yes"
      /\ OnPath(k, Place(r)) => ready[r]
  BY <1>1 DEF OnPath
<1>3. CASE script[k] = "isConsistent" /\ UniqueAt(k) # "yes"
  <2>1. /\ call'[r] = call[r] /\ said'[r] = said[r] /\ ready'[r] = FALSE
        /\ pc'[r] = "sign" /\ stage'[r] = 0 /\ Place(r)' = 3
    BY <1>3, GoToFacts DEF UniqueIs
  <2>2. PlaceOK(r)'
    BY <1>0, <1>3, <2>1, ProgramSame DEF PlaceOK, NodeSame
  <2>3. GotOK(r)'
    BY <2>1 DEF GotOK, In
  <2>4. SignOK(r)'
    BY <1>0, <2>1, SignKeeps
  <2>5. /\ Place(r)' \in 1 .. 13 /\ Place(r) < Place(r)'
        /\ \A o \in 1 .. 13 : Place(r) < o /\ o < Place(r)' => ~OnPath(call[r], o)
    BY <1>2, <2>1
  <2>6. QED
    BY <1>0, <1>2, <2>1, <2>2, <2>3, <2>4, <2>5, GoKeeps
<1>4. CASE ~(script[k] = "isConsistent" /\ UniqueAt(k) # "yes")
  <2>1. Return(r, Right(k))
    BY <1>4 DEF UniqueIs, Right
  <2>2. \A o \in 1 .. 13 : Place(r) < o => ~OnPath(k, o)
    <3>1. CASE script[k] = "isUnique"
      BY <3>1 DEF OnPath, ByRep, Compares, Alone, Signing
    <3>2. CASE UniqueAt(k) = "yes"
      BY <1>2, <3>2
    <3>3. QED
      BY <1>4, <3>1, <3>2
  <2>3. QED
    BY <1>0, <1>2, <2>1, <2>2, AnswerKeeps
<1>5. QED
  BY <1>3, <1>4

(* isUnique, asked or called by isConsistent                               *)
(* (SyncFastGlobalFileStat.C:148-200).                                     *)
LEMMA UniqueKeeps ==
  ASSUME LockInv, NEW r \in Rank, Frame(r), Unique(r)
  PROVE  LockInv'
<1> DEFINE k == call[r]
<1>0. UNCHANGED <<dist, desc, locals>> /\ UNCHANGED <<dist, desc, comm>> /\ NodeSame
  BY DEF Unique, Frame, locals
<1>1. CASE Asked(r, {"isUnique", "isConsistent"})
  <2>1. /\ script[k] \in {"isUnique", "isConsistent"} /\ k \in Calls /\ pc[r] = "idle"
        /\ Place(r) = 0 /\ ~OnPath(k, 0) /\ stage[r] = 0
    BY <1>1, Begins
  <2>2. /\ known[r] <=> Triaged(k)
        /\ FewGroups(r) <=> FewAt(k)
        /\ ~Triaged(k) => FewAt(k)
        /\ Grouped(r) <=> mapped[r]
        /\ mapped[r] <=> Surveyed(r)
        /\ Grouped(r) => (IsSingleGroup(info[r]) <=> OneUri)
    BY <2>1, Holds, DescFacts
  <2>3. /\ ~Surveyed(r) /\ Triaged(k) /\ FewAt(k) => Groups(k)
        /\ Surveyed(r) => Triaged(k) /\ ~Groups(k)
        /\ Groups(k) => Triaged(k) /\ FewAt(k)
    BY <2>1, SurveyedFacts DEF GroupPoint, Needs, Groups, ByRep, Signing
  <2>4. CASE FewAt(k) /\ Triaged(k) /\ ~Surveyed(r)
    <3>1. GoTo(r, "groupUnique") /\ Groups(k)
      BY <1>1, <2>1, <2>2, <2>3, <2>4 DEF Unique, CanGroup, In
    <3>2. /\ call'[r] = call[r] /\ said'[r] = said[r] /\ ready'[r] = FALSE
          /\ pc'[r] = "groupUnique" /\ stage'[r] = 0 /\ Place(r)' = 1
      BY <2>1, <3>1, GoToFacts
    <3>3. PlaceOK(r)'
      BY <1>0, <2>1, <3>1, <3>2, ProgramSame DEF PlaceOK, NodeSame
    <3>4. GotOK(r)'
      BY <3>2 DEF GotOK, In
    <3>5. SignOK(r)'
      BY <1>0, <3>2, SignKeeps
    <3>6. /\ Place(r)' \in 1 .. 13 /\ Place(r) < Place(r)'
          /\ \A o \in 1 .. 13 : Place(r) < o /\ o < Place(r)' => ~OnPath(call[r], o)
          /\ OnPath(call[r], Place(r)) => ready[r]
      BY <2>1, <3>2
    <3>7. QED
      BY <1>0, <2>1, <3>2, <3>3, <3>4, <3>5, <3>6, GoKeeps
  <2>5. CASE ~(FewAt(k) /\ Triaged(k) /\ ~Surveyed(r))
    <3>1. ~Groups(k)
      BY <2>3, <2>5
    <3>2. UniqueIs(r, UniqueAt(k))
      <4>1. CASE FewAt(k) /\ ~Surveyed(r)
        <5>1. UniqueIs(r, "error") /\ ~Triaged(k)
          BY <1>1, <2>1, <2>2, <2>5, <4>1 DEF Unique, CanGroup, In
        <5>2. QED
          BY <5>1 DEF UniqueAt
      <4>2. CASE ~(FewAt(k) /\ ~Surveyed(r))
        <5>1. UniqueIs(r, YesIf(FewGroups(r) /\ IsSingleGroup(info[r])))
          BY <1>1, <2>1, <2>2, <4>2 DEF Unique, In
        <5>2. Triaged(k)
          BY <2>2, <2>3, <4>2
        <5>3. FewGroups(r) /\ IsSingleGroup(info[r]) <=> FewAt(k) /\ OneUri
          BY <2>2, <4>2
        <5>4. YesIf(FewGroups(r) /\ IsSingleGroup(info[r])) = UniqueAt(k)
          BY <5>2, <5>3 DEF UniqueAt, YesIf
        <5>5. QED
          BY <5>1, <5>4
      <4>3. QED
        BY <4>1, <4>2
    <3>3. QED
      BY <1>0, <2>1, <3>1, <3>2, UniqueIsKeeps
  <2>6. QED
    BY <2>4, <2>5
<1>2. CASE In(r, "groupUnique") /\ UniqueIs(r, YesIf(IsSingleGroup(info[r])))
  <2>1. /\ script[k] \in {"isUnique", "isConsistent"} /\ k \in Calls /\ pc[r] = "groupUnique"
        /\ Place(r) = 1 /\ Groups(k) /\ ready[r] /\ stage[r] = 0
    BY <1>2, Parts, Typed DEF PlaceOK, In, Place, Order
  <2>2. Surveyed(r) /\ Triaged(k) /\ FewAt(k)
    BY <2>1 DEF Surveyed, Done, GroupPoint, Groups, Needs, ByRep, Signing
  <2>3. IsSingleGroup(info[r]) <=> OneUri
    BY <2>2, DescFacts
  <2>4. YesIf(IsSingleGroup(info[r])) = UniqueAt(k)
    BY <2>2, <2>3 DEF UniqueAt, YesIf
  <2>5. QED
    BY <1>0, <1>2, <2>1, <2>4, UniqueIsKeeps
<1>3. QED
  BY <1>1, <1>2 DEF Unique

(* Where signiture, or signitureSerial, is entered.                        *)
LEMMA AtSigning ==
  ASSUME LockInv, NEW r \in Rank, AtSign(r) \/ Asked(r, {"isConsistentSerial"})
  PROVE  /\ call[r] \in Calls /\ pc[r] \in {"idle", "sign"} /\ stage[r] = 0 /\ ~ready[r]
         /\ AtSign(r) => Signing(call[r])
         /\ ~AtSign(r) => script[call[r]] = "isConsistentSerial"
         /\ script[call[r]] \in {"signiture", "isConsistent", "isConsistentSerial"}
         /\ script[call[r]] = "isConsistent" => UniqueAt(call[r]) # "yes" /\ Place(r) = 3
         /\ script[call[r]] # "isConsistent" => Place(r) = 0
         /\ ~OnPath(call[r], Place(r))
         /\ \A o \in 1 .. 13 : Place(r) < o /\ OnPath(call[r], o) =>
              \/ o = 4 /\ script[call[r]] = "signiture" /\ Groups(call[r])
              \/ o > 4 /\ ByRep(call[r])
              \/ o > 11 /\ script[call[r]] # "signiture" /\ Alone(call[r])
<1> DEFINE k == call[r]
<1>1. CASE pc[r] = "sign"
  <2>1. /\ k \in Calls /\ script[k] = "isConsistent" /\ UniqueAt(k) # "yes" /\ ~ready[r]
        /\ stage[r] = 0 /\ Place(r) = 3
    BY <1>1, Typed, Parts DEF PlaceOK, Place, Order
  <2>2. AtSign(r) /\ Signing(k)
    BY <1>1, <2>1 DEF AtSign, Signing
  <2>3. QED
    BY <1>1, <2>1, <2>2 DEF OnPath, Compares
<1>2. CASE pc[r] # "sign"
  <2>1. Asked(r, {"signiture", "isConsistentSerial"})
    BY <1>2 DEF AtSign, Asked
  <2>2. /\ k \in Calls /\ script[k] \in {"signiture", "isConsistentSerial"}
        /\ pc[r] = "idle" /\ Place(r) = 0 /\ ~ready[r] /\ stage[r] = 0 /\ ~OnPath(k, 0)
    BY <2>1, Begins
  <2>3. AtSign(r) <=> script[k] = "signiture"
    BY <2>1, <2>2 DEF AtSign, Asked
  <2>4. QED
    BY <2>2, <2>3 DEF OnPath, Compares, Signing, Groups, Needs
<1>3. QED
  BY <1>1, <1>2

(* A call that ends without a signature.                                   *)
LEMMA NoSignitureKeeps ==
  ASSUME LockInv, NEW r \in Rank, Frame(r), UNCHANGED <<dist, desc, comm>>,
         AtSign(r) \/ Asked(r, {"isConsistentSerial"}),
         ~ByRep(call[r]), ~Alone(call[r]), NoSigniture(r)
  PROVE  LockInv'
<1> DEFINE k == call[r]
<1>1. ~Compares(k) /\ ~(script[k] = "signiture" /\ Groups(k))
  BY DEF Compares, Groups, Needs
<1>2. Return(r, Right(k))
  BY <1>1, AtSigning DEF NoSigniture, Right
<1>3. \A o \in 1 .. 13 : Place(r) < o => ~OnPath(k, o)
  BY <1>1, AtSigning
<1>4. QED
  BY <1>2, <1>3, AtSigning, AnswerKeeps

(* signiture without a generator.                                          *)
LEMMA SignUnregisteredKeeps ==
  ASSUME LockInv, NEW r \in Rank, Frame(r), SignUnregistered(r)
  PROVE  LockInv'
<1>1. pc[r] \in {"idle", "sign"}
  BY AtSigning DEF SignUnregistered
<1>2. ~Registered(call[r])
  BY <1>1, Holds DEF SignUnregistered
<1>3. ~ByRep(call[r]) /\ ~Alone(call[r])
  BY <1>2 DEF ByRep, Alone
<1>4. QED
  BY <1>3, NoSignitureKeeps DEF SignUnregistered, locals

(* Who signs by representatives needs the groups and past point 4 has them.*)
LEMMA ByRepSurveyed ==
  ASSUME LockInv, NEW r \in Rank, call[r] \in Calls, ByRep(call[r])
  PROVE  /\ Needs(call[r])
         /\ Place(r) > 4 => Surveyed(r)
         /\ script[call[r]] = "isConsistent" /\ Place(r) = 3 => Surveyed(r)
<1>1. Needs(call[r])
  BY DEF ByRep, Needs, Signing, FewAt
<1>2. Place(r) \in 0 .. 13
  BY Typed
<1>3. script[call[r]] = "signiture" \/ script[call[r]] = "isConsistent"
  BY DEF ByRep, Signing
<1>4. QED
  BY <1>1, <1>2, <1>3, SurveyedFacts DEF GroupPoint

(* signiture of a path that has not been grouped.                          *)
LEMMA SignUngroupedKeeps ==
  ASSUME LockInv, NEW r \in Rank, Frame(r), SignUngrouped(r)
  PROVE  LockInv'
<1> DEFINE k == call[r]
<1>0. UNCHANGED <<dist, desc, comm>> /\ NodeSame /\ AtSign(r) /\ UNCHANGED <<dist, desc>>
  BY DEF SignUngrouped, locals, Frame, Signs
<1>1. /\ k \in Calls /\ pc[r] \in {"idle", "sign"} /\ stage[r] = 0 /\ ~ready[r]
      /\ Signing(k) /\ ~OnPath(k, Place(r))
      /\ script[k] \in {"signiture", "isConsistent"}
      /\ script[k] = "isConsistent" => Place(r) = 3
      /\ script[k] # "isConsistent" => Place(r) = 0
  BY <1>0, AtSigning DEF Signing
<1>2. /\ known[r] <=> Triaged(k)
      /\ Registered(k) /\ PoorlyAt(k)
      /\ ~Surveyed(r) /\ ~mapped[r]
  BY <1>1, Holds, DescFacts DEF SignUngrouped, Signs
<1>3. CASE ~Triaged(k)
  <2>1. NoSigniture(r)
    BY <1>2, <1>3 DEF SignUngrouped, CanGroup
  <2>2. ~ByRep(k) /\ ~Alone(k)
    BY <1>1, <1>2, <1>3 DEF ByRep, Alone
  <2>3. QED
    BY <1>0, <2>1, <2>2, NoSignitureKeeps
<1>4. CASE Triaged(k)
  <2>1. GoTo(r, "groupSign") /\ ByRep(k)
    BY <1>1, <1>2, <1>4 DEF SignUngrouped, CanGroup, ByRep
  <2>2. script[k] = "signiture" /\ Groups(k) /\ Place(r) = 0
    BY <1>1, <1>2, <2>1, ByRepSurveyed, SurveyedFacts
  <2>3. /\ call'[r] = call[r] /\ said'[r] = said[r] /\ ready'[r] = FALSE
        /\ pc'[r] = "groupSign" /\ stage'[r] = 0 /\ Place(r)' = 4
    BY <1>1, <2>1, GoToFacts
  <2>4. PlaceOK(r)'
    BY <1>0, <2>2, <2>3, ProgramSame DEF PlaceOK, NodeSame
  <2>5. GotOK(r)'
    BY <2>3 DEF GotOK, In
  <2>6. SignOK(r)'
    BY <1>0, <2>3, SignKeeps
  <2>7. /\ Place(r)' \in 1 .. 13 /\ Place(r) < Place(r)'
        /\ \A o \in 1 .. 13 : Place(r) < o /\ o < Place(r)' => ~OnPath(call[r], o)
        /\ OnPath(call[r], Place(r)) => ready[r]
    BY <1>1, <2>2, <2>3, AtSigning, <1>0
  <2>8. QED
    BY <1>0, <1>1, <2>3, <2>4, <2>5, <2>6, <2>7, GoKeeps
<1>5. QED
  BY <1>3, <1>4

(* signiture by the representatives.                                       *)
LEMMA SignByRepKeeps ==
  ASSUME LockInv, NEW r \in Rank, Frame(r), SignByRep(r)
  PROVE  LockInv'
<1> DEFINE k == call[r]
<1>0. /\ UNCHANGED <<dist, desc, comm>> /\ NodeSame /\ UNCHANGED <<dist, desc>>
      /\ GoTo(r, "sumRc") /\ StatRc(r) = 0
  BY NothingFails DEF SignByRep, Frame
<1>1. /\ k \in Calls /\ stage[r] = 0 /\ pc[r] \notin {"classify", "bloom"}
      /\ Place(r) < 5 /\ Place(r) \in 0 .. 13 /\ ByRep(k) /\ Surveyed(r)
      /\ \A o \in 1 .. 13 : Place(r) < o /\ o < 5 => ~OnPath(k, o)
      /\ OnPath(k, Place(r)) => ready[r]
  <2>1. CASE Signs(r) /\ Poorly(r) /\ Grouped(r)
    <3>1. AtSign(r)
      BY <2>1 DEF Signs
    <3>2. /\ k \in Calls /\ pc[r] \in {"idle", "sign"} /\ stage[r] = 0 /\ ~ready[r]
          /\ Signing(k) /\ ~OnPath(k, Place(r)) /\ Place(r) \in {0, 3}
          /\ script[k] # "isConsistent" => Place(r) = 0
      BY <3>1, AtSigning
    <3>3. Registered(k) /\ PoorlyAt(k) /\ Surveyed(r) /\ Triaged(k)
      BY <2>1, <3>2, Holds, DescFacts, SurveyedFacts DEF Signs
    <3>4. ByRep(k)
      BY <3>2, <3>3 DEF ByRep
    <3>5. ~(script[k] = "signiture" /\ Groups(k))
      BY <3>2, <3>3, SurveyedFacts DEF GroupPoint
    <3>6. \A o \in 1 .. 13 : Place(r) < o /\ o < 5 => ~OnPath(k, o)
      BY <3>1, <3>5, AtSigning
    <3>7. QED
      BY <3>2, <3>3, <3>4, <3>6
  <2>2. CASE In(r, "groupSign")
    <3>1. /\ k \in Calls /\ script[k] = "signiture" /\ Groups(k) /\ stage[r] = 0
          /\ pc[r] = "groupSign" /\ ready[r] /\ Place(r) = 4
      BY <2>2, Typed, Parts DEF PlaceOK, In, Place, Order
    <3>2. ByRep(k) /\ Surveyed(r)
      BY <3>1 DEF Groups, Needs, Surveyed, Done, GroupPoint
    <3>3. QED
      BY <3>1, <3>2
  <2>3. QED
    BY <2>1, <2>2 DEF SignByRep
<1>2. IsRep(info[r]) <=> Lowest(r)
  BY <1>1, DescFacts
<1>3. /\ rc'[r] = 0
      /\ Lowest(r) => size'[r] = 1 /\ sig'[r] = file[r]
  BY <1>0, <1>2, Parts DEF SignByRep
<1>4. /\ call'[r] = call[r] /\ said'[r] = said[r] /\ ready'[r] = FALSE
      /\ pc'[r] = "sumRc" /\ stage'[r] = 0 /\ Place(r)' = 5
  BY <1>0, <1>1, GoToFacts
<1>5. PlaceOK(r)'
  BY <1>0, <1>1, <1>4, ProgramSame DEF PlaceOK
<1>6. GotOK(r)'
  BY <1>4 DEF GotOK, In
<1>7. SignOK(r)'
  <2>1. comm'[r] \in {{}, Mates(r)} /\ file' = file
    BY <1>0, Parts DEF SignOK, NodeSame
  <2>2. QED
    BY <1>0, <1>3, <1>4, <2>1, ProgramSame DEF SignOK
<1>8. /\ Place(r)' \in 1 .. 13 /\ Place(r) < Place(r)'
      /\ \A o \in 1 .. 13 : Place(r) < o /\ o < Place(r)' => ~OnPath(call[r], o)
      /\ OnPath(call[r], Place(r)) => ready[r]
  BY <1>1, <1>4
<1>9. QED
  BY <1>0, <1>1, <1>4, <1>5, <1>6, <1>7, <1>8, GoKeeps

(* The rank has its signature: it returns it, or compares it.              *)
LEMMA SignedKeeps ==
  ASSUME LockInv, NEW r \in Rank, Frame(r), UNCHANGED <<dist, desc, comm>>,
         call[r] \in Calls, pc[r] \notin {"classify", "bloom"},
         script[call[r]] \in {"signiture", "isConsistent", "isConsistentSerial"},
         ByRep(call[r]) \/ Alone(call[r]),
         stage[r] = IF ByRep(call[r]) THEN 3 ELSE 0,
         Place(r) < 12,
         \A o \in 1 .. 11 : Place(r) < o => ~OnPath(call[r], o),
         OnPath(call[r], Place(r)) => ready[r],
         sig'[r] = file[r], size'[r] = 1, Signed(r)
  PROVE  LockInv'
<1> DEFINE k == call[r]
<1>0. UNCHANGED <<dist, desc>> /\ NodeSame /\ Place(r) \in 0 .. 13
  BY Typed DEF Frame
<1>1. CASE script[k] = "signiture"
  <2>1. Return(r, Right(k))
    BY <1>1 DEF Signed, Right
  <2>2. ~OnPath(k, 12) /\ ~OnPath(k, 13)
    BY <1>1 DEF OnPath, Compares
  <2>3. \A o \in 1 .. 13 : Place(r) < o => ~OnPath(k, o)
    BY <1>0, <2>2
  <2>4. QED
    BY <1>0, <1>1, <2>1, <2>3, AnswerKeeps
<1>2. CASE script[k] # "signiture"
  <2>1. GoTo(r, "compare") /\ Compares(k)
    BY <1>2 DEF Signed, Compares
  <2>2. /\ call'[r] = call[r] /\ said'[r] = said[r] /\ ready'[r] = FALSE
        /\ pc'[r] = "compare" /\ stage'[r] = stage[r] /\ Place(r)' = 12
    BY <2>1, GoToFacts
  <2>3. PlaceOK(r)'
    BY <1>0, <2>1, <2>2, ProgramSame DEF PlaceOK
  <2>4. GotOK(r)'
    BY <2>2 DEF GotOK, In
  <2>5. SignOK(r)'
    <3>1. comm'[r] \in {{}, Mates(r)} /\ file' = file
      BY <1>0, Parts DEF SignOK, NodeSame
    <3>2. QED
      BY <1>0, <2>2, <3>1, ProgramSame DEF SignOK
  <2>6. /\ Place(r)' \in 1 .. 13 /\ Place(r) < Place(r)'
        /\ \A o \in 1 .. 13 : Place(r) < o /\ o < Place(r)' => ~OnPath(call[r], o)
    BY <1>0, <2>2
  <2>7. QED
    BY <1>0, <2>2, <2>3, <2>4, <2>5, <2>6, GoKeeps
<1>3. QED
  BY <1>1, <1>2

(* signiture by every rank for itself.                                     *)
LEMMA SignAloneKeeps ==
  ASSUME LockInv, NEW r \in Rank, Frame(r), SignAlone(r)
  PROVE  LockInv'
<1> DEFINE k == call[r]
<1>0. UNCHANGED <<dist, desc, comm>> /\ StatRc(r) = 0
  BY NothingFails DEF SignAlone
<1>1. AtSign(r) \/ Asked(r, {"isConsistentSerial"})
  BY DEF SignAlone, Signs
<1>2. /\ sig'[r] = file[r] /\ size'[r] = 1 /\ Signed(r)
  BY <1>0, Parts DEF SignAlone
<1>3. /\ k \in Calls /\ pc[r] \in {"idle", "sign"} /\ stage[r] = 0
      /\ ~OnPath(k, Place(r)) /\ Place(r) \in {0, 3}
      /\ script[k] \in {"signiture", "isConsistent", "isConsistentSerial"}
  BY <1>1, AtSigning
<1>4. Alone(k) /\ ~ByRep(k)
  <2>1. CASE Signs(r) /\ ~Poorly(r)
    <3>1. Signing(k) /\ Registered(k) /\ ~PoorlyAt(k)
      BY <1>3, <2>1, AtSigning, Holds DEF Signs
    <3>2. QED
      BY <3>1 DEF Alone, ByRep
  <2>2. CASE generator[r] /\ Asked(r, {"isConsistentSerial"})
    <3>1. script[k] = "isConsistentSerial" /\ Registered(k)
      BY <1>3, <2>2, Holds DEF Asked
    <3>2. QED
      BY <3>1 DEF Alone, ByRep, Signing
  <2>3. QED
    BY <2>1, <2>2 DEF SignAlone
<1>5. \A o \in 1 .. 11 : Place(r) < o => ~OnPath(k, o)
  <2>1. ~(script[k] = "signiture" /\ Groups(k))
    BY <1>4 DEF Groups, Needs
  <2>2. QED
    BY <1>1, <1>4, <2>1, AtSigning
<1>6. QED
  BY <1>0, <1>2, <1>3, <1>4, <1>5, SignedKeeps

(* A rank enters the broadcast of the next part.                           *)
LEMMA BroadcastKeeps ==
  ASSUME LockInv, NEW r \in Rank, Frame(r), UNCHANGED <<dist, desc, comm>>,
         call[r] \in Calls, pc[r] \notin {"classify", "bloom"}, ByRep(call[r]), ready[r],
         NEW part \in 1 .. 3, Place(r) = 3 + 2 * part, Broadcast(r, part),
         Lowest(r) => size'[r] = 1 /\ sig'[r] = file[r],
         part = 3 => size'[r] = 1
  PROVE  LockInv'
<1> DEFINE k == call[r]
<1>0. UNCHANGED <<dist, desc>> /\ NodeSame /\ Place(r) > 4
  BY DEF Frame
<1>1. GroupWise(r) <=> ~OneUri
  BY <1>0, ByRepSurveyed, DescFacts DEF GroupWise
<1>2. /\ call'[r] = call[r] /\ said'[r] = said[r] /\ ready'[r] = FALSE /\ stage'[r] = part
      /\ pc'[r] = IF OneUri THEN "share" ELSE "split"
  BY <1>1, Parts DEF Broadcast
<1>3. Place(r)' = IF OneUri THEN 5 + 2 * part ELSE 4 + 2 * part
  BY <1>2 DEF Place, Order
<1>4. PlaceOK(r)'
  BY <1>0, <1>2, ProgramSame DEF PlaceOK
<1>5. GotOK(r)'
  BY <1>2 DEF GotOK, In
<1>6. SignOK(r)'
  <2>1. comm'[r] \in {{}, Mates(r)} /\ file' = file
    BY <1>0, Parts DEF SignOK, NodeSame
  <2>2. QED
    BY <1>0, <1>2, <2>1, ProgramSame DEF SignOK
<1>7. \A o \in 1 .. 13 : Place(r) < o /\ o < Place(r)' => ~OnPath(k, o)
  <2>1. CASE OneUri
    <3>1. ~OnPath(k, 6) /\ ~OnPath(k, 8) /\ ~OnPath(k, 10)
      BY <2>1 DEF OnPath
    <3>2. QED
      BY <1>3, <2>1, <3>1
  <2>2. CASE ~OneUri
    BY <1>3, <2>2
  <2>3. QED
    BY <2>1, <2>2
<1>8. Place(r)' \in 1 .. 13 /\ Place(r) < Place(r)'
  BY <1>3
<1>9. QED
  BY <1>0, <1>2, <1>4, <1>5, <1>6, <1>7, <1>8, GoKeeps

(* The sum of the errors is looked at.                                     *)
LEMMA SumRcKeeps ==
  ASSUME LockInv, NEW r \in Rank, Frame(r), SumRc(r)
  PROVE  LockInv'
<1>0. UNCHANGED <<dist, desc, comm>> /\ UNCHANGED locals
  BY DEF SumRc, locals
<1>1. /\ pc[r] = "sumRc" /\ ready[r] /\ call[r] \in Calls /\ ByRep(call[r])
      /\ got[r] = 0 /\ Place(r) = 5
      /\ Lowest(r) => size[r] = 1 /\ sig[r] = file[r]
  BY Typed, Parts DEF SumRc, In, PlaceOK, GotOK, SignOK, Place, Order
<1>2. Broadcast(r, 1)
  BY <1>1 DEF SumRc
<1>3. Lowest(r) => size'[r] = 1 /\ sig'[r] = file[r]
  BY <1>0, <1>1 DEF locals
<1>4. 1 \in 1 .. 3 /\ Place(r) = 3 + 2 * 1 /\ 1 # 3
  BY <1>1
<1>5. QED
  BY <1>0, <1>1, <1>2, <1>3, <1>4, BroadcastKeeps

(* A rank has its communicator.                                            *)
LEMMA SplitKeeps ==
  ASSUME LockInv, NEW r \in Rank, Frame(r), Split(r)
  PROVE  LockInv'
<1> DEFINE k == call[r]
<1>0. UNCHANGED <<dist, desc>> /\ UNCHANGED locals /\ NodeSame
  BY DEF Split, Frame
<1>1. /\ pc[r] = "split" /\ ready[r] /\ k \in Calls /\ ByRep(k) /\ stage[r] \in 1 .. 3
      /\ Place(r) = 4 + 2 * stage[r]
  BY Typed, Parts DEF Split, In, PlaceOK, Place, Order
<1>2. /\ call'[r] = call[r] /\ said'[r] = said[r] /\ ready'[r] = FALSE
      /\ pc'[r] = "share" /\ stage'[r] = stage[r] /\ Place(r)' = 5 + 2 * stage[r]
  BY GoToFacts DEF Split
<1>3. PlaceOK(r)'
  BY <1>0, <1>1, <1>2, ProgramSame DEF PlaceOK
<1>4. GotOK(r)'
  BY <1>2 DEF GotOK, In
<1>5. SignOK(r)'
  <2>1. SignOK(r) /\ file' = file /\ sig' = sig /\ size' = size /\ comm' = comm
    BY <1>0, Parts DEF NodeSame, locals
  <2>2. QED
    BY <1>0, <1>1, <1>2, <2>1, ProgramSame DEF SignOK
<1>6. /\ Place(r)' \in 1 .. 13 /\ Place(r) < Place(r)'
      /\ \A o \in 1 .. 13 : Place(r) < o /\ o < Place(r)' => ~OnPath(call[r], o)
  BY <1>1, <1>2
<1>7. QED
  BY <1>0, <1>1, <1>2, <1>3, <1>4, <1>5, <1>6, GoKeeps

(* A rank has one of the three parts.                                      *)
LEMMA ShareKeeps ==
  ASSUME LockInv, NEW r \in Rank, Frame(r), Share(r)
  PROVE  LockInv'
<1> DEFINE k == call[r]
           part == stage[r]
<1>0. UNCHANGED <<dist, desc, comm>>
  BY DEF Share
<1>1. /\ pc[r] = "share" /\ ready[r] /\ k \in Calls /\ ByRep(k) /\ part \in 1 .. 3
      /\ Place(r) = 5 + 2 * part
      /\ script[k] \in {"signiture", "isConsistent", "isConsistentSerial"}
  BY Typed, Parts DEF Share, In, PlaceOK, Place, Order, ByRep, Signing
<1>2. /\ part = 2 => got[r] = 1
      /\ part = 3 => got[r] = file[r]
      /\ Lowest(r) => size[r] = 1 /\ sig[r] = file[r]
      /\ part = 3 => size[r] = 1
  BY <1>1, Parts DEF In, GotOK, SignOK
<1>3. /\ size'[r] = IF part = 2 THEN got[r] ELSE size[r]
      /\ sig'[r] = IF part = 3 THEN got[r] ELSE sig[r]
  BY Parts DEF Share
<1>4. CASE part < 3
  <2>1. Broadcast(r, part + 1)
    BY <1>4 DEF Share
  <2>2. /\ part + 1 \in 1 .. 3 /\ Place(r) = 3 + 2 * (part + 1)
        /\ Lowest(r) => size'[r] = 1 /\ sig'[r] = file[r]
        /\ part + 1 = 3 => size'[r] = 1
    BY <1>1, <1>2, <1>3, <1>4
  <2>3. QED
    BY <1>0, <1>1, <2>1, <2>2, BroadcastKeeps
<1>5. CASE ~(part < 3)
  <2>1. Signed(r) /\ part = 3
    BY <1>1, <1>5 DEF Share
  <2>2. sig'[r] = file[r] /\ size'[r] = 1 /\ Place(r) = 11
    BY <1>1, <1>2, <1>3, <2>1
  <2>3. \A o \in 1 .. 11 : Place(r) < o => ~OnPath(k, o)
    BY <2>2
  <2>4. QED
    BY <1>0, <1>1, <2>1, <2>2, <2>3, SignedKeeps
<1>6. QED
  BY <1>4, <1>5

(* isConsistent compares.                                                  *)
LEMMA CompareKeeps ==
  ASSUME LockInv, NEW r \in Rank, Frame(r), Compare(r)
  PROVE  LockInv'
<1> DEFINE k == call[r]
<1>0. UNCHANGED <<dist, desc>> /\ UNCHANGED locals /\ NodeSame /\ UNCHANGED <<dist, desc, comm>>
  BY DEF Compare, Frame, locals
<1>1. CASE In(r, "compare") /\ GoTo(r, "differ")
  <2>1. /\ pc[r] = "compare" /\ ready[r] /\ k \in Calls /\ Compares(k)
        /\ stage[r] = IF ByRep(k) THEN 3 ELSE 0
        /\ Place(r) = 12 /\ got[r] = file[0]
    BY <1>1, Typed, Parts DEF In, PlaceOK, GotOK, Place, Order
  <2>2. /\ call'[r] = call[r] /\ said'[r] = said[r] /\ ready'[r] = FALSE /\ got'[r] = got[r]
        /\ pc'[r] = "differ" /\ stage'[r] = stage[r] /\ Place(r)' = 13
    BY <1>1, GoToFacts
  <2>3. PlaceOK(r)'
    BY <1>0, <2>1, <2>2, ProgramSame DEF PlaceOK
  <2>4. GotOK(r)'
    BY <1>0, <2>1, <2>2 DEF GotOK, In, NodeSame
  <2>5. SignOK(r)'
    <3>1. SignOK(r) /\ file' = file /\ sig' = sig /\ size' = size /\ comm' = comm
      BY <1>0, Parts DEF NodeSame, locals
    <3>2. QED
      BY <1>0, <2>1, <2>2, <3>1, ProgramSame DEF SignOK
  <2>6. /\ Place(r)' \in 1 .. 13 /\ Place(r) < Place(r)'
        /\ \A o \in 1 .. 13 : Place(r) < o /\ o < Place(r)' => ~OnPath(call[r], o)
    BY <2>1, <2>2
  <2>7. QED
    BY <1>0, <2>1, <2>2, <2>3, <2>4, <2>5, <2>6, GoKeeps
<1>2. CASE In(r, "differ") /\ Return(r, YesIf(got[r] = 0))
  <2>1. /\ pc[r] = "differ" /\ ready[r] /\ k \in Calls /\ Compares(k) /\ Place(r) = 13
        /\ got[r] = 0 <=> AllSame
    BY <1>2, Typed, Parts DEF In, PlaceOK, GotOK, Place, Order
  <2>2. /\ script[k] \in {"isConsistent", "isConsistentSerial"}
        /\ ~(script[k] = "isConsistent" /\ UniqueAt(k) = "yes")
    BY <2>1 DEF Compares, ByRep, Alone, Signing
  <2>3. Return(r, Right(k))
    BY <1>2, <2>1, <2>2 DEF Right, YesIf
  <2>4. \A o \in 1 .. 13 : Place(r) < o => ~OnPath(k, o)
    BY <2>1
  <2>5. QED
    BY <1>0, <2>1, <2>2, <2>3, <2>4, AnswerKeeps
<1>3. QED
  BY <1>1, <1>2 DEF Compare

(* A local step keeps the invariant.                                       *)
LEMMA LocalKeeps ==
  ASSUME LockInv, NEW r \in Rank, Local(r)
  PROVE  LockInv'
<1>1. Frame(r)
  BY LocalFrame DEF LockInv
<1>2. CASE Initialize(r) \/ Triage(r) \/ TriageRemote(r) \/ TriageBloom(r)
  BY <1>1, <1>2, InitializeKeeps, TriageKeeps, TriageRemoteKeeps, TriageBloomKeeps
<1>3. CASE Ask(r) \/ ForceInfo(r) \/ Unique(r)
  BY <1>1, <1>3, AskKeeps, ForceInfoKeeps, UniqueKeeps
<1>4. CASE SignUnregistered(r) \/ SignUngrouped(r) \/ SignByRep(r) \/ SignAlone(r)
  BY <1>1, <1>4, SignUnregisteredKeeps, SignUngroupedKeeps, SignByRepKeeps, SignAloneKeeps
<1>5. CASE SumRc(r) \/ Split(r) \/ Share(r) \/ Compare(r)
  BY <1>1, <1>5, SumRcKeeps, SplitKeeps, ShareKeeps, CompareKeeps
<1>6. QED
  BY <1>2, <1>3, <1>4, <1>5 DEF Local

-----------------------------------------------------------------------------
(* The collectives.                                                        *)

(* A rank that waits in an operation on MPI_COMM_WORLD is at a point of    *)
(* the path of its call.                                                   *)
LEMMA WaitsOnPath ==
  ASSUME LockInv, NEW r \in Rank, WaitsInWorld(r)
  PROVE  /\ call[r] \in Calls /\ Place(r) \in 1 .. 13 /\ ~ready[r]
         /\ OnPath(call[r], Place(r))
<1>1. /\ pc[r] \notin {"idle", "sign"} /\ ~ready[r] /\ (pc[r] = "share" => ~GroupWise(r))
      /\ call[r] \in Calls /\ PlaceOK(r)
  BY Parts, Typed DEF WaitsInWorld
<1>2. CASE pc[r] \in {"classify", "anyRemote", "groupUnique", "groupForce"}
  BY <1>1, <1>2 DEF PlaceOK, Place, Order, OnPath
<1>3. CASE pc[r] \in {"bloom", "groupSign", "sumRc", "compare", "differ"}
  BY <1>1, <1>3 DEF PlaceOK, Place, Order, OnPath
<1>4. CASE pc[r] = "split"
  <2>1. ByRep(call[r]) /\ ~OneUri /\ stage[r] \in 1 .. 3 /\ Place(r) = 4 + 2 * stage[r]
    BY <1>1, <1>4 DEF PlaceOK, Place, Order
  <2>2. Place(r) \in {6, 8, 10}
    BY <2>1
  <2>3. QED
    BY <1>1, <2>1, <2>2 DEF OnPath
<1>5. CASE pc[r] = "share"
  <2>1. ByRep(call[r]) /\ stage[r] \in 1 .. 3 /\ Place(r) = 5 + 2 * stage[r]
    BY <1>1, <1>5 DEF PlaceOK, Place, Order
  <2>2. Place(r) \in {7, 9, 11}
    BY <2>1
  <2>3. OneUri
    BY <1>1, <1>5, <2>1, <2>2, ByRepSurveyed, DescFacts DEF GroupWise
  <2>4. QED
    BY <1>1, <2>1, <2>2, <2>3 DEF OnPath
<1>6. QED
  BY <1>1, <1>2, <1>3, <1>4, <1>5 DEF PlaceOK

(* Two such ranks are at the same point of the same call.                  *)
LEMMA SameSpot ==
  ASSUME LockInv, NEW r \in Rank, NEW q \in Rank,
         WaitsInWorld(r), WaitsInWorld(q)
  PROVE  /\ call[r] = call[q] /\ Place(r) = Place(q)
         /\ pc[r] = pc[q] /\ stage[r] = stage[q]
<1>1. ASSUME NEW p \in Rank, WaitsInWorld(p)
      PROVE  /\ call[p] \in Calls /\ Place(p) \in 1 .. 13 /\ ~ready[p] /\ call[p] \in Nat
             /\ OnPath(call[p], Place(p)) /\ ~Done(p, call[p], Place(p))
  BY <1>1, WaitsOnPath, Typed DEF Done
<1>2. ASSUME NEW p \in Rank, NEW o \in Rank, WaitsInWorld(p), WaitsInWorld(o)
      PROVE  ~(call[p] < call[o]) /\ (call[p] = call[o] => ~(Place(p) < Place(o)))
  <2>1. ~Done(o, call[p], Place(p))
    BY <1>1, <1>2 DEF LockInv, InStep
  <2>2. QED
    BY <2>1 DEF Done
<1>3. call[r] = call[q]
  <2>1. ~(call[r] < call[q]) /\ ~(call[q] < call[r])
    BY <1>2
  <2>2. call[r] \in Nat /\ call[q] \in Nat
    BY <1>1
  <2>3. QED
    BY <2>1, <2>2
<1>4. Place(r) = Place(q)
  <2>1. ~(Place(r) < Place(q)) /\ ~(Place(q) < Place(r))
    BY <1>2, <1>3
  <2>2. Place(r) \in 1 .. 13 /\ Place(q) \in 1 .. 13
    BY <1>1
  <2>3. QED
    BY <2>1, <2>2
<1>5. PlaceOK(r) /\ PlaceOK(q) /\ pc[r] \notin {"idle", "sign"} /\ pc[q] \notin {"idle", "sign"}
  BY Parts DEF WaitsInWorld
<1>6. ASSUME NEW p \in {r, q}
      PROVE  /\ pc[p] \in {"split", "share"} =>
                  stage[p] \in 1 .. 3
                  /\ Place(p) = IF pc[p] = "split" THEN 4 + 2 * stage[p] ELSE 5 + 2 * stage[p]
             /\ pc[p] \notin {"split", "share"} =>
                  Place(p) = CASE pc[p] = "bloom" -> 2 [] pc[p] = "groupSign" -> 4
                               [] pc[p] = "sumRc" -> 5 [] pc[p] = "compare" -> 12
                               [] pc[p] = "differ" -> 13 [] OTHER -> 1
             /\ Place(p) = 1 => pc[p] \in {"classify", "anyRemote", "groupUnique", "groupForce"}
  BY <1>5 DEF PlaceOK, Place, Order
<1>7. pc[r] = pc[q]
  <2>1. CASE Place(r) = 1
    <3>1. /\ pc[r] \in {"classify", "anyRemote", "groupUnique", "groupForce"}
          /\ pc[q] \in {"classify", "anyRemote", "groupUnique", "groupForce"}
      BY <1>4, <1>6, <2>1
    <3>2. script[call[r]] = script[call[q]]
      BY <1>3
    <3>3. QED
      BY <1>5, <3>1, <3>2 DEF PlaceOK
  <2>2. CASE Place(r) # 1
    BY <1>4, <1>5, <1>6, <2>2 DEF PlaceOK
  <2>3. QED
    BY <2>1, <2>2
<1>8. stage[r] = stage[q]
  <2>1. CASE pc[r] \in {"split", "share"}
    BY <1>4, <1>6, <1>7, <2>1
  <2>2. CASE pc[r] \notin {"split", "share"}
    BY <1>3, <1>5, <1>7, <2>2 DEF PlaceOK
  <2>3. QED
    BY <2>1, <2>2
<1>9. QED
  BY <1>3, <1>4, <1>7, <1>8

-----------------------------------------------------------------------------
(* A collective on MPI_COMM_WORLD.                                         *)

(* What a collective owes to the invariant.                                *)
LEMMA StillKeeps ==
  ASSUME LockInv, NEW r \in Rank, Still, pc[r] \notin {"idle", "sign"},
         comm'[r] \in {{}, Mates(r)}
  PROVE  AnswersOK(r)' /\ PlaceOK(r)' /\ DistOK(r)' /\ Place(r)' = Place(r)
         /\ SignOK(r)'
<1>0. /\ NodeSame /\ call' = call /\ pc' = pc /\ stage' = stage /\ said' = said
      /\ generator' = generator /\ card' = card /\ cutoff' = cutoff
      /\ nodeLocal' = nodeLocal /\ known' = known
      /\ rc' = rc /\ sig' = sig /\ size' = size
      /\ script' = script /\ uri' = uri /\ file' = file
  BY DEF Still, NodeSame, dist
<1>1. AnswersOK(r) /\ PlaceOK(r) /\ DistOK(r) /\ SignOK(r)
  BY Parts
<1>2. AnswersOK(r)'
  BY <1>0, <1>1, ProgramSame DEF AnswersOK
<1>3. PlaceOK(r)'
  BY <1>0, <1>1, ProgramSame DEF PlaceOK
<1>4. DistOK(r)'
  BY <1>0, <1>1, ProgramSame DEF DistOK
<1>5. Place(r)' = Place(r)
  BY <1>0 DEF Place
<1>6. SignOK(r)'
  BY <1>0, <1>1, ProgramSame DEF SignOK
<1>7. QED
  BY <1>2, <1>3, <1>4, <1>5, <1>6

(* A collective on MPI_COMM_WORLD that all ranks have entered completes.   *)
LEMMA WorldKeeps ==
  ASSUME LockInv, Still, Domains', NEW c \in Nat, NEW p \in 1 .. 13,
         \A r \in Rank : call[r] = c /\ Place(r) = p /\ pc[r] \notin {"idle", "sign"},
         ready' = [r \in Rank |-> TRUE],
         \A r \in Rank : GotOK(r)' /\ DescOK(r)' /\ comm'[r] \in {{}, Mates(r)}
  PROVE  LockInv'
<1>0. NodeSame /\ call' = call
  BY DEF Still
<1>1. \A r \in Rank : RankOK(r)' /\ Place(r)' = p
  BY StillKeeps DEF RankOK
<1>2. ASSUME NEW r \in Rank, NEW k \in Calls, NEW o \in 1 .. 13
      PROVE  Done(r, k, o)' <=> k < c \/ (k = c /\ o <= p)
  BY <1>0, <1>1, <1>2 DEF Done
<1>3. InStep'
  BY <1>0, <1>2, ProgramSame DEF InStep
<1>4. NodesOK' /\ NothingWrong' /\ script' \in Scripts /\ ready' \in [Rank -> BOOLEAN]
  BY <1>0, NodesStay
<1>5. QED
  BY <1>1, <1>3, <1>4 DEF LockInv

(* The collectives but grouping tell nobody of the groups.                 *)
LEMMA DescStays ==
  ASSUME LockInv, Still, NEW r \in Rank, UNCHANGED desc,
         ready'[r] = TRUE, Place(r) \in 1 .. 13,
         ~(Groups(call[r]) /\ Place(r) = GroupPoint(call[r]))
  PROVE  DescOK(r)'
<1>0. NodeSame /\ call' = call /\ Place(r)' = Place(r) /\ uri' = uri /\ info' = info
      /\ mapped' = mapped /\ script' = script
  BY DEF Still, Place, desc, NodeSame
<1>1. DescOK(r)
  BY Parts
<1>2. ASSUME NEW k \in Calls, Groups(k)
      PROVE  Done(r, k, GroupPoint(k))' <=> Done(r, k, GroupPoint(k))
  BY <1>0, <1>2 DEF Done, GroupPoint
<1>3. Surveyed(r)' <=> Surveyed(r)
  BY <1>0, <1>2, ProgramSame DEF Surveyed, GroupPoint
<1>4. QED
  BY <1>0, <1>1, <1>3 DEF DescOK

(* Where all ranks are when a collective on MPI_COMM_WORLD completes.      *)
LEMMA AllAtOnce ==
  ASSUME LockInv, \A r \in Rank : WaitsInWorld(r)
  PROVE  /\ 0 \in Rank /\ call[0] \in Nat /\ call[0] \in Calls /\ Place(0) \in 1 .. 13
         /\ \A r \in Rank : /\ call[r] = call[0] /\ Place(r) = Place(0)
                            /\ pc[r] = pc[0] /\ stage[r] = stage[0]
                            /\ pc[r] \notin {"idle", "sign"}
<1>1. 0 \in Rank
  BY BaseAssumption DEF Rank
<1>2. call[0] \in Nat /\ call[0] \in Calls /\ Place(0) \in 1 .. 13
  BY <1>1, WaitsOnPath, Typed
<1>3. QED
  BY <1>1, <1>2, SameSpot DEF WaitsInWorld

(* The classification.                                                     *)
LEMMA ClassifyKeeps ==
  ASSUME LockInv, Classify
  PROVE  LockInv'
<1>0. /\ Still /\ UNCHANGED desc /\ comm' = comm /\ got' = got /\ pc' = pc
      /\ ready' = [r \in Rank |-> TRUE] /\ Domains'
  BY DEF Classify, Still, NodeSame, node, locals, LockInv, Domains, desc, dist
<1>1. \A r \in Rank : WaitsInWorld(r) /\ pc[r] = "classify"
  BY DEF Classify, AllBlocked, Blocked, WaitsInWorld
<1>2. ASSUME NEW r \in Rank
      PROVE  GotOK(r)' /\ DescOK(r)' /\ comm'[r] \in {{}, Mates(r)}
  <2>1. script[call[r]] = "initializeStorage" /\ Place(r) = 1
    BY <1>1, <1>2, Parts DEF PlaceOK, Place, Order
  <2>2. ~Groups(call[r])
    BY <2>1 DEF Groups, Needs, ByRep, Signing
  <2>3. DescOK(r)'
    BY <1>0, <2>1, <2>2, DescStays
  <2>4. GotOK(r)'
    BY <1>0, <1>1 DEF GotOK, In
  <2>5. QED
    BY <1>0, <2>3, <2>4, Parts DEF SignOK
<1>3. QED
  BY <1>0, <1>1, <1>2, AllAtOnce, WorldKeeps

(* The operations whose result is the same everywhere.                     *)
LEMMA EverywhereKeeps ==
  ASSUME LockInv, Still, UNCHANGED <<desc, comm>>,
         \A r \in Rank : /\ Blocked(r, {"anyRemote", "differ", "bloom", "sumRc", "compare",
                                        "share"})
                         /\ pc[r] = "share" => ~GroupWise(r),
         NEW value, Everywhere(value),
         \A r \in Rank : GotOK(r)'
  PROVE  LockInv'
<1>0. ready' = [r \in Rank |-> TRUE] /\ Domains' /\ UNCHANGED desc /\ comm' = comm
  BY DEF Everywhere, Still, NodeSame, LockInv, Domains, desc, dist
<1>1. \A r \in Rank : WaitsInWorld(r)
  BY DEF Blocked, WaitsInWorld
<1>2. ASSUME NEW r \in Rank
      PROVE  GotOK(r)' /\ DescOK(r)' /\ comm'[r] \in {{}, Mates(r)}
  <2>1. ~(Groups(call[r]) /\ Place(r) = GroupPoint(call[r]))
    <3>1. pc[r] \in {"anyRemote", "differ", "bloom", "sumRc", "compare", "share"}
      BY DEF Blocked
    <3>2. CASE pc[r] = "anyRemote"
      BY <3>2, Parts DEF PlaceOK, Groups, Needs, ByRep, Signing
    <3>3. CASE pc[r] # "anyRemote"
      BY <3>1, <3>3, Parts DEF PlaceOK, Place, Order, GroupPoint
    <3>4. QED
      BY <3>2, <3>3
  <2>2. Place(r) \in 1 .. 13 /\ ready'[r] = TRUE
    BY <1>0, <1>1, WaitsOnPath
  <2>3. DescOK(r)'
    BY <1>0, <2>1, <2>2, DescStays
  <2>4. QED
    BY <1>0, <2>3, Parts DEF SignOK
<1>3. QED
  BY <1>0, <1>1, <1>2, AllAtOnce, WorldKeeps

(* The maximum, of the remote flags or of the comparisons.                 *)
LEMMA ReduceMaxKeeps ==
  ASSUME LockInv, ReduceMax
  PROVE  LockInv'
<1> DEFINE value == IF \E r \in Rank : Operand(r) THEN 1 ELSE 0
<1>0. /\ Still /\ UNCHANGED <<desc, comm>> /\ pc' = pc /\ stage' = stage /\ NodeSame
      /\ Everywhere(value)
      /\ \A r \in Rank : Blocked(r, {"anyRemote", "differ"})
  BY DEF ReduceMax, Still, NodeSame, node, locals, AllBlocked
<1>1. \A r \in Rank : WaitsInWorld(r)
  BY <1>0 DEF Blocked, WaitsInWorld
<1>2. \A r \in Rank : got'[r] = value /\ ready'[r]
  BY <1>0 DEF Everywhere
<1>3. CASE pc[0] = "anyRemote"
  <2>1. \A r \in Rank : pc[r] = "anyRemote"
    BY <1>1, <1>3, AllAtOnce
  <2>2. \A r \in Rank : Operand(r) <=> remote[r]
    BY <2>1, NothingFails DEF Operand
  <2>3. value = IF AnyRemote THEN 1 ELSE 0
    BY <2>2 DEF AnyRemote
  <2>4. \A r \in Rank : GotOK(r)'
    <3> HIDE DEF value
    <3>1. QED
      BY <1>0, <1>2, <2>1, <2>3, ProgramSame DEF GotOK, In
  <2>5. QED
    BY <1>0, <2>1, <2>4, EverywhereKeeps DEF Blocked
<1>4. CASE pc[0] # "anyRemote"
  <2>1. \A r \in Rank : pc[r] = "differ" /\ ~ready[r] /\ pc[r] = pc[0]
    BY <1>0, <1>1, <1>4, AllAtOnce DEF Blocked
  <2>2. \A r \in Rank : Operand(r) <=> file[r] # file[0]
    BY <2>1, Parts DEF Operand, GotOK, SignOK
  <2>3. value = IF AllSame THEN 0 ELSE 1
    BY <2>2 DEF AllSame
  <2>4. \A r \in Rank : GotOK(r)'
    <3> HIDE DEF value
    <3>1. QED
      BY <1>0, <1>2, <2>1, <2>3, ProgramSame DEF GotOK, In
  <2>5. QED
    BY <1>0, <2>1, <2>4, EverywhereKeeps DEF Blocked
<1>5. QED
  BY <1>3, <1>4

(* The filters or-ed.                                                      *)
LEMMA ReduceBorKeeps ==
  ASSUME LockInv, ReduceBor
  PROVE  LockInv'
<1>0. /\ Still /\ UNCHANGED <<desc, comm>> /\ pc' = pc /\ NodeSame /\ uri' = uri
      /\ Everywhere(PopCount(Filter(uri)))
      /\ \A r \in Rank : Blocked(r, {"bloom"}) /\ pc[r] = "bloom"
  BY DEF ReduceBor, Still, NodeSame, node, locals, AllBlocked, Blocked
<1>1. \A r \in Rank : got'[r] = PopCount(Filter(uri))
  BY <1>0 DEF Everywhere
<1>2. \A r \in Rank : GotOK(r)'
  BY <1>0, <1>1 DEF GotOK, In
<1>3. QED
  BY <1>0, <1>2, EverywhereKeeps DEF Blocked

(* The sum of no errors.                                                   *)
LEMMA ReduceSumKeeps ==
  ASSUME LockInv, ReduceSum
  PROVE  LockInv'
<1> DEFINE value == Cardinality({r \in Rank : rc[r] = 1}) - Cardinality({r \in Rank : rc[r] = -1})
<1>0. /\ Still /\ UNCHANGED <<desc, comm>> /\ pc' = pc /\ NodeSame
      /\ Everywhere(value)
      /\ \A r \in Rank : Blocked(r, {"sumRc"}) /\ pc[r] = "sumRc"
  BY DEF ReduceSum, Still, NodeSame, node, locals, AllBlocked, Blocked
<1>1. \A r \in Rank : rc[r] = 0
  BY <1>0, Parts DEF SignOK
<1>2. value = 0
  <2>1. {r \in Rank : rc[r] = 1} = {} /\ {r \in Rank : rc[r] = -1} = {}
    BY <1>1
  <2>2. QED
    BY <2>1, FS_EmptySet
<1>3. \A r \in Rank : got'[r] = 0
  BY <1>0, <1>2 DEF Everywhere
<1>4. \A r \in Rank : GotOK(r)'
  BY <1>0, <1>3 DEF GotOK, In
<1>5. QED
  <2> HIDE DEF value
  <2>1. QED
    BY <1>0, <1>4, EverywhereKeeps DEF Blocked

(* The broadcast of rank 0's signature.                                    *)
LEMMA BcastCompareKeeps ==
  ASSUME LockInv, BcastCompare
  PROVE  LockInv'
<1>0. /\ Still /\ UNCHANGED <<desc, comm>> /\ pc' = pc /\ NodeSame /\ file' = file
      /\ Everywhere(sig[0])
      /\ \A r \in Rank : Blocked(r, {"compare"}) /\ pc[r] = "compare"
  BY DEF BcastCompare, Still, NodeSame, node, locals, AllBlocked, Blocked
<1>1. sig[0] = file[0]
  <2>1. 0 \in Rank
    BY BaseAssumption DEF Rank
  <2>2. QED
    BY <1>0, <2>1, Parts DEF SignOK
<1>2. \A r \in Rank : got'[r] = file[0]
  BY <1>0, <1>1 DEF Everywhere
<1>3. \A r \in Rank : GotOK(r)'
  BY <1>0, <1>2 DEF GotOK, In
<1>4. QED
  BY <1>0, <1>3, EverywhereKeeps DEF Blocked

(* grouping is entered by all at the one call that needs it first.         *)
LEMMA GroupingKeeps ==
  ASSUME LockInv, Grouping
  PROVE  LockInv'
<1>0. /\ Still /\ NodeSame /\ comm' = comm /\ got' = got /\ pc' = pc /\ uri' = uri
      /\ script' = script /\ call' = call
      /\ ready' = [r \in Rank |-> TRUE] /\ Domains'
      /\ info' = [r \in Rank |-> GroupInfoOf(info[r], uri, r)]
      /\ mapped' = [r \in Rank |-> TRUE]
  BY DEF Grouping, Still, NodeSame, node, locals, LockInv, Domains, dist
<1>1. \A r \in Rank : WaitsInWorld(r) /\ pc[r] \in {"groupUnique", "groupSign", "groupForce"}
  BY DEF Grouping, AllBlocked, Blocked, WaitsInWorld
<1>2. ASSUME NEW r \in Rank
      PROVE  GotOK(r)' /\ DescOK(r)' /\ comm'[r] \in {{}, Mates(r)}
  <2>1. /\ call[r] \in Calls /\ call[r] \in Nat /\ Groups(call[r])
        /\ Place(r) = GroupPoint(call[r]) /\ ~ready[r]
    BY <1>1, <1>2, Parts, Typed, WaitsOnPath DEF PlaceOK, Place, Order, GroupPoint
  <2>2. ~Surveyed(r)
    <3> SUFFICES ASSUME NEW k \in Calls, Groups(k), Done(r, k, GroupPoint(k)) PROVE FALSE
      BY DEF Surveyed
    <3>1. CASE k = call[r]
      BY <2>1, <3>1 DEF Done, GroupPoint
    <3>2. CASE k # call[r]
      <4>1. k \in 1 .. call[r] - 1
        BY <2>1, <3>2 DEF Done, Calls
      <4>2. QED
        BY <2>1, <4>1 DEF Groups
    <3>3. QED
      BY <3>1, <3>2
  <2>3. info[r] = NoGroupInfo
    BY <2>2, Parts DEF DescOK
  <2>4. Surveyed(r)'
    <3>1. Done(r, call[r], GroupPoint(call[r]))'
      <4>1. Place(r)' = Place(r) /\ ready'[r] /\ GroupPoint(call[r])' = GroupPoint(call[r])
        BY <1>0 DEF Place, GroupPoint, Still
      <4>2. QED
        BY <1>0, <2>1, <4>1 DEF Done
    <3>2. QED
      BY <1>0, <2>1, <3>1, ProgramSame DEF Surveyed
  <2>5. DescOK(r)'
    BY <1>0, <2>3, <2>4 DEF DescOK
  <2>6. GotOK(r)'
    BY <1>0, <1>1 DEF GotOK, In
  <2>7. QED
    BY <1>0, <2>5, <2>6, Parts DEF SignOK
<1>3. QED
  BY <1>0, <1>1, <1>2, AllAtOnce, WorldKeeps

(* MPI_Comm_split.                                                         *)
LEMMA CommSplitKeeps ==
  ASSUME LockInv, CommSplit
  PROVE  LockInv'
<1>0. /\ Still /\ UNCHANGED desc /\ got' = got /\ pc' = pc /\ uri' = uri
      /\ ready' = [r \in Rank |-> TRUE] /\ Domains'
      /\ comm' = [r \in Rank |-> {q \in Rank : info[q].groupId = info[r].groupId}]
  BY DEF CommSplit, Still, NodeSame, node, locals, LockInv, Domains, desc, dist
<1>1. \A r \in Rank : WaitsInWorld(r) /\ pc[r] = "split"
  BY DEF CommSplit, AllBlocked, Blocked, WaitsInWorld
<1>2. \A r \in Rank : Place(r) > 5 /\ ByRep(call[r]) /\ call[r] \in Calls /\ Place(r) \in 1 .. 13
  BY <1>1, Parts, WaitsOnPath DEF PlaceOK, Place, Order
<1>3. ASSUME NEW r \in Rank
      PROVE  info[r].groupId \in Mates(r) /\ Lowest(info[r].groupId)
  <2>1. info[r] = GroupInfoAt(uri, r)
    BY <1>2, ByRepSurveyed, DescFacts
  <2>2. uri \in [Rank -> Uri] /\ NoAliases
    BY DEF LockInv, NodesOK, NothingWrong
  <2>3. QED
    BY <2>1, <2>2, GroupFacts
<1>4. ASSUME NEW r \in Rank PROVE comm'[r] = Mates(r)
  <2>1. ASSUME NEW q \in Rank, info[q].groupId = info[r].groupId PROVE uri[q] = uri[r]
    BY <1>3, <2>1 DEF Mates
  <2>2. ASSUME NEW q \in Rank, uri[q] = uri[r] PROVE info[q].groupId = info[r].groupId
    <3> DEFINE a == info[q].groupId
               b == info[r].groupId
    <3>1. Mates(q) = Mates(r)
      BY <2>2 DEF Mates
    <3>2. /\ a \in Mates(q) /\ b \in Mates(r) /\ Lowest(a) /\ Lowest(b)
      BY <1>3
    <3> HIDE DEF a, b
    <3>3. a \in Mates(b) /\ b \in Mates(a) /\ a \in Nat /\ b \in Nat
      BY <3>1, <3>2 DEF Mates, Rank
    <3>4. a <= b /\ b <= a
      BY <3>2, <3>3 DEF Lowest
    <3>5. a = b
      BY <3>3, <3>4
    <3>6. QED
      BY <3>5 DEF a, b
  <2>3. QED
    BY <1>0, <2>1, <2>2 DEF Mates
<1>5. ASSUME NEW r \in Rank
      PROVE  GotOK(r)' /\ DescOK(r)' /\ comm'[r] \in {{}, Mates(r)}
  <2>1. Place(r) # GroupPoint(call[r]) /\ Place(r) \in 1 .. 13 /\ ready'[r] = TRUE
    BY <1>0, <1>2 DEF GroupPoint
  <2>2. DescOK(r)'
    BY <1>0, <2>1, DescStays
  <2>3. GotOK(r)'
    BY <1>0, <1>1 DEF GotOK, In
  <2>4. QED
    BY <1>4, <2>2, <2>3
<1>6. QED
  BY <1>0, <1>1, <1>5, AllAtOnce, WorldKeeps

(* A rank that waits to share has the groups.                              *)
LEMMA ShareFacts ==
  ASSUME LockInv, NEW r \in Rank, pc[r] = "share"
  PROVE  /\ call[r] \in Calls /\ stage[r] \in 1 .. 3 /\ Place(r) = 5 + 2 * stage[r]
         /\ GroupWise(r) <=> ~OneUri
         /\ IsRep(info[r]) <=> Lowest(r)
         /\ Lowest(r) => size[r] = 1 /\ sig[r] = file[r]
         /\ ~OneUri => ~OnPath(call[r], Place(r))
<1>1. /\ call[r] \in Calls /\ stage[r] \in 1 .. 3 /\ Place(r) = 5 + 2 * stage[r]
      /\ ByRep(call[r])
      /\ Lowest(r) => size[r] = 1 /\ sig[r] = file[r]
  BY Typed, Parts DEF PlaceOK, SignOK, Place, Order
<1>2. Surveyed(r)
  BY <1>1, ByRepSurveyed
<1>3. GroupWise(r) <=> ~OneUri
  BY <1>2, DescFacts DEF GroupWise
<1>4. Place(r) \in {7, 9, 11}
  BY <1>1
<1>5. ~OneUri => ~OnPath(call[r], Place(r))
  BY <1>4 DEF OnPath
<1>6. QED
  BY <1>1, <1>2, <1>3, <1>5, DescFacts

(* What the root hands out is the group's.                                 *)
LEMMA RootHands ==
  ASSUME LockInv, NEW S \in SUBSET Rank, NEW q \in S, NEW r \in S,
         \A p \in S : pc[p] = "share" /\ stage[p] = stage[r] /\ uri[p] = uri[r],
         Lowest(q)
  PROVE  /\ stage[r] = 2 => Buffer(q) = 1
         /\ stage[r] = 3 => Buffer(q) = file[r]
<1>1. /\ stage[q] = stage[r] /\ size[q] = 1 /\ sig[q] = file[q]
  BY ShareFacts
<1>2. file[q] = file[r]
  BY DEF LockInv, NodesOK, SameServer
<1>3. QED
  BY <1>1, <1>2 DEF Buffer

(* A broadcast in MPI_COMM_WORLD, of the one group.                        *)
LEMMA BcastShareWorldKeeps ==
  ASSUME LockInv, BcastShare(Rank, FALSE)
  PROVE  LockInv'
<1> DEFINE root == Root(Rank, FALSE)
<1>0. /\ Still /\ NodeSame /\ UNCHANGED <<desc, comm>> /\ pc' = pc /\ stage' = stage /\ file' = file
      /\ got' = [r \in Rank |-> Buffer(root)]
      /\ ready' = [r \in Rank |-> TRUE]
  <2>1. ready' = [r \in Rank |-> TRUE]
    BY DEF BcastShare
  <2>2. QED
    BY <2>1 DEF BcastShare, Still, NodeSame, node, locals
<1>1. /\ \A r \in Rank : Blocked(r, {"share"}) /\ pc[r] = "share" /\ ~GroupWise(r)
      /\ \A r, q \in Rank : stage[r] = stage[q]
  BY DEF BcastShare, Blocked
<1>2. Everywhere(Buffer(root))
  BY <1>0 DEF Everywhere
<1>3. 0 \in Rank /\ \A p \in Rank : 0 <= p /\ p \in Nat
  BY BaseAssumption DEF Rank
<1>4. OneUri
  BY <1>1, <1>3, ShareFacts
<1>5. root = 0
  <2>1. root = CHOOSE q \in Rank : \A p \in Rank : q <= p
    BY DEF Root
  <2>2. root \in Rank /\ \A p \in Rank : root <= p
    BY <1>3, <2>1
  <2> HIDE DEF root
  <2>3. root <= 0 /\ 0 <= root /\ root \in Nat
    BY <1>3, <2>2
  <2>4. QED
    BY <2>3
<1>6. Lowest(0)
  BY <1>3 DEF Lowest, Mates
<1>7. ASSUME NEW r \in Rank PROVE GotOK(r)'
  <2>1. /\ stage[r] = 2 => Buffer(0) = 1
        /\ stage[r] = 3 => Buffer(0) = file[r]
    BY <1>1, <1>3, <1>4, <1>6, RootHands DEF OneUri
  <2>2. got'[r] = Buffer(0)
    BY <1>0, <1>5
  <2>3. QED
    BY <1>0, <1>1, <2>1, <2>2 DEF GotOK, In
<1>8. QED
  <2> HIDE DEF root
  <2>1. QED
    BY <1>0, <1>1, <1>2, <1>7, EverywhereKeeps DEF Blocked

(* A broadcast in a group, ahead of or behind those of other groups.       *)
LEMMA BcastShareGroupKeeps ==
  ASSUME LockInv, NEW s \in Rank, BcastShare(comm[s], TRUE)
  PROVE  LockInv'
<1> DEFINE S == comm[s]
           root == Root(S, TRUE)
<1>0. /\ Still /\ NodeSame /\ UNCHANGED <<desc, comm>> /\ pc' = pc /\ stage' = stage /\ file' = file
      /\ got' = [r \in Rank |-> IF r \in S THEN Buffer(root) ELSE got[r]]
      /\ ready' = [r \in Rank |-> ready[r] \/ r \in S]
      /\ S # {} /\ call' = call
      /\ \A q \in S : Blocked(q, {"share"}) /\ GroupWise(q)
      /\ \A q, p \in S : stage[q] = stage[p]
  BY DEF BcastShare, Still, NodeSame, node, locals
<1>1. S = Mates(s) /\ S \subseteq Rank
  BY <1>0, Parts DEF SignOK, Mates
<1>2. \A q \in S : pc[q] = "share" /\ ~ready[q] /\ uri[q] = uri[s]
  BY <1>0, <1>1 DEF Blocked, Mates
<1>3. root \in S /\ Lowest(root)
  <2>1. uri \in [Rank -> Uri] /\ NoAliases
    BY DEF LockInv, NodesOK, NothingWrong
  <2>2. GroupInfoAt(uri, s).groupId \in S /\ Lowest(GroupInfoAt(uri, s).groupId)
    BY <1>1, <2>1, GroupFacts
  <2>3. \A q \in S : IsRep(info[q]) <=> Lowest(q)
    BY <1>1, <1>2, ShareFacts
  <2>4. root = CHOOSE q \in S : \A p \in S : IsRep(info[q])
    BY DEF Root
  <2>5. root \in S /\ IsRep(info[root])
    BY <2>2, <2>3, <2>4
  <2>6. QED
    BY <2>3, <2>5
<1> HIDE DEF root, S
<1>4. ASSUME NEW r \in Rank PROVE RankOK(r)' /\ DoneSame(r)
  <2>1. CASE r \in S
    <3>1. /\ pc[r] = "share" /\ ~ready[r] /\ ~OnPath(call[r], Place(r))
          /\ Place(r) \in 1 .. 13 /\ Place(r) > 5
      BY <1>0, <1>2, <2>1, ShareFacts
    <3>2. ready'[r] = TRUE /\ got'[r] = Buffer(root)
      BY <1>0, <2>1
    <3>3. comm'[r] \in {{}, Mates(r)}
      BY <1>0, Parts DEF SignOK
    <3>4. AnswersOK(r)' /\ PlaceOK(r)' /\ DistOK(r)' /\ SignOK(r)' /\ Place(r)' = Place(r)
      BY <1>0, <3>1, <3>3, StillKeeps
    <3>5. GotOK(r)'
      <4>1. /\ stage[r] = 2 => Buffer(root) = 1
            /\ stage[r] = 3 => Buffer(root) = file[r]
        BY <1>0, <1>1, <1>2, <1>3, <2>1, RootHands
      <4>2. QED
        BY <1>0, <3>1, <3>2, <4>1 DEF GotOK, In
    <3>6. DescOK(r)'
      <4>1. UNCHANGED desc /\ Place(r) # GroupPoint(call[r])
        BY <1>0, <3>1 DEF GroupPoint
      <4>2. QED
        BY <1>0, <1>1, <2>1, <3>1, <3>2, <4>1, DescStays
    <3>7. DoneSame(r)
      BY <1>0, <3>1, <3>4 DEF DoneSame, Done
    <3>8. QED
      BY <3>4, <3>5, <3>6, <3>7 DEF RankOK
  <2>2. CASE r \notin S
    <3>1. ready[r] \in BOOLEAN /\ RankOK(r)
      BY DEF LockInv
    <3>2. SameAt(r)
      BY <1>0, <2>2, <3>1 DEF SameAt, Still, dist, desc
    <3>3. QED
      BY <1>0, <3>1, <3>2, OthersKeep DEF DoneSame
  <2>3. QED
    BY <2>1, <2>2
<1>5. Domains' /\ ready' \in [Rank -> BOOLEAN]
  BY <1>0 DEF LockInv, Domains, Still, dist, desc
<1>6. QED
  BY <1>0, <1>4, <1>5, AllKeep

(* The collectives keep the invariant.                                     *)
LEMMA CollectiveKeeps ==
  ASSUME LockInv, Collective
  PROVE  LockInv'
BY ClassifyKeeps, ReduceMaxKeeps, ReduceBorKeeps, ReduceSumKeeps, GroupingKeeps,
   CommSplitKeeps, BcastCompareKeeps, BcastShareWorldKeeps, BcastShareGroupKeeps
   DEF Collective

(* A job begins in step.                                                   *)
LEMMA InitFollows ==
  ASSUME Init, NothingWrong
  PROVE  LockInv
<1> USE DEF Init
<1>1. Domains /\ ready \in [Rank -> BOOLEAN] /\ script \in Scripts /\ NodesOK
  BY DEF Domains
<1>2. script \in Seq(Query \cup {"triage", "isUnique", "isConsistent", "signiture",
                              "isConsistentSerial", "forceComputeParallelInfo",
                              "initialize", "initializeStorage"})
  BY ScriptAssumption
<1>3. Len(script) \in Nat
  BY <1>2
<1>4. ASSUME NEW r \in Rank PROVE RankOK(r) /\ \A k \in Calls, o \in 1 .. 13 : ~Done(r, k, o)
  <2>1. AnswersOK(r)
    <3>1. <<>> \in Seq(Answer) /\ Len(<<>>) = 0
      OBVIOUS
    <3>2. QED
      BY <1>3, <3>1 DEF AnswersOK
  <2>2. PlaceOK(r) /\ GotOK(r)
    BY DEF PlaceOK, GotOK, In
  <2>3. DistOK(r)
    BY DEF DistOK, Registered, Triaged, CardAt, CutoffAt, LocalAt
  <2>4. \A k \in Calls, o \in 1 .. 13 : ~Done(r, k, o)
    BY <1>3 DEF Done, Calls, Place, Order
  <2>5. DescOK(r)
    <3>1. \A k : GroupPoint(k) \in 1 .. 13
      BY DEF GroupPoint
    <3>2. ~Surveyed(r)
      BY <2>4, <3>1 DEF Surveyed
    <3>3. QED
      BY <3>2 DEF DescOK
  <2>6. SignOK(r)
    BY DEF SignOK
  <2>7. QED
    BY <2>1, <2>2, <2>3, <2>4, <2>5, <2>6 DEF RankOK
<1>5. InStep
  BY <1>4 DEF InStep
<1>6. QED
  BY <1>1, <1>4, <1>5 DEF LockInv

(* Where nothing is wrong every process follows the same program: at       *)
(* every moment its place, its data and its answers are what the number    *)
(* of its call determines (FastGlobalFileStat.C:370-548,                   *)
(* SyncFastGlobalFileStat.C:81-462).                                       *)
THEOREM LockStep == Spec /\ NothingWrong => []LockInv
<1>1. Init /\ NothingWrong => LockInv
  BY InitFollows
<1>2. LockInv /\ [Next]_vars => LockInv'
  <2> SUFFICES ASSUME LockInv, [Next]_vars PROVE LockInv'
    OBVIOUS
  <2>1. CASE Collective
    BY <2>1, CollectiveKeeps
  <2>2. ASSUME NEW r \in Rank, Local(r) PROVE LockInv'
    BY <2>2, LocalKeeps
  <2>3. CASE UNCHANGED vars
    <3>1. NodeSame /\ \A q \in Rank : SameAt(q)
      BY <2>3 DEF vars, node, dist, desc, locals, control, NodeSame, SameAt
    <3>2. Domains' /\ ready' \in [Rank -> BOOLEAN]
      BY <2>3 DEF vars, node, dist, desc, locals, control, LockInv, Domains
    <3>3. \A q \in Rank : RankOK(q)' /\ DoneSame(q)
      BY <3>1, OthersKeep DEF LockInv, DoneSame
    <3>4. QED
      BY <3>1, <3>2, <3>3, AllKeep
  <2>4. QED
    BY <2>1, <2>2, <2>3 DEF Next
<1>3. QED
  BY <1>1, <1>2, PTL DEF Spec

-----------------------------------------------------------------------------
(* What the calls have answered.                                           *)

(* A rank has answered the right answers, to the calls it has made.        *)
LEMMA Answered ==
  ASSUME LockInv, NEW r \in Rank, NEW k \in DOMAIN said[r]
  PROVE  /\ said[r][k] = Right(k) /\ k \in Calls /\ k \in Nat \ {0} /\ k < call[r]
         /\ Len(script) \in Nat /\ k \in 1 .. call[r] - 1
         /\ call[r] \in Nat /\ call[r] <= Len(script) + 1
<1>1. /\ call[r] \in 1 .. Len(script) + 1 /\ Len(script) \in Nat
      /\ said[r] \in Seq(Answer) /\ Len(said[r]) = call[r] - 1
      /\ \A j \in 1 .. call[r] - 1 : said[r][j] = Right(j)
  BY Parts, Typed DEF AnswersOK
<1>2. DOMAIN said[r] = 1 .. call[r] - 1
  BY <1>1
<1>3. QED
  BY <1>1, <1>2 DEF Calls

(* What a path once triaged is known to be stays so.                       *)
LEMMA TriagedStays ==
  ASSUME NEW j \in Nat, NEW k \in Nat, j <= k, Triaged(j)
  PROVE  /\ Triaged(k) /\ CardAt(k) = CardAt(j) /\ CutoffAt(k) = CutoffAt(j)
         /\ FewAt(k) <=> FewAt(j)
         /\ UniqueAt(k) = UniqueAt(j)
<1>1. Triaged(k)
  BY DEF Triaged
<1>2. CardAt(k) = CardAt(j) /\ CutoffAt(k) = CutoffAt(j)
  BY <1>1 DEF CardAt, CutoffAt
<1>3. FewAt(k) <=> FewAt(j)
  BY <1>2 DEF FewAt, PoorlyAt
<1>4. UniqueAt(k) = UniqueAt(j)
  BY <1>1, <1>3 DEF UniqueAt, YesIf
<1>5. QED
  BY <1>1, <1>2, <1>3, <1>4

(* Without aliases one server is one URI.                                  *)
LEMMA OneFileServerFact ==
  ASSUME LockInv
  PROVE  OneFileServer <=> OneUri
<1>1. 0 \in Rank
  BY BaseAssumption DEF Rank
<1>2. NoAliases
  BY DEF LockInv, NothingWrong
<1>3. QED
  BY <1>1, <1>2 DEF OneFileServer, SameServer, OneUri, NoAliases

-----------------------------------------------------------------------------
(* The theorems.                                                           *)

(* What the invariant says of the answers and of the waits.                *)
LEMMA LockInvImplies ==
  ASSUME LockInv
  PROVE  /\ SameCollective /\ Agreement /\ UniqueRight /\ NoFalseNo /\ SignitureRight
         /\ UniqueImpliesConsistent /\ FullyImpliesWell /\ UniqueImpliesPoorly
<1>1. SameCollective
  BY SameSpot DEF SameCollective
<1>2. Agreement
  BY Answered DEF Agreement
<1>3. UniqueRight
  <2> SUFFICES ASSUME NEW r \in Rank, NEW k \in Calls, k \in DOMAIN said[r],
                      script[k] = "isUnique"
               PROVE  /\ said[r][k] = "yes" => OneFileServer
                      /\ said[r][k] = "no" => ~OneFileServer \/ ~FewGroups(r)
    BY DEF UniqueRight, Said
  <2>1. said[r][k] = UniqueAt(k) /\ k \in Nat /\ call[r] \in Nat /\ k <= call[r]
    BY Answered DEF Right
  <2>2. said[r][k] = "yes" => OneFileServer
    BY <2>1, OneFileServerFact DEF UniqueAt, YesIf
  <2>3. ASSUME said[r][k] = "no", OneUri PROVE ~FewGroups(r)
    <3>1. Triaged(k) /\ ~FewAt(k)
      BY <2>1, <2>3 DEF UniqueAt, YesIf
    <3>2. Triaged(call[r]) /\ ~FewAt(call[r])
      BY <2>1, <3>1, TriagedStays
    <3>3. card[r] = CardAt(call[r]) /\ cutoff[r] = CutoffAt(call[r])
      BY <3>2, Parts DEF DistOK, CutoffAt
    <3>4. QED
      BY <3>2, <3>3 DEF FewGroups, Poorly, FewAt, PoorlyAt
  <2>4. QED
    BY <2>2, <2>3, OneFileServerFact
<1>4. NoFalseNo
  <2> SUFFICES ASSUME NEW r \in Rank, NEW k \in DOMAIN said[r],
                      script[k] \in {"isConsistent", "isConsistentSerial"},
                      said[r][k] = "no"
               PROVE  \E q, p \in Rank : file[q] # file[p]
    BY DEF NoFalseNo, Said
  <2>1. Right(k) = "no"
    BY Answered
  <2>2. ~AllSame
    BY <2>1 DEF Right, YesIf
  <2>3. 0 \in Rank
    BY BaseAssumption DEF Rank
  <2>4. QED
    BY <2>2, <2>3 DEF AllSame
<1>5. SignitureRight
  <2> SUFFICES ASSUME NEW r \in Rank, pc[r] = "idle", call[r] > 1,
                      Said(r, call[r] - 1, "signiture", "buffer")
               PROVE  sig[r] = file[r]
    BY DEF SignitureRight
  <2> DEFINE k == call[r] - 1
  <2>1. Right(k) = "buffer" /\ script[k] = "signiture"
    BY Answered DEF Said
  <2>2. ByRep(k) \/ Alone(k)
    BY <2>1 DEF Right
  <2>3. QED
    BY <2>1, <2>2, Parts DEF SignOK
<1>6. UniqueImpliesConsistent
  <2> SUFFICES ASSUME NEW r \in Rank, NEW j \in DOMAIN said[r], NEW k \in DOMAIN said[r],
                      j < k, Said(r, j, "isUnique", "yes"), script[k] = "isConsistent"
               PROVE  said[r][k] = "yes"
    BY DEF UniqueImpliesConsistent
  <2>1. UniqueAt(j) = "yes" /\ j \in Nat /\ k \in Nat
    BY Answered DEF Said, Right
  <2>2. UniqueAt(k) = "yes"
    BY <2>1, TriagedStays DEF UniqueAt
  <2>3. QED
    BY <2>2, Answered DEF Right
<1>7. FullyImpliesWell
  <2> SUFFICES ASSUME Threshold > 1,
                      NEW r \in Rank, NEW j \in DOMAIN said[r], NEW k \in DOMAIN said[r],
                      Said(r, j, "isFullyDistributed", "yes"), script[k] = "isWellDistributed",
                      \E i \in 1 .. k-1 : script[i] = "triage"
               PROVE  said[r][k] = "yes"
    BY DEF FullyImpliesWell
  <2>1. Right(j) = "yes" /\ script[j] = "isFullyDistributed"
    BY Answered DEF Said
  <2>2. ~AnyRemote
    BY <2>1 DEF Right, YesIf, LocalAt
  <2>3. Triaged(k)
    BY DEF Triaged
  <2>4. CardAt(k) = N /\ CutoffAt(k) = Limit
    BY <2>2, <2>3 DEF CardAt, CutoffAt, CardinalityEst
  <2>5. Limit < N /\ N # NotFilled
    <3> DEFINE q == N \div Threshold
    <3>1. N \in Nat \ {0} /\ Threshold \in Nat /\ Threshold >= 2
      BY BaseAssumption
    <3>2. /\ q \in Nat /\ N % Threshold \in Nat
          /\ N = Threshold * q + (N % Threshold)
      BY <3>1
    <3> HIDE DEF q
    <3>3. 2 * q <= Threshold * q
      BY <3>1, <3>2
    <3>4. Threshold * q \in Nat
      BY <3>1, <3>2
    <3>5. q < N
      BY <3>1, <3>2, <3>3, <3>4
    <3>6. QED
      BY <3>1, <3>5 DEF q, Limit, NotFilled
  <2>6. ~PoorlyAt(k)
    BY <2>4, <2>5, LimitType, BaseAssumption DEF PoorlyAt
  <2>7. WellAnswerAt(k) = "yes"
    BY <2>4, <2>5, <2>6 DEF WellAnswerAt, PoorlyAnswerAt, YesIf
  <2>8. QED
    BY <2>7, Answered DEF Right
<1>8. UniqueImpliesPoorly
  <2> SUFFICES ASSUME N >= Threshold, N >= NprocToSaturate,
                      NEW r \in Rank, NEW j \in DOMAIN said[r], NEW k \in DOMAIN said[r],
                      Said(r, j, "isUnique", "yes"), script[k] = "isPoorlyDistributed"
               PROVE  said[r][k] = "yes"
    BY DEF UniqueImpliesPoorly
  <2>1. UniqueAt(j) = "yes"
    BY Answered DEF Said, Right
  <2>2. Triaged(j) /\ FewAt(j) /\ OneUri
    BY <2>1 DEF UniqueAt, YesIf
  <2>3. Limit \in Nat /\ Limit >= 1
    BY BaseAssumption, LimitType DEF Limit
  <2>4. N \in Nat /\ NprocToSaturate \in Nat
    BY BaseAssumption, ScriptAssumption
  <2>5. CardinalityEst(uri, AnyRemote) <= Limit
    <3>1. CASE ~AnyRemote
      <4>1. CardAt(j) = N /\ CutoffAt(j) = Limit
        BY <2>2, <3>1 DEF CardAt, CutoffAt, CardinalityEst
      <4>2. N <= Limit
        BY <2>2, <2>3, <2>4, <4>1 DEF FewAt, PoorlyAt
      <4>3. QED
        BY <3>1, <4>2 DEF CardinalityEst
    <3>2. CASE AnyRemote
      <4>1. CardinalityEst(uri, AnyRemote) = CardinalityEst(uri, TRUE)
        BY <3>2 DEF CardinalityEst
      <4>2. IsOneUri(uri) /\ uri \in [Rank -> Uri] /\ Limit > 0
        BY <2>2, <2>3 DEF LockInv, NodesOK, OneUri, IsOneUri
      <4>3. CardinalityEst(uri, TRUE) = 1
        BY <4>2, OneServerIsEstimatedOne
      <4>4. QED
        BY <2>3, <4>1, <4>3
    <3>3. QED
      BY <3>1, <3>2
  <2>6. PoorlyAt(k)
    <3>1. CASE Triaged(k)
      BY <2>5, <3>1 DEF PoorlyAt, CardAt, CutoffAt
    <3>2. CASE ~Triaged(k)
      BY <3>2 DEF PoorlyAt, CardAt, CutoffAt, NotFilled
    <3>3. QED
      BY <3>1, <3>2
  <2>7. PoorlyAnswerAt(k) = "yes"
    BY <2>6 DEF PoorlyAnswerAt, YesIf
  <2>8. QED
    BY <2>7, Answered DEF Right
<1>9. QED
  BY <1>1, <1>2, <1>3, <1>4, <1>5, <1>6, <1>7, <1>8

(* No program registers the storage classifier after the generator.        *)
StorageFirst ==
  \A i, j \in Calls : script[i] = "initialize" /\ script[j] = "initializeStorage" => j < i

(* The program has no error in it after initialize and triage.             *)
LEMMA NoErrorInProgram ==
  ASSUME LockInv, StorageFirst
  PROVE  NoNeedlessError
<1> SUFFICES ASSUME NEW r \in Rank, NEW k \in DOMAIN said[r],
                    \E j \in 1 .. k-1 : script[j] = "initialize",
                    \E j \in 1 .. k-1 : script[j] = "triage"
             PROVE  said[r][k] \notin {"error", "NULL", "false"}
  BY DEF NoNeedlessError
<1>1. said[r][k] = Right(k) /\ k \in Nat /\ k \in Calls /\ Len(script) \in Nat
  BY Answered
<1>2. Triaged(k)
  BY DEF Triaged
<1>3. Registered(k)
  <2>1. PICK i \in 1 .. k-1 : script[i] = "initialize"
    OBVIOUS
  <2>2. ASSUME NEW j \in i+1 .. k-1 PROVE script[j] # "initializeStorage"
    <3>1. i \in Calls /\ j \in Calls /\ ~(j < i)
      BY <1>1, <2>1 DEF Calls
    <3>2. QED
      BY <2>1, <3>1 DEF StorageFirst
  <2>3. QED
    BY <2>1, <2>2 DEF Registered
<1>4. PoorlyAnswerAt(k) # "error" /\ WellAnswerAt(k) # "error"
  <2>1. CutoffAt(k) \in Nat
    BY <1>2, LimitType DEF CutoffAt
  <2>2. CardAt(k) = NotFilled => PoorlyAt(k)
    BY <2>1 DEF PoorlyAt, NotFilled
  <2>3. QED
    BY <2>2 DEF PoorlyAnswerAt, WellAnswerAt, YesIf
<1>5. UniqueAt(k) \in {"yes", "no"}
  BY <1>2 DEF UniqueAt, YesIf
<1>6. /\ Signing(k) => ByRep(k) \/ Alone(k)
      /\ script[k] = "isConsistentSerial" => Alone(k)
  BY <1>2, <1>3 DEF ByRep, Alone
<1>7. ASSUME script[k] \in {"isConsistent", "isConsistentSerial"}
      PROVE  Right(k) \in {"yes", "no"}
  BY <1>6, <1>7 DEF Right, Compares, Signing, YesIf
<1>8. script[k] = "signiture" => Right(k) = "buffer"
  BY <1>6 DEF Right, Signing
<1>9. CASE script[k] \in {"isConsistent", "isConsistentSerial", "signiture"}
  BY <1>1, <1>7, <1>8, <1>9
<1>10. CASE script[k] \notin {"isConsistent", "isConsistentSerial", "signiture"}
  BY <1>1, <1>2, <1>4, <1>5, <1>10 DEF Right, YesIf, PoorlyAnswerAt, WellAnswerAt
<1>11. QED
  BY <1>9, <1>10
-----------------------------------------------------------------------------
(* What holds of every behaviour that begins with nothing wrong.           *)

(* No process waits for another that waits elsewhere: of the processes in  *)
(* operations on MPI_COMM_WORLD all are in the same one of the same call,  *)
(* whichever branches their own state took them through                    *)
(* (FastGlobalFileStat.C:370-548, SyncFastGlobalFileStat.C:148-462).       *)
THEOREM SameCollectiveAlways == Spec /\ NothingWrong => []SameCollective
BY LockStep, LockInvImplies, PTL

(* All processes get the same answer to the same call                      *)
(* (SyncFastGlobalFileStat.C:81-278).                                      *)
THEOREM AgreementAlways == Spec /\ NothingWrong => []Agreement
BY LockStep, LockInvImplies, PTL

(* isUnique says yes of one server only, and no only where there are       *)
(* several or too many to look (SyncFastGlobalFileStat.C:148-176).         *)
THEOREM UniqueIsRight == Spec /\ NothingWrong => []UniqueRight
BY LockStep, LockInvImplies, PTL

(* isConsistent says no only of files that are not all the same            *)
(* (SyncFastGlobalFileStat.C:179-278).                                     *)
THEOREM NoIsNeverFalse == Spec /\ NothingWrong => []NoFalseNo
BY LockStep, LockInvImplies, PTL

(* The buffer that signiture returns is the signature of the file the      *)
(* process sees itself, whoever computed it                                *)
(* (SyncFastGlobalFileStat.C:281-462).                                     *)
THEOREM SignitureIsOwn == Spec /\ NothingWrong => []SignitureRight
BY LockStep, LockInvImplies, PTL

(* A path that isUnique has said yes of is consistent for ever after       *)
(* (SyncFastGlobalFileStat.h:140).                                         *)
THEOREM UniqueThenConsistent == Spec /\ NothingWrong => []UniqueImpliesConsistent
BY LockStep, LockInvImplies, PTL

(* Where the processes are as many as both thresholds, a path that         *)
(* isUnique has said yes of is poorly distributed                          *)
(* (SyncFastGlobalFileStat.h:131-132).                                     *)
THEOREM UniqueThenPoorly == Spec /\ NothingWrong => []UniqueImpliesPoorly
BY LockStep, LockInvImplies, PTL

(* A triaged path that isFullyDistributed says yes of is well              *)
(* distributed, for thresholds above 1                                     *)
(* (SyncFastGlobalFileStat.h:105-106).                                     *)
THEOREM FullyThenWell == Spec /\ NothingWrong => []FullyImpliesWell
BY LockStep, LockInvImplies, PTL

(* No step changes what the nodes are.                                     *)
LEMMA NextNode == [Next]_vars => NodeSame
<1> SUFFICES ASSUME [Next]_vars PROVE NodeSame
  OBVIOUS
<1> USE DEF NodeSame, node
<1>1. CASE UNCHANGED vars
  BY <1>1 DEF vars
<1>2. CASE Collective
  BY <1>2 DEF Collective, Classify, ReduceMax, ReduceBor, ReduceSum, Grouping, CommSplit,
     BcastCompare, BcastShare
<1>3. ASSUME NEW r \in Rank, Local(r) PROVE NodeSame
  BY <1>3 DEF Local, Initialize, Triage, TriageRemote, TriageBloom, Ask, ForceInfo, Unique,
     SignUnregistered, SignUngrouped, SignByRep, SignAlone, SumRc, Split, Share, Compare
<1>4. QED
  BY <1>1, <1>2, <1>3 DEF Next

(* Where no node fails, no call that follows initialize and triage fails,  *)
(* in any program that sets up the storage classifier before it registers  *)
(* a generator (SyncFastGlobalFileStat.h:77, MountPointsClassifier.C:278).   *)
THEOREM NoErrorWithoutCause == Spec /\ NoAliases /\ StorageFirst => []NoNeedlessError
<1> DEFINE Broken == \E q \in Rank : health[q] # "ok"
<1>1. NoAliases => NothingWrong \/ Broken
  BY DEF NothingWrong
<1>2. StorageFirst /\ [Next]_vars => StorageFirst'
  BY NextNode DEF NodeSame, StorageFirst, Calls
<1>3. Broken /\ [Next]_vars => Broken'
  BY NextNode DEF NodeSame
<1>4. LockInv /\ StorageFirst => NoNeedlessError
  BY NoErrorInProgram
<1>5. Broken => NoNeedlessError
  BY DEF NoNeedlessError
<1> HIDE DEF Broken
<1>6. QED
  BY <1>1, <1>2, <1>3, <1>4, <1>5, LockStep, PTL DEF Spec
=============================================================================
