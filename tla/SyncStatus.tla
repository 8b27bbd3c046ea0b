----------------------------- MODULE SyncStatus -----------------------------
(***************************************************************************)
(* SyncGlobalFileStatus and the GlobalFileStatusBase under it, over        *)
(* MPICommFabric: N processes make the same calls, one after the other, on *)
(* one file.  A call is a chain of collective operations with local code,  *)
(* and local errors, in between.                                           *)
(*                                                                         *)
(* pc[r] is the collective that rank r has entered: it is blocked there    *)
(* while ~ready[r] and runs on, to its next collective or to the end of    *)
(* the call, once ready[r].  "idle" is between two calls, "sign" where     *)
(* isConsistent calls signiture.  A collective completes when all ranks of *)
(* its communicator have entered one of its kind, as MPI may make them     *)
(* wait for each other; where they have not, MPI defines no outcome and    *)
(* none completes.  grouping is one collective here and leaves on every    *)
(* rank the map MPIMapReduce shows it to leave.                            *)
(***************************************************************************)
EXTENDS FileStatusBase, Sequences

CONSTANTS
  NprocToSaturate,  \* FGFS_NPROC_TO_SATURATE
  Sig,              \* signatures of file contents
  Health,           \* what may go wrong on a node
  Scripts           \* programs: the calls every process makes, in order

HealthKind == {"ok",       \* nothing
               "lookup",   \* getFileUriInfo finds no mount point
               "stat",     \* stat fails
               "open"}     \* no regular readable file, open or signature fails

Query == {"isPoorlyDistributed", "isWellDistributed", "isFullyDistributed"}

ASSUME ScriptAssumption ==
  /\ NprocToSaturate \in Nat
  /\ Sig \subseteq Nat \ {0}
  /\ Health \subseteq HealthKind
  /\ Scripts \subseteq Seq(Query \cup {"triage", "isUnique", "isConsistent", "signiture",
                              "isConsistentSerial", "forceComputeParallelInfo",
                              "initialize", "initializeStorage"})

NoSig == 0          \* a signature buffer of no bytes

VARIABLES
  script,                        \* the program that runs
  uri, remote, file, health,     \* what each rank finds on its node
  call, pc, stage, ready, got,   \* control: script position, collective, result
  generator,                     \* fileSignitureGen is set
  card, cutoff, nodeLocal,       \* mCardinalityEst, mHiLoCutoff, mNodeLocal
  known,                         \* the FileUriInfo has been filled
  info, mapped,                  \* group info; groupingMap is not empty
  rc, sig, size,                 \* locals of signiture: rc, retbuf, *sigSize
  comm,                          \* communicator from MPI_Comm_split
  said                           \* what the calls have returned

node == <<script, uri, remote, file, health>>
dist == <<generator, card, cutoff, nodeLocal, known>>
desc == <<info, mapped>>
locals == <<rc, sig, size, comm>>
control == <<call, pc, stage, ready, got, said>>
vars == <<node, dist, desc, locals, control>>

Answer == {"yes", "no", "error", "true", "false", "buffer", "NULL"}

TypeOK ==
  /\ script \in Scripts
  /\ uri \in [Rank -> Uri] /\ remote \in [Rank -> BOOLEAN]
  /\ file \in [Rank -> Sig] /\ health \in [Rank -> Health]
  /\ call \in [Rank -> 1 .. Len(script) + 1]
  /\ pc \in [Rank -> {"idle", "sign", "classify", "anyRemote", "bloom", "groupUnique", "groupSign",
                      "groupForce", "sumRc", "split", "share", "compare", "differ"}]
  /\ stage \in [Rank -> 0 .. 3]
  /\ ready \in [Rank -> BOOLEAN]
  /\ got \in [Rank -> Int]
  /\ generator \in [Rank -> BOOLEAN]
  /\ card \in [Rank -> {NotFilled, N, Estimate(PopCount(Filter(uri)))}]
  /\ cutoff \in [Rank -> Int]
  /\ nodeLocal \in [Rank -> BOOLEAN] /\ known \in [Rank -> BOOLEAN]
  /\ info \in [Rank -> GroupInfo] /\ mapped \in [Rank -> BOOLEAN]
  /\ rc \in [Rank -> {-1, 0, 1}] /\ sig \in [Rank -> Sig \cup {NoSig}]
  /\ size \in [Rank -> {0, 1}] /\ comm \in [Rank -> SUBSET Rank]
  /\ \A r \in Rank : said[r] \in Seq(Answer) /\ Len(said[r]) = call[r] - 1

OneFileServer == \A r, q \in Rank : SameServer(uri[r], uri[q])

(* One server has one file under the path, and is remote or is not.        *)
NodesOK ==
  /\ uri \in [Rank -> Uri]
  /\ remote \in [Rank -> BOOLEAN]
  /\ file \in [Rank -> Sig]
  /\ health \in [Rank -> Health]
  /\ \A r, q \in Rank : SameServer(uri[r], uri[q]) => /\ file[r] = file[q]
                                                      /\ remote[r] = remote[q]

Init ==
  /\ script \in Scripts
  /\ NodesOK
  /\ call = [r \in Rank |-> 1] /\ pc = [r \in Rank |-> "idle"]
  /\ stage = [r \in Rank |-> 0] /\ ready = [r \in Rank |-> FALSE]
  /\ got = [r \in Rank |-> 0] /\ said = [r \in Rank |-> <<>>]
  /\ generator = [r \in Rank |-> FALSE]
  /\ card = [r \in Rank |-> NotFilled] /\ cutoff = [r \in Rank |-> NotFilled]
  /\ nodeLocal = [r \in Rank |-> FALSE] /\ known = [r \in Rank |-> FALSE]
  /\ info = [r \in Rank |-> NoGroupInfo] /\ mapped = [r \in Rank |-> FALSE]
  /\ rc = [r \in Rank |-> 0] /\ sig = [r \in Rank |-> NoSig]
  /\ size = [r \in Rank |-> 0] /\ comm = [r \in Rank |-> {}]

-----------------------------------------------------------------------------
(* Control.                                                                *)

Asked(r, methods) ==
  pc[r] = "idle" /\ call[r] <= Len(script) /\ script[call[r]] \in methods

In(r, point) == pc[r] = point /\ ready[r]     \* its result has arrived

GoTo(r, point) ==
  /\ pc' = [pc EXCEPT ![r] = point]
  /\ ready' = [ready EXCEPT ![r] = FALSE]
  /\ UNCHANGED <<call, stage, got, said>>

Return(r, answer) ==
  /\ pc' = [pc EXCEPT ![r] = "idle"]
  /\ ready' = [ready EXCEPT ![r] = FALSE]
  /\ call' = [call EXCEPT ![r] = @ + 1]
  /\ said' = [said EXCEPT ![r] = Append(@, answer)]
  /\ stage' = [stage EXCEPT ![r] = 0]
  /\ got' = [got EXCEPT ![r] = 0]

-----------------------------------------------------------------------------
(* The static initializers: of this class, and of the storage classifier   *)
(* and the asynchronous status, which call this one without a generator    *)
(* and then classify the mount points together (StorageClassifier).        *)

Initialize(r) ==
  /\ \/ /\ Asked(r, {"initialize"})
        /\ generator' = [generator EXCEPT ![r] = TRUE]
        /\ Return(r, "true")
     \/ /\ Asked(r, {"initializeStorage"})
        /\ generator' = [generator EXCEPT ![r] = FALSE]
        /\ GoTo(r, "classify")
     \/ In(r, "classify") /\ Return(r, "true") /\ UNCHANGED generator
  /\ UNCHANGED <<node, card, cutoff, nodeLocal, known, desc, locals>>

-----------------------------------------------------------------------------
(* triage: bloomfilterCardinalityEst.                                      *)

Triage(r) ==
  /\ Asked(r, {"triage"})
  /\ GoTo(r, "anyRemote")
  /\ UNCHANGED <<node, dist, desc, locals>>

(* Faults: a rank goes by its own flag; a local path counts as one group.  *)
TriageRemote_OwnFlag(r) ==
  LET sparse == ~remote[r] \/ Limit = 0
  IN  /\ In(r, "anyRemote")
      /\ cutoff' = [cutoff EXCEPT ![r] = Limit]
      /\ known' = [known EXCEPT ![r] = TRUE]
      /\ card' = [card EXCEPT ![r] = IF sparse THEN N ELSE @]
      /\ nodeLocal' = [nodeLocal EXCEPT ![r] = @ \/ ~remote[r]]
      /\ IF sparse THEN Return(r, "true") ELSE GoTo(r, "bloom")
      /\ UNCHANGED <<node, generator, desc, locals>>

TriageRemote_OneGroup(r) ==
  LET sparse == got[r] = 0 \/ Limit = 0
  IN  /\ In(r, "anyRemote")
      /\ cutoff' = [cutoff EXCEPT ![r] = Limit]
      /\ known' = [known EXCEPT ![r] = TRUE]
      /\ card' = [card EXCEPT ![r] = IF sparse THEN 1 ELSE @]
      /\ nodeLocal' = [nodeLocal EXCEPT ![r] = @ \/ got[r] = 0]
      /\ IF sparse THEN Return(r, "true") ELSE GoTo(r, "bloom")
      /\ UNCHANGED <<node, generator, desc, locals>>

(* After the first allReduce; a rank whose lookup fails leaves here, the   *)
(* others may go on to the second.                                         *)
TriageRemote(r) ==
  LET sparse == got[r] = 0 \/ Limit = 0
  IN  /\ In(r, "anyRemote")
      /\ cutoff' = [cutoff EXCEPT ![r] = Limit]
      /\ IF health[r] = "lookup"
         THEN Return(r, "false") /\ UNCHANGED <<card, nodeLocal, known>>
         ELSE /\ known' = [known EXCEPT ![r] = TRUE]
              /\ card' = [card EXCEPT ![r] = IF sparse THEN N ELSE @]
              /\ nodeLocal' = [nodeLocal EXCEPT ![r] = @ \/ got[r] = 0]
              /\ IF sparse THEN Return(r, "true") ELSE GoTo(r, "bloom")
      /\ UNCHANGED <<node, generator, desc, locals>>

TriageBloom(r) ==
  /\ In(r, "bloom")
  /\ card' = [card EXCEPT ![r] = Estimate(got[r])]
  /\ Return(r, "true")
  /\ UNCHANGED <<node, generator, cutoff, nodeLocal, known, desc, locals>>

-----------------------------------------------------------------------------
(* The queries that need no communication.                                 *)

Poorly_Strictly(r) == card[r] < cutoff[r]      \* fault: off by one
Poorly(r) == card[r] <= cutoff[r]

YesIf(b) == IF b THEN "yes" ELSE "no"

(* The error of a cardinality that is not filled comes second: with the    *)
(* cutoff not filled either the first test already holds.                  *)
PoorlyAnswer(r) ==
  IF ~Poorly(r) /\ card[r] = NotFilled THEN "error" ELSE YesIf(Poorly(r))

WellAnswer(r) ==
  CASE PoorlyAnswer(r) = "yes" -> "no"
    [] PoorlyAnswer(r) = "no" -> "yes"
    [] OTHER -> "error"

Ask(r) ==
  /\ \/ Asked(r, {"isPoorlyDistributed"}) /\ Return(r, PoorlyAnswer(r))
     \/ Asked(r, {"isWellDistributed"}) /\ Return(r, WellAnswer(r))
     \/ Asked(r, {"isFullyDistributed"}) /\ Return(r, YesIf(nodeLocal[r]))
  /\ UNCHANGED <<node, dist, desc, locals>>

-----------------------------------------------------------------------------
(* Group information: plain_parallelInfo fails without a URI and grouping  *)
(* refuses a descriptor that has a map.                                    *)

Grouped(r) == IsGroupingDone(info[r])
CanGroup(r) == known[r] /\ ~mapped[r]

ForceInfo(r) ==
  /\ \/ /\ Asked(r, {"forceComputeParallelInfo"})
        /\ IF Grouped(r) THEN Return(r, "true")
           ELSE IF CanGroup(r) THEN GoTo(r, "groupForce")
           ELSE Return(r, "false")
     \/ In(r, "groupForce") /\ Return(r, "true")
  /\ UNCHANGED <<node, dist, desc, locals>>

(* isUnique, and what isConsistent does with its answer.                   *)
FewGroups(r) == Poorly(r) \/ card[r] < NprocToSaturate

UniqueIs(r, answer) ==
  IF script[call[r]] = "isConsistent" /\ answer # "yes"
  THEN GoTo(r, "sign")
  ELSE Return(r, answer)

(* Faults: to have grouped is taken for having one group, at any time; in  *)
(* the call that groups.                                                   *)
Unique_OnceGrouped(r) ==
  /\ \/ /\ Asked(r, {"isUnique", "isConsistent"})
        /\ IF FewGroups(r) /\ ~Grouped(r)
           THEN IF CanGroup(r) THEN GoTo(r, "groupUnique") ELSE UniqueIs(r, "error")
           ELSE UniqueIs(r, YesIf(FewGroups(r) /\ Grouped(r)))
     \/ In(r, "groupUnique") /\ UniqueIs(r, "yes")
  /\ UNCHANGED <<node, dist, desc, locals>>

Unique_Regrouping(r) ==      \* fault: grouped again by every call
  /\ \/ /\ Asked(r, {"isUnique", "isConsistent"})
        /\ IF FewGroups(r)
           THEN IF CanGroup(r) THEN GoTo(r, "groupUnique") ELSE UniqueIs(r, "error")
           ELSE UniqueIs(r, "no")
     \/ In(r, "groupUnique") /\ UniqueIs(r, YesIf(IsSingleGroup(info[r])))
  /\ UNCHANGED <<node, dist, desc, locals>>

Unique_WhenGrouping(r) ==
  /\ \/ /\ Asked(r, {"isUnique", "isConsistent"})
        /\ IF FewGroups(r) /\ ~Grouped(r)
           THEN IF CanGroup(r) THEN GoTo(r, "groupUnique") ELSE UniqueIs(r, "error")
           ELSE UniqueIs(r, YesIf(FewGroups(r) /\ IsSingleGroup(info[r])))
     \/ In(r, "groupUnique") /\ UniqueIs(r, "yes")
  /\ UNCHANGED <<node, dist, desc, locals>>

Unique(r) ==
  /\ \/ /\ Asked(r, {"isUnique", "isConsistent"})
        /\ IF FewGroups(r) /\ ~Grouped(r)
           THEN IF CanGroup(r) THEN GoTo(r, "groupUnique") ELSE UniqueIs(r, "error")
           ELSE UniqueIs(r, YesIf(FewGroups(r) /\ IsSingleGroup(info[r])))
     \/ In(r, "groupUnique") /\ UniqueIs(r, YesIf(IsSingleGroup(info[r])))
  /\ UNCHANGED <<node, dist, desc, locals>>

-----------------------------------------------------------------------------
(* signiture: stat and signature by the representatives when the path is   *)
(* poorly distributed, by everyone when it is not.                         *)

AtSign(r) == pc[r] = "sign" \/ Asked(r, {"signiture"})
Signs(r) == generator[r] /\ AtSign(r)

NoSigniture(r) ==
  Return(r, IF script[call[r]] = "signiture" THEN "NULL" ELSE "error")

Signed(r) ==
  IF script[call[r]] = "signiture" THEN Return(r, "buffer") ELSE GoTo(r, "compare")

SignUnregistered(r) ==
  /\ AtSign(r) \/ Asked(r, {"isConsistentSerial"})
  /\ ~generator[r]
  /\ NoSigniture(r)
  /\ UNCHANGED <<node, dist, desc, locals>>

(* stat sets rc to -1 or 0, every error after it adds 1.                   *)
StatRc(r) == CASE health[r] = "stat" -> -1
               [] health[r] = "open" -> 1
               [] OTHER -> 0

SignUngrouped(r) ==
  /\ Signs(r) /\ Poorly(r) /\ ~Grouped(r)
  /\ IF CanGroup(r) THEN GoTo(r, "groupSign") ELSE NoSigniture(r)
  /\ UNCHANGED <<node, dist, desc, locals>>

SignByRep(r) ==
  LET signs == IsRep(info[r]) /\ StatRc(r) = 0
  IN  /\ \/ Signs(r) /\ Poorly(r) /\ Grouped(r)
         \/ In(r, "groupSign")
      /\ rc' = [rc EXCEPT ![r] = IF IsRep(info[r]) THEN StatRc(r) ELSE 0]
      /\ sig' = [sig EXCEPT ![r] = IF signs THEN file[r] ELSE NoSig]
      /\ size' = [size EXCEPT ![r] = IF signs THEN 1 ELSE 0]
      /\ GoTo(r, "sumRc")
      /\ UNCHANGED <<node, dist, desc, comm>>

(* The branch of a well distributed path, and signitureSerial.             *)
SignAlone(r) ==
  /\ \/ Signs(r) /\ ~Poorly(r)
     \/ generator[r] /\ Asked(r, {"isConsistentSerial"})
  /\ IF StatRc(r) = 0
     THEN /\ sig' = [sig EXCEPT ![r] = file[r]]
          /\ size' = [size EXCEPT ![r] = 1]
          /\ Signed(r)
     ELSE NoSigniture(r) /\ UNCHANGED <<sig, size>>
  /\ UNCHANGED <<node, dist, desc, rc, comm>>

(* broadcast(false) of stage 1 the stat, 2 the size, 3 the signature: in a *)
(* communicator split off for the group when there are several groups.     *)
GroupWise_Single(r) == Grouped(r) /\ IsSingleGroup(info[r])    \* fault: IS_NO dropped
GroupWise(r) == Grouped(r) /\ ~IsSingleGroup(info[r])

Broadcast(r, part) ==
  /\ stage' = [stage EXCEPT ![r] = part]
  /\ pc' = [pc EXCEPT ![r] = IF GroupWise(r) THEN "split" ELSE "share"]
  /\ ready' = [ready EXCEPT ![r] = FALSE]
  /\ UNCHANGED <<call, got, said>>

(* Fault: the sum is not looked at.                                        *)
SumRc_Unchecked(r) ==
  /\ In(r, "sumRc")
  /\ Broadcast(r, 1)
  /\ UNCHANGED <<node, dist, desc, locals>>

SumRc(r) ==
  /\ In(r, "sumRc")
  /\ IF got[r] # 0 THEN NoSigniture(r) ELSE Broadcast(r, 1)
  /\ UNCHANGED <<node, dist, desc, locals>>

Split(r) ==
  /\ In(r, "split")
  /\ GoTo(r, "share")
  /\ UNCHANGED <<node, dist, desc, locals>>

(* Faults: one broadcast too many; the same broadcast again.               *)
Share_Fourth(r) ==
  /\ In(r, "share")
  /\ size' = [size EXCEPT ![r] = IF stage[r] = 2 THEN got[r] ELSE @]
  /\ sig' = [sig EXCEPT ![r] = IF stage[r] = 3 THEN got[r] ELSE @]
  /\ IF stage[r] <= 3 THEN Broadcast(r, stage[r] + 1) ELSE Signed(r)
  /\ UNCHANGED <<node, dist, desc, rc, comm>>

Share_Again(r) ==
  /\ In(r, "share")
  /\ size' = [size EXCEPT ![r] = IF stage[r] = 2 THEN got[r] ELSE @]
  /\ sig' = [sig EXCEPT ![r] = IF stage[r] = 3 THEN got[r] ELSE @]
  /\ IF stage[r] < 3 THEN Broadcast(r, stage[r]) ELSE Signed(r)
  /\ UNCHANGED <<node, dist, desc, rc, comm>>

Share(r) ==
  /\ In(r, "share")
  /\ size' = [size EXCEPT ![r] = IF stage[r] = 2 THEN got[r] ELSE @]
  /\ sig' = [sig EXCEPT ![r] = IF stage[r] = 3 THEN got[r] ELSE @]
  /\ IF stage[r] < 3 THEN Broadcast(r, stage[r] + 1) ELSE Signed(r)
  /\ UNCHANGED <<node, dist, desc, rc, comm>>

(* Fault: every rank goes by its own comparison.                           *)
Compare_Own(r) ==
  /\ In(r, "compare") /\ Return(r, YesIf(got[r] = sig[r]))
  /\ UNCHANGED <<node, dist, desc, locals>>

(* isConsistent: rank 0's signature against one's own, then the maximum.   *)
Compare(r) ==
  /\ \/ In(r, "compare") /\ GoTo(r, "differ")
     \/ In(r, "differ") /\ Return(r, YesIf(got[r] = 0))
  /\ UNCHANGED <<node, dist, desc, locals>>

-----------------------------------------------------------------------------
(* The collectives.                                                        *)

Blocked(r, points) == pc[r] \in points /\ ~ready[r]
AllBlocked(points) == \A r \in Rank : Blocked(r, points)

Everywhere(value) == /\ got' = [r \in Rank |-> value]
                     /\ ready' = [r \in Rank |-> TRUE]

(* Fault: the signatures that are equal count as different.                *)
Operand_Equal(r) ==
  IF pc[r] = "anyRemote" THEN remote[r] /\ health[r] # "lookup"
                         ELSE size[r] > 0 /\ sig[r] = got[r]

(* isRemoteFileSystem answers an error where the lookup finds nothing.     *)
Operand(r) ==
  IF pc[r] = "anyRemote" THEN remote[r] /\ health[r] # "lookup"
                         ELSE size[r] > 0 /\ sig[r] # got[r]

ReduceMax ==
  /\ AllBlocked({"anyRemote", "differ"})
  /\ Everywhere(IF \E r \in Rank : Operand(r) THEN 1 ELSE 0)
  /\ UNCHANGED <<node, dist, desc, locals, call, pc, stage, said>>

Classify ==
  /\ AllBlocked({"classify"})
  /\ ready' = [r \in Rank |-> TRUE]
  /\ UNCHANGED <<node, dist, desc, locals, call, pc, stage, got, said>>

ReduceBor ==
  /\ AllBlocked({"bloom"})
  /\ Everywhere(PopCount(Filter(uri)))
  /\ UNCHANGED <<node, dist, desc, locals, call, pc, stage, said>>

ReduceSum ==
  /\ AllBlocked({"sumRc"})
  /\ Everywhere(Cardinality({r \in Rank : rc[r] = 1}) - Cardinality({r \in Rank : rc[r] = -1}))
  /\ UNCHANGED <<node, dist, desc, locals, call, pc, stage, said>>

Grouping ==
  /\ AllBlocked({"groupUnique", "groupSign", "groupForce"})
  /\ info' = [r \in Rank |-> GroupInfoOf(info[r], uri, r)]
  /\ mapped' = [r \in Rank |-> TRUE]
  /\ ready' = [r \in Rank |-> TRUE]
  /\ UNCHANGED <<node, dist, locals, call, pc, stage, got, said>>

CommSplit ==
  /\ AllBlocked({"split"})
  /\ comm' = [r \in Rank |-> {q \in Rank : info[q].groupId = info[r].groupId}]
  /\ ready' = [r \in Rank |-> TRUE]
  /\ UNCHANGED <<node, dist, desc, rc, sig, size, call, pc, stage, got, said>>

(* Rank 0 of a split communicator is its representative, key 0; that of    *)
(* MPI_COMM_WORLD is process 0, whoever represents the one group.          *)
Root(S, groupwise) ==
  CHOOSE q \in S : \A p \in S : IF groupwise THEN IsRep(info[q]) ELSE q <= p

Buffer(r) == CASE stage[r] = 1 -> 0
               [] stage[r] = 2 -> size[r]
               [] stage[r] = 3 -> sig[r]

BcastShare(S, groupwise) ==
  /\ S # {}
  /\ \A q \in S : Blocked(q, {"share"}) /\ GroupWise(q) = groupwise
  /\ \A q, p \in S : stage[q] = stage[p]
  /\ got' = [r \in Rank |-> IF r \in S THEN Buffer(Root(S, groupwise)) ELSE got[r]]
  /\ ready' = [r \in Rank |-> ready[r] \/ r \in S]
  /\ UNCHANGED <<node, dist, desc, locals, call, pc, stage, said>>

(* Ranks that pass different lengths are out of MPI's definition.          *)
BcastCompare ==
  /\ AllBlocked({"compare"})
  /\ \A r \in Rank : size[r] = size[0]
  /\ Everywhere(sig[0])
  /\ UNCHANGED <<node, dist, desc, locals, call, pc, stage, said>>

Collective ==
  \/ Classify \/ ReduceMax \/ ReduceBor \/ ReduceSum \/ Grouping \/ CommSplit \/ BcastCompare
  \/ BcastShare(Rank, FALSE)
  \/ \E r \in Rank : BcastShare(comm[r], TRUE)

Local(r) ==
  \/ Initialize(r) \/ Triage(r) \/ TriageRemote(r) \/ TriageBloom(r)
  \/ Ask(r) \/ ForceInfo(r) \/ Unique(r)
  \/ SignUnregistered(r) \/ SignUngrouped(r) \/ SignByRep(r) \/ SignAlone(r)
  \/ SumRc(r) \/ Split(r) \/ Share(r) \/ Compare(r)

Returned == \A r \in Rank : call[r] = Len(script) + 1

Next == Collective \/ (\E r \in Rank : Local(r)) \/ (Returned /\ UNCHANGED vars)

Spec == Init /\ [][Next]_vars

(* The processes run, and MPI completes what all of them have entered.     *)
Fairness == WF_vars(Collective) /\ \A r \in Rank : WF_vars(Local(r))

FairSpec == Spec /\ Fairness

-----------------------------------------------------------------------------
(* What the calls should have answered.                                    *)

(* Rank r answered the k-th call, of this method, with this answer.        *)
Said(r, k, method, answer) ==
  k \in DOMAIN said[r] /\ script[k] = method /\ said[r][k] = answer

Calls == 1 .. Len(script)

(* Two ranks that wait in operations on MPI_COMM_WORLD wait in the same    *)
(* operation of the same call, although which operations a call makes      *)
(* depends on what the rank found and computed itself                      *)
(* (FastGlobalFileStat.C:370-548, SyncFastGlobalFileStat.C:148-462).       *)
WaitsInWorld(r) ==
  pc[r] \notin {"idle", "sign"} /\ ~ready[r] /\ (pc[r] = "share" => ~GroupWise(r))

SameCollective ==
  \A r, q \in Rank : WaitsInWorld(r) /\ WaitsInWorld(q) =>
    pc[r] = pc[q] /\ call[r] = call[q] /\ stage[r] = stage[q]

(* All processes get the same answer to the same call: a process may act   *)
(* on it without asking the others (SyncFastGlobalFileStat.C:81-278).      *)
Agreement ==
  \A r, q \in Rank : \A k \in DOMAIN said[r] \cap DOMAIN said[q] : said[r][k] = said[q][k]

(* isUnique says yes only of a path that one server serves, and no only if *)
(* several do or there are too many to look                                *)
(* (SyncFastGlobalFileStat.C:148-176).                                     *)
UniqueRight ==
  \A r \in Rank, k \in Calls :
    /\ Said(r, k, "isUnique", "yes") => OneFileServer
    /\ Said(r, k, "isUnique", "no") => ~OneFileServer \/ ~FewGroups(r)

(* isConsistent says yes only of files that are all the same, whoever was  *)
(* asked to sign and whichever rank failed (SyncFastGlobalFileStat.C:      *)
(* 179-278).                                                               *)
NoFalseYes ==
  \A r \in Rank, k \in Calls :
    Said(r, k, "isConsistent", "yes") \/ Said(r, k, "isConsistentSerial", "yes") =>
      \A q, p \in Rank : file[q] = file[p]

(* It says no only of files that are not all the same.                     *)
NoFalseNo ==
  \A r \in Rank, k \in Calls :
    Said(r, k, "isConsistent", "no") \/ Said(r, k, "isConsistentSerial", "no") =>
      \E q, p \in Rank : file[q] # file[p]

(* The buffer signiture returns is the signature of the rank's own file,   *)
(* also where another process computed it (SyncFastGlobalFileStat.C:       *)
(* 281-462).                                                               *)
SignitureRight ==
  \A r \in Rank :
    pc[r] = "idle" /\ call[r] > 1 /\ Said(r, call[r] - 1, "signiture", "buffer") =>
      sig[r] = file[r]

(* "Yes for isUnique implies yes for isConsistent()":                      *)
(* SyncFastGlobalFileStat.h:140.                                           *)
UniqueImpliesConsistent ==
  \A r \in Rank : \A j, k \in DOMAIN said[r] :
    j < k /\ Said(r, j, "isUnique", "yes") /\ script[k] = "isConsistent" =>
      said[r][k] = "yes"

(* "Yes implies yes for isPoorlyDistributed" says SyncFastGlobalFileStat.h *)
(* of isUnique at lines 131-132; true of jobs that have as many processes  *)
(* as the two thresholds.                                                  *)
UniqueImpliesPoorly ==
  N >= Threshold /\ N >= NprocToSaturate =>
  \A r \in Rank : \A j, k \in DOMAIN said[r] :
    Said(r, j, "isUnique", "yes") /\ script[k] = "isPoorlyDistributed" =>
      said[r][k] = "yes"

(* "Yes implies yes for isWellDistributed" says SyncFastGlobalFileStat.h   *)
(* of isFullyDistributed at lines 105-106; true, once the path has been    *)
(* triaged, of thresholds above 1.                                         *)
FullyImpliesWell ==
  Threshold > 1 =>
  \A r \in Rank : \A j, k \in DOMAIN said[r] :
    Said(r, j, "isFullyDistributed", "yes") /\ script[k] = "isWellDistributed"
      /\ (\E i \in 1 .. k-1 : script[i] = "triage") =>
      said[r][k] = "yes"

(* With no more servers than the filter was made for it is never full, so *)
(* that the logarithm is finite (FastGlobalFileStat.C:470-537).            *)
EstimateDefined ==
  (MaxDegree > 0 => Cardinality({uri[r] : r \in Rank}) <= MaxDegree)
    => \A r \in Rank : In(r, "bloom") => got[r] < NumBits

(* Where nothing is wrong with any node, no call that follows initialize   *)
(* and triage fails: initialize is to be called "once for the entire class *)
(* hierarchy", SyncFastGlobalFileStat.h:77.                                *)
NoNeedlessError ==
  \A r \in Rank : \A k \in DOMAIN said[r] :
    said[r][k] \in {"error", "NULL", "false"} =>
      \/ \E q \in Rank : health[q] # "ok"
      \/ \E method \in {"initialize", "triage"} : \A j \in 1 .. k-1 : script[j] # method

(* Nobody is given a signature after a representative has failed: "If      *)
(* non-zero return values from stat have been seen error",                 *)
(* SyncFastGlobalFileStat.C:360.                                           *)
StatErrorSeen ==
  \A r \in Rank : pc[r] \in {"split", "share"} => \A q \in Rank : rc[q] = 0

(* Every call returns on every process.                                    *)
Terminates == <>Returned

(* The queries learn of the file what one survey of all nodes would tell,  *)
(* in whichever order and by whichever calls they learn it: the step that  *)
(* StorageClassifier takes a triage and a grouping for                     *)
(* (FastGlobalFileStat.C:370-587).                                         *)
Abstract == INSTANCE Survey
ImplementsSurvey == Abstract!Spec
=============================================================================
