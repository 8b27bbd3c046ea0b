---------------------------- MODULE SyncProgram ----------------------------
(***************************************************************************)
(* What a program of SyncStatus comes to when nothing is wrong with any    *)
(* node and no two URIs are aliases.  A process knows only its own node,   *)
(* but what it does at a call then is a function of the call's number:     *)
(* which collectives on MPI_COMM_WORLD the call makes (OnPath), what the   *)
(* object holds when it begins (CardAt, CutoffAt, ...) and what it answers *)
(* (Right).  LockInv says that every process follows that function.        *)
(***************************************************************************)
EXTENDS SyncStatus

(* No address has two names, and nothing fails.                            *)
NoAliases == \A r, q \in Rank : uri[r] # uri[q] => ~Aliased(uri[r], uri[q])
NothingWrong == NoAliases /\ \A r \in Rank : health[r] = "ok"

(* Of the file on all nodes.                                               *)
AnyRemote == \E r \in Rank : remote[r]
AllSame == \A r \in Rank : file[r] = file[0]
OneUri == \A r \in Rank : uri[r] = uri[0]

-----------------------------------------------------------------------------
(* The object at the start of call k.                                      *)

Triaged(k) == \E j \in 1 .. k-1 : script[j] = "triage"

Registered(k) ==
  \E i \in 1 .. k-1 : /\ script[i] = "initialize"
                      /\ \A j \in i+1 .. k-1 : script[j] # "initializeStorage"

CardAt(k) == IF Triaged(k) THEN CardinalityEst(uri, AnyRemote) ELSE NotFilled
CutoffAt(k) == IF Triaged(k) THEN Limit ELSE NotFilled
LocalAt(k) == Triaged(k) /\ ~AnyRemote

PoorlyAt(k) == CardAt(k) <= CutoffAt(k)
FewAt(k) == PoorlyAt(k) \/ CardAt(k) < NprocToSaturate

-----------------------------------------------------------------------------
(* What call k does.                                                       *)

PoorlyAnswerAt(k) ==
  IF ~PoorlyAt(k) /\ CardAt(k) = NotFilled THEN "error" ELSE YesIf(PoorlyAt(k))

WellAnswerAt(k) ==
  CASE PoorlyAnswerAt(k) = "yes" -> "no"
    [] PoorlyAnswerAt(k) = "no" -> "yes"
    [] OTHER -> "error"

UniqueAt(k) == IF Triaged(k) THEN YesIf(FewAt(k) /\ OneUri) ELSE "error"

(* It signs; by the representatives; every process for itself.             *)
Signing(k) ==
  script[k] = "signiture" \/ (script[k] = "isConsistent" /\ UniqueAt(k) # "yes")

ByRep(k) == Signing(k) /\ Registered(k) /\ PoorlyAt(k) /\ Triaged(k)

Alone(k) ==
  /\ Registered(k)
  /\ script[k] = "isConsistentSerial" \/ (Signing(k) /\ ~PoorlyAt(k))

Compares(k) == script[k] # "signiture" /\ (ByRep(k) \/ Alone(k))

(* It needs the groups, and is the first to.                               *)
Needs(k) ==
  \/ script[k] \in {"isUnique", "isConsistent"} /\ FewAt(k) /\ Triaged(k)
  \/ script[k] = "forceComputeParallelInfo" /\ Triaged(k)
  \/ script[k] = "signiture" /\ ByRep(k)

Groups(k) == Needs(k) /\ \A j \in 1 .. k-1 : ~Needs(j)

Right(k) ==
  CASE script[k] = "isPoorlyDistributed" -> PoorlyAnswerAt(k)
    [] script[k] = "isWellDistributed" -> WellAnswerAt(k)
    [] script[k] = "isFullyDistributed" -> YesIf(LocalAt(k))
    [] script[k] = "isUnique" -> UniqueAt(k)
    [] script[k] \in {"isConsistent", "isConsistentSerial"} ->
         IF script[k] = "isConsistent" /\ UniqueAt(k) = "yes" THEN "yes"
         ELSE IF Compares(k) THEN YesIf(AllSame) ELSE "error"
    [] script[k] = "signiture" -> IF ByRep(k) \/ Alone(k) THEN "buffer" ELSE "NULL"
    [] script[k] = "forceComputeParallelInfo" -> IF Triaged(k) THEN "true" ELSE "false"
    [] OTHER -> "true"

-----------------------------------------------------------------------------
(* The points of a call are numbered in the order in which any call passes *)
(* them; of the three broadcasts each has its own.                         *)

Order(point, part) ==
  CASE point = "idle" -> 0
    [] point \in {"classify", "anyRemote", "groupUnique", "groupForce"} -> 1
    [] point = "bloom" -> 2
    [] point = "sign" -> 3
    [] point = "groupSign" -> 4
    [] point = "sumRc" -> 5
    [] point = "split" -> 4 + 2 * part
    [] point = "share" -> 5 + 2 * part
    [] point = "compare" -> 12
    [] point = "differ" -> 13

(* Where a rank is in its call.                                            *)
Place(r) == Order(pc[r], stage[r])

(* Call k makes a collective on MPI_COMM_WORLD at point o.                 *)
OnPath(k, o) ==
  \/ o = 1 /\ script[k] \in {"initializeStorage", "triage"}
  \/ o = 1 /\ script[k] # "signiture" /\ Groups(k)
  \/ o = 2 /\ script[k] = "triage" /\ AnyRemote /\ Limit > 0
  \/ o = 4 /\ script[k] = "signiture" /\ Groups(k)
  \/ o = 5 /\ ByRep(k)
  \/ o \in {6, 8, 10} /\ ByRep(k) /\ ~OneUri
  \/ o \in {7, 9, 11} /\ ByRep(k) /\ OneUri
  \/ o \in {12, 13} /\ Compares(k)

(* Rank r has the collective at point o of call k behind it.               *)
Done(r, k, o) ==
  \/ k < call[r]
  \/ k = call[r] /\ o < Place(r)
  \/ k = call[r] /\ o = Place(r) /\ ready[r]

(* A collective of the program that one rank has behind it all have.       *)
InStep ==
  \A r, q \in Rank : \A k \in Calls : \A o \in 1 .. 13 :
    OnPath(k, o) /\ Done(r, k, o) => Done(q, k, o)

(* The call that groups, and who has been grouped by it.                   *)
GroupPoint(k) == IF script[k] = "signiture" THEN 4 ELSE 1
Surveyed(r) == \E k \in Calls : Groups(k) /\ Done(r, k, GroupPoint(k))

-----------------------------------------------------------------------------
(* Rank r follows the program.                                             *)

(* It has given the right answers,                                         *)
AnswersOK(r) ==
  /\ call[r] \in 1 .. Len(script) + 1
  /\ pc[r] # "idle" => call[r] <= Len(script)
  /\ said[r] \in Seq(Answer) /\ Len(said[r]) = call[r] - 1
  /\ \A k \in 1 .. call[r] - 1 : said[r][k] = Right(k)

(* is at a point of its call,                                              *)
PlaceOK(r) ==
  \/ pc[r] = "idle" /\ ~ready[r] /\ stage[r] = 0
  \/ pc[r] = "classify" /\ script[call[r]] = "initializeStorage" /\ stage[r] = 0
  \/ pc[r] = "anyRemote" /\ script[call[r]] = "triage" /\ stage[r] = 0
  \/ pc[r] = "bloom" /\ OnPath(call[r], 2) /\ stage[r] = 0
  \/ /\ pc[r] = "groupUnique" /\ script[call[r]] \in {"isUnique", "isConsistent"}
     /\ Groups(call[r]) /\ stage[r] = 0
  \/ /\ pc[r] = "groupForce" /\ script[call[r]] = "forceComputeParallelInfo"
     /\ Groups(call[r]) /\ stage[r] = 0
  \/ /\ pc[r] = "sign" /\ script[call[r]] = "isConsistent"
     /\ UniqueAt(call[r]) # "yes" /\ ~ready[r] /\ stage[r] = 0
  \/ /\ pc[r] = "groupSign" /\ script[call[r]] = "signiture"
     /\ Groups(call[r]) /\ stage[r] = 0
  \/ pc[r] = "sumRc" /\ ByRep(call[r]) /\ stage[r] = 0
  \/ pc[r] = "split" /\ ByRep(call[r]) /\ ~OneUri /\ stage[r] \in 1 .. 3
  \/ pc[r] = "share" /\ ByRep(call[r]) /\ stage[r] \in 1 .. 3
  \/ /\ pc[r] \in {"compare", "differ"} /\ Compares(call[r])
     /\ stage[r] = IF ByRep(call[r]) THEN 3 ELSE 0

(* has been given the right result there,                                  *)
GotOK(r) ==
  /\ In(r, "anyRemote") => got[r] = IF AnyRemote THEN 1 ELSE 0
  /\ In(r, "bloom") => got[r] = PopCount(Filter(uri))
  /\ In(r, "sumRc") => got[r] = 0
  /\ In(r, "share") /\ stage[r] = 2 => got[r] = 1
  /\ In(r, "share") /\ stage[r] = 3 => got[r] = file[r]
  /\ In(r, "compare") => got[r] = file[0]
  /\ pc[r] = "differ" => got[r] = IF ~ready[r] THEN file[0] ELSE IF AllSame THEN 0 ELSE 1

(* knows of the distribution,                                              *)
DistOK(r) ==
  /\ generator[r] <=> pc[r] # "classify" /\ Registered(call[r])
  /\ card[r] = CardAt(call[r])
  /\ cutoff[r] = IF pc[r] = "bloom" THEN Limit ELSE CutoffAt(call[r])
  /\ known[r] <=> pc[r] = "bloom" \/ Triaged(call[r])
  /\ nodeLocal[r] <=> LocalAt(call[r])

(* and of the groups, what its calls so far tell,                          *)
DescOK(r) ==
  /\ mapped[r] <=> Surveyed(r)
  /\ info[r] = IF mapped[r] THEN GroupInfoOf(NoGroupInfo, uri, r) ELSE NoGroupInfo

(* Those that see the file on the same server, and who represents them.    *)
Mates(r) == {q \in Rank : uri[q] = uri[r]}
Lowest(r) == \A q \in Mates(r) : r <= q

(* and holds the signature of its file where it should.                    *)
SignOK(r) ==
  /\ pc[r] = "sumRc" => rc[r] = 0
  /\ pc[r] \in {"sumRc", "split", "share"} /\ Lowest(r) => size[r] = 1 /\ sig[r] = file[r]
  /\ pc[r] \in {"split", "share"} /\ stage[r] = 3 => size[r] = 1
  /\ pc[r] \in {"compare", "differ"} => size[r] = 1 /\ sig[r] = file[r]
  /\ pc[r] = "idle" /\ call[r] > 1 /\ script[call[r]-1] = "signiture"
       /\ (ByRep(call[r]-1) \/ Alone(call[r]-1)) => sig[r] = file[r]
  /\ comm[r] \in {{}, Mates(r)}

(* Every variable is a function of the rank.                               *)
Domains ==
  /\ DOMAIN call = Rank /\ DOMAIN pc = Rank /\ DOMAIN stage = Rank
  /\ DOMAIN ready = Rank /\ DOMAIN got = Rank /\ DOMAIN said = Rank
  /\ DOMAIN generator = Rank /\ DOMAIN card = Rank /\ DOMAIN cutoff = Rank
  /\ DOMAIN nodeLocal = Rank /\ DOMAIN known = Rank
  /\ DOMAIN info = Rank /\ DOMAIN mapped = Rank
  /\ DOMAIN rc = Rank /\ DOMAIN sig = Rank /\ DOMAIN size = Rank /\ DOMAIN comm = Rank

RankOK(r) ==
  AnswersOK(r) /\ PlaceOK(r) /\ GotOK(r) /\ DistOK(r) /\ DescOK(r) /\ SignOK(r)

(* The inductive invariant.                                                *)
LockInv ==
  /\ script \in Scripts /\ NodesOK /\ NothingWrong /\ Domains
  /\ ready \in [Rank -> BOOLEAN]
  /\ \A r \in Rank : RankOK(r)
  /\ InStep
=============================================================================
