# A verification of Fast Global File Status

Fast Global File Status (FGFS) answers, on every process of a parallel job and
without hammering the file servers, questions about the file or mount point a
path names *globally*: is it the same one everywhere, how many servers serve
it, are its contents consistent, which file systems are mounted on all nodes
and have the space a job needs.  All of it is built on collective operations,
so the hard part is what the processes do between them: they must agree on
which collective comes next although each knows only its own node, and they
must end up with the same answer in spite of errors some of them meet.

## The system

| Component | State | Operations | Interacts with |
|---|---|---|---|
| `FgfsParDesc`, `ReduceDesc` (`Comm/DistDesc`) | rank, size, URI, grouping map URI -> (first rank, count), group id, size, rank, representative | insert, pack, unpack, eliminateUriAlias, adjustUri, setGroupInfo | passed to every fabric call |
| `BinomialReducer` (`Comm/MPIReduction.h`) | the bit mask of the loop | reduce | `send`, `receive` of the fabric |
| `MPICommFabric` | none of its own | allReduce, broadcast (global or group-wise by `MPI_Comm_split`), mapReduce, grouping | MPI |
| `MRNetCommFabric` | stream, size | the same, front end and back ends with different code | MRNet tree |
| MRNet filters | none | FGFSFilterUp merges the packets of a wave, FGFSFilterDown passes on | run inside MRNet's communication nodes |
| `GlobalFileStatusBase` | cardinality estimate, cutoff, node-local flag, URI | bloomfilterCardinalityEst, plain_parallelInfo | fabric, mount point table |
| `SyncGlobalFileStatus` | as above | triage, isPoorly/Well/FullyDistributed, isUnique, isConsistent, signiture, forceComputeParallelInfo | base class, fabric |
| `AsyncGlobalFileStatus` | the annotated mount points | the same questions, no communication | classifier |
| `MountPointsClassifier` | properties of all global mount points | runClassification | mapReduce, `SyncGlobalFileStatus`, allReduce |
| `GlobalStorageChecker`, `GlobalFileSystemsStatus` | criteria, matches | meetSpaceRequirement, provideBestFileSystems | classifier, triage, grouping, allReduce, broadcast |
| Bloom filter (`bloom.c`) | bits | create, add | base class |
| File signatures (`OpenSSLFileSigGen.h`) | digests | | signiture |
| MRNet wrapper (`test/src/FgfsMRNetWrapper.C`) | process table | start and end of a session on the stream of the fabric | MRNet, the filters |

What is hard to test: the interleaving of the messages of the tree reduction;
jobs whose size is no power of two; sends that may or may not wait; processes
that fail between two collectives; group information left from an earlier call;
two names of one file server; MRNet packets left behind by failed calls; sums
in which errors cancel; an estimate that is too low where two servers share
their bits and infinite where the filter is full; a static generator that
another initialization overwrites; and comparisons at -1 and 0, which mean "not
filled" and "too few processes".  `hazards` in PROJECT.json lists them with their lines.

## Modules

| Module | Models |
|---|---|
| `DistDesc` | the data model of `DistDesc.C`, as operators on maps |
| `Grouping` | abstract: what `CommFabric::grouping` promises |
| `MPIMapReduce` | `MPICommFabric::grouping`/`mapReduce` and the binomial reducer, message by message |
| `MPIMapReduce_proofs` | its invariant, what follows from it, and that it implements `Grouping` |
| `FileStatusBase` | the Bloom filter, the estimate and the groups of `GlobalFileStatusBase`, as operators on the URIs of all processes |
| `Survey` | abstract: what triage and the grouping of one file are for |
| `SyncStatus` | `SyncGlobalFileStatus` and the base class over MPI |
| `SyncStatus_proofs` | its types, the filter, the errors of signiture, and that it implements `Survey` |
| `SyncProgram` | what a program of calls comes to where nothing is wrong: `LockInv` |
| `SyncProgram_proofs` | that every process follows it, and what follows from that |
| `Collectives` | abstract: a sequence of global collectives |
| `MRNetFabric` | `MRNetCommFabric`, the filters over a tree and the session of the wrapper, packet by packet |
| `MRNetFabric_proofs` | its invariants, and that it implements `Collectives` |
| `StorageClassifier` | `runClassification` and `provideBestFileSystems` over MPI |
| `AsyncStatus` | the queries of `AsyncGlobalFileStatus` against what `runClassification` leaves |
| `StorageClassifier_proofs`, `AsyncStatus_proofs` | theorems about these two |
| `DistDesc_lemmas`, `FileStatusBase_lemmas` | lemmas about the operators of those two modules |
| `MC*` | small instances for TLC |

The modules of the code extend `DistDesc`; `SyncStatus` and
`StorageClassifier` also `FileStatusBase`.  `MPIMapReduce` is shown to implement
`Grouping`, `SyncStatus` to implement `Survey`, `MRNetFabric` to implement
`Collectives`.  `SyncStatus` and `StorageClassifier` use a grouping as one step
that leaves the map `MPIMapReduce` is proved to leave, with the URI adjusted the
way `MPICommFabric` adjusts it.  `StorageClassifier` uses triage as the single
step `SyncStatus` is shown to make of it, and `AsyncStatus` extends it, because
an asynchronous query is a function of the classifier's state.

**Data.** A URI is a number, its place in the order of `std::map`; its text, its
address and its packed length are constants.  The address test of
`eliminateUriAlias` is modelled as it is: the second half of it, `!srcAddr2 != -1`,
is always true, which changes no outcome: what it would exclude is excluded by
the comparison of the addresses.  A copied map (`CopyMap`) is what the copy constructor of
`ReduceDesc` makes of it; insertion assigns and keeps its values.  A Bloom filter
is the set of its bits that are 1; the values of the two hash functions are
constants, so an instance can make names collide.  The estimate, a quotient of
logarithms in the code, is worked out in fixed point by repeated
multiplication; that of a full filter is what the conversion of an infinite
double to int gives on x86.

**MPIMapReduce.** `pc[r]` is the place of rank r in the code; `mask[r]` is the
reducer's bit.  Each rank sends at most one message per tag, so a slot per
sender and tag is the network.  `Eager` says whether `MPI_Send` waits for its
receiver.  `MPI_Bcast` makes the others wait for rank 0; whether it lets a rank go before
all have called it is left open, so safety is checked and proved for both.
`MallocFails` is the early return of a rank, which then never calls the second
`MPI_Bcast`: that is a state in which the others may leave it or wait for ever,
and `FairSpec` promises no progress there.  Faults that are written after the
definitions they change (`Unpack_NoCount`, ...) are never used by the
specifications; they record which mistake each property would reveal.

**SyncStatus.** `pc[r]` is the collective in which a rank is blocked, `ready[r]`
that its result has come.  A collective completes when all ranks of its
communicator have entered one of its kind.  `health[r]` is what goes wrong on
the node of r.  `script` is the program that runs, one of `Scripts`: the
calls every process makes, with the two initializers among them
(`initializeStorage` is that of the storage classifier and of the asynchronous
status, which register no signature generator).  `generator[r]` is whether one
is registered.

**MRNetFabric.** `down` and `up` are the packets on the links, in order.  The
front end is both a caller and the root of the tree, whose own up-filter runs
when it receives.  A wave is complete when every child has sent; the order of
the packets in it is free.  The integers reduced differ from call to call, so
that a result of the wrong call is noticed.  The messages of the wrapper are part
of the program: "hello", with which `MRNet_Init` opens the stream, the reduction
of the process table (`MMT_debug_mpir`), and the exchange of `MRNet_Finalize`.
`NoMemory` is a call for whose result the front end's `reduceFinal` finds no
memory: it sends what it has, no bytes.  `FilterBytes` is the length of the Bloom
filter.  A back end compares the length of what it receives with its own and
not the kind, so a filter of four bytes (a job of up to 11 processes has one,
`FastGlobalFileStat.C:485-489`) passes for an integer or for the four bytes of a
request; `FourBytes` and `BackEndResult` say so, and it is the tag that keeps
calls apart.

**StorageClassifier.** As SyncStatus, with collectives that follow each other
without a decision in between taken together.  Free space and requirements are
integers, requirements modulo `Word`.  A broadcast by a root that has not called
`statvfs` brings any value.  The score without criteria is its integer part,
computed with integers instead of floats.  `List`, the map reduction of the
mount tables, succeeds on every process: the failing malloc is in `MPIMapReduce`,
and the return of `runClassification` for it (`MountPointsClassifier.C:317`) is
left out.

**AsyncStatus.** No actions: `Answer(r, f, query)` is what process r says of file
f in a state of StorageClassifier in which its classification has returned,
while others may still classify.  `Above` gives the directories over a file that
may be mount points; the lookup takes the deepest one r has mounted.

## What is checked

| Run | Instance | Shows |
|---|---|---|
| `grouping` | 5 processes on 2 servers, sends that wait, malloc may fail on ranks 0, 1 and 2 | every placement and message order: exact maps for those that succeed, one representative per group, buffers fit, implements `Grouping`; every rank gets to the last broadcast, and returns where no malloc fails |
| `mapreduce_lists` | 3 processes, lists of 3 URIs two of which name one server, buffered sends | `IInv`, the invariant of the proofs, for the classifier's use; nothing lost or counted twice by the tree or the elimination |
| `status` | 3 processes on up to 3 servers, two of which have the same bits in the Bloom filter; two programs, one that forces the grouping | in step, agreeing, right although the estimate may be too low, no error without cause, finite estimates, implements `Survey`, returning; unique files are consistent and poorly distributed |
| `status_failures` | 3 processes, failing lookups and opens on any of them; a program that loses the signature generator too | no false "consistent", no signature after a failure |
| `mrnet_calls` | 3 back ends, 1 communication node, a session of the wrapper around both groupings, two reductions of integers and broadcasts, an alias, a result without memory | implements `Collectives`, one result for all or none for all, groups right, the process table complete, returns |
| `mrnet_failures` | 2 back ends behind a node, any call may fail on any process | maximum and sum too: a call that returns true is right; no packet skipped |
| `storage` | 2 processes, 2 servers, 2 mount points, 6 requests | agreement; what is offered is mounted, has the space and meets the criteria; nothing withheld; asynchronous answers agree and are true, also while others classify; returns |

Runs that end in a counterexample, each a line of the repository the code does
not keep (`findings` in PROJECT.json quotes them):

| Run | What the code does |
|---|---|
| `alias_not_adjusted` | adjusts the URI of a non-root process before the map has come, so that its group information stays unfilled |
| `alias_signiture` | broadcasts the signature from process 0, which did not compute it |
| `stat_errors_cancel` | sums -1 and +1 to "no error" |
| `generator_lost` | overwrites the signature generator, and answers "error" from then on, when the storage classifier is initialized after it |
| `groups_not_kept` | loses the counts of a grouping map in each copy: the copy constructor of `ReduceDesc` sets `rd[0]` twice |

Other places where the code and its comments part, seen while modelling and not
given a run:

* With two names of one server, the free space is broadcast from process 0,
  which may not be the process that called `statvfs`
  (`StorageClassifier.C:324-341`); the cause is that of `alias_signiture`.  So
  is isUnique answering yes where isConsistent then fails
  (`SyncFastGlobalFileStat.h:140`).
* A file that is unique is not poorly distributed in a job with fewer processes
  than the threshold (`SyncFastGlobalFileStat.h:131-132`), nor is one that is
  fully distributed well distributed when the threshold is 1 (`.h:105-106`).
* A query before triage compares -1 with the cutoff and answers yes
  (`SyncFastGlobalFileStat.C:139`).
* `DISTRIBUTED_FULL` has no case and is never met (`StorageClassifier.C:583`,
  against `StorageClassifier.h:101`).
* `README:86-93` of the repository bounds the filter by the degree of
  distribution of the *remote* servers, but the local URIs of a path that is
  remote on any process enter the filter too: with a small
  `MAX_DEGREE_DISTRIBUTION` they can fill it.
* `isWellDistributed` is described as the inverse of what the code answers
  (`SyncFastGlobalFileStat.h:113-117`), and `DISTRIBUTED_LOW` as including
  unique (`StorageClassifier.h:99`), which is not so where the limit is 0.
* An asynchronous query of a process with a mount point of its own, deeper than
  the common one, is answered by an error where the others get an answer.
* A rank whose malloc fails in `mapReduce` skips one `MPI_Bcast` and is one
  behind in the next collective (`MPICommFabric.C:285`).
* `runClassification` never clears the annotations of an earlier one.
* Where the front end of MRNet has no memory for integers or a map,
  `reduceFinal` leaves a length with no buffer, and the front end sends it;
  only the bitwise reduction resets the length, and that case is modelled.
* `provideBestFileSystems` returns whether anything matched, documented as "true
  if no error" (`StorageClassifier.h:265`).

**Bounds.** Five ranks are the smallest tree with a rank that both receives and
sends and with a child missing at two levels; the theorems cover the rest.  The
ranks that may fail in `grouping` are the root, a leaf and an inner node.
Lists multiply the placements, so three ranks carry them: one sends to the
master at the first level of the tree, one without a child at the second.  Two servers suffice
for agreement and disagreement; the third of `status` makes the Bloom
filter collide for some placements and not for others, and that of
`mapreduce_lists` gives the elimination a map of three keys, in which it does
nothing, as well as those of two.  In `storage` the word is 16: the needs of a
group sum to less, as real requests do in 2^64, and requests that give back
space wrap around.  Free space is just enough for one process or not available.
The tree of `mrnet_calls` has a leaf under a communication node and one under
the front end, which differ in the filters their packets pass; that of
`mrnet_failures` has all of them below the node, so that a packet left behind by
a failed call meets the next wave there.  `FilterBytes` is 4 in both, the length
at which a filter can be taken for an integer; the theorems hold for every
length.  In `storage` one file is under both
mount points and one under the outer alone, so that a process without the inner
one answers for another server than the rest.  The programs of `status` make
every call but the serial one, and group at two different places;
`status_failures` makes the serial one, and calls without a generator.
`JobSpec` and `TreeSpec` start `status` and `mrnet_calls` in one of two states
that only differ in names: the two contents a file may have, the two leaves
under the communication node.  `JobSpec` of `storage` fixes the server of a path
that is no mount point of the process, which nothing looks at.

**Fairness.** Every process is a running program (weak fairness of its steps)
and MPI and MRNet deliver what was sent (weak fairness of the collectives and of
the nodes that forward).  No strong fairness is assumed.  In `grouping` no
progress is assumed in the second `MPI_Bcast` once a rank has left without
calling it: rank 0, whose map the others wait for, or one that the library's
tree forwards through.  `Terminates` of that run says that this is the only place
where a rank may stay for ever, and only after a failure.  `status_failures` and
`mrnet_failures` state no liveness: a process that leaves a call early does
leave the others waiting.  `CHECK_DEADLOCK FALSE` is set in these three runs for
that reason, and in no other.

**Preconditions.** `UniqueImpliesPoorly`, `FullyImpliesWell`, `SpaceRight` and
the signature properties are checked without aliases and with thresholds at
which they are true; the list above says what happens otherwise.
`FullyImpliesWell` is about paths that have been triaged.  `BuffersFit` is
checked, and proved, where no key is eliminated: every rank packs its own map
into a buffer of the length of rank 0's, which an elimination has made shorter
(with four ranks and two names of one server it no longer fits).  Two URIs of
one server are only eliminated when they are the only two keys: with three keys
the aliases are groups of their own, each of which is checked against the whole
space of the server.  With two successive MRNet calls of one kind a failed call
shifts the results of the following ones by one, so `mrnet_failures` uses
operations of different kinds; the code offers no protection and promises none.

## What is proved

Every theorem holds for all values of the constants that satisfy the
assumptions of the modules (`UriAssumption`, `BytesAssumption`,
`CallAssumption`, `BaseAssumption`, `ScriptAssumption`,
`ClassifierAssumption`, `AboveAssumption`): any number of processes, all
placements of files and servers, all hash functions and all programs of calls.
What else a theorem needs is in its statement, and named below.

### The tree reduction (`MPIMapReduce_proofs`)

With sends that wait or are buffered, and any set of ranks whose malloc fails.

* `TypeCorrect`, `Invariance` (`Spec => []IInv`) and `MapIsExact`.  `MapExact`
  is not inductive: why a map is exact at the end is that it was exact for a
  span of ranks all along.  `IInv` adds that a rank at bit `mask` holds exactly
  the items of the `mask` ranks from itself on (`GatheredOK`), that a message
  carries those of its sender's span and is on its way to the rank just before
  it (`MessagesOK`), that the ranks the tree addresses exist (`TreeOK`), and
  that what rank 0 broadcasts is the map of the whole job (`BroadcastOK`).
  TLC checks `IInv` too, in `mapreduce_lists`.
* `GroupingImplemented`: `AliasFree => (Spec => ImplementsGrouping)`: every step
  maps to a `Learn` of the abstract specification or to a stutter.
* `GroupsHaveOneRep`: one representative per group, with aliases too.
* `BuffersAlwaysFit`, under `KeepsKeys` (nothing to eliminate).  Two more
  invariants carry it: a length announced stays that of the payload that follows
  it (`LengthsOK`), and no rank that is to pack its own map has a key the whole
  job has not (`BroadcastLengthOK`).

* `NothingIsLost`: at every moment the counts of the maps that the ranks hold and
  of the messages under way add up to the items given so far, whichever ranks
  have no memory.  Beside `IInv` it needs that a slot not in use is empty
  (`SlotsOK`) and that a rank in the reducer is a multiple of its mask
  (`MultipleOK`), so that no rank but 0 runs out of bits before it has sent.  A
  step changes the summand of the rank that enters, or moves an amount between
  two ranks; the loop that merges a message adds up counts because `IInv` makes
  both maps exact for disjoint sets of ranks.

The union of two maps that are exact for disjoint sets of ranks, the lower
first, is exact for the union: `DistDesc_lemmas`, with arithmetic of the spans,
and with the sums over ranks.

### The synchronous queries (`SyncStatus_proofs`, `SyncProgram_proofs`)

Whatever fails on which node:

* `TypeIsInvariant`: type correctness.  The invariant, `LegalInv`, ties what a
  rank has got to the collective it leaves.
* `EstimateIsDefined`: the filter a rank takes the logarithm of is not full.
  The argument (`NeverFull`): n processes have at most n URIs (with
  `MAX_DEGREE_DISTRIBUTION`, at most that many by assumption), each sets at most
  2 bits, and the filter has at least ceil(2n/ln 2) > 2n of them.  It holds of
  every rank because what a rank has got where it leaves the second allReduce is
  the population count of the filters of all.
* `StatErrorIsSeen` and `YesIsNeverFalse`, under `OneSignOfError`: at most one of
  the two errors occurs whose return codes are -1 and +1.
  `stat_errors_cancel` shows that without it both are false.  `FailInv` says
  what the sum of the errors vouches for at each point of signiture.
* `SurveyIsImplemented`, under `NoLookupFails`: the steps that fill the
  cardinality and the groups are those of one survey of all nodes, aliases
  included.  A rank whose lookup fails leaves triage before the collectives.

Where no node fails and no URIs are aliases (`NothingWrong`), all processes of a
program follow one function of the number of the call.  `SyncProgram` writes it
down: the collectives a call makes, what the object holds when it begins and
what it answers.  `LockStep` proves that each process follows it (`LockInv`):
its place, data and answers are those of its call, and a collective of the
program that one has behind it all have (`InStep`).  Each rank knows only its own
node, so the work is in showing that what it branches on is the same on all;
what makes it so is the collective before.  From `LockInv` follow
`SameCollectiveAlways`, `AgreementAlways`, `UniqueIsRight`, `NoIsNeverFalse`,
`SignitureIsOwn`, `UniqueThenConsistent`, `FullyThenWell` and `UniqueThenPoorly`.

* `UniqueThenPoorly` is about jobs of as many processes as both thresholds, and
  about programs that ask in either order.  On a path that is remote anywhere it
  comes down to `OneServerIsEstimatedOne`: one server is estimated to be one,
  however its name hashes.  That the recursive function of the estimate exists
  is shown by taking the least argument up to which it would not
  (`CountsExist`); that one or two bits of at least three give 1 is arithmetic of
  its first three steps (`EstimateOfOne`).

* `NoErrorWithoutCause` needs no health of the nodes (a failing one is a cause),
  but `NoAliases` and `StorageFirst`, that no program initializes the storage
  classifier after the signature generator.  `alias_signiture` and
  `generator_lost` show what happens otherwise.

### The classification and the storage (`StorageClassifier_proofs`, `AsyncStatus_proofs`)

* `TypeIsInvariant`, `OfferedIsMounted`: from `DataInv`, which says for each
  point of the two loops what the process knows there, of its mount points, of
  the groups and of the properties it has collected.
* `ProcessesAgree`: from `InStep`.  Processes may be one collective apart, and
  then differ in every variable, so `Ahead` says of each where it waits next,
  with which mount points to do and which matches made; that is equal on all.
  It is so with aliases too: wrong group information is not the same on all
  ranks, but what is decided from it goes through a reduction.
* `SpaceIsThere`, under `NoAliases` and `SumsFit` (the requirements of any set
  of ranks sum to less than a word), and `SpaceIsNotWithheld`, under `NoAliases`
  only: from `SpaceOK`, which says of the mount point under judgement that the
  need of a group is the sum over the processes that share the server, that the
  space compared with it is that server's, and that the points judged before
  are in the matches exactly where there was room.
* `CriteriaAreMet` (high speed and scalable access on every process, low speed
  and single access on some, for what is told of a mount point is its least)
  and, for the asynchronous queries, `AnswersAreRight`, under
  `EstimateSeparates`: the hash functions put the estimate on the side of the
  limit the number of servers is on. Where they collide the classifier takes
  many servers for few, as `status` shows of triage.
* `AnswersAgree`: asynchronous answers agree, whatever the nesting of mount
  points, also while others classify.

The instance of `storage` satisfies every one of these hypotheses.  A sum over a
set of ranks has no induction theorem the provers can use; that two sums are
equal is proved by taking the smallest set for which they are not.

### The fabric over MRNet (`MRNetFabric_proofs`)

On any tree (`TreeAssumption`: finite, no inner node without children, and no
set of nodes that are all below one another, which is to say no cycle) and for
any program of calls.

* `TypeIsInvariant` and `OneTagAlways`, under `ToldApart`: no call fails before it
  has sent its packet (`NothingFails`), or all calls of the program ask with
  different tags (`NoTwoAlike`).  `Shape` is what holds of every link and process
  anyway.  `UpInv` is the inductive part: while the front end waits in call k, a
  set G of nodes has given its part of it.  What is on a link up is one packet of
  call k, of a node of G; a communication node of G has all its children in G,
  with nothing left on their links.  It needs that a back end is asked for the
  call the front end waits in and for no other (`AskedOK`), and there the two
  cases part.  Where calls fail, packets stay behind, and it is their tag that
  keeps them from being taken for the question (`StaleInv`).  Where none does,
  the packets that pass any link are the same sequence, and `DownInv` numbers
  them: a link holds those between how far its lower end is and how far its upper
  end is.
* `RightOrFalseAlways`, `TableAlways` and `GroupsRightAlways`, under `ToldApart`.
  `AmountsInv` adds to `UpInv` what the packets are worth: each amounts to the
  operands of a set of back ends (their sum, maximum, union, list in any order,
  or merged map), the sets of two packets are disjoint, and together they are all
  the back ends of G.  A node that merges its wave puts the sets of its children
  together.  When the front end has its wave G is the whole tree, so what it
  returns is an outcome of the call (`FrontRight`).  That a back end that returns
  true has the front end's value is `BackRight`.  Where calls fail it rests on
  `PacketInv`, every packet down asks for a call or has the front end's result of
  one, and `StartInv`, every node is asked once for a call: a reduction asks and is
  answered under one tag, so that a second request would be taken for the result.
* `SameResultAlways`, under `NothingFails`: by `DownInv` the packet a back end
  takes for the result of call k is the front end's of call k.
* `CollectivesImplemented`, under `NothingFails`: each step of a process enters a
  call, returns from one as `Collectives` allows, or changes nothing there.  That
  no reduction returns before all have entered it is `UpInv`, that it returns
  with the right value is `FrontRight`.

`mrnet_calls` is an instance of `NothingFails` and `mrnet_failures` of
`NoTwoAlike`.  The filters fold over a wave, and the library has no induction for
folds that the provers can use.  `FoldLeft` is a recursive function underneath;
that what it has merged after i packets amounts to their operands is proved of
the least i for which it would not.

### Only model-checked

Liveness (`Terminates` and its like), and with it everything about fairness, is
out of the prover's reach.  Every invariant, action property and refinement of
the passing runs is proved, under the hypotheses named above.  Of the estimate
it is proved that it is finite and that of one server it is one; how near it is
to the number of servers in general depends on how the names hash, and is a
hypothesis where it matters (`EstimateSeparates`).

## Not modelled

The mount point tables (`MountPointAttributes`, a submodule), MPI, MRNet and
OpenSSL are external, and so are errors they return.  A failing malloc is
modelled in `mapReduce` over MPI and in the front end of MRNet, not in the
classifier that calls them.  The values of the hash
functions and the file signatures are constants.  `bloom_check` is
used by nothing in the library.  The sampling and
hierarchical algorithms return false in the code.  The `long long` reductions of
MRNet are the integer ones in another width.  Of the wrapper the messages are
modelled; launching the tree and attaching to its nodes is external.  The test
drivers call the library; the scripts of the MC modules follow them.

Successive `mapReduce` calls on one communicator are not composed: each rank
sends once per tag and call, always to the same parent, and MPI delivers the
messages of one sender, tag and communicator in order, so that a message of the
next call cannot overtake one of the last.

## Plan

Done: every component of the table above but the file signatures; the
refinements of `Grouping`, `Survey` and `Collectives`; proofs about every module
with state.

Left: the runs' liveness properties, which stay with TLC, and the file
signatures, which are MD5 over the bytes of a file.
