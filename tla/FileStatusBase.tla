--------------------------- MODULE FileStatusBase ---------------------------
(***************************************************************************)
(* What GlobalFileStatusBase works out of the URIs of all processes: the   *)
(* estimate of how many there are, from a Bloom filter of two hash         *)
(* functions, and the groups of processes that share one.  URIs of all     *)
(* processes are a function uris \in [Rank -> Uri].                        *)
(*                                                                         *)
(* A filter is the set of its bits that are 1, so that bitwise or is the   *)
(* union and the population count the cardinality.                         *)
(***************************************************************************)
EXTENDS DistDesc

CONSTANTS
  N,            \* number of MPI processes
  Threshold,    \* mThresholdToSaturate of the object
  Sax, Sdbm,    \* Uri -> value of the hash function of its text
  MaxDegree,    \* MAX_DEGREE_DISTRIBUTION, 0 where it is not defined
  WordBits      \* bits of a BloomFilterAlign_t

ASSUME BaseAssumption ==
  /\ N \in Nat \ {0} /\ Threshold \in Nat \ {0}
  /\ Sax \in [Uri -> Nat] /\ Sdbm \in [Uri -> Nat]
  /\ MaxDegree \in Nat /\ WordBits \in Nat \ {0}

Rank == 0 .. N-1

(* mHiLoCutoff; 0 where there are too few processes to saturate anything.  *)
Limit == N \div Threshold

-----------------------------------------------------------------------------
(* The filter.                                                             *)

CeilDiv(a, b) == (a + b - 1) \div b

(* 2n / ln 2 bits for n elements, in whole words.                          *)
OptimalBits ==
  CeilDiv(2 * (IF MaxDegree = 0 THEN N ELSE MaxDegree) * 1000000, 693147)

NumBits_Words == CeilDiv(OptimalBits, WordBits)     \* fault: words for bits
NumBits == WordBits * CeilDiv(OptimalBits, WordBits)

BloomAdd(filter, u) == filter \cup {Sax[u] % NumBits, Sdbm[u] % NumBits}

(* The filters of all processes, or-ed by the second allReduce.            *)
Filter(uris) == UNION {BloomAdd({}, uris[r]) : r \in Rank}

PopCount(filter) == Cardinality(filter)

(* The integer nearest to ln(1-t/m) / 2ln(1-1/m): counts by twos how often *)
(* the fraction (m-1)/m can be taken of 1 before it is less than 1-t/m, in *)
(* fixed point of Scale.  When all bits are set the logarithm is infinite, *)
(* and its conversion to int undefined: this is what x86 makes of it.      *)
Scale == 1000000
Infinite == -2147483647 - 1

Estimate(t) ==
  LET least == (Scale * (NumBits - t)) \div NumBits
      factors[x \in 0 .. Scale] ==
        IF x < least THEN 0 ELSE 1 + factors[(x * (NumBits - 1)) \div NumBits]
  IN  IF t = NumBits THEN Infinite ELSE factors[Scale] \div 2

-----------------------------------------------------------------------------
(* What triage and grouping tell every process.                            *)

CardinalityEst(uris, anyRemote) ==
  IF anyRemote /\ Limit > 0 THEN Estimate(PopCount(Filter(uris))) ELSE N

GroupingMap(uris) == EliminateUriAlias(MapOf([r \in Rank |-> {uris[r]}], Rank))

(* Only rank 0 has the eliminated map when it adjusts its URI.             *)
GroupInfoOf(old, uris, r) ==
  SetGroupInfo(old, r, IF r = 0 THEN AdjustUri(uris[r], GroupingMap(uris)) ELSE uris[r],
               GroupingMap(uris))

SameServer(u, v) == u = v \/ Aliased(u, v)
=============================================================================
