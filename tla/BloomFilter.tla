---------------------------- MODULE BloomFilter -----------------------------
(***************************************************************************)
(* StaticBloomFilter (utils/bloom_filter.h).  What std::hash makes of an   *)
(* item is any number, chosen with the object, and so is k_, which no      *)
(* constructor sets.  The walk over the bits is arithmetic of size_t.      *)
(***************************************************************************)
EXTENDS Naturals, FiniteSets

CONSTANTS
    Items,
    HashRange,  \* hash values and size_t: 2^64 in the code
    HalfRange,  \* the upper half of a hash is what is left above it: 2^32
    Size,       \* bits_.size(), kConfig.m in the code
    MaxK        \* BOUND: what k_ happens to be

ASSUME RangeAssumption == HashRange \in Nat \ {0} /\ HalfRange \in Nat \ {0}
ASSUME SizeAssumption == Size \in Nat \ {0}
ASSUME MaxKAssumption == MaxK \in Nat

VARIABLES
    built,      \* the object exists
    hash,       \* std::hash of each item
    k,          \* k_
    bits,       \* bits_: the indices of the bits that are set
    members,    \* GHOST: what was put in
    answer      \* what the last call returned

filterVars == <<built, hash, k, bits, members, answer>>

Answer == {"none", "yes", "no", "number", "undefined"}

FilterTypeOK ==
    /\ built \in BOOLEAN
    /\ hash \in [Items -> 0..HashRange - 1]
    /\ k \in 0..MaxK
    /\ bits \subseteq 0..Size - 1
    /\ members \subseteq Items
    /\ answer \in Answer

FilterInit ==
    /\ built = FALSE
    /\ hash = [x \in Items |-> 0]
    /\ k = 0
    /\ bits = {}
    /\ members = {}
    /\ answer = "none"

\* The bitset is zero, k_ is whatever was there.
BuildFilter ==
    /\ ~built
    /\ built' = TRUE
    /\ hash' \in [Items -> 0..HashRange - 1]
    /\ k' \in 0..MaxK
    /\ UNCHANGED <<bits, members, answer>>

\* get_halves: the "lower" half is the whole hash, since the mask is all ones.
Lower(x) == hash[x]
Upper(x) == hash[x] \div HalfRange

\* MUTANT: the first step is a step.
StrideFromOne(x, i) == (i + 1) * Upper(x)

\* How far round i moves the index: not at all in the first round.
Stride(x, i) == i * Upper(x)

\* The index with which round i of the loop begins.
Index(x) ==
    LET index[i \in Nat] ==
            IF i = 0 THEN Lower(x)
            ELSE ((index[i - 1] + Stride(x, i - 1)) % HashRange) % Size
    IN  index

\* MUTANT: the first index, a hash, is not reduced.
ProbesUnreduced(x, rounds) == {Index(x)[i] : i \in rounds}

\* The bits that a walk of those rounds visits.
Probes(x, rounds) == {Index(x)[i] % Size : i \in rounds}

\* MUTANT: put leaves out the last round.
RoundsButOne == {i \in 0..k : i + 1 < k}

\* The rounds of the loop of put.
Rounds == {i \in 0..k : i < k}

Put(x) ==
    /\ built
    /\ bits' = bits \cup Probes(x, Rounds)
    /\ members' = members \cup {x}
    /\ answer' = "none"
    /\ UNCHANGED <<built, hash, k>>

MightContain(x) ==
    /\ built
    /\ answer' = IF Probes(x, {i \in 0..k : i < k}) \subseteq bits THEN "yes" ELSE "no"
    /\ UNCHANGED <<built, hash, k, bits, members>>

\* estimated_n divides by k_ and takes the logarithm of the share of zero bits;
\* what is not finite cannot be cast to size_t.
EstimatedN ==
    /\ built
    /\ answer' = IF k = 0 \/ bits = 0..Size - 1 THEN "undefined" ELSE "number"
    /\ UNCHANGED <<built, hash, k, bits, members>>

FilterNext ==
    \/ BuildFilter
    \/ EstimatedN
    \/ \E x \in Items : Put(x) \/ MightContain(x)

FilterSpec == FilterInit /\ [][FilterNext]_filterVars

-----------------------------------------------------------------------------
(***************************************************************************)
(* Properties                                                              *)
(***************************************************************************)

Abstract == INSTANCE Membership WITH
    answer <- IF answer \in {"yes", "no"} THEN answer ELSE "none"

\* might_contain never denies what was put in: with whatever k_ the object was
\* left with, put and might_contain walk over the same bits, and no bit is ever
\* cleared.
ImplementsMembership == Abstract!MembershipSpec

\* The first two rounds of a walk are at the same bit, so that an item sets at
\* most k - 1 bits (one, if k is 1): as long as the items put in cannot have
\* set every bit, and k_ is not zero, the estimate is a number.
EstimateDefined ==
    LET perItem == IF k > 1 THEN k - 1 ELSE 1
    IN  k > 0 /\ Cardinality(members) * perItem < Size => answer # "undefined"
=============================================================================
