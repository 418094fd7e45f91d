--------------------------- MODULE LibraryProofs ----------------------------
(***************************************************************************)
(* What holds of a filter of any size under any hash, of private keys and  *)
(* of chains of keys, for any number of places, pairs, ends and calls; and *)
(* that a program that uses a part of the library gets what it promises.   *)
(***************************************************************************)
EXTENDS Library, Induction, FiniteSetTheorems

-----------------------------------------------------------------------------
(***************************************************************************)
(* The filter                                                              *)
(***************************************************************************)

\* The bits of everything that was put in are set.
AllSet == \A x \in members : Probes(x, {i \in 0..k : i < k}) \subseteq bits

\* An object that was not built has no members.
NoneBeforeBuilt == ~built => members = {}

FilterInv == AllSet /\ NoneBeforeBuilt

\* BloomFilter.tla: what was put in stays in, by every operation.
LEMMA FilterInvStep == FilterInv /\ [FilterNext]_filterVars => FilterInv'
<1> SUFFICES ASSUME FilterInv, [FilterNext]_filterVars
             PROVE  FilterInv'
    OBVIOUS
<1>1. CASE BuildFilter
    BY <1>1 DEF FilterInv, AllSet, NoneBeforeBuilt, BuildFilter
<1>2. CASE EstimatedN
    <2>1. UNCHANGED <<built, hash, k, bits, members>>
        BY <1>2 DEF EstimatedN
    <2> QED
        BY <2>1 DEF FilterInv, AllSet, NoneBeforeBuilt, Probes, Index, Lower, Upper, Stride
<1>3. ASSUME NEW x \in Items, Put(x)
      PROVE  FilterInv'
    <2>1. UNCHANGED <<built, hash, k>> /\ built
        BY <1>3 DEF Put
    <2>2. \A y : Probes(y, {i \in 0..k : i < k})' = Probes(y, {i \in 0..k : i < k})
        BY <2>1 DEF Probes, Index, Lower, Upper, Stride
    <2>3. bits' = bits \cup Probes(x, {i \in 0..k : i < k})
        BY <1>3 DEF Put, Rounds
    <2>4. members' = members \cup {x}
        BY <1>3 DEF Put
    <2>5. ASSUME NEW y \in members'
          PROVE  Probes(y, {i \in 0..k : i < k})' \subseteq bits'
        <3>1. Probes(y, {i \in 0..k : i < k}) \subseteq bits'
            BY <2>3, <2>4 DEF FilterInv, AllSet
        <3> QED
            BY <2>2, <3>1
    <2> QED
        BY <2>1, <2>5 DEF FilterInv, AllSet, NoneBeforeBuilt
<1>4. ASSUME NEW x \in Items, MightContain(x)
      PROVE  FilterInv'
    <2>1. UNCHANGED <<built, hash, k, bits, members>>
        BY <1>4 DEF MightContain
    <2> QED
        BY <2>1 DEF FilterInv, AllSet, NoneBeforeBuilt, Probes, Index, Lower, Upper, Stride
<1>5. CASE UNCHANGED filterVars
    <2>1. UNCHANGED <<built, hash, k, bits, members>>
        BY <1>5 DEF filterVars
    <2> QED
        BY <2>1 DEF FilterInv, AllSet, NoneBeforeBuilt, Probes, Index, Lower, Upper, Stride
<1> QED
    BY <1>1, <1>2, <1>3, <1>4, <1>5 DEF FilterNext

\* BloomFilter.tla: each operation is one of the abstract set's, or none of its
\* business.
LEMMA FilterStepMaps ==
    FilterInv /\ [FilterNext]_filterVars
        => [Abstract!MembershipNext]_Abstract!membershipVars
<1> SUFFICES ASSUME FilterInv, [FilterNext]_filterVars
             PROVE  [Abstract!MembershipNext]_Abstract!membershipVars
    OBVIOUS
<1> USE DEF Abstract!MembershipNext, Abstract!membershipVars
<1>1. CASE BuildFilter
    BY <1>1 DEF BuildFilter
<1>2. CASE EstimatedN
    BY <1>2 DEF EstimatedN, Abstract!Forget
<1>3. ASSUME NEW x \in Items, Put(x)
      PROVE  Abstract!Insert(x)
    BY <1>3 DEF Put, Abstract!Insert
<1>4. ASSUME NEW x \in Items, MightContain(x)
      PROVE  Abstract!Ask(x)
    BY <1>4 DEF MightContain, Abstract!Ask, FilterInv, AllSet
<1>5. CASE UNCHANGED filterVars
    BY <1>5 DEF filterVars
<1> QED
    BY <1>1, <1>2, <1>3, <1>4, <1>5 DEF FilterNext

\* might_contain never denies what put took: the filter implements the abstract
\* set (StaticBloomFilter::put and ::might_contain).
THEOREM NoFalseNegatives == FilterSpec => ImplementsMembership
<1>1. FilterInit => FilterInv /\ Abstract!MembershipInit
    BY DEF FilterInit, FilterInv, AllSet, NoneBeforeBuilt, Abstract!MembershipInit
<1> QED
    BY <1>1, FilterInvStep, FilterStepMaps, PTL
    DEF FilterSpec, ImplementsMembership, Abstract!MembershipSpec

\* The walk of an item is defined, and each index is where the round before
\* left it.
LEMMA IndexWalks ==
    ASSUME FilterTypeOK, NEW x \in Items
    PROVE  /\ Index(x) \in [Nat -> Nat]
           /\ Index(x)[0] = Lower(x)
           /\ \A i \in Nat : Index(x)[i + 1] =
                 ((Index(x)[i] + Stride(x, i)) % HashRange) % Size
<1> DEFINE Def(g) == [i \in Nat |->
                         IF i = 0 THEN Lower(x)
                         ELSE ((g[i - 1] + Stride(x, i - 1)) % HashRange) % Size]
           step == [i \in Nat |-> [v \in Nat |->
                         ((v + Stride(x, i)) % HashRange) % Size]]
<1>1. Lower(x) \in Nat
    BY RangeAssumption DEF FilterTypeOK, Lower
<1>2. \A i \in Nat : Stride(x, i) \in Nat
    <2>1. hash[x] \in Nat /\ HalfRange \in Nat /\ HalfRange > 0
        BY RangeAssumption DEF FilterTypeOK
    <2>2. Upper(x) \in Nat
        BY <2>1 DEF Upper
    <2> QED
        BY <2>2 DEF Stride
<1>3. \A v, i \in Nat : ((v + Stride(x, i)) % HashRange) % Size \in Nat
    BY <1>2, RangeAssumption, SizeAssumption
<1>4. step \in [Nat -> [Nat -> Nat]]
    BY <1>3
<1>5. PICK f : IsIteration(f, Nat, Lower(x), step)
    <2> HIDE DEF step
    <2> QED
        BY <1>1, <1>4, NatRecursion
<1>6. /\ f \in [Nat -> Nat]
      /\ f[0] = Lower(x)
      /\ \A n \in Nat : f[n + 1] = ((f[n] + Stride(x, n)) % HashRange) % Size
    BY <1>5 DEF IsIteration
<1>7. f = Def(f)
    <2>1. ASSUME NEW i \in Nat, i # 0
          PROVE  f[i] = ((f[i - 1] + Stride(x, i - 1)) % HashRange) % Size
        BY <1>6, <2>1
    <2>2. \A i \in Nat : f[i] = Def(f)[i]
        BY <1>6, <2>1
    <2> QED
        BY <1>6, <2>2
<1>8. Index(x) = CHOOSE g : g = Def(g)
    BY DEF Index
<1> HIDE DEF Def
<1>9. Index(x) = Def(Index(x))
    BY <1>7, <1>8
<1>10. \A i \in Nat : Index(x)[i + 1] =
          ((Index(x)[i] + Stride(x, i)) % HashRange) % Size
    BY <1>9 DEF Def
<1>11. Index(x)[0] = Lower(x)
    BY <1>9 DEF Def
<1>12. Index(x) \in [Nat -> Nat]
    <2> DEFINE S == {i \in Nat : Index(x)[i] \in Nat}
    <2>1. 0 \in S
        BY <1>1, <1>11
    <2>2. ASSUME NEW i \in Nat, i \in S
          PROVE  i + 1 \in S
        <3> DEFINE y == Index(x)[i]
        <3>1. Index(x)[i + 1] = ((y + Stride(x, i)) % HashRange) % Size
            BY <1>10
        <3>2. y \in Nat
            BY <2>2
        <3> HIDE DEF y
        <3>3. Index(x)[i + 1] \in Nat
            BY <1>3, <3>1, <3>2
        <3> QED
            BY <3>3
    <2> HIDE DEF S
    <2>3. Nat \subseteq S
        BY <2>1, <2>2, NatSetInduction
    <2>4. \A i \in Nat : Index(x)[i] \in Nat
        BY <2>3 DEF S
    <2>5. Index(x) = [i \in Nat |-> Index(x)[i]]
        BY <1>9 DEF Def
    <2> QED
        BY <2>4, <2>5
<1> QED
    BY <1>10, <1>11, <1>12

\* The bits an item can set.
PerItem == IF k > 1 THEN k - 1 ELSE 1

\* As many values as arguments, at most.
LEMMA ImageIsSmall ==
    ASSUME NEW S, IsFiniteSet(S), NEW f, DOMAIN f = S
    PROVE  /\ IsFiniteSet({f[i] : i \in S})
           /\ Cardinality({f[i] : i \in S}) <= Cardinality(S)
<1> DEFINE T == {f[i] : i \in S}
           g == [i \in S |-> f[i]]
<1>1. g \in Surjection(S, T)
    BY DEF Surjection
<1> HIDE DEF g, T
<1>2. IsFiniteSet(T) /\ Cardinality(T) <= Cardinality(S)
    BY <1>1, FS_Surjection
<1> QED
    BY <1>2 DEF T

\* BloomFilter.tla: the rounds 0 and 1 are at the same bit, so that the walk
\* of an item visits no more than PerItem bits.
LEMMA ProbesAreFew ==
    ASSUME FilterTypeOK, NEW x \in Items
    PROVE  /\ Probes(x, Rounds) \subseteq 0..Size - 1
           /\ IsFiniteSet(Probes(x, Rounds))
           /\ Cardinality(Probes(x, Rounds)) <= PerItem
<1> DEFINE f == [i \in Nat |-> Index(x)[i] % Size]
           S == IF k > 1 THEN 1..k - 1 ELSE Rounds
           g == [i \in S |-> f[i]]
<1>1. k \in Nat /\ Size \in Nat /\ Size > 0 /\ HashRange \in Nat /\ HashRange > 0
    BY SizeAssumption, MaxKAssumption, RangeAssumption DEF FilterTypeOK
<1>2. Rounds \subseteq Nat /\ S \subseteq Rounds
    BY <1>1 DEF Rounds
<1>3. \A i \in Nat : Index(x)[i] \in Nat
    BY IndexWalks
<1>4. \A i \in Nat : f[i] \in 0..Size - 1
    BY <1>1, <1>3
<1>5. f[1] = f[0]
    <2>1. Index(x)[1] = ((Index(x)[0] + Stride(x, 0)) % HashRange) % Size
        <3>1. Index(x)[0 + 1] = ((Index(x)[0] + Stride(x, 0)) % HashRange) % Size
            BY IndexWalks
        <3> QED
            BY <3>1
    <2>2. Stride(x, 0) = 0
        <3>1. Upper(x) \in Nat
            BY RangeAssumption DEF FilterTypeOK, Upper
        <3> QED
            BY <3>1 DEF Stride
    <2>3. Index(x)[0] \in 0..HashRange - 1
        BY IndexWalks, <1>1 DEF FilterTypeOK, Lower
    <2> DEFINE h == Index(x)[0]
    <2>4. Index(x)[1] = (h % HashRange) % Size
        BY <2>1, <2>2, <2>3, <1>1
    <2> HIDE DEF h
    <2>5. h \in 0..HashRange - 1
        BY <2>3 DEF h
    <2>6. h % HashRange = h
        BY <2>5, <1>1
    <2>7. h % Size \in 0..Size - 1
        BY <2>5, <1>1
    <2>8. (h % Size) % Size = h % Size
        BY <2>7, <1>1
    <2> QED
        BY <2>4, <2>6, <2>8 DEF h
<1>6. Probes(x, Rounds) = {f[i] : i \in Rounds}
    BY <1>2 DEF Probes
<1> HIDE DEF f
<1>7. {f[i] : i \in Rounds} = {g[i] : i \in S}
    <2>1. CASE k > 1
        <3>1. Rounds = {0} \cup S /\ 1 \in S
            BY <1>1, <2>1 DEF Rounds
        <3> HIDE DEF S
        <3> QED
            BY <1>5, <3>1
    <2>2. CASE ~(k > 1)
        BY <2>2
    <2> QED
        BY <2>1, <2>2
<1>8. IsFiniteSet(S) /\ Cardinality(S) <= PerItem
    <2>1. CASE k > 1
        <3>1. IsFiniteSet(1..k - 1) /\ Cardinality(1..k - 1) = k - 1
            BY <1>1, <2>1, FS_Interval
        <3>2. S = 1..k - 1 /\ PerItem = k - 1
            BY <2>1 DEF PerItem
        <3> HIDE DEF S
        <3> QED
            BY <1>1, <3>1, <3>2
    <2>2. CASE ~(k > 1)
        <3>1. S \subseteq {0}
            BY <1>1, <2>2 DEF Rounds
        <3>2. IsFiniteSet({0}) /\ Cardinality({0}) = 1
            BY FS_Singleton
        <3> HIDE DEF S
        <3>3. IsFiniteSet(S) /\ Cardinality(S) <= 1
            BY <3>1, <3>2, FS_Subset
        <3> QED
            BY <2>2, <3>3 DEF PerItem
    <2> QED
        BY <2>1, <2>2
<1>9. DOMAIN g = S
    OBVIOUS
<1> HIDE DEF g, S
<1>10. /\ IsFiniteSet({g[i] : i \in S})
       /\ Cardinality({g[i] : i \in S}) <= Cardinality(S)
    BY <1>8, <1>9, ImageIsSmall
<1>11. Cardinality({g[i] : i \in S}) \in Nat /\ Cardinality(S) \in Nat /\ PerItem \in Nat
    BY <1>1, <1>8, <1>10, FS_CardinalityType DEF PerItem
<1>12. {f[i] : i \in Rounds} \subseteq 0..Size - 1
    BY <1>2, <1>4
<1> DEFINE P == {g[i] : i \in S}
<1> HIDE DEF P
<1>13. IsFiniteSet(P) /\ Cardinality(P) <= PerItem
    BY <1>8, <1>10, <1>11 DEF P
<1>14. Probes(x, Rounds) = P
    BY <1>6, <1>7 DEF P
<1> QED
    BY <1>6, <1>12, <1>13, <1>14

\* Before it is built the object has no bits and no answers, and what was put
\* in has set few bits.
FewSet ==
    /\ ~built => bits = {} /\ answer = "none"
    /\ IsFiniteSet(members)
    /\ IsFiniteSet(bits)
    /\ Cardinality(bits) <= Cardinality(members) * PerItem

EstimateInv == FilterTypeOK /\ FilterInv /\ FewSet /\ EstimateDefined

\* BloomFilter.tla: a filter that is full has had as many items put in as fill
\* it.
LEMMA FullMeansMany ==
    ASSUME FilterTypeOK, FewSet, bits = 0..Size - 1
    PROVE  Size <= Cardinality(members) * PerItem
<1>1. Cardinality(0..Size - 1) = Size
    BY SizeAssumption, FS_Interval
<1> QED
    BY <1>1 DEF FewSet

LEMMA PutFewSet ==
    ASSUME EstimateInv, NEW x \in Items, Put(x)
    PROVE  FewSet'
<1>1. /\ built /\ built' /\ k' = k /\ answer' = "none"
      /\ bits' = bits \cup Probes(x, Rounds)
      /\ members' = members \cup {x}
    BY DEF Put
<1>2. PerItem' = PerItem /\ PerItem \in Nat
    BY <1>1 DEF PerItem, EstimateInv, FilterTypeOK
<1>3. /\ IsFiniteSet(members) /\ Cardinality(members) \in Nat
      /\ IsFiniteSet(bits) /\ Cardinality(bits) \in Nat
      /\ Cardinality(bits) <= Cardinality(members) * PerItem
    BY FS_CardinalityType DEF EstimateInv, FewSet
<1>4. CASE x \in members
    <2>1. Probes(x, Rounds) \subseteq bits
        BY <1>4 DEF EstimateInv, FilterInv, AllSet, Rounds
    <2>2. bits' = bits /\ members' = members
        BY <1>1, <1>4, <2>1
    <2> QED
        BY <1>1, <1>2, <1>3, <2>2 DEF FewSet
<1>5. CASE x \notin members
    <2> DEFINE P == Probes(x, Rounds)
               m == Cardinality(members)
               b == Cardinality(bits)
               c == PerItem
    <2>1. IsFiniteSet(P) /\ Cardinality(P) <= c
        BY ProbesAreFew DEF EstimateInv
    <2>2. /\ IsFiniteSet(members')
          /\ Cardinality(members') = m + 1
        BY <1>1, <1>3, <1>5, FS_AddElement
    <2>3. /\ Cardinality(P) \in Nat
          /\ IsFiniteSet(bits \cap P)
          /\ Cardinality(bits \cap P) \in Nat
        BY <1>3, <2>1, FS_CardinalityType, FS_Subset
    <2>4. /\ IsFiniteSet(bits')
          /\ Cardinality(bits') = b + Cardinality(P) - Cardinality(bits \cap P)
        BY <1>1, <1>3, <2>1, FS_Union
    <2>5. Cardinality(bits') <= b + c
        BY <1>2, <1>3, <2>1, <2>3, <2>4
    <2>6. (m + 1) * c = m * c + c
        BY <1>2, <1>3
    <2>7. m * c \in Nat
        BY <1>2, <1>3
    <2>8. Cardinality(bits') \in Nat
        BY <2>4, FS_CardinalityType
    <2> HIDE DEF m, b, c, P
    <2>9. Cardinality(bits') <= (m + 1) * c
        BY <1>2, <1>3, <2>5, <2>6, <2>7, <2>8 DEF m, b, c
    <2> QED
        BY <1>1, <1>2, <2>2, <2>4, <2>9 DEF FewSet, m, c
<1> QED
    BY <1>4, <1>5

\* BloomFilter.tla: an estimate is undefined only for k_ zero or a full filter.
LEMMA EstimateInvStep == EstimateInv /\ [FilterNext]_filterVars => EstimateInv'
<1> SUFFICES ASSUME EstimateInv, [FilterNext]_filterVars
             PROVE  EstimateInv'
    OBVIOUS
<1>1. FilterInv'
    BY FilterInvStep DEF EstimateInv
<1>2. /\ Size \in Nat \ {0} /\ MaxK \in Nat
      /\ FilterTypeOK /\ FilterInv /\ FewSet /\ EstimateDefined
    BY SizeAssumption, MaxKAssumption DEF EstimateInv
<1>3. CASE BuildFilter
    <2>1. /\ members = {} /\ bits = {} /\ answer = "none"
          /\ members' = {} /\ bits' = {} /\ answer' = "none"
          /\ built' /\ k' \in 0..MaxK /\ hash' \in [Items -> 0..HashRange - 1]
        BY <1>2, <1>3 DEF BuildFilter, FewSet, FilterInv, NoneBeforeBuilt
    <2>2. FilterTypeOK'
        BY <1>2, <1>3, <2>1 DEF FilterTypeOK, BuildFilter
    <2>3. PerItem' \in Nat
        <3>1. k' \in Nat
            BY <1>2, <2>1
        <3>2. \A i \in Nat : (IF i > 1 THEN i - 1 ELSE 1) \in Nat
            OBVIOUS
        <3> QED
            BY <3>1, <3>2 DEF PerItem
    <2>4. FewSet'
        BY <2>1, <2>3, FS_EmptySet DEF FewSet
    <2> QED
        BY <1>1, <2>1, <2>2, <2>4 DEF EstimateInv, EstimateDefined
<1>4. CASE EstimatedN
    <2>1. UNCHANGED <<built, hash, k, bits, members>> /\ built
        BY <1>4 DEF EstimatedN
    <2>2. answer' \in {"undefined", "number"}
        BY <1>4 DEF EstimatedN
    <2>3. FilterTypeOK'
        BY <1>2, <2>1, <2>2 DEF FilterTypeOK, Answer
    <2>4. FewSet'
        BY <1>2, <2>1 DEF FewSet, PerItem
    <2>5. ASSUME k > 0, Cardinality(members) * PerItem < Size
          PROVE  answer' # "undefined"
        <3>1. Cardinality(members) \in Nat /\ PerItem \in Nat
            BY <1>2, FS_CardinalityType DEF FewSet, PerItem, FilterTypeOK
        <3>2. Cardinality(members) * PerItem \in Nat
            BY <3>1
        <3>3. bits # 0..Size - 1
            BY <1>2, <2>5, <3>2, FullMeansMany
        <3>4. k # 0
            BY <1>2, <2>5 DEF FilterTypeOK
        <3> QED
            BY <1>4, <3>3, <3>4 DEF EstimatedN
    <2>6. EstimateDefined'
        BY <2>1, <2>5 DEF EstimateDefined, PerItem
    <2> QED
        BY <1>1, <2>3, <2>4, <2>6 DEF EstimateInv
<1>5. ASSUME NEW x \in Items, Put(x)
      PROVE  EstimateInv'
    <2>1. FewSet'
        BY <1>5, PutFewSet DEF EstimateInv
    <2>2. Probes(x, Rounds) \subseteq 0..Size - 1
        BY <1>2, ProbesAreFew
    <2>3. FilterTypeOK'
        BY <1>2, <1>5, <2>2 DEF FilterTypeOK, Put, Answer
    <2>4. EstimateDefined'
        BY <1>5 DEF EstimateDefined, Put
    <2> QED
        BY <1>1, <2>1, <2>3, <2>4 DEF EstimateInv
<1>6. ASSUME NEW x \in Items, MightContain(x)
      PROVE  EstimateInv'
    <2>1. UNCHANGED <<built, hash, k, bits, members>> /\ built
        BY <1>6 DEF MightContain
    <2>2. answer' \in {"yes", "no"}
        BY <1>6 DEF MightContain
    <2>3. FilterTypeOK'
        BY <1>2, <2>1, <2>2 DEF FilterTypeOK, Answer
    <2>4. FewSet'
        BY <1>2, <2>1 DEF FewSet, PerItem
    <2> QED
        BY <1>1, <2>2, <2>3, <2>4 DEF EstimateInv, EstimateDefined
<1>7. CASE UNCHANGED filterVars
    <2>1. UNCHANGED <<built, hash, k, bits, members, answer>>
        BY <1>7 DEF filterVars
    <2> QED
        BY <1>1, <1>2, <2>1 DEF EstimateInv, FilterTypeOK, FewSet, PerItem, EstimateDefined
<1> QED
    BY <1>3, <1>4, <1>5, <1>6, <1>7 DEF FilterNext

LEMMA EstimateInvInit == FilterInit => EstimateInv
<1> SUFFICES ASSUME FilterInit
             PROVE  EstimateInv
    OBVIOUS
<1>1. /\ built = FALSE /\ k = 0 /\ bits = {} /\ members = {} /\ answer = "none"
      /\ hash = [x \in Items |-> 0]
    BY DEF FilterInit
<1>2. FilterTypeOK
    <2>1. 0 \in 0..HashRange - 1 /\ 0 \in 0..MaxK
        BY RangeAssumption, MaxKAssumption
    <2>2. hash \in [Items -> 0..HashRange - 1]
        BY <1>1, <2>1
    <2> QED
        BY <1>1, <2>1, <2>2 DEF FilterTypeOK, Answer
<1>3. FewSet
    BY <1>1, FS_EmptySet DEF FewSet, PerItem
<1> QED
    BY <1>1, <1>2, <1>3 DEF EstimateInv, FilterInv, AllSet, NoneBeforeBuilt, EstimateDefined

\* The filter's state stays within its types: every bit that a walk visits is a
\* bit of the filter (StaticBloomFilter::put).
THEOREM FilterTypeCorrect == FilterSpec => []FilterTypeOK
<1>1. EstimateInv => FilterTypeOK
    BY DEF EstimateInv
<1> QED
    BY <1>1, EstimateInvInit, EstimateInvStep, PTL DEF FilterSpec

\* As long as the items put in cannot have set every bit, and k_ is not zero,
\* the estimate is a number (StaticBloomFilter::estimated_n).
THEOREM EstimateIsDefined == FilterSpec => []EstimateDefined
<1>1. EstimateInv => EstimateDefined
    BY DEF EstimateInv
<1> QED
    BY <1>1, EstimateInvInit, EstimateInvStep, PTL DEF FilterSpec

-----------------------------------------------------------------------------
(***************************************************************************)
(* Private keys                                                            *)
(***************************************************************************)

LEMMA KeysTypeStep == KeysTypeOK /\ [KeysNext]_keysVars => KeysTypeOK'
<1> SUFFICES ASSUME KeysTypeOK, [KeysNext]_keysVars
             PROVE  KeysTypeOK'
  OBVIOUS
<1>1. ASSUME NEW s \in Slots, Destroy(s) \/ FromBase64(s)
      PROVE  KeysTypeOK'
  BY <1>1 DEF Destroy, FromBase64, Appears, KeysTypeOK
<1>2. ASSUME NEW s \in Slots, NEW t \in Slots, Move(s, t)
      PROVE  KeysTypeOK'
  BY <1>2 DEF Move, MovedBytes, KeysTypeOK
<1>3. ASSUME NEW s \in Slots, NEW p \in Pairs, Generate(s, p)
      PROVE  KeysTypeOK'
  BY <1>3, MaxMadeAssumption DEF Generate, Appears, KeysTypeOK
<1>4. CASE UNCHANGED keysVars
  BY <1>4 DEF keysVars, KeysTypeOK
<1> QED
  BY <1>1, <1>2, <1>3, <1>4 DEF KeysNext

\* The variables of the keys keep their types.
THEOREM KeysTypeCorrect == KeysSpec => []KeysTypeOK
<1>1. KeysInit => KeysTypeOK
  BY MaxMadeAssumption DEF KeysInit, KeysTypeOK
<1> QED
  BY <1>1, KeysTypeStep, PTL DEF KeysSpec

Holders(p) == {s \in Slots : holds[s] = p}

LEMMA HoldersFinite ==
    ASSUME NEW p
    PROVE  IsFiniteSet(Holders(p)) /\ Cardinality(Holders(p)) \in Nat
<1>1. IsFiniteSet(Holders(p))
  BY SlotsAssumption, FS_Subset DEF Holders
<1> QED
  BY <1>1, FS_CardinalityType

\* Holders that are lost do not count any more.
LEMMA FewerHolders ==
    ASSUME KeysTypeOK, OneHolder, NEW p \in Pairs,
           Holders(p)' \subseteq Holders(p), made' = made
    PROVE  Cardinality(Holders(p)') <= made'[p]
<1>1. /\ Cardinality(Holders(p)) <= made[p]
      /\ made[p] \in Nat
  BY MaxMadeAssumption DEF OneHolder, Holders, KeysTypeOK
<1>2. /\ IsFiniteSet(Holders(p)')
      /\ Cardinality(Holders(p)') <= Cardinality(Holders(p))
  BY HoldersFinite, FS_Subset
<1>3. Cardinality(Holders(p)') \in Nat /\ Cardinality(Holders(p)) \in Nat
  BY <1>2, HoldersFinite, FS_CardinalityType
<1> QED
  BY <1>1, <1>2, <1>3

LEMMA OneHolderStep ==
    KeysTypeOK /\ OneHolder /\ [KeysNext]_keysVars => OneHolder'
<1> SUFFICES ASSUME KeysTypeOK, OneHolder, [KeysNext]_keysVars, NEW p \in Pairs
             PROVE  Cardinality(Holders(p)') <= made'[p]
  BY DEF OneHolder, Holders
<1>0. p # NoObject /\ p # Zeros
  BY ContentsAssumption
<1>1. ASSUME NEW s \in Slots, Destroy(s)
      PROVE  Cardinality(Holders(p)') <= made'[p]
  <2>1. Holders(p)' \subseteq Holders(p) /\ made' = made
    BY <1>0, <1>1 DEF Destroy, Holders, KeysTypeOK
  <2> QED
    BY <2>1, FewerHolders
<1>2. ASSUME NEW s \in Slots, NEW t \in Slots, Move(s, t)
      PROVE  Cardinality(Holders(p)') <= made'[p]
  <2>1. Holders(p)' \subseteq Holders(p) /\ made' = made
    BY <1>0, <1>2 DEF Move, MovedBytes, Holders, KeysTypeOK
  <2> QED
    BY <2>1, FewerHolders
<1>3. ASSUME NEW s \in Slots, FromBase64(s)
      PROVE  Cardinality(Holders(p)') <= made'[p]
  <2>1. Holders(p)' \subseteq Holders(p) /\ made' = made
    BY <1>0, <1>3 DEF FromBase64, Appears, Holders, KeysTypeOK
  <2> QED
    BY <2>1, FewerHolders
<1>4. ASSUME NEW s \in Slots, NEW q \in Pairs, Generate(s, q)
      PROVE  Cardinality(Holders(p)') <= made'[p]
  <2>1. /\ holds[s] = NoObject
        /\ holds' = [holds EXCEPT ![s] = q]
        /\ made' = [made EXCEPT ![q] = @ + 1]
    BY <1>4 DEF Generate, Appears
  <2>2. CASE q = p
    <3>1. /\ Holders(p)' = Holders(p) \cup {s}
          /\ s \notin Holders(p)
      BY <1>0, <2>1, <2>2 DEF Holders, KeysTypeOK
    <3>2. Cardinality(Holders(p)') = Cardinality(Holders(p)) + 1
      BY <3>1, HoldersFinite, FS_AddElement
    <3>3. /\ Cardinality(Holders(p)) <= made[p]
          /\ made[p] \in Nat
          /\ made'[p] = made[p] + 1
      BY <1>0, <2>1, <2>2, MaxMadeAssumption DEF OneHolder, Holders, KeysTypeOK
    <3> QED
      BY <3>2, <3>3, HoldersFinite
  <2>3. CASE q # p
    <3>1. Holders(p)' = Holders(p) /\ made'[p] = made[p]
      BY <1>0, <2>1, <2>3 DEF Holders, KeysTypeOK
    <3> QED
      BY <3>1 DEF OneHolder, Holders
  <2> QED
    BY <2>2, <2>3
<1>5. CASE UNCHANGED keysVars
  BY <1>5 DEF OneHolder, Holders, keysVars
<1> QED
  BY <1>1, <1>2, <1>3, <1>4, <1>5 DEF KeysNext

\* No operation multiplies a private key: there are at most as many copies as
\* were generated from its seed (crypto.h, crypto.cpp).
THEOREM OneHolderAlways == KeysSpec => []OneHolder
<1>1. KeysInit => OneHolder
  <2> SUFFICES ASSUME KeysInit, NEW p \in Pairs
               PROVE  Cardinality({s \in Slots : holds[s] = p}) <= made[p]
    BY DEF OneHolder
  <2>1. {s \in Slots : holds[s] = p} = {} /\ made[p] = 0
    BY ContentsAssumption DEF KeysInit
  <2> QED
    BY <2>1, FS_EmptySet
<1> QED
  BY <1>1, KeysTypeCorrect, OneHolderStep, PTL DEF KeysSpec

-----------------------------------------------------------------------------
(***************************************************************************)
(* Chains of keys                                                          *)
(***************************************************************************)

\* A record of the form of a chain key.
IsKey(c) == c = [size |-> c.size, head |-> c.head, tail |-> c.tail, zeros |-> c.zeros]

\* What next_key makes of a chain key.
Successor(c) == [c EXCEPT !.head = Half("first", c)]

\* A chain key as HMAC takes it.
IsSalt(x) == IsKey(x) /\ Salt(x) = x

\* Of two chain keys HMAC tells what their salts tell.
LEMMA Salts ==
    ASSUME NEW c, IsKey(c)
    PROVE  /\ IsSalt(Salt(c))
           /\ Salt(c).head = c.head
           /\ IsKey(Successor(c))
           /\ Salt(Successor(c)) = Successor(Salt(c))
           /\ IsSalt(Successor(Salt(c)))
           /\ MessageKey(c) = MessageKey(Salt(c))
<1>1. IsKey(Salt(c)) /\ Salt(Salt(c)) = Salt(c) /\ Salt(c).head = c.head
  BY DEF IsKey, Salt
<1>2. \A h : Half(h, Salt(c)) = Half(h, c)
  BY <1>1 DEF Half
<1>3. /\ IsKey(Successor(c))
      /\ Salt(Successor(c)) = [Salt(c) EXCEPT !.head = Half("first", c)]
  <2> DEFINE h == Half("first", c)
  <2>1. Successor(c) = [size |-> c.size, head |-> h, tail |-> c.tail, zeros |-> c.zeros]
    BY DEF IsKey, Successor
  <2> HIDE DEF h
  <2>2. CASE c.size = "over"
    BY <2>1, <2>2 DEF IsKey, Salt, h
  <2>3. CASE c.size # "over"
    <3>1. Salt(c) = [size |-> "block", head |-> c.head, tail |-> c.tail, zeros |-> 0]
      BY <2>3 DEF IsKey, Salt
    <3>2. Salt(Successor(c)) = [size |-> "block", head |-> h, tail |-> c.tail, zeros |-> 0]
      <4> DEFINE g == Successor(c)
      <4>1. g = [size |-> c.size, head |-> h, tail |-> c.tail, zeros |-> c.zeros]
        BY <2>1
      <4> HIDE DEF g
      <4>2. Salt(g) = [size |-> "block", head |-> h, tail |-> c.tail, zeros |-> 0]
        BY <2>3, <4>1 DEF Salt
      <4> QED
        BY <4>2 DEF g
    <3> QED
      BY <2>1, <3>1, <3>2 DEF IsKey, h
  <2> QED
    BY <2>2, <2>3
<1>4. Salt(Successor(c)) = Successor(Salt(c))
  BY <1>2, <1>3 DEF Successor
<1>5. IsKey(Successor(Salt(c)))
  BY <1>1 DEF IsKey, Successor
<1>6. Salt(Salt(Successor(c))) = Salt(Successor(c))
  BY <1>3 DEF IsKey, Salt
<1> QED
  BY <1>1, <1>2, <1>3, <1>4, <1>5, <1>6 DEF IsSalt, MessageKey

\* A key tells what it was derived from, and what is derived is no seed.
LEMMA Derivations ==
    /\ \A s \in Seed : IsKey(s) /\ s.head.half = "seed"
    /\ \A x : IsSalt(x) => /\ Successor(x).head = Half("first", x)
                           /\ MessageKey(x).of = x
                           /\ Half("first", x).of = x
    /\ \A x : MessageKey(x).half = "second" /\ Half("first", x).half = "first"
<1>1. \A s \in Seed : IsKey(s) /\ s.head.half = "seed"
  BY DEF Seed, Head32, IsKey
<1>2. \A x : MessageKey(x).half = "second" /\ Half("first", x).half = "first"
  BY DEF MessageKey, Half
<1>3. ASSUME NEW x, IsSalt(x)
      PROVE  MessageKey(x).of = x /\ Half("first", x).of = x
  BY <1>3 DEF IsSalt, MessageKey, Half
<1>4. ASSUME NEW x, IsSalt(x)
      PROVE  Successor(x).head = Half("first", x)
  BY <1>4 DEF IsSalt, IsKey, Successor
<1> QED
  BY <1>1, <1>2, <1>3, <1>4

\* Seeds are alike exactly if they make the same salt.
LEMMA AlikeSalts ==
    ASSUME NEW s \in Seed, NEW t \in Seed
    PROVE  Salt(s) = Salt(t) <=> Alike(s, t)
<1>1. IsKey(s) /\ IsKey(t)
  BY Derivations
<1>2. /\ Salt(s).head = s.head /\ Salt(s).tail = s.tail
      /\ Salt(t).head = t.head /\ Salt(t).tail = t.tail
  BY <1>1 DEF IsKey, Salt
<1>3. /\ s.size = "over" => Salt(s) = s
      /\ s.size # "over" => Salt(s).size = "block"
      /\ t.size = "over" => Salt(t) = t
      /\ t.size # "over" => Salt(t).size = "block"
  BY <1>1 DEF IsKey, Salt
<1>4. CASE s.size = "over" \/ t.size = "over"
  BY <1>3, <1>4 DEF Alike
<1>5. CASE s.size # "over" /\ t.size # "over"
  <2>1. Salt(s) = [size |-> "block", head |-> s.head, tail |-> s.tail, zeros |-> 0]
    BY <1>1, <1>5 DEF IsKey, Salt
  <2>2. Salt(t) = [size |-> "block", head |-> t.head, tail |-> t.tail, zeros |-> 0]
    BY <1>1, <1>5 DEF IsKey, Salt
  <2>3. Salt(s) = Salt(t) <=> s.head = t.head /\ s.tail = t.tail
    BY <1>2, <2>1, <2>2
  <2> QED
    BY <1>5, <2>3 DEF Alike
<1> QED
  BY <1>4, <1>5

\* So what is derived tells the salt it comes from, and that it is derived.
LEMMA Injective ==
    ASSUME NEW b, NEW c, IsSalt(b), IsSalt(c)
    PROVE  /\ Successor(b) = Successor(c) => b = c
           /\ MessageKey(b) = MessageKey(c) => b = c
           /\ \A s \in Seed : Successor(b) # Salt(s)
<1>1. /\ Successor(b).head = Half("first", b)
      /\ Successor(c).head = Half("first", c)
  BY Derivations
<1>2. /\ Half("first", b).of = b /\ Half("first", c).of = c
      /\ MessageKey(b).of = b /\ MessageKey(c).of = c
  BY Derivations
<1>3. Successor(b) = Successor(c) => b = c
  BY <1>1, <1>2
<1>4. Successor(b).head.half = "first"
  BY <1>1, Derivations
<1>5. \A s \in Seed : Salt(s).head.half = "seed"
  BY Derivations, Salts
<1> QED
  BY <1>2, <1>3, <1>4, <1>5

\* The salt from which the i-th message key of e was derived.
Source(e, i) == keys[e][i].of

IsSeq(s) == \E S : s \in Seq(S)

LEMMA AppendIs ==
    ASSUME NEW s, NEW x, IsSeq(s)
    PROVE  /\ IsSeq(Append(s, x))
           /\ Len(s) \in Nat
           /\ Len(Append(s, x)) = Len(s) + 1
           /\ Append(s, x)[Len(s) + 1] = x
           /\ \A i \in 1..Len(s) : Append(s, x)[i] = s[i]
<1>1. PICK S : s \in Seq(S)
  BY DEF IsSeq
<1>2. s \in Seq(S \cup {x}) /\ x \in S \cup {x}
  BY <1>1
<1>3. Append(s, x) \in Seq(S \cup {x})
  BY <1>2
<1> QED
  BY <1>2, <1>3 DEF IsSeq

\* An end that has begun has one chain key, derived from its seed step by step,
\* and the sources of its message keys are the salts of those before it.
Derived(e) ==
    LET n == Len(keys[e])
    IN  \E s \in Seed, c \in chain[e] :
            /\ root[e] = {s}
            /\ chain[e] = {c}
            /\ IsKey(c)
            /\ n = 0 => Salt(c) = Salt(s)
            /\ n > 0 => Salt(c) = Successor(Source(e, n)) /\ Source(e, 1) = Salt(s)
            /\ \A i \in 1..n : IsSalt(Source(e, i)) /\ keys[e][i] = MessageKey(Source(e, i))
            /\ \A i \in 1..n - 1 : Source(e, i + 1) = Successor(Source(e, i))

\* Two ends with seeds that HMAC does not tell apart.
SameRoot(d, e) == \A s \in root[d], t \in root[e] : Salt(s) = Salt(t)

\* Message keys are the same exactly if they have the same place in chains of
\* such seeds.
SameKeys ==
    \A d, e \in Chains :
        \A i \in 1..Len(keys[d]), j \in 1..Len(keys[e]) :
            keys[d][i] = keys[e][j] <=> i = j /\ SameRoot(d, e)

ChainInv ==
    /\ root = [e \in Chains |-> root[e]]
    /\ chain = [e \in Chains |-> chain[e]]
    /\ keys = [e \in Chains |-> keys[e]]
    /\ overran \in BOOLEAN
    /\ \A e \in Chains :
          /\ IsSeq(keys[e])
          /\ Len(keys[e]) \in 0..MaxKeys
          /\ root[e] = {} => chain[e] = {} /\ keys[e] = <<>>
          /\ root[e] # {} => Derived(e)
    /\ SameKeys

\* What next_key is about to return is new, but to an end that is ahead on a
\* chain of such a seed: if two derived keys had the same source, their
\* sources had, one step before.
LEMMA NextIsNew ==
    ASSUME ChainInv, NEW d \in Chains, NEW e \in Chains, NEW c \in chain[e],
           NEW i \in 1..Len(keys[d])
    PROVE  keys[d][i] = MessageKey(c) <=> i = Len(keys[e]) + 1 /\ SameRoot(d, e)
<1> DEFINE n == Len(keys[e])
<1>1. Derived(d) /\ Derived(e) /\ n \in Nat /\ Len(keys[d]) \in Nat
  <2>1. root[e] # {} /\ root[d] # {}
    BY DEF ChainInv
  <2> QED
    BY <2>1, MaxKeysAssumption DEF ChainInv
<1>2. PICK s \in Seed : root[d] = {s} /\ Source(d, 1) = Salt(s)
  BY <1>1 DEF Derived
<1>3. PICK t \in Seed : root[e] = {t} /\ (n = 0 => Salt(c) = Salt(t)) /\ IsKey(c)
  BY <1>1 DEF Derived
<1>4. n > 0 => Salt(c) = Successor(Source(e, n)) /\ IsSalt(Source(e, n))
  BY <1>1 DEF Derived
<1>5. i > 1 => Source(d, i) = Successor(Source(d, i - 1)) /\ IsSalt(Source(d, i - 1))
  <2>1. i > 1 => i - 1 \in 1..Len(keys[d]) - 1 /\ i - 1 \in 1..Len(keys[d]) /\ (i - 1) + 1 = i
    BY <1>1
  <2> QED
    BY <1>1, <2>1 DEF Derived
<1>6. keys[d][i] = MessageKey(c) <=> Source(d, i) = Salt(c)
  <2>1. IsSalt(Source(d, i)) /\ keys[d][i] = MessageKey(Source(d, i))
    BY <1>1 DEF Derived
  <2>2. IsSalt(Salt(c)) /\ MessageKey(c) = MessageKey(Salt(c))
    BY <1>3, Salts
  <2> QED
    BY <2>1, <2>2, Injective
<1>7. SameRoot(d, e) <=> Salt(s) = Salt(t)
  BY <1>2, <1>3 DEF SameRoot
<1>8. CASE i = 1 /\ n = 0
  BY <1>2, <1>3, <1>6, <1>7, <1>8
<1>9. CASE i = 1 /\ n > 0
  BY <1>2, <1>4, <1>6, <1>9, Injective
<1>10. CASE i > 1 /\ n = 0
  BY <1>3, <1>5, <1>6, <1>10, Injective
<1>11. CASE i > 1 /\ n > 0
  <2>1. i - 1 \in 1..Len(keys[d]) /\ n \in 1..Len(keys[e])
    BY <1>1, <1>11
  <2>2. keys[d][i - 1] = keys[e][n] <=> i - 1 = n /\ SameRoot(d, e)
    BY <2>1 DEF ChainInv, SameKeys
  <2>3. /\ keys[d][i - 1] = MessageKey(Source(d, i - 1))
        /\ keys[e][n] = MessageKey(Source(e, n))
    BY <1>1, <2>1 DEF Derived
  <2>4. Source(d, i - 1) = Source(e, n) <=> i - 1 = n /\ SameRoot(d, e)
    BY <1>4, <1>5, <1>11, <2>2, <2>3, Injective
  <2>5. Source(d, i) = Salt(c) <=> Source(d, i - 1) = Source(e, n)
    BY <1>4, <1>5, <1>11, Injective
  <2>6. i - 1 = n <=> i = n + 1
    BY <1>1
  <2> QED
    BY <1>6, <2>4, <2>5, <2>6
<1> QED
  BY <1>1, <1>8, <1>9, <1>10, <1>11

LEMMA DerivedSame ==
    ASSUME NEW e \in Chains, Derived(e),
           root'[e] = root[e], chain'[e] = chain[e], keys'[e] = keys[e]
    PROVE  Derived(e)'
  BY DEF Derived, Source

LEMMA ChainInvStart ==
    ASSUME ChainInv, NEW e \in Chains, NEW s \in Seed, StartChain(e, s)
    PROVE  ChainInv'
<1>1. /\ root[e] = {}
      /\ root' = [root EXCEPT ![e] = {s}]
      /\ chain' = [chain EXCEPT ![e] = {s}]
      /\ UNCHANGED <<keys, overran>>
      /\ keys[e] = <<>>
  BY DEF StartChain, ChainInv
<1>2. /\ root'[e] = {s} /\ chain'[e] = {s}
      /\ \A d \in Chains \ {e} : root'[d] = root[d] /\ chain'[d] = chain[d]
  BY <1>1 DEF ChainInv
<1>3. Derived(e)'
  <2>1. IsKey(s) /\ Len(keys'[e]) = 0
    BY <1>1, Derivations
  <2> QED
    BY <1>1, <1>2, <2>1 DEF Derived
<1>4. ASSUME NEW d \in Chains \ {e}
      PROVE  /\ root'[d] = {} => chain'[d] = {} /\ keys'[d] = <<>>
             /\ root'[d] # {} => Derived(d)'
  BY <1>1, <1>2, <1>4, DerivedSame DEF ChainInv
<1>5. SameKeys'
  <2> SUFFICES ASSUME NEW d \in Chains, NEW f \in Chains,
                      NEW i \in 1..Len(keys[d]), NEW j \in 1..Len(keys[f])
               PROVE  keys[d][i] = keys[f][j] <=> i = j /\ SameRoot(d, f)'
    BY <1>1 DEF SameKeys
  <2>1. d # e /\ f # e
    BY <1>1
  <2>2. SameRoot(d, f)' <=> SameRoot(d, f)
    BY <1>2, <2>1 DEF SameRoot
  <2> QED
    BY <2>1, <2>2 DEF ChainInv, SameKeys
<1> QED
  BY <1>1, <1>2, <1>3, <1>4, <1>5 DEF ChainInv

LEMMA ChainInvNext ==
    ASSUME ChainInv, NEW e \in Chains, NextKey(e)
    PROVE  ChainInv'
<1>0. PICK n \in Nat : n = Len(keys[e])
  BY MaxKeysAssumption DEF ChainInv
<1>1. PICK c \in chain[e] :
         /\ chain' = [chain EXCEPT ![e] = {Successor(c)}]
         /\ keys' = [keys EXCEPT ![e] = Append(@, MessageKey(c))]
  BY DEF NextKey, Successor
<1>2. UNCHANGED <<root, overran>> /\ n < MaxKeys
  BY <1>0 DEF NextKey
<1>3. root[e] # {} /\ Derived(e)
  BY <1>1 DEF ChainInv
<1>4. /\ chain'[e] = {Successor(c)}
      /\ keys'[e] = Append(keys[e], MessageKey(c))
      /\ \A d \in Chains \ {e} : chain'[d] = chain[d] /\ keys'[d] = keys[d]
  BY <1>1 DEF ChainInv
<1>5. /\ IsSeq(keys'[e])
      /\ Len(keys'[e]) = n + 1
      /\ keys'[e][n + 1] = MessageKey(c)
      /\ \A i \in 1..n : keys'[e][i] = keys[e][i]
  BY <1>0, <1>4, AppendIs DEF ChainInv
<1>6. /\ Source(e, n + 1)' = Salt(c)
      /\ \A i \in 1..n : Source(e, i)' = Source(e, i)
      /\ IsKey(c) /\ IsSalt(Salt(c)) /\ MessageKey(c) = MessageKey(Salt(c))
  <2>1. IsKey(c)
    BY <1>1, <1>3 DEF Derived
  <2>2. IsSalt(Salt(c)) /\ MessageKey(c) = MessageKey(Salt(c))
    BY <2>1, Salts
  <2>3. MessageKey(c).of = Salt(c)
    BY <2>2, Derivations
  <2> QED
    BY <1>5, <2>1, <2>2, <2>3 DEF Source
<1>7. Derived(e)'
  <2>1. PICK s \in Seed :
           /\ root[e] = {s}
           /\ n = 0 => Salt(c) = Salt(s)
           /\ n > 0 => Salt(c) = Successor(Source(e, n)) /\ Source(e, 1) = Salt(s)
           /\ \A i \in 1..n : IsSalt(Source(e, i)) /\ keys[e][i] = MessageKey(Source(e, i))
           /\ \A i \in 1..n - 1 : Source(e, i + 1) = Successor(Source(e, i))
    BY <1>0, <1>1, <1>3 DEF Derived
  <2>2. Source(e, 1)' = Salt(s)
    BY <1>6, <2>1
  <2>3. \A i \in 1..n + 1 :
           IsSalt(Source(e, i)') /\ keys'[e][i] = MessageKey(Source(e, i)')
    <3>1. ASSUME NEW i \in 1..n
          PROVE  IsSalt(Source(e, i)') /\ keys'[e][i] = MessageKey(Source(e, i)')
      BY <1>5, <1>6, <2>1
    <3>2. IsSalt(Source(e, n + 1)') /\ keys'[e][n + 1] = MessageKey(Source(e, n + 1)')
      BY <1>5, <1>6
    <3>3. \A i \in 1..n + 1 : i \in 1..n \/ i = n + 1
      OBVIOUS
    <3> QED
      BY <3>1, <3>2, <3>3
  <2>4. \A i \in 1..n : Source(e, i + 1)' = Successor(Source(e, i)')
    <3>1. ASSUME NEW i \in 1..n - 1
          PROVE  Source(e, i + 1)' = Successor(Source(e, i)')
      <4>1. i \in 1..n /\ i + 1 \in 1..n
        OBVIOUS
      <4> QED
        BY <1>6, <2>1, <4>1
    <3>2. n > 0 => Source(e, n + 1)' = Successor(Source(e, n)')
      <4>1. n > 0 => n \in 1..n
        OBVIOUS
      <4> QED
        BY <1>6, <2>1, <4>1
    <3>3. \A i \in 1..n : n > 0 /\ (i \in 1..n - 1 \/ i = n)
      OBVIOUS
    <3> QED
      BY <3>1, <3>2, <3>3
  <2>5. /\ IsKey(Successor(c))
        /\ Salt(Successor(c)) = Successor(Source(e, n + 1)')
    BY <1>6, Salts
  <2>6. root'[e] = {s}
    BY <1>2, <2>1
  <2>7. /\ n + 1 > 0
        /\ (n + 1) - 1 = n
        /\ n + 1 # 0
    OBVIOUS
  <2>8. /\ \A i \in 1..Len(keys'[e]) :
              IsSalt(Source(e, i)') /\ keys'[e][i] = MessageKey(Source(e, i)')
        /\ \A i \in 1..Len(keys'[e]) - 1 : Source(e, i + 1)' = Successor(Source(e, i)')
        /\ Len(keys'[e]) > 0
        /\ Salt(Successor(c)) = Successor(Source(e, Len(keys[e]))')
    BY <1>5, <2>3, <2>4, <2>5, <2>7 DEF Source
  <2> DEFINE m == Len(keys'[e])
  <2>9. /\ m = 0 => Salt(Successor(c)) = Salt(s)
        /\ m > 0 => /\ Salt(Successor(c)) = Successor(Source(e, Len(keys[e]))')
                    /\ Source(e, 1)' = Salt(s)
    BY <1>5, <2>2, <2>7, <2>8
  <2> QED
    BY <1>4, <2>5, <2>6, <2>8, <2>9 DEF Derived, Source
<1>8. ASSUME NEW d \in Chains \ {e}
      PROVE  /\ root'[d] = {} => chain'[d] = {} /\ keys'[d] = <<>>
             /\ root'[d] # {} => Derived(d)'
  BY <1>2, <1>4, <1>8, DerivedSame DEF ChainInv
<1>9. ASSUME NEW d \in Chains
      PROVE  /\ Len(keys[d]) \in Nat
             /\ \A i \in 1..Len(keys[d]) : keys'[d][i] = keys[d][i]
             /\ Len(keys'[d]) = IF d = e THEN n + 1 ELSE Len(keys[d])
  BY <1>0, <1>4, <1>5, <1>9, MaxKeysAssumption DEF ChainInv
<1>10. SameKeys'
  <2> SUFFICES ASSUME NEW d \in Chains, NEW f \in Chains,
                      NEW i \in 1..Len(keys'[d]), NEW j \in 1..Len(keys'[f])
               PROVE  keys'[d][i] = keys'[f][j] <=> i = j /\ SameRoot(d, f)
    BY <1>2 DEF SameKeys, SameRoot
  <2>1. i \in 1..Len(keys[d]) \/ (d = e /\ i = n + 1)
    BY <1>0, <1>9
  <2>2. j \in 1..Len(keys[f]) \/ (f = e /\ j = n + 1)
    BY <1>0, <1>9
  <2>3. CASE i \in 1..Len(keys[d]) /\ j \in 1..Len(keys[f])
    BY <1>9, <2>3 DEF ChainInv, SameKeys
  <2>4. CASE i \in 1..Len(keys[d]) /\ f = e /\ j = n + 1
    BY <1>0, <1>5, <1>9, <2>4, NextIsNew
  <2>5. CASE d = e /\ i = n + 1 /\ j \in 1..Len(keys[f])
    <3>1. keys[f][j] = MessageKey(c) <=> j = n + 1 /\ SameRoot(f, e)
      BY <1>0, <2>5, NextIsNew
    <3>2. SameRoot(f, e) <=> SameRoot(e, f)
      BY DEF SameRoot
    <3> QED
      BY <1>5, <1>9, <2>5, <3>1, <3>2
  <2>6. CASE d = e /\ i = n + 1 /\ f = e /\ j = n + 1
    <3>1. SameRoot(e, e)
      BY <1>3 DEF Derived, SameRoot
    <3> QED
      BY <2>6, <3>1
  <2> QED
    BY <2>1, <2>2, <2>3, <2>4, <2>5, <2>6
<1>11. keys' = [d \in Chains |-> keys'[d]] /\ chain' = [d \in Chains |-> chain'[d]]
  BY <1>1 DEF ChainInv
<1>12. ASSUME NEW d \in Chains
       PROVE  IsSeq(keys'[d]) /\ Len(keys'[d]) \in 0..MaxKeys
  <2>1. CASE d = e
    BY <1>2, <1>5, <2>1, MaxKeysAssumption
  <2>2. CASE d # e
    BY <1>4, <2>2 DEF ChainInv
  <2> QED
    BY <2>1, <2>2
<1>13. root' = [d \in Chains |-> root'[d]] /\ overran' \in BOOLEAN
  BY <1>2 DEF ChainInv
<1>14. \A d \in Chains : root'[d] = {} => chain'[d] = {} /\ keys'[d] = <<>>
  BY <1>2, <1>3, <1>8
<1>15. \A d \in Chains : root'[d] # {} => Derived(d)'
  BY <1>7, <1>8
<1> QED
  BY <1>10, <1>11, <1>12, <1>13, <1>14, <1>15 DEF ChainInv

LEMMA ChainInvStep == ChainInv /\ [ChainNext]_chainVars => ChainInv'
<1> SUFFICES ASSUME ChainInv, [ChainNext]_chainVars
             PROVE  ChainInv'
  OBVIOUS
<1>1. ASSUME NEW e \in Chains, Overrun(e)
      PROVE  UNCHANGED <<root, chain, keys>> /\ overran' = TRUE
  BY <1>1 DEF Overrun
<1>2. ASSUME UNCHANGED <<root, chain, keys>>, overran' \in BOOLEAN
      PROVE  ChainInv'
  <2>1. \A e \in Chains : Derived(e) => Derived(e)'
    BY <1>2, DerivedSame
  <2>2. SameKeys'
    BY <1>2 DEF ChainInv, SameKeys, SameRoot
  <2> QED
    BY <1>2, <2>1, <2>2 DEF ChainInv
<1>3. CASE UNCHANGED chainVars
  BY <1>2, <1>3 DEF chainVars, ChainInv
<1> QED
  BY <1>1, <1>2, <1>3, ChainInvStart, ChainInvNext DEF ChainNext

LEMMA ChainInvInit == ChainInit => ChainInv
<1> SUFFICES ASSUME ChainInit
             PROVE  ChainInv
  OBVIOUS
<1>1. \A e \in Chains : root[e] = {} /\ chain[e] = {} /\ keys[e] = <<>>
  BY DEF ChainInit
<1>2. IsSeq(<<>>) /\ Len(<<>>) = 0
  <2>1. <<>> \in Seq({})
    OBVIOUS
  <2> QED
    BY <2>1 DEF IsSeq
<1>3. SameKeys
  BY <1>1, <1>2 DEF SameKeys
<1>4. /\ root = [e \in Chains |-> root[e]]
      /\ chain = [e \in Chains |-> chain[e]]
      /\ keys = [e \in Chains |-> keys[e]]
      /\ overran \in BOOLEAN
  BY DEF ChainInit
<1>5. \A e \in Chains : IsSeq(keys[e]) /\ Len(keys[e]) \in 0..MaxKeys
  BY <1>1, <1>2, MaxKeysAssumption
<1> QED
  BY <1>1, <1>3, <1>4, <1>5 DEF ChainInv

\* The variables of the chains keep their types.
THEOREM ChainTypeCorrect == ChainSpec => []ChainTypeOK
<1>1. ChainInv => ChainTypeOK
  <2> SUFFICES ASSUME ChainInv, NEW e \in Chains
               PROVE  /\ root[e] = {} \/ \E s \in Seed : root[e] = {s}
                      /\ chain[e] # {} => root[e] # {}
                      /\ Len(keys[e]) \in 0..MaxKeys
    BY DEF ChainTypeOK, ChainInv
  <2> QED
    BY DEF ChainInv, Derived
<1> QED
  BY <1>1, ChainInvInit, ChainInvStep, PTL DEF ChainSpec

\* Two ends agree on their i-th keys exactly if their seeds are alike, however
\* far each has got (kdf_chain.cpp).
THEOREM ChainsAgreeAlways == ChainSpec => []ChainsAgree
<1>1. ChainInv => ChainsAgree
  <2> SUFFICES ASSUME ChainInv, NEW d \in Chains, NEW e \in Chains,
                      NEW i \in 1..Len(keys[d]) \cap 1..Len(keys[e])
               PROVE  keys[d][i] = keys[e][i]
                         <=> \A s \in root[d], t \in root[e] : Alike(s, t)
    BY DEF ChainsAgree
  <2>1. keys[d][i] = keys[e][i] <=> SameRoot(d, e)
    BY DEF ChainInv, SameKeys
  <2>2. root[d] \subseteq Seed /\ root[e] \subseteq Seed
    BY DEF ChainInv, Derived
  <2>3. \A s \in root[d], t \in root[e] : Salt(s) = Salt(t) <=> Alike(s, t)
    BY <2>2, AlikeSalts
  <2> QED
    BY <2>1, <2>3 DEF SameRoot
<1> QED
  BY <1>1, ChainInvInit, ChainInvStep, PTL DEF ChainSpec

\* No message key is returned twice, or is a chain key (kdf_chain.cpp).
THEOREM KeysFreshAlways == ChainSpec => []KeysFresh
<1>1. ChainInv => KeysFresh
  <2> SUFFICES ASSUME ChainInv, NEW d \in Chains, NEW e \in Chains,
                      NEW i \in 1..Len(keys[d])
               PROVE  /\ \A c \in chain[e] : keys[d][i] # c.head
                      /\ \A j \in 1..Len(keys[e]) : keys[d][i] = keys[e][j] => i = j
    BY DEF KeysFresh
  <2>1. \A j \in 1..Len(keys[e]) : keys[d][i] = keys[e][j] => i = j
    BY DEF ChainInv, SameKeys
  <2>2. ASSUME NEW c \in chain[e]
        PROVE  keys[d][i] # c.head
    <3>1. Derived(d) /\ Derived(e) /\ Len(keys[e]) \in Nat
      BY <2>2, MaxKeysAssumption DEF ChainInv
    <3>2. keys[d][i].half = "second"
      BY <3>1, Derivations DEF Derived
    <3>3. /\ IsKey(c)
          /\ \/ \E s \in Seed : Salt(c) = Salt(s)
             \/ \E x : IsSalt(x) /\ Salt(c) = Successor(x)
      BY <2>2, <3>1 DEF Derived
    <3>4. c.head.half \in {"seed", "first"}
      BY <3>3, Derivations, Salts
    <3> QED
      BY <3>2, <3>4
  <2> QED
    BY <2>1, <2>2
<1> QED
  BY <1>1, ChainInvInit, ChainInvStep, PTL DEF ChainSpec

-----------------------------------------------------------------------------
(***************************************************************************)
(* Programs                                                                *)
(***************************************************************************)

\* A program that uses one part leaves the others alone.
THEOREM LibraryUsesParts == LibrarySpec => FilterSpec /\ ChainSpec /\ KeysSpec
<1>1. LibraryInit => FilterInit /\ ChainInit /\ KeysInit
  BY DEF LibraryInit
<1>2. [LibraryNext]_libraryVars =>
         [FilterNext]_filterVars /\ [ChainNext]_chainVars /\ [KeysNext]_keysVars
  BY DEF LibraryNext, libraryVars
<1> QED
  BY <1>1, <1>2, PTL DEF LibrarySpec, FilterSpec, ChainSpec, KeysSpec

\* The variables of all the parts keep their types in a program.
THEOREM LibraryTypeCorrect == LibrarySpec => []LibraryTypeOK
<1>1. FilterTypeOK /\ ChainTypeOK /\ KeysTypeOK => LibraryTypeOK
  BY DEF LibraryTypeOK
<1> QED
  BY <1>1, LibraryUsesParts, FilterTypeCorrect, ChainTypeCorrect, KeysTypeCorrect, PTL

\* So each part keeps its promise in a program.
COROLLARY LibraryKeepsPromises ==
    LibrarySpec => /\ ImplementsMembership
                   /\ []EstimateDefined
                   /\ [](ChainsAgree /\ KeysFresh /\ OneHolder)
  BY LibraryUsesParts, NoFalseNegatives, EstimateIsDefined, ChainsAgreeAlways,
     KeysFreshAlways, OneHolderAlways, PTL
=============================================================================
