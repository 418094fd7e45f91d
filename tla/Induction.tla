----------------------------- MODULE Induction ------------------------------
(***************************************************************************)
(* Induction over the naturals, stated about sets and functions instead of *)
(* about an operator, and functions defined by recursion over them.        *)
(***************************************************************************)
EXTENDS Integers, SequencesExt, SequenceTheorems, FiniteSetTheorems,
        WellFoundedInduction, TLAPS

\* A set of naturals that is not empty has a least element.
LEMMA NatHasLeast ==
    ASSUME NEW S \in SUBSET Nat, S # {}
    PROVE  \E n \in S : \A m \in S : n <= m
<1> DEFINE R == OpToRel(<, Nat)
<1>1. \E n \in S : \A m \in S : <<m, n>> \notin R
    <2>1. IsWellFoundedOn(R, Nat)
        BY NatLessThanWellFounded
    <2> HIDE DEF R
    <2> QED
        BY <2>1, WFMin
<1>2. \A m, n \in Nat : <<m, n>> \notin R => n <= m
    BY DEF OpToRel
<1> QED
    BY <1>1, <1>2

LEMMA MinIsLeast ==
    ASSUME NEW S \in SUBSET Nat, S # {}
    PROVE  /\ Min(S) \in S
           /\ \A m \in S : Min(S) <= m
<1>1. \E n \in S : \A m \in S : n <= m
    BY NatHasLeast
<1> QED
    BY <1>1 DEF Min

\* A set with zero and with the successors of its elements has every natural.
LEMMA NatSetInduction ==
    ASSUME NEW S, 0 \in S, \A n \in Nat : n \in S => n + 1 \in S
    PROVE  Nat \subseteq S
<1> SUFFICES ASSUME Nat \ S # {}
             PROVE  FALSE
    OBVIOUS
<1>1. PICK n \in Nat \ S : \A m \in Nat \ S : n <= m
    BY NatHasLeast
<1>2. n - 1 \in Nat
    BY <1>1
<1>3. n - 1 \in S
    BY <1>1, <1>2
<1> QED
    BY <1>1, <1>2, <1>3

\* f begins with base, and step makes each value of the one before.
IsIteration(f, V, base, step) ==
    /\ f \in [Nat -> V]
    /\ f[0] = base
    /\ \A n \in Nat : f[n + 1] = step[n][f[n]]

\* A value to begin with and a step define a function.
LEMMA NatRecursion ==
    ASSUME NEW V, NEW base \in V, NEW step \in [Nat -> [V -> V]]
    PROVE  \E f : IsIteration(f, V, base, step)
<1> DEFINE UpTo(n, g) ==
              /\ g \in [0..n -> V]
              /\ g[0] = base
              /\ \A i \in 0..n : i < n => g[i + 1] = step[i][g[i]]
<1>1. \A n \in Nat : \E g : UpTo(n, g)
    <2> DEFINE S == {n \in Nat : \E g : UpTo(n, g)}
    <2>1. 0 \in S
        <3>1. UpTo(0, [i \in 0..0 |-> base])
            OBVIOUS
        <3> QED
            BY <3>1
    <2>2. ASSUME NEW n \in Nat, n \in S
          PROVE  n + 1 \in S
        <3>1. PICK g : UpTo(n, g)
            BY <2>2
        <3> DEFINE h == [i \in 0..n + 1 |-> IF i = n + 1 THEN step[n][g[n]] ELSE g[i]]
        <3>2. h \in [0..n + 1 -> V]
            BY <3>1
        <3>3. \A i \in 0..n + 1 : i < n + 1 => h[i + 1] = step[i][h[i]]
            BY <3>1
        <3>4. UpTo(n + 1, h)
            BY <3>1, <3>2, <3>3
        <3> HIDE DEF h, UpTo
        <3> QED
            BY <3>4
    <2> HIDE DEF S
    <2>3. Nat \subseteq S
        BY <2>1, <2>2, NatSetInduction
    <2> QED
        BY <2>3 DEF S
<1>2. ASSUME NEW n \in Nat, NEW g, UpTo(n, g), NEW m \in Nat, NEW h, UpTo(m, h)
      PROVE  \A i \in Nat : i <= n /\ i <= m => g[i] = h[i]
    <2> DEFINE S == {i \in Nat : i <= n /\ i <= m => g[i] = h[i]}
    <2>1. 0 \in S
        BY <1>2
    <2>2. ASSUME NEW i \in Nat, i \in S
          PROVE  i + 1 \in S
        BY <1>2, <2>2
    <2> HIDE DEF S
    <2>3. Nat \subseteq S
        BY <2>1, <2>2, NatSetInduction
    <2> QED
        BY <2>3 DEF S
<1> DEFINE G(n) == CHOOSE g : UpTo(n, g)
           f == [n \in Nat |-> G(n)[n]]
<1>3. \A n \in Nat : UpTo(n, G(n))
    BY <1>1
<1> HIDE DEF UpTo, G
<1>4. f \in [Nat -> V]
    BY <1>3 DEF UpTo
<1>5. f[0] = base
    BY <1>3 DEF UpTo
<1>6. ASSUME NEW n \in Nat
      PROVE  f[n + 1] = step[n][f[n]]
    <2>1. G(n + 1)[n + 1] = step[n][G(n + 1)[n]]
        BY <1>3 DEF UpTo
    <2>2. G(n + 1)[n] = G(n)[n]
        BY <1>2, <1>3
    <2> QED
        BY <2>1, <2>2
<1>7. IsIteration(f, V, base, step)
    BY <1>4, <1>5, <1>6 DEF IsIteration
<1> QED
    BY <1>7

-----------------------------------------------------------------------------
(***************************************************************************)
(* Sequences                                                               *)
(***************************************************************************)

\* F[n] is the first n sequences of seqs, one after the other.
IsFlattening(F, T, seqs) ==
    /\ F \in [Nat -> Seq(T)]
    /\ F[0] = <<>>
    /\ \A i \in 1..Len(seqs) : F[i] = F[i - 1] \o seqs[i]

LEMMA FlattenSeqDef ==
    ASSUME NEW T, NEW seqs \in Seq(Seq(T))
    PROVE  \E F : IsFlattening(F, T, seqs) /\ FlattenSeq(seqs) = F[Len(seqs)]
<1> DEFINE V == Seq(T)
           piece == [n \in Nat |-> IF n + 1 \in 1..Len(seqs) THEN seqs[n + 1] ELSE <<>>]
           step == [n \in Nat |-> [v \in V |-> v \o piece[n]]]
           Def(g) == [i \in 1..Len(seqs) |-> IF i = 1 THEN seqs[i] ELSE g[i - 1] \o seqs[i]]
<1>1. Len(seqs) \in Nat /\ \A i \in 1..Len(seqs) : seqs[i] \in V
    BY ElementOfSeq, LenProperties
<1>2. <<>> \in V
    OBVIOUS
<1>3. piece \in [Nat -> V]
    BY <1>1, <1>2
<1>4. step \in [Nat -> [V -> V]]
    <2> HIDE DEF piece
    <2>1. ASSUME NEW n \in Nat, NEW v \in V
          PROVE  v \o piece[n] \in V
        <3>1. piece[n] \in Seq(T)
            BY <1>3
        <3> QED
            BY <3>1, ConcatProperties
    <2> HIDE DEF V
    <2> QED
        BY <2>1
<1>5. PICK F : IsIteration(F, V, <<>>, step)
    <2> HIDE DEF step, V
    <2> QED
        BY <1>2, <1>4, NatRecursion
<1>6. /\ F \in [Nat -> V]
      /\ F[0] = <<>>
    BY <1>5 DEF IsIteration
<1>7. ASSUME NEW i \in 1..Len(seqs)
      PROVE  F[i] = F[i - 1] \o seqs[i]
    <2>1. i - 1 \in Nat /\ (i - 1) + 1 = i
        BY <1>1
    <2>2. F[(i - 1) + 1] = step[i - 1][F[i - 1]]
        BY <1>5, <2>1, Zenon DEF IsIteration
    <2>3. F[i - 1] \in V
        BY <1>6, <2>1
    <2>4. piece[i - 1] = seqs[i]
        BY <1>1, <2>1
    <2> HIDE DEF V, piece
    <2>5. step[i - 1][F[i - 1]] = F[i - 1] \o piece[i - 1]
        BY <2>1, <2>3
    <2> QED
        BY <2>1, <2>2, <2>4, <2>5
<1>8. IsFlattening(F, T, seqs)
    BY <1>6, <1>7 DEF IsFlattening
<1>9. FlattenSeq(seqs) = F[Len(seqs)]
    <2>1. CASE Len(seqs) = 0
        <3>1. seqs = <<>>
            BY <2>1, EmptySeq
        <3> QED
            BY <1>6, <2>1, <3>1 DEF FlattenSeq
    <2>2. CASE Len(seqs) # 0
        <3> DEFINE f == [i \in 1..Len(seqs) |-> F[i]]
                   g == CHOOSE h : h = Def(h)
        <3>1. F[1] = seqs[1]
            <4>1. F[1] = F[0] \o seqs[1] /\ seqs[1] \in Seq(T)
                <5>1. 1 \in 1..Len(seqs) /\ 1 - 1 = 0
                    BY <1>1, <2>2
                <5> QED
                    BY <1>1, <1>7, <5>1
            <4> QED
                BY <1>6, <4>1, ConcatEmptySeq
        <3>2. f = Def(f)
            <4>1. ASSUME NEW i \in 1..Len(seqs), i # 1
                  PROVE  f[i] = f[i - 1] \o seqs[i]
                <5>1. i - 1 \in 1..Len(seqs)
                    BY <1>1, <4>1
                <5>2. f[i - 1] = F[i - 1] /\ f[i] = F[i]
                    BY <5>1
                <5> QED
                    BY <1>7, <5>2
            <4>2. \A i \in 1..Len(seqs) : f[i] = Def(f)[i]
                BY <3>1, <4>1
            <4> QED
                BY <4>2
        <3> HIDE DEF Def
        <3>3. g = Def(g)
            BY <3>2
        <3>4. FlattenSeq(seqs) = g[Len(seqs)]
            BY <2>2 DEF FlattenSeq, Def
        <3> HIDE DEF f, g
        <3> DEFINE S == {i \in Nat : i + 1 \in 1..Len(seqs) => g[i + 1] = F[i + 1]}
        <3>5. 0 \in S
            BY <1>1, <3>1, <3>3 DEF Def
        <3>6. ASSUME NEW i \in Nat, i \in S
              PROVE  i + 1 \in S
            <4> SUFFICES ASSUME (i + 1) + 1 \in 1..Len(seqs)
                         PROVE  g[(i + 1) + 1] = F[(i + 1) + 1]
                OBVIOUS
            <4>1. PICK j \in 1..Len(seqs) : j = (i + 1) + 1
                OBVIOUS
            <4>2. j - 1 = i + 1 /\ j # 1 /\ i + 1 \in 1..Len(seqs)
                BY <1>1, <4>1
            <4>3. g[j - 1] = F[j - 1]
                BY <3>6, <4>2
            <4>4. g[j] = g[j - 1] \o seqs[j]
                BY <3>3, <4>2 DEF Def
            <4> QED
                BY <1>7, <4>1, <4>3, <4>4
        <3> HIDE DEF S
        <3>7. Nat \subseteq S
            BY <3>5, <3>6, NatSetInduction
        <3>8. PICK i \in Nat : i + 1 = Len(seqs)
            <4>1. Len(seqs) - 1 \in Nat /\ (Len(seqs) - 1) + 1 = Len(seqs)
                BY <1>1, <2>2
            <4> QED
                BY <4>1
        <3>9. g[i + 1] = F[i + 1]
            BY <1>1, <3>7, <3>8 DEF S
        <3> QED
            BY <3>4, <3>8, <3>9
    <2> QED
        BY <2>1, <2>2
<1> QED
    BY <1>8, <1>9

AgreeUpTo(s, t, n) == \A i \in 1..n : s[i] = t[i]

\* Two flattenings agree as long as the sequences do.
LEMMA FlatteningsAgree ==
    ASSUME NEW T, NEW s, NEW t, NEW m \in Nat, Len(s) \in Nat, Len(t) \in Nat,
           m <= Len(s), m <= Len(t), AgreeUpTo(s, t, m),
           NEW F, IsFlattening(F, T, s), NEW G, IsFlattening(G, T, t)
    PROVE  F[m] = G[m]
<1> DEFINE S == {n \in Nat : n <= m => F[n] = G[n]}
<1>1. 0 \in S
    BY DEF IsFlattening
<1>2. ASSUME NEW n \in Nat, n \in S
      PROVE  n + 1 \in S
    <2> SUFFICES ASSUME n + 1 <= m
                 PROVE  F[n + 1] = G[n + 1]
        OBVIOUS
    <2>1. PICK i \in 1..m : i = n + 1
        OBVIOUS
    <2>2. i - 1 = n /\ i \in 1..Len(s) /\ i \in 1..Len(t)
        BY <2>1
    <2>3. F[i] = F[i - 1] \o s[i] /\ G[i] = G[i - 1] \o t[i]
        BY <2>2 DEF IsFlattening
    <2>4. F[n] = G[n] /\ s[i] = t[i]
        BY <1>2, <2>1 DEF AgreeUpTo
    <2> QED
        BY <2>1, <2>2, <2>3, <2>4
<1> HIDE DEF S
<1>3. Nat \subseteq S
    BY <1>1, <1>2, NatSetInduction
<1> QED
    BY <1>3 DEF S

LEMMA FlattenSeqAppend ==
    ASSUME NEW T, NEW s \in Seq(Seq(T)), NEW e \in Seq(T)
    PROVE  /\ FlattenSeq(s) \in Seq(T)
           /\ FlattenSeq(Append(s, e)) = FlattenSeq(s) \o e
<1> DEFINE t == Append(s, e)
<1>1. /\ t \in Seq(Seq(T)) /\ Len(t) = Len(s) + 1 /\ Len(s) \in Nat
      /\ \A i \in 1..Len(s) : s[i] = t[i]
      /\ t[Len(s) + 1] = e
    BY AppendProperties
<1> HIDE DEF t
<1>2. PICK F : IsFlattening(F, T, s) /\ FlattenSeq(s) = F[Len(s)]
    BY FlattenSeqDef
<1>3. PICK G : IsFlattening(G, T, t) /\ FlattenSeq(t) = G[Len(t)]
    BY <1>1, FlattenSeqDef
<1>4. F[Len(s)] = G[Len(s)]
    <2>1. AgreeUpTo(s, t, Len(s)) /\ Len(s) <= Len(s) /\ Len(s) <= Len(t) /\ Len(t) \in Nat
        BY <1>1 DEF AgreeUpTo
    <2> QED
        BY <1>1, <1>2, <1>3, <2>1, FlatteningsAgree
<1>5. G[Len(t)] = G[Len(s)] \o e
    <2>1. PICK i \in 1..Len(t) : i = Len(t)
        BY <1>1
    <2>2. G[i] = G[i - 1] \o t[i]
        BY <1>3 DEF IsFlattening
    <2>3. i - 1 = Len(s) /\ t[i] = e
        BY <1>1, <2>1
    <2> QED
        BY <2>1, <2>2, <2>3
<1>6. F[Len(s)] \in Seq(T)
    BY <1>1, <1>2 DEF IsFlattening
<1> QED
    BY <1>2, <1>3, <1>4, <1>5, <1>6 DEF t

LEMMA FlattenSeqEmpty == FlattenSeq(<<>>) = <<>>
    BY DEF FlattenSeq

\* The sequence of a set with no element, or with one.
LEMMA SetToSeqOfFew ==
    /\ SetToSeq({}) = <<>>
    /\ \A e : SetToSeq({e}) = <<e>>
<1>1. SetToSeq({}) = <<>>
    <2>1. Cardinality({}) = 0
        BY FS_EmptySet
    <2>2. <<>> \in [1..0 -> {}] /\ IsInjective(<<>>)
        BY DEF IsInjective
    <2>3. \A f \in [1..0 -> {}] : f = <<>>
        OBVIOUS
    <2> QED
        BY <2>1, <2>2, <2>3 DEF SetToSeq
<1>2. ASSUME NEW e
      PROVE  SetToSeq({e}) = <<e>>
    <2>1. Cardinality({e}) = 1
        BY FS_Singleton
    <2>2. <<e>> \in [1..1 -> {e}] /\ IsInjective(<<e>>)
        BY DEF IsInjective
    <2>3. \A f \in [1..1 -> {e}] : f = <<e>>
        OBVIOUS
    <2> QED
        BY <2>1, <2>2, <2>3 DEF SetToSeq
<1> QED
    BY <1>1, <1>2
=============================================================================
