-------------------------- MODULE MultiaddrProofs ---------------------------
(***************************************************************************)
(* What holds of varints of any width, and of addresses of any length that *)
(* are parsed, printed and parsed again.                                   *)
(***************************************************************************)
EXTENDS Multiaddr, Induction

-----------------------------------------------------------------------------
(***************************************************************************)
(* Varints                                                                 *)
(***************************************************************************)

\* What decode_varuint adds up, the highest group first.
Value(s) == FoldRight(LAMBDA b, acc : acc * Base + (b % Base), s, 0)

\* B[j] is the value of the last j bytes of s.
IsSum(B, s) ==
    /\ B \in [Nat -> Nat]
    /\ B[0] = 0
    /\ \A j \in Nat : j < Len(s) => B[j + 1] = B[j] * Base + (s[Len(s) - j] % Base)

LEMMA BaseIsNat == /\ Base \in Nat /\ Base > 1 /\ Limit \in Nat /\ Groups \in Nat /\ Groups > 0
                   /\ \A b \in Byte : b \in Nat /\ b % Base \in 0..Base - 1
<1>1. Base \in Nat /\ Base > 1
    BY VarintAssumption
<1>2. \A b \in Nat : b % Base \in 0..Base - 1
    BY <1>1
<1> QED
    BY <1>1, <1>2, VarintAssumption DEF Byte

\* The fold over the positions S of s.
IsFold(g, s, S) ==
    g = [U \in SUBSET S |->
            IF U = {} THEN 0 ELSE g[U \ {Min(U)}] * Base + (s[Min(U)] % Base)]

LEMMA FoldExists ==
    ASSUME NEW s \in Seq(Byte), NEW m \in Nat, m <= Len(s)
    PROVE  \E g : IsFold(g, s, Len(s) - m + 1..Len(s))
<1> DEFINE n == Len(s)
           D(k) == n - k + 1..n
           S == {k \in Nat : k <= n => \E g : IsFold(g, s, D(k))}
<1>0. n \in Nat
    OBVIOUS
<1> HIDE DEF n
<1>1. 0 \in S
    <2> DEFINE g == [U \in SUBSET D(0) |-> 0]
    <2>1. D(0) = {}
        BY <1>0
    <2>2. IsFold(g, s, D(0))
        BY <2>1 DEF IsFold
    <2> HIDE DEF g
    <2> QED
        BY <2>2
<1>2. ASSUME NEW k \in Nat, k \in S
      PROVE  k + 1 \in S
    <2> SUFFICES ASSUME k + 1 <= n
                 PROVE  \E h : IsFold(h, s, D(k + 1))
        OBVIOUS
    <2>1. PICK g : IsFold(g, s, D(k))
        BY <1>0, <1>2
    <2> DEFINE low == n - k
               h == [U \in SUBSET D(k + 1) |->
                        IF low \in U THEN g[U \ {low}] * Base + (s[low] % Base) ELSE g[U]]
    <2>2. low \in Nat /\ D(k + 1) = {low} \cup D(k) /\ low \notin D(k) /\ D(k + 1) \subseteq Nat
        BY <1>0
    <2>3. \A i \in D(k) : low < i
        BY <1>0
    <2> HIDE DEF low, D
    <2>4. ASSUME NEW U \in SUBSET D(k + 1)
          PROVE  h[U] = IF U = {} THEN 0 ELSE h[U \ {Min(U)}] * Base + (s[Min(U)] % Base)
        <3>1. CASE low \in U
            <4>1. Min(U) = low
                <5>1. Min(U) \in U /\ Min(U) <= low
                    BY <2>2, <3>1, MinIsLeast
                <5>2. \A i \in U : i = low \/ low < i
                    BY <2>2, <2>3
                <5> QED
                    BY <2>2, <5>1, <5>2
            <4>2. h[U \ {low}] = g[U \ {low}]
                BY <2>2
            <4> QED
                BY <3>1, <4>1, <4>2
        <3>2. CASE low \notin U
            <4>1. U \subseteq D(k)
                BY <2>2, <3>2
            <4>2. CASE U = {}
                BY <2>1, <4>1, <4>2 DEF IsFold
            <4>3. CASE U # {}
                <5>1. Min(U) \in U
                    BY <2>2, <4>3, MinIsLeast
                <5>2. h[U \ {Min(U)}] = g[U \ {Min(U)}]
                    BY <2>2, <3>2
                <5>3. h[U] = g[U]
                    BY <3>2
                <5> QED
                    BY <2>1, <4>1, <4>3, <5>2, <5>3 DEF IsFold
            <4> QED
                BY <4>2, <4>3
        <3> QED
            BY <3>1, <3>2
    <2>5. IsFold(h, s, D(k + 1))
        <3>1. h = [U \in SUBSET D(k + 1) |-> h[U]]
            OBVIOUS
        <3> HIDE DEF h
        <3> QED
            BY <2>4, <3>1 DEF IsFold
    <2> HIDE DEF h
    <2> QED
        BY <2>5
<1> HIDE DEF S
<1>3. Nat \subseteq S
    BY <1>1, <1>2, NatSetInduction
<1> QED
    BY <1>3 DEF S, n

LEMMA SumExists ==
    ASSUME NEW s \in Seq(Byte)
    PROVE  \E B : IsSum(B, s)
<1> DEFINE n == Len(s)
           digit == [j \in Nat |-> IF j < n THEN s[n - j] % Base ELSE 0]
           step == [j \in Nat |-> [v \in Nat |-> v * Base + digit[j]]]
<1>0. n \in Nat
    OBVIOUS
<1>1. digit \in [Nat -> Nat]
    <2>1. ASSUME NEW j \in Nat, j < n
          PROVE  s[n - j] % Base \in Nat
        <3>1. n - j \in 1..Len(s)
            BY <1>0, <2>1
        <3>2. s[n - j] \in Byte
            BY <3>1, ElementOfSeq
        <3> QED
            BY <3>2, BaseIsNat
    <2> QED
        BY <2>1
<1>2. step \in [Nat -> [Nat -> Nat]]
    <2> HIDE DEF digit
    <2>1. ASSUME NEW j \in Nat, NEW v \in Nat
          PROVE  v * Base + digit[j] \in Nat
        <3>1. digit[j] \in Nat
            BY <1>1
        <3>2. v * Base \in Nat
            BY BaseIsNat
        <3> QED
            BY <3>1, <3>2
    <2> QED
        BY <2>1
<1>3. PICK B : IsIteration(B, Nat, 0, step)
    <2> HIDE DEF step
    <2> QED
        BY <1>2, NatRecursion
<1>4. B \in [Nat -> Nat] /\ B[0] = 0
    BY <1>3 DEF IsIteration
<1>5. ASSUME NEW j \in Nat, j < n
      PROVE  B[j + 1] = B[j] * Base + (s[n - j] % Base)
    <2>1. B[j + 1] = step[j][B[j]]
        BY <1>3, Zenon DEF IsIteration
    <2>2. digit[j] = s[n - j] % Base
        BY <1>5
    <2>3. step[j][B[j]] = B[j] * Base + digit[j]
        <3> HIDE DEF digit
        <3> QED
            BY <1>4
    <2> QED
        BY <2>1, <2>2, <2>3
<1> QED
    BY <1>4, <1>5 DEF IsSum

\* The fold is the sum.
LEMMA ValueIsSum ==
    ASSUME NEW s \in Seq(Byte), NEW B, IsSum(B, s)
    PROVE  Value(s) = B[Len(s)]
<1> DEFINE n == Len(s)
           g == CHOOSE h : IsFold(h, s, 1..n)
           S == {j \in Nat : j <= n => g[n - j + 1..n] = B[j]}
<1>0. n \in Nat /\ DOMAIN s = 1..n
    OBVIOUS
<1>1. Value(s) = g[1..n]
    <2>1. g = CHOOSE h : h = [U \in SUBSET (1..n) |->
                IF U = {} THEN 0 ELSE h[U \ {Min(U)}] * Base + (s[Min(U)] % Base)]
        BY DEF IsFold
    <2> QED
        BY <1>0, <2>1 DEF Value, FoldRight, MapThenFoldSet
<1>2. IsFold(g, s, 1..n)
    <2>1. n - n + 1 = 1 /\ n <= n
        BY <1>0
    <2>2. \E h : IsFold(h, s, n - n + 1..n)
        BY <1>0, <2>1, FoldExists
    <2> QED
        BY <2>1, <2>2
<1> HIDE DEF n, g
<1>3. 0 \in S
    <2>1. n - 0 + 1..n = {}
        BY <1>0
    <2>2. g[{}] = 0
        BY <1>2 DEF IsFold
    <2> QED
        BY <2>1, <2>2 DEF IsSum
<1>4. ASSUME NEW j \in Nat, j \in S
      PROVE  j + 1 \in S
    <2> SUFFICES ASSUME j + 1 <= n
                 PROVE  g[n - (j + 1) + 1..n] = B[j + 1]
        OBVIOUS
    <2> DEFINE U == n - j..n
    <2>1. /\ n - (j + 1) + 1 = n - j
          /\ U \subseteq 1..n /\ U \subseteq Nat /\ n - j \in U
          /\ U \ {n - j} = n - j + 1..n
          /\ \A i \in U : n - j <= i
        BY <1>0
    <2>2. Min(U) = n - j
        <3> HIDE DEF U
        <3>1. Min(U) \in U /\ Min(U) <= n - j
            BY <2>1, MinIsLeast
        <3>2. n - j <= Min(U) /\ Min(U) \in Nat /\ n - j \in Int
            BY <1>0, <2>1, <3>1
        <3> QED
            BY <3>1, <3>2
    <2>3. g[U] = g[U \ {n - j}] * Base + (s[n - j] % Base)
        <3> HIDE DEF U
        <3>1. U # {} /\ U \in SUBSET (1..n)
            BY <2>1
        <3> QED
            BY <1>2, <2>2, <3>1 DEF IsFold
    <2>4. g[U \ {n - j}] = B[j]
        <3>1. j <= n
            BY <1>0
        <3>2. g[n - j + 1..n] = B[j]
            BY <1>4, <3>1
        <3> HIDE DEF U
        <3> QED
            BY <2>1, <3>2
    <2>5. B[j + 1] = B[j] * Base + (s[n - j] % Base)
        <3>1. j < n
            BY <1>0
        <3> QED
            BY <3>1 DEF IsSum, n
    <2> QED
        BY <2>1, <2>3, <2>4, <2>5
<1> HIDE DEF S
<1>5. Nat \subseteq S
    BY <1>3, <1>4, NatSetInduction
<1>6. g[n - n + 1..n] = B[n]
    BY <1>0, <1>5 DEF S
<1>7. n - n + 1 = 1
    BY <1>0
<1> QED
    BY <1>1, <1>6, <1>7 DEF n

\* Two sums agree as long as the sequences end the same.
LEMMA SumsAgree ==
    ASSUME NEW s \in Seq(Byte), NEW t \in Seq(Byte), NEW m \in Nat, m <= Len(s), m <= Len(t),
           \A j \in Nat : j < m => s[Len(s) - j] = t[Len(t) - j],
           NEW B, IsSum(B, s), NEW C, IsSum(C, t)
    PROVE  B[m] = C[m]
<1> DEFINE S == {j \in Nat : j <= m => B[j] = C[j]}
<1>1. 0 \in S
    BY DEF IsSum
<1>2. ASSUME NEW j \in Nat, j \in S
      PROVE  j + 1 \in S
    <2> SUFFICES ASSUME j + 1 <= m
                 PROVE  B[j + 1] = C[j + 1]
        OBVIOUS
    <2>1. j < m /\ j < Len(s) /\ j < Len(t)
        OBVIOUS
    <2>2. B[j + 1] = B[j] * Base + (s[Len(s) - j] % Base)
        BY <2>1 DEF IsSum
    <2>3. C[j + 1] = C[j] * Base + (t[Len(t) - j] % Base)
        BY <2>1 DEF IsSum
    <2> QED
        BY <1>2, <2>1, <2>2, <2>3
<1> HIDE DEF S
<1>3. Nat \subseteq S
    BY <1>1, <1>2, NatSetInduction
<1> QED
    BY <1>3 DEF S

\* What a byte in front adds to the value.
LEMMA ValueOfCons ==
    ASSUME NEW b \in Byte, NEW s \in Seq(Byte)
    PROVE  /\ Value(<<b>> \o s) = Value(s) * Base + (b % Base)
           /\ Value(s) \in Nat
           /\ Value(<<>>) = 0
<1> DEFINE t == <<b>> \o s
<1>1. /\ t \in Seq(Byte) /\ Len(t) = Len(s) + 1 /\ Len(s) \in Nat
      /\ t[1] = b
      /\ \A i \in 1..Len(s) : t[i + 1] = s[i]
    OBVIOUS
<1> HIDE DEF t
<1>2. PICK B : IsSum(B, s)
    BY SumExists
<1>3. PICK C : IsSum(C, t)
    BY <1>1, SumExists
<1>4. B[Len(s)] = C[Len(s)]
    <2>1. ASSUME NEW j \in Nat, j < Len(s)
          PROVE  s[Len(s) - j] = t[Len(t) - j]
        <3>1. PICK i \in 1..Len(s) : i = Len(s) - j
            <4>1. Len(s) - j \in 1..Len(s)
                BY <1>1, <2>1
            <4> QED
                BY <4>1
        <3>2. Len(t) - j = i + 1
            BY <1>1, <3>1
        <3> QED
            BY <1>1, <3>1, <3>2
    <2>2. Len(s) <= Len(s) /\ Len(s) <= Len(t)
        BY <1>1
    <2> QED
        BY <1>1, <1>2, <1>3, <2>1, <2>2, SumsAgree
<1>5. C[Len(t)] = C[Len(s)] * Base + (b % Base)
    <2>1. Len(s) < Len(t) /\ Len(t) - Len(s) = 1
        BY <1>1
    <2>2. C[Len(s) + 1] = C[Len(s)] * Base + (t[Len(t) - Len(s)] % Base)
        BY <1>1, <1>3, <2>1 DEF IsSum
    <2> QED
        BY <1>1, <2>1, <2>2
<1>6. Value(t) = C[Len(t)] /\ Value(s) = B[Len(s)]
    BY <1>1, <1>2, <1>3, ValueIsSum
<1>7. Value(s) \in Nat
    BY <1>1, <1>2, <1>6 DEF IsSum
<1>8. Value(<<>>) = 0
    <2>1. <<>> \in Seq(Byte) /\ Len(<<>>) = 0
        BY EmptySeq
    <2>2. PICK D : IsSum(D, <<>>)
        BY <2>1, SumExists
    <2>3. Value(<<>>) = D[Len(<<>>)]
        BY <2>1, <2>2, ValueIsSum
    <2> QED
        BY <2>1, <2>2, <2>3 DEF IsSum
<1> QED
    BY <1>4, <1>5, <1>6, <1>7, <1>8 DEF t

LEMMA ValueInNat ==
    ASSUME NEW s \in Seq(Byte)
    PROVE  Value(s) \in Nat
<1>1. PICK B : IsSum(B, s)
    BY SumExists
<1>2. Value(s) = B[Len(s)]
    BY <1>1, ValueIsSum
<1> QED
    BY <1>1, <1>2 DEF IsSum

\* The exponentials of Base.
LEMMA PowerDef ==
    /\ Power \in [Nat -> Nat]
    /\ Power[0] = 1
    /\ \A n \in Nat : Power[n + 1] = Base * Power[n]
<1> DEFINE Def(g) == [n \in Nat |-> IF n = 0 THEN 1 ELSE Base * g[n - 1]]
           step == [n \in Nat |-> [v \in Nat |-> Base * v]]
<1>1. step \in [Nat -> [Nat -> Nat]]
    BY BaseIsNat
<1>2. PICK f : IsIteration(f, Nat, 1, step)
    <2> HIDE DEF step
    <2> QED
        BY <1>1, NatRecursion
<1>3. f \in [Nat -> Nat] /\ f[0] = 1
    BY <1>2 DEF IsIteration
<1>4. ASSUME NEW n \in Nat
      PROVE  f[n + 1] = Base * f[n]
    <2>1. f[n + 1] = step[n][f[n]]
        BY <1>2, Zenon DEF IsIteration
    <2> QED
        BY <1>3, <2>1
<1>5. f = Def(f)
    <2>1. ASSUME NEW n \in Nat, n # 0
          PROVE  f[n] = Base * f[n - 1]
        <3>1. n - 1 \in Nat /\ (n - 1) + 1 = n
            BY <2>1
        <3>2. f[(n - 1) + 1] = Base * f[n - 1]
            BY <1>4, <3>1, Zenon
        <3> QED
            BY <3>1, <3>2
    <2>2. \A n \in Nat : f[n] = Def(f)[n]
        BY <1>3, <2>1
    <2> QED
        BY <1>3, <2>2
<1>6. Power = CHOOSE g : g = Def(g)
    BY DEF Power
<1> HIDE DEF Def
<1>7. Power = Def(Power)
    BY <1>5, <1>6
<1>8. Power[0] = 1 /\ DOMAIN Power = Nat
    BY <1>7 DEF Def
<1>9. ASSUME NEW n \in Nat
      PROVE  Power[n + 1] = Base * Power[n]
    <2>1. n + 1 \in Nat /\ n + 1 # 0 /\ (n + 1) - 1 = n
        OBVIOUS
    <2> QED
        BY <1>7, <2>1 DEF Def
<1>10. \A n \in Nat : Power[n] \in Nat
    <2> DEFINE S == {n \in Nat : Power[n] \in Nat}
    <2>1. 0 \in S
        BY <1>8
    <2>2. ASSUME NEW n \in Nat, n \in S
          PROVE  n + 1 \in S
        <3>1. Base * Power[n] \in Nat
            BY <2>2, BaseIsNat
        <3> QED
            BY <1>9, <3>1
    <2> HIDE DEF S
    <2>3. Nat \subseteq S
        BY <2>1, <2>2, NatSetInduction
    <2> QED
        BY <2>3 DEF S
<1>11. Power = [n \in Nat |-> Power[n]]
    BY <1>7 DEF Def
<1> QED
    BY <1>8, <1>9, <1>10, <1>11

-----------------------------------------------------------------------------

\* Division by the base.
LEMMA DivBase ==
    ASSUME NEW v \in Nat
    PROVE  /\ v \div Base \in Nat
           /\ v = (v \div Base) * Base + (v % Base)
           /\ v % Base \in 0..Base - 1
           /\ ((v % Base) + Base) % Base = v % Base
           /\ v >= Base => v \div Base < v
           /\ v < Base => v % Base = v
<1>1. v \div Base \in Nat /\ v = (v \div Base) * Base + (v % Base) /\ v % Base \in 0..Base - 1
    BY BaseIsNat
<1>2. ((v % Base) + Base) % Base = v % Base
    <2> DEFINE r == v % Base
    <2>1. r \in 0..Base - 1
        BY <1>1
    <2> HIDE DEF r
    <2>2. (r + Base) % Base = r
        BY <2>1, BaseIsNat
    <2> QED
        BY <2>2 DEF r
<1>3. v >= Base => v \div Base < v
    <2> DEFINE q == v \div Base
    <2>1. q \in Nat /\ v >= q * Base
        BY <1>1, BaseIsNat
    <2> HIDE DEF q
    <2>2. q = 0 \/ q * Base > q
        BY <2>1, BaseIsNat
    <2> QED
        BY <2>1, <2>2, BaseIsNat DEF q
<1>4. v < Base => v % Base = v
    BY BaseIsNat
<1> QED
    BY <1>1, <1>2, <1>3, <1>4

\* encode_varuint writes the lowest group and then what is left.
LEMMA EncodeDef ==
    ASSUME NEW v \in Uint
    PROVE  EncodeVaruint(v) =
              IF v >= Base THEN <<(v % Base) + Base>> \o EncodeVaruint(v \div Base)
              ELSE <<v>>
<1> DEFINE val(g, n) == IF n >= Base THEN <<(n % Base) + Base>> \o g[n \div Base]
                        ELSE <<n>>
           Def(g, D) == [n \in D |-> val(g, n)]
           S == {k \in Nat : \E g : g = Def(g, 0..k)}
<1>1. 0 \in S
    <2> DEFINE g == [n \in 0..0 |-> <<n>>]
    <2>1. g = Def(g, 0..0)
        BY BaseIsNat
    <2> HIDE DEF g
    <2> QED
        BY <2>1
<1>2. ASSUME NEW k \in Nat, k \in S
      PROVE  k + 1 \in S
    <2>1. PICK g : g = Def(g, 0..k)
        BY <1>2
    <2> DEFINE h == [n \in 0..k + 1 |-> IF n = k + 1 THEN val(g, n) ELSE g[n]]
    <2>2. ASSUME NEW n \in 0..k + 1
          PROVE  h[n] = val(h, n)
        <3>1. h[n] = val(g, n)
            <4> HIDE DEF val
            <4>1. CASE n = k + 1
                BY <4>1
            <4>2. CASE n # k + 1
                <5>1. n \in 0..k
                    BY <4>2
                <5> QED
                    BY <2>1, <4>2, <5>1
            <4> QED
                BY <4>1, <4>2
        <3>2. n >= Base => h[n \div Base] = g[n \div Base]
            <4> SUFFICES ASSUME n >= Base
                         PROVE  h[n \div Base] = g[n \div Base]
                OBVIOUS
            <4>1. n \div Base \in 0..k + 1 /\ n \div Base # k + 1
                BY DivBase
            <4> HIDE DEF val
            <4> QED
                BY <4>1
        <3> HIDE DEF h
        <3> QED
            BY <3>1, <3>2
    <2>3. h = [n \in 0..k + 1 |-> h[n]]
        OBVIOUS
    <2> HIDE DEF h, val
    <2>4. h = Def(h, 0..k + 1)
        BY <2>2, <2>3
    <2> QED
        BY <2>4
<1> HIDE DEF S
<1>3. Nat \subseteq S
    BY <1>1, <1>2, NatSetInduction
<1> DEFINE e == CHOOSE g : g = Def(g, Uint)
<1>4. e = Def(e, Uint)
    <2>1. Limit - 1 \in Nat /\ Uint = 0..Limit - 1
        BY BaseIsNat DEF Uint
    <2> HIDE DEF Def
    <2>2. \E g : g = Def(g, 0..Limit - 1)
        BY <1>3, <2>1 DEF S
    <2> QED
        BY <2>1, <2>2
<1>5. \A n : EncodeVaruint(n) = e[n]
    BY DEF EncodeVaruint
<1> HIDE DEF e
<1>6. e[v] = val(e, v)
    BY <1>4
<1> QED
    BY <1>5, <1>6

\* The bytes s are the varint of v: the last byte, and no other, has no bit to
\* say that more follow, they add up to v, and they are no more than v needs.
IsVarint(s, v) ==
    /\ s \in Seq(Byte) /\ Len(s) > 0
    /\ s[Len(s)] < Base
    /\ \A i \in 1..Len(s) : i < Len(s) => s[i] >= Base
    /\ Value(s) = v
    /\ \A k \in Nat : v < Power[k + 1] => Len(s) <= k + 1

LEMMA EncodeIsVarint ==
    ASSUME NEW v \in Uint
    PROVE  IsVarint(EncodeVaruint(v), v)
<1> DEFINE S == {n \in Uint : ~IsVarint(EncodeVaruint(n), n)}
<1> SUFFICES ASSUME S # {}
             PROVE  FALSE
    OBVIOUS
<1>1. Uint \subseteq Nat
    BY BaseIsNat DEF Uint
<1>2. PICK n \in S : \A m \in S : n <= m
    <2>1. S \in SUBSET Nat
        BY <1>1
    <2> HIDE DEF S
    <2> QED
        BY <2>1, NatHasLeast
<1>3. n \in Uint /\ n \in Nat
    BY <1>1
<1>4. CASE n < Base
    <2> DEFINE s == <<n>>
    <2>1. EncodeVaruint(n) = s
        <3>1. ~(n >= Base)
            BY <1>3, <1>4, BaseIsNat
        <3> QED
            BY <1>3, <3>1, EncodeDef
    <2>2. n \in Byte
        BY <1>3, <1>4, BaseIsNat DEF Byte
    <2>3. s \in Seq(Byte) /\ Len(s) = 1 /\ s[1] = n
        BY <2>2
    <2>4. Value(s) = n
        <3>1. <<>> \in Seq(Byte) /\ s = <<n>> \o <<>>
            BY <2>2
        <3>2. Value(<<n>> \o <<>>) = Value(<<>>) * Base + (n % Base) /\ Value(<<>>) = 0
            BY <2>2, <3>1, ValueOfCons
        <3>3. n % Base = n
            BY <1>3, <1>4, DivBase
        <3> QED
            BY <1>3, <3>1, <3>2, <3>3, BaseIsNat
    <2> HIDE DEF s
    <2>5. IsVarint(s, n)
        BY <1>4, <2>3, <2>4 DEF IsVarint
    <2> QED
        BY <2>1, <2>5
<1>5. CASE n >= Base
    <2> DEFINE q == n \div Base
               b == (n % Base) + Base
               e == EncodeVaruint(q)
               s == <<b>> \o e
    <2>1. /\ q \in Nat /\ q < n
          /\ n = q * Base + (n % Base)
          /\ b % Base = n % Base
          /\ b \in Byte /\ b >= Base
        <3>1. /\ q \in Nat /\ n = q * Base + (n % Base)
              /\ b % Base = n % Base /\ q < n
            BY <1>3, <1>5, DivBase
        <3>2. n % Base \in 0..Base - 1
            BY <1>3, DivBase
        <3>3. b \in Byte /\ b >= Base
            BY <3>2, BaseIsNat DEF Byte
        <3> QED
            BY <3>1, <3>3
    <2>2. q \in Uint
        BY <1>3, <2>1, BaseIsNat DEF Uint
    <2>3. IsVarint(e, q)
        <3>1. q \notin S
            BY <1>2, <1>3, <2>1
        <3> QED
            BY <2>2, <3>1
    <2>4. EncodeVaruint(n) = s
        BY <1>3, <1>5, EncodeDef
    <2> HIDE DEF b, e, q
    <2>5. /\ s \in Seq(Byte) /\ Len(s) = Len(e) + 1 /\ Len(e) \in Nat /\ s[1] = b
          /\ \A i \in 1..Len(e) : s[i + 1] = e[i]
        BY <2>1, <2>3 DEF IsVarint
    <2>6. Value(s) = n
        <3>1. Value(s) = Value(e) * Base + (b % Base)
            BY <2>1, <2>3, ValueOfCons DEF IsVarint
        <3>2. Value(e) = q
            BY <2>3 DEF IsVarint
        <3> QED
            BY <2>1, <3>1, <3>2
    <2> HIDE DEF s
    <2>7. s[Len(s)] < Base
        <3>1. Len(e) \in 1..Len(e) /\ e[Len(e)] < Base
            BY <2>3, <2>5 DEF IsVarint
        <3> QED
            BY <2>5, <3>1
    <2>8. ASSUME NEW i \in 1..Len(s), i < Len(s)
          PROVE  s[i] >= Base
        <3>1. CASE i = 1
            BY <2>1, <2>5, <3>1
        <3>2. CASE i # 1
            <4>1. PICK j \in 1..Len(e) : i = j + 1
                <5>1. i - 1 \in 1..Len(e) /\ i = (i - 1) + 1
                    BY <2>5, <2>8, <3>2
                <5> QED
                    BY <5>1
            <4>2. j < Len(e)
                BY <2>5, <2>8, <4>1
            <4> QED
                BY <2>3, <2>5, <4>1, <4>2 DEF IsVarint
        <3> QED
            BY <3>1, <3>2
    <2>9. ASSUME NEW k \in Nat, n < Power[k + 1]
          PROVE  Len(s) <= k + 1
        <3>1. Power[k + 1] = Base * Power[k] /\ Power[k] \in Nat
            BY PowerDef
        <3>2. q < Power[k]
            <4> DEFINE p == Power[k]
            <4>1. p \in Nat /\ q * Base < Base * p
                <5>1. n % Base \in Nat
                    BY <1>3, BaseIsNat
                <5>2. q * Base <= n
                    BY <1>3, <2>1, <5>1, BaseIsNat
                <5> QED
                    BY <1>3, <2>1, <2>9, <3>1, <5>2, BaseIsNat
            <4> HIDE DEF p
            <4>2. q < p
                BY <2>1, <4>1, BaseIsNat
            <4> QED
                BY <4>2 DEF p
        <3>3. k # 0
            <4> SUFFICES ASSUME k = 0
                         PROVE  FALSE
                OBVIOUS
            <4>1. q = 0
                BY <2>1, <3>2, PowerDef
            <4>2. n = n % Base
                BY <1>3, <2>1, <4>1, BaseIsNat
            <4>3. n % Base < Base
                BY <1>3, BaseIsNat
            <4> QED
                BY <1>3, <1>5, <4>2, <4>3, BaseIsNat
        <3>4. PICK j \in Nat : k = j + 1
            BY <3>3
        <3>5. Len(e) <= k
            BY <2>3, <3>2, <3>4 DEF IsVarint
        <3> QED
            BY <2>5, <3>5
    <2>10. Len(s) > 0
        BY <2>5
    <2>11. IsVarint(s, n)
        BY <2>5, <2>6, <2>7, <2>8, <2>9, <2>10 DEF IsVarint
    <2> QED
        BY <2>4, <2>11
<1> QED
    BY <1>3, <1>4, <1>5, BaseIsNat

-----------------------------------------------------------------------------

\* Where a varint ends.
LEMMA VarintLenIsLeast ==
    ASSUME NEW s, Len(s) \in Nat, Ends(s) # {}
    PROVE  /\ VarintLen(s) \in Ends(s)
           /\ VarintLen(s) \in 1..Len(s)
           /\ \A i \in Ends(s) : VarintLen(s) <= i
<1>1. Ends(s) \in SUBSET Nat /\ Ends(s) \subseteq 1..Len(s)
    BY DEF Ends
<1>2. \E n \in Ends(s) : \A m \in Ends(s) : n <= m
    BY <1>1, NatHasLeast
<1>3. VarintLen(s) \in Ends(s) /\ \A m \in Ends(s) : VarintLen(s) <= m
    BY <1>2 DEF VarintLen
<1> QED
    BY <1>1, <1>3

\* What decode_varuint makes of s is one value, of its bytes up to the end, unless
\* it shifts by more than the width.
LEMMA DecodeIsValue ==
    ASSUME NEW s \in Seq(Byte), Ends(s) # {}, VarintLen(s) <= Groups
    PROVE  DecodeVaruint(s) = {Value(SubSeq(s, 1, VarintLen(s))) % Limit}
<1>1. ~(VarintLen(s) > Groups)
    BY VarintLenIsLeast, BaseIsNat
<1> QED
    BY <1>1 DEF DecodeVaruint, Value

\* What encode_varuint writes, decode_varuint reads: the same number from the same
\* bytes, whatever bytes follow, for every width of numbers and of groups
\* (utils/varint.h).
THEOREM DecodeEncode ==
    ASSUME NEW v \in Uint, NEW t \in Seq(Byte)
    PROVE  /\ Ends(EncodeVaruint(v) \o t) # {}
           /\ VarintLen(EncodeVaruint(v) \o t) = Len(EncodeVaruint(v))
           /\ DecodeVaruint(EncodeVaruint(v) \o t) = {v}
<1> DEFINE e == EncodeVaruint(v)
           s == e \o t
<1>1. IsVarint(e, v)
    BY EncodeIsVarint
<1> HIDE DEF e
<1>2. /\ e \in Seq(Byte) /\ Len(e) \in Nat /\ Len(e) > 0
      /\ s \in Seq(Byte) /\ Len(s) \in Nat /\ Len(e) \in 1..Len(s)
      /\ \A i \in 1..Len(e) : s[i] = e[i]
      /\ SubSeq(s, 1, Len(e)) = e
    BY <1>1 DEF IsVarint
<1> HIDE DEF s
<1>3. Len(e) \in Ends(s)
    <2>1. s[Len(e)] = e[Len(e)]
        BY <1>2
    <2> QED
        BY <1>1, <1>2, <2>1 DEF IsVarint, Ends
<1>4. VarintLen(s) = Len(e)
    <2>1. VarintLen(s) <= Len(e) /\ VarintLen(s) \in Ends(s) /\ VarintLen(s) \in 1..Len(s)
        BY <1>2, <1>3, VarintLenIsLeast
    <2> DEFINE i == VarintLen(s)
    <2> HIDE DEF i
    <2>2. i \in 1..Len(e) /\ s[i] < Base
        BY <1>2, <2>1 DEF Ends, i
    <2>3. e[i] < Base /\ e[i] \in Nat
        <3>1. e[i] \in Byte
            BY <1>2, <2>2, ElementOfSeq
        <3> QED
            BY <1>2, <2>2, <3>1, BaseIsNat
    <2>4. ~(i < Len(e))
        BY <1>1, <2>2, <2>3, BaseIsNat DEF IsVarint
    <2> QED
        BY <1>2, <2>2, <2>4 DEF i
<1>5. Len(e) <= Groups
    <2>1. PICK k \in Nat : Groups = k + 1
        <3>1. Groups - 1 \in Nat /\ Groups = (Groups - 1) + 1
            BY BaseIsNat
        <3> QED
            BY <3>1
    <2>2. v < Power[k + 1]
        <3>1. v \in Nat /\ v < Limit /\ Limit \in Nat
            BY BaseIsNat DEF Uint
        <3>2. Limit <= Power[k + 1] /\ Power[k + 1] \in Nat
            BY <2>1, VarintAssumption, PowerDef
        <3> QED
            BY <3>1, <3>2
    <2> QED
        BY <1>1, <2>1, <2>2 DEF IsVarint
<1>6. DecodeVaruint(s) = {v}
    <2>1. DecodeVaruint(s) = {Value(e) % Limit}
        BY <1>2, <1>3, <1>4, <1>5, DecodeIsValue
    <2>2. Value(e) = v
        BY <1>1 DEF IsVarint
    <2>3. v % Limit = v
        BY BaseIsNat DEF Uint
    <2> QED
        BY <2>1, <2>2, <2>3
<1> QED
    BY <1>3, <1>4, <1>6 DEF s, e

\* No encoding is another one or begins another one: from where a varint of
\* encode_varuint begins, the bytes tell what was written and where it ends.
THEOREM EncodingsDiffer ==
    ASSUME NEW v \in Uint, NEW w \in Uint, NEW s \in Seq(Byte), NEW t \in Seq(Byte),
           EncodeVaruint(v) \o s = EncodeVaruint(w) \o t
    PROVE  v = w /\ s = t
<1>1. v = w
    <2>1. {v} = {w}
        BY DecodeEncode
    <2> QED
        BY <2>1
<1> DEFINE e == EncodeVaruint(v)
<1>2. e \in Seq(Byte) /\ Len(e) \in Nat /\ e \o s = e \o t
    BY <1>1, EncodeIsVarint DEF IsVarint
<1> HIDE DEF e
<1>3. Len(s) = Len(t) /\ Len(s) \in Nat
    <2>1. Len(e \o s) = Len(e) + Len(s) /\ Len(e \o t) = Len(e) + Len(t)
        BY <1>2
    <2> QED
        BY <1>2, <2>1
<1>4. ASSUME NEW i \in 1..Len(s)
      PROVE  s[i] = t[i]
    <2>1. (e \o s)[Len(e) + i] = s[i] /\ (e \o t)[Len(e) + i] = t[i]
        BY <1>2, <1>3
    <2> QED
        BY <1>2, <2>1
<1>5. s = t
    BY <1>3, <1>4, SeqEqual
<1> QED
    BY <1>1, <1>5

-----------------------------------------------------------------------------
(***************************************************************************)
(* The text of an address                                                  *)
(***************************************************************************)

Pairs(ps) == [i \in 1..Len(ps) |-> <<Plain("btle"), UUIDToken(ps[i], TRUE)>>]

IsVersion(vs) == vs = {} \/ \E v \in Versions : vs = {v}

LEMMA Tokens ==
    /\ \A k \in {"empty", "btle", "junk"} : Plain(k) \in Token
    /\ \A u \in UUID, b \in BOOLEAN : UUIDToken(u, b) \in Token
    /\ \A v \in Versions, b \in BOOLEAN : VersionToken(v, b) \in Token
    /\ \A t \in Token : /\ t.kind \in {"empty", "btle", "junk"} => t = Plain(t.kind)
                        /\ t.kind = "uuid" => t.value \in UUID
                        /\ t.kind = "semver" => t.value \in Versions
                        /\ t.kind \in {"empty", "btle", "junk", "uuid", "semver"}
<1>1. \A k \in {"empty", "btle", "junk"} : Plain(k) \in Token
    BY DEF Token
<1>2. \A u \in UUID, b \in BOOLEAN : UUIDToken(u, b) \in Token
    BY DEF Token
<1>3. \A v \in Versions, b \in BOOLEAN : VersionToken(v, b) \in Token
    BY DEF Token
<1>4. ASSUME NEW t \in Token
      PROVE  /\ t.kind \in {"empty", "btle", "junk"} => t = Plain(t.kind)
             /\ t.kind = "uuid" => t.value \in UUID
             /\ t.kind = "semver" => t.value \in Versions
             /\ t.kind \in {"empty", "btle", "junk", "uuid", "semver"}
    <2>1. \/ \E k \in {"empty", "btle", "junk"} : t = Plain(k)
          \/ \E u \in UUID, b \in BOOLEAN : t = UUIDToken(u, b)
          \/ \E v \in Versions, b \in BOOLEAN : t = VersionToken(v, b)
        BY DEF Token
    <2>2. ASSUME NEW k \in {"empty", "btle", "junk"}, t = Plain(k)
          PROVE  t.kind = k
        BY <2>2 DEF Plain
    <2>3. ASSUME NEW u \in UUID, NEW b \in BOOLEAN, t = UUIDToken(u, b)
          PROVE  t.kind = "uuid" /\ t.value = u
        BY <2>3 DEF UUIDToken
    <2>4. ASSUME NEW v \in Versions, NEW b \in BOOLEAN, t = VersionToken(v, b)
          PROVE  t.kind = "semver" /\ t.value = v
        BY <2>4 DEF VersionToken
    <2> QED
        BY <2>1, <2>2, <2>3, <2>4
<1> QED
    BY <1>1, <1>2, <1>3, <1>4

LEMMA PairIsSeq ==
    ASSUME NEW T, NEW a \in T, NEW b \in T
    PROVE  /\ <<a, b>> \in Seq(T) /\ Len(<<a, b>>) = 2
           /\ <<a, b>>[1] = a /\ <<a, b>>[2] = b
    OBVIOUS

LEMMA PairsAreTokens ==
    ASSUME NEW ps \in Seq(UUID)
    PROVE  /\ Pairs(ps) \in Seq(Seq(Token))
           /\ Len(Pairs(ps)) = Len(ps)
           /\ \A i \in 1..Len(ps) : Pairs(ps)[i] = <<Plain("btle"), UUIDToken(ps[i], TRUE)>>
<1>1. ASSUME NEW i \in 1..Len(ps)
      PROVE  <<Plain("btle"), UUIDToken(ps[i], TRUE)>> \in Seq(Token)
    <2>1. ps[i] \in UUID
        BY ElementOfSeq
    <2>2. Plain("btle") \in Token /\ UUIDToken(ps[i], TRUE) \in Token
        BY <2>1, Tokens
    <2> QED
        BY <2>2, PairIsSeq
<1> DEFINE e(i) == <<Plain("btle"), UUIDToken(ps[i], TRUE)>>
<1>2. Len(ps) \in Nat
    OBVIOUS
<1>3. \A i \in 1..Len(ps) : e(i) \in Seq(Token)
    BY <1>1
<1> HIDE DEF e
<1>4. /\ [i \in 1..Len(ps) |-> e(i)] \in Seq(Seq(Token))
      /\ Len([i \in 1..Len(ps) |-> e(i)]) = Len(ps)
      /\ \A i \in 1..Len(ps) : [j \in 1..Len(ps) |-> e(j)][i] = e(i)
    BY <1>2, <1>3
<1>5. Pairs(ps) = [i \in 1..Len(ps) |-> e(i)]
    BY DEF Pairs, e
<1>6. \A i \in 1..Len(ps) : e(i) = <<Plain("btle"), UUIDToken(ps[i], TRUE)>>
    BY DEF e
<1> QED
    BY <1>4, <1>5, <1>6

PairsAt(f, ps, k) ==
    /\ Len(f) = 2 * k
    /\ \A j \in 1..k : f[2 * j - 1] = Plain("btle") /\ f[2 * j] = UUIDToken(ps[j], TRUE)

\* The name of a protocol is at an even place and its UUID follows.
LEMMA PairsFlattened ==
    ASSUME NEW ps \in Seq(UUID)
    PROVE  /\ FlattenSeq(Pairs(ps)) \in Seq(Token)
           /\ PairsAt(FlattenSeq(Pairs(ps)), ps, Len(ps))
<1>1. PICK F : IsFlattening(F, Token, Pairs(ps)) /\ FlattenSeq(Pairs(ps)) = F[Len(ps)]
    <2>1. Pairs(ps) \in Seq(Seq(Token)) /\ Len(Pairs(ps)) = Len(ps)
        BY PairsAreTokens
    <2>2. \E F : IsFlattening(F, Token, Pairs(ps)) /\ FlattenSeq(Pairs(ps)) = F[Len(Pairs(ps))]
        BY <2>1, FlattenSeqDef
    <2> QED
        BY <2>1, <2>2
<1>2. F \in [Nat -> Seq(Token)] /\ F[0] = <<>>
    BY <1>1 DEF IsFlattening
<1> DEFINE S == {k \in Nat : k <= Len(ps) => PairsAt(F[k], ps, k)}
<1>3. 0 \in S
    <2>1. Len(F[0]) = 0 /\ 1..0 = {}
        BY <1>2, EmptySeq
    <2>2. PairsAt(F[0], ps, 0)
        BY <2>1 DEF PairsAt
    <2> QED
        BY <2>2
<1>4. ASSUME NEW k \in Nat, k \in S
      PROVE  k + 1 \in S
    <2> SUFFICES ASSUME k + 1 <= Len(ps)
                 PROVE  PairsAt(F[k + 1], ps, k + 1)
        OBVIOUS
    <2>1. PICK i \in 1..Len(ps) : i = k + 1
        OBVIOUS
    <2> DEFINE p == Plain("btle")
               u == UUIDToken(ps[i], TRUE)
               f == F[k]
    <2>2. F[i] = F[i - 1] \o Pairs(ps)[i]
        BY <1>1, PairsAreTokens DEF IsFlattening
    <2>3. F[k + 1] = f \o <<p, u>>
        <3>1. i - 1 = k
            BY <2>1
        <3>2. Pairs(ps)[i] = <<p, u>>
            BY PairsAreTokens
        <3> QED
            BY <2>1, <2>2, <3>1, <3>2
    <2>4. /\ f \in Seq(Token) /\ Len(f) = 2 * k
          /\ \A j \in 1..k : f[2 * j - 1] = p /\ f[2 * j] = UUIDToken(ps[j], TRUE)
        <3>1. k <= Len(ps)
            OBVIOUS
        <3> QED
            BY <1>2, <1>4, <3>1 DEF PairsAt
    <2>5. p \in Token /\ u \in Token
        BY Tokens, ElementOfSeq
    <2> HIDE DEF p, u, f
    <2> DEFINE g == f \o <<p, u>>
    <2>6. /\ Len(g) = 2 * k + 2
          /\ \A m \in 1..2 * k : g[m] = f[m]
          /\ g[2 * k + 1] = p
          /\ g[2 * k + 2] = u
        <3>1. /\ <<p, u>> \in Seq(Token) /\ Len(<<p, u>>) = 2
              /\ <<p, u>>[1] = p /\ <<p, u>>[2] = u
            BY <2>5, PairIsSeq
        <3> DEFINE w == <<p, u>>
        <3> HIDE DEF w
        <3>2. /\ Len(f \o w) = 2 * k + 2
              /\ \A m \in 1..2 * k : (f \o w)[m] = f[m]
              /\ (f \o w)[2 * k + 1] = w[1]
              /\ (f \o w)[2 * k + 2] = w[2]
            BY <2>4, <3>1 DEF w
        <3> QED
            BY <3>1, <3>2 DEF w
    <2> HIDE DEF g
    <2>7. ASSUME NEW j \in 1..k + 1
          PROVE  g[2 * j - 1] = p /\ g[2 * j] = UUIDToken(ps[j], TRUE)
        <3>1. CASE j = k + 1
            <4>1. 2 * j - 1 = 2 * k + 1 /\ 2 * j = 2 * k + 2 /\ j = i
                BY <2>1, <3>1
            <4> QED
                BY <2>6, <4>1 DEF u
        <3>2. CASE j # k + 1
            <4>1. j \in 1..k /\ 2 * j - 1 \in 1..2 * k /\ 2 * j \in 1..2 * k
                BY <3>2
            <4> QED
                BY <2>4, <2>6, <4>1
        <3> QED
            BY <3>1, <3>2
    <2>8. 2 * k + 2 = 2 * (k + 1)
        OBVIOUS
    <2> QED
        BY <2>3, <2>6, <2>7, <2>8 DEF g, p, PairsAt
<1> HIDE DEF S
<1>5. Nat \subseteq S
    BY <1>3, <1>4, NatSetInduction
<1>6. Len(ps) \in Nat
    OBVIOUS
<1>7. PairsAt(F[Len(ps)], ps, Len(ps))
    BY <1>5, <1>6 DEF S
<1> QED
    BY <1>1, <1>2, <1>6, <1>7

\* What is at which place of the text.
IsText(t, ps, vs) ==
    /\ t \in Seq(Token)
    /\ t[1] = Plain("empty")
    /\ \A j \in 1..Len(ps) : t[2 * j] = Plain("btle") /\ t[2 * j + 1] = UUIDToken(ps[j], TRUE)
    /\ vs = {} => Len(t) = 2 * Len(ps) + 1
    /\ \A v \in vs : /\ Len(t) = 2 * Len(ps) + 2
                     /\ t[2 * Len(ps) + 2] = VersionToken(v, TRUE)

\* Lengths and elements of a concatenation.
IsConcatenation(S, a, b, c) ==
    /\ c \in Seq(S)
    /\ Len(c) = Len(a) + Len(b)
    /\ \A i \in 1..Len(a) : c[i] = a[i]
    /\ \A i \in 1..Len(b) : c[Len(a) + i] = b[i]

LEMMA Concatenation ==
    ASSUME NEW S, NEW a, NEW b, NEW c, a \in Seq(S), b \in Seq(S), c = a \o b
    PROVE  IsConcatenation(S, a, b, c)
<1>1. /\ a \o b \in Seq(S)
      /\ Len(a \o b) = Len(a) + Len(b)
      /\ \A i \in 1..Len(a) : (a \o b)[i] = a[i]
      /\ \A i \in 1..Len(b) : (a \o b)[Len(a) + i] = b[i]
    OBVIOUS
<1> QED
    BY <1>1 DEF IsConcatenation

LEMMA OneElement ==
    ASSUME NEW S, NEW x \in S
    PROVE  <<x>> \in Seq(S) /\ Len(<<x>>) = 1 /\ <<x>>[1] = x
    OBVIOUS

LEMMA ToTextIsText ==
    ASSUME NEW ps \in Seq(UUID), NEW vs, IsVersion(vs)
    PROVE  IsText(ToText(ps, vs), ps, vs)
<1> DEFINE e == <<Plain("empty")>>
           f == FlattenSeq(Pairs(ps))
           w == SetToSeq({VersionToken(v, TRUE) : v \in vs})
           n == Len(ps)
           t == e \o f \o w
<1>1. ToText(ps, vs) = t
    BY DEF ToText, Pairs
<1>2. e \in Seq(Token) /\ Len(e) = 1 /\ e[1] = Plain("empty")
    BY Tokens
<1>0. PairsAt(f, ps, n)
    BY PairsFlattened
<1>3. f \in Seq(Token) /\ Len(f) = 2 * n /\ n \in Nat
    <2>1. f \in Seq(Token)
        BY PairsFlattened
    <2> HIDE DEF f
    <2> QED
        BY <1>0, <2>1 DEF PairsAt
<1>4. \A j \in 1..n : f[2 * j - 1] = Plain("btle") /\ f[2 * j] = UUIDToken(ps[j], TRUE)
    <2> HIDE DEF f
    <2> QED
        BY <1>0 DEF PairsAt
<1>5. /\ w \in Seq(Token)
      /\ vs = {} => Len(w) = 0
      /\ \A v \in vs : Len(w) = 1 /\ w[1] = VersionToken(v, TRUE)
    <2>1. CASE vs = {}
        <3>1. w = <<>>
            BY <2>1, SetToSeqOfFew
        <3> HIDE DEF w
        <3> QED
            BY <2>1, <3>1
    <2>2. ASSUME NEW v \in Versions, vs = {v}
          PROVE  w \in Seq(Token) /\ Len(w) = 1 /\ w[1] = VersionToken(v, TRUE)
        <3>1. {VersionToken(x, TRUE) : x \in vs} = {VersionToken(v, TRUE)}
            BY <2>2
        <3>2. w = <<VersionToken(v, TRUE)>>
            BY <3>1, SetToSeqOfFew
        <3>3. VersionToken(v, TRUE) \in Token
            BY Tokens
        <3> HIDE DEF w
        <3> QED
            BY <3>2, <3>3, OneElement
    <2> HIDE DEF w
    <2> QED
        BY <2>1, <2>2 DEF IsVersion
<1> HIDE DEF e, f, w, n
<1> DEFINE ef == e \o f
<1>6. /\ ef \in Seq(Token) /\ Len(ef) = 2 * n + 1 /\ ef[1] = e[1]
      /\ \A m \in 1..2 * n : ef[m + 1] = f[m]
    <2>0. ef = e \o f
        OBVIOUS
    <2> HIDE DEF ef
    <2>1. IsConcatenation(Token, e, f, ef)
        BY <1>2, <1>3, <2>0, Concatenation
    <2> QED
        BY <1>2, <1>3, <2>1 DEF IsConcatenation
<1> HIDE DEF ef
<1>7. /\ t \in Seq(Token) /\ Len(t) = 2 * n + 1 + Len(w)
      /\ \A m \in 1..2 * n + 1 : t[m] = ef[m]
      /\ Len(w) = 1 => t[2 * n + 2] = w[1]
    <2>1. t = ef \o w
        BY DEF ef
    <2> HIDE DEF t
    <2>2. IsConcatenation(Token, ef, w, t)
        BY <1>5, <1>6, <2>1, Concatenation
    <2>3. Len(w) = 1 => t[2 * n + 2] = w[1]
        <3>1. Len(w) = 1 => 1 \in 1..Len(w) /\ Len(ef) + 1 = 2 * n + 2
            BY <1>3, <1>6
        <3> QED
            BY <2>2, <3>1 DEF IsConcatenation
    <2> QED
        BY <1>3, <1>6, <2>2, <2>3 DEF IsConcatenation
<1> HIDE DEF t
<1>8. t[1] = Plain("empty")
    <2>1. 1 \in 1..2 * n + 1
        BY <1>3
    <2> QED
        BY <1>2, <1>6, <1>7, <2>1
<1>9. ASSUME NEW j \in 1..n
      PROVE  t[2 * j] = Plain("btle") /\ t[2 * j + 1] = UUIDToken(ps[j], TRUE)
    <2>1. /\ 2 * j - 1 \in 1..2 * n /\ 2 * j \in 1..2 * n
          /\ 2 * j \in 1..2 * n + 1 /\ 2 * j + 1 \in 1..2 * n + 1
          /\ (2 * j - 1) + 1 = 2 * j
        BY <1>3
    <2>2. t[2 * j + 1] = f[2 * j]
        BY <1>6, <1>7, <2>1
    <2>3. ef[(2 * j - 1) + 1] = f[2 * j - 1]
        BY <1>6, <2>1
    <2>4. t[2 * j] = f[2 * j - 1]
        BY <1>7, <2>1, <2>3
    <2> QED
        BY <1>4, <2>2, <2>4
<1>10. vs = {} => Len(t) = 2 * n + 1
    BY <1>3, <1>5, <1>7
<1>11. ASSUME NEW v \in vs
       PROVE  Len(t) = 2 * n + 2 /\ t[2 * n + 2] = VersionToken(v, TRUE)
    <2>1. Len(w) = 1 /\ w[1] = VersionToken(v, TRUE)
        BY <1>5
    <2>2. t[2 * n + 2] = w[1]
        BY <1>7, <2>1
    <2>3. Len(t) = 2 * n + 2
        BY <1>3, <1>7, <2>1
    <2> QED
        BY <2>1, <2>2, <2>3
<1>12. IsText(t, ps, vs)
    BY <1>7, <1>8, <1>9, <1>10, <1>11 DEF IsText, n
<1> QED
    BY <1>1, <1>12 DEF t

-----------------------------------------------------------------------------
(***************************************************************************)
(* The variables and their types                                           *)
(***************************************************************************)

CallName == {<<"read", size>> : size \in WordSizes}
            \cup {<<"bytes", size>> : size \in WordSizes}
            \cup {<<"uleb128">>, <<"varuint32">>}

CallRecord == [call : CallName, answer : SUBSET (Uint \cup Seq(Byte))]

InputOK ==
    /\ form = "text" => input \in Seq(Token)
    /\ form = "raw" => input \in Seq(Bytes)
    /\ form = "calls" => input \in Seq(Byte) /\ words \in Seq(Uint)

\* A parser has no calls to answer, and calls are not a parser's.
TypeInv ==
    /\ form \in {"text", "raw", "calls"}
    /\ result \in {"running", "address", "nullopt", "throws"}
    /\ InputOK
    /\ current \in 0..Len(input)
    /\ protocols \in Seq(UUID)
    /\ IsVersion(version)
    /\ got \in Seq(CallRecord)
    /\ form = "calls" => result = "running"
    /\ form # "calls" => got = <<>>

LEMMA BytesAreBytes == Bytes \subseteq Byte /\ Seq(Bytes) \subseteq Seq(Byte)
    BY BytesAssumption, SeqMonotonic

LEMMA BoundedSeqs == \A S, n : BoundedSeq(S, n) \subseteq Seq(S)
    BY DEF BoundedSeq, SeqOf

\* What is left of the input.
LEMMA RestOfInput ==
    ASSUME NEW S, input \in Seq(S), current \in 0..Len(input)
    PROVE  /\ Rest \in Seq(S)
           /\ Len(Rest) = Len(input) - current
           /\ Len(Rest) \in Nat
           /\ \A i \in 1..Len(Rest) : Rest[i] = input[current + i]
<1>1. Len(input) \in Nat /\ current \in Nat /\ current <= Len(input)
    OBVIOUS
<1>2. \A i \in current + 1..Len(input) : input[i] \in S
    BY <1>1
<1>3. /\ Rest \in Seq(S)
      /\ Len(Rest) = IF current + 1 <= Len(input) THEN Len(input) - (current + 1) + 1 ELSE 0
      /\ \A i \in 1..Len(input) - (current + 1) + 1 : Rest[i] = input[(current + 1) + i - 1]
    BY <1>1, <1>2, SubSeqProperties DEF Rest
<1>4. Len(Rest) = Len(input) - current
    BY <1>1, <1>3
<1>5. ASSUME NEW i \in 1..Len(Rest)
      PROVE  Rest[i] = input[current + i]
    <2>1. i \in 1..Len(input) - (current + 1) + 1 /\ (current + 1) + i - 1 = current + i
        BY <1>1, <1>4
    <2> QED
        BY <1>3, <2>1
<1> QED
    BY <1>1, <1>3, <1>4, <1>5

LEMMA LimitIsPositive == Limit \in Nat /\ Limit > 0
<1>1. Groups - 1 \in Nat
    BY BaseIsNat
<1>2. Power[Groups - 1] \in Nat
    BY <1>1, PowerDef
<1> QED
    BY <1>2, VarintAssumption

LEMMA ModuloInUint ==
    ASSUME NEW x \in Nat
    PROVE  x % Limit \in Uint
<1>1. x % Limit \in 0..Limit - 1
    BY LimitIsPositive
<1> QED
    BY <1>1 DEF Uint

\* read_uleb128 reads at least a byte, and not more than there are.
LEMMA ReadsWithin ==
    ASSUME input \in Seq(Byte), current \in 0..Len(input)
    PROVE  /\ ReadUleb128 \subseteq Uint
           /\ ReadUleb128 = {} <=> Ends(Rest) = {}
           /\ ReadUleb128 # {} => /\ VarintLen(Rest) \in Ends(Rest)
                                 /\ VarintLen(Rest) \in 1..Len(input) - current
                                 /\ current + VarintLen(Rest) \in 1..Len(input)
<1>1. Rest \in Seq(Byte) /\ Len(Rest) = Len(input) - current /\ Len(Rest) \in Nat
    BY RestOfInput
<1>2. 0 \in Uint
    BY LimitIsPositive DEF Uint
<1>3. CASE Ends(Rest) = {}
    BY <1>3 DEF ReadUleb128
<1>4. CASE Ends(Rest) # {}
    <2>1. ReadUleb128 = DecodeVaruint(Rest)
        BY <1>4 DEF ReadUleb128
    <2>2. VarintLen(Rest) \in Ends(Rest) /\ VarintLen(Rest) \in 1..Len(Rest)
        BY <1>1, <1>4, VarintLenIsLeast
    <2>3. DecodeVaruint(Rest) # {} /\ DecodeVaruint(Rest) \subseteq Uint
        <3>1. CASE VarintLen(Rest) > Groups
            BY <1>2, <3>1 DEF DecodeVaruint
        <3>2. CASE ~(VarintLen(Rest) > Groups)
            <4> DEFINE s == SubSeq(Rest, 1, VarintLen(Rest))
            <4>1. VarintLen(Rest) <= Groups
                BY <2>2, <3>2, BaseIsNat
            <4>2. DecodeVaruint(Rest) = {Value(s) % Limit}
                BY <1>1, <1>4, <4>1, DecodeIsValue
            <4>3. s \in Seq(Byte)
                BY <1>1, <2>2
            <4> HIDE DEF s
            <4>4. Value(s) \in Nat
                BY <4>3, ValueInNat
            <4>5. Value(s) % Limit \in Uint
                BY <1>2, <4>4, ModuloInUint
            <4> QED
                BY <4>2, <4>5
        <3> QED
            BY <3>1, <3>2
    <2>4. current + VarintLen(Rest) \in 1..Len(input)
        BY <1>1, <2>2
    <2> QED
        BY <1>1, <1>4, <2>1, <2>2, <2>3, <2>4
<1> QED
    BY <1>3, <1>4

\* The encodings of words.
LEMMA WordsEncoded ==
    ASSUME NEW ws \in Seq(Uint)
    PROVE  [i \in 1..Len(ws) |-> EncodeVaruint(ws[i])] \in Seq(Seq(Byte))
<1>1. Len(ws) \in Nat
    OBVIOUS
<1>2. ASSUME NEW i \in 1..Len(ws)
      PROVE  EncodeVaruint(ws[i]) \in Seq(Byte)
    BY EncodeIsVarint DEF IsVarint
<1> QED
    BY <1>1, <1>2

\* As many bytes as an address has are an address.
LEMMA AddressIsUUID ==
    ASSUME NEW s \in Seq(Bytes), NEW from \in Nat, from + kSize <= Len(s)
    PROVE  SubSeq(s, from + 1, from + kSize) \in UUID
<1>1. kSize \in Nat /\ kSize > 0 /\ Len(s) \in Nat
    BY BoundsAssumption
<1>2. \A i \in from + 1..from + kSize : s[i] \in Bytes
    BY <1>1
<1> DEFINE u == SubSeq(s, from + 1, from + kSize)
<1>3. /\ u \in Seq(Bytes)
      /\ Len(u) = IF from + 1 <= from + kSize
                  THEN (from + kSize) - (from + 1) + 1 ELSE 0
    BY <1>1, <1>2, SubSeqProperties
<1> HIDE DEF u
<1>4. Len(u) = kSize
    BY <1>1, <1>3
<1>5. u \in [1..Len(u) -> Bytes]
    BY <1>3
<1> QED
    BY <1>4, <1>5 DEF UUID, u

\* A call reads within the input, and answers with a number or with bytes.
LEMMA CallTypes ==
    ASSUME input \in Seq(Byte), current \in 0..Len(input), got \in Seq(CallRecord), Call
    PROVE  current' \in 0..Len(input) /\ got' \in Seq(CallRecord)
<1> DEFINE Answer == Uint \cup Seq(Byte)
<1>1. Len(input) \in Nat /\ current \in Nat /\ current <= Len(input)
    OBVIOUS
<1>2. ASSUME NEW call \in CallName, NEW answer \in SUBSET Answer
      PROVE  Append(got, [call |-> call, answer |-> answer]) \in Seq(CallRecord)
    BY <1>2 DEF CallRecord
<1>3. ASSUME NEW call \in CallName, Refuse(call)
      PROVE  current' \in 0..Len(input) /\ got' \in Seq(CallRecord)
    <2>1. {} \in SUBSET Answer
        OBVIOUS
    <2> HIDE DEF Answer
    <2> QED
        BY <1>2, <1>3, <2>1 DEF Refuse
<1>4. ASSUME NEW call \in CallName, NEW size \in Nat, current + size <= Len(input),
             Take(call, size)
      PROVE  current' \in 0..Len(input) /\ got' \in Seq(CallRecord)
    <2>1. Rest \in Seq(Byte) /\ Len(Rest) = Len(input) - current
        BY RestOfInput
    <2>2. SubSeq(Rest, 1, size) \in Seq(Byte)
        <3>1. \A i \in 1..size : Rest[i] \in Byte
            BY <1>1, <1>4, <2>1
        <3> QED
            BY <1>4, <3>1, <2>1, SubSeqProperties
    <2> DEFINE a == {SubSeq(Rest, 1, size)}
    <2>3. a \in SUBSET Answer
        BY <2>2
    <2>4. current' = current + size /\ got' = Append(got, [call |-> call, answer |-> a])
        BY <1>4 DEF Take
    <2> HIDE DEF Answer, a
    <2>5. got' \in Seq(CallRecord)
        BY <1>2, <2>3, <2>4
    <2> QED
        BY <1>1, <1>4, <2>4, <2>5
<1>5. /\ \A size \in WordSizes : size \in Nat /\ <<"read", size>> \in CallName
                                              /\ <<"bytes", size>> \in CallName
      /\ <<"uleb128">> \in CallName
      /\ <<"varuint32">> \in CallName
    BY TokenizerAssumption DEF CallName
<1>6. ASSUME NEW size \in WordSizes, CallRead(size)
      PROVE  current' \in 0..Len(input) /\ got' \in Seq(CallRecord)
    <2>1. CASE Fits(size)
        <3>1. Take(<<"read", size>>, size)
            BY <1>6, <2>1 DEF CallRead
        <3>2. current + size <= Len(input)
            <4>1. size \in Nat
                BY TokenizerAssumption
            <4> QED
                BY <1>1, <2>1, <4>1 DEF Fits
        <3> QED
            BY <1>4, <1>5, <3>1, <3>2
    <2>2. CASE ~Fits(size)
        BY <1>3, <1>5, <1>6, <2>2 DEF CallRead
    <2> QED
        BY <2>1, <2>2
<1>7. ASSUME NEW size \in WordSizes, CallReadBytes(size)
      PROVE  current' \in 0..Len(input) /\ got' \in Seq(CallRecord)
    <2>1. CASE current + size <= Len(input)
        BY <1>4, <1>5, <1>7, <2>1 DEF CallReadBytes
    <2>2. CASE ~(current + size <= Len(input))
        BY <1>3, <1>5, <1>7, <2>2 DEF CallReadBytes
    <2> QED
        BY <2>1, <2>2
<1>8. CASE CallReadUleb128
    <2>1. CASE ReadUleb128 = {}
        BY <1>3, <1>5, <1>8, <2>1 DEF CallReadUleb128
    <2>2. CASE ReadUleb128 # {}
        <3> PICK value \in ReadUleb128 :
                    /\ current' = current + VarintLen(Rest)
                    /\ got' = Append(got, [call |-> <<"uleb128">>, answer |-> {value}])
            BY <1>8, <2>2 DEF CallReadUleb128
        <3>1. current' \in 0..Len(input) /\ {value} \in SUBSET Answer
            BY <2>2, ReadsWithin
        <3> HIDE DEF Answer
        <3> QED
            BY <1>2, <1>5, <3>1
    <2> QED
        BY <2>1, <2>2
<1>9. CASE CallVaruint32
    <2>1. CASE ReadUleb128 = {}
        BY <1>3, <1>5, <1>9, <2>1 DEF CallVaruint32
    <2>2. CASE ReadUleb128 # {}
        <3> PICK value \in ReadUleb128 :
                    /\ current' = AfterVarint(value)
                    /\ got' = Append(got, [call |-> <<"varuint32">>,
                                           answer |-> {v \in {value} : v < Max32}])
            BY <1>9, <2>2 DEF CallVaruint32
        <3>1. current' \in 0..Len(input) /\ {v \in {value} : v < Max32} \in SUBSET Answer
            BY <2>2, ReadsWithin DEF AfterVarint
        <3> HIDE DEF Answer
        <3> QED
            BY <1>2, <1>5, <3>1
    <2> QED
        BY <2>1, <2>2
<1> QED
    BY <1>6, <1>7, <1>8, <1>9 DEF Call

LEMMA TypeInvInit == Init => TypeInv
<1> SUFFICES ASSUME Init
             PROVE  TypeInv
    OBVIOUS
<1>1. CASE form = "text"
    <2>1. input \in Seq(Token)
        BY <1>1, BoundedSeqs DEF Init
    <2> QED
        BY <1>1, <2>1 DEF Init, TypeInv, InputOK, IsVersion
<1>2. CASE form = "raw"
    <2>1. input \in Seq(Bytes)
        BY <1>2, BoundedSeqs DEF Init
    <2> QED
        BY <1>2, <2>1 DEF Init, TypeInv, InputOK, IsVersion
<1>3. CASE form = "calls"
    <2> DEFINE e == [i \in 1..Len(words) |-> EncodeVaruint(words[i])]
    <2>1. words \in Seq(Uint) /\ input = FlattenSeq(e)
        BY <1>3, BoundedSeqs DEF Init
    <2>2. e \in Seq(Seq(Byte))
        BY <2>1, WordsEncoded
    <2> HIDE DEF e
    <2>3. input \in Seq(Byte)
        BY <2>1, <2>2, FlattenSeqAppend, EmptySeq
    <2> QED
        BY <1>3, <2>1, <2>3 DEF Init, TypeInv, InputOK, IsVersion
<1> QED
    BY <1>1, <1>2, <1>3 DEF Init

\* What a parser's step reads of its tokens.
LEMMA ReadsToken ==
    ASSUME TypeInv, NEW t, Reads(t)
    PROVE  /\ input \in Seq(Token) /\ Len(input) \in Nat
           /\ current \in Nat /\ current + 1 <= Len(input)
           /\ t = input[current + 1] /\ t \in Token
           /\ current + 1 # Len(input) => /\ current + 2 \in 1..Len(input)
                                          /\ input[current + 2] \in Token
<1>1. /\ input \in Seq(Token) /\ Len(input) \in Nat
      /\ current \in Nat /\ current < Len(input) /\ t = input[current + 1]
    BY DEF TypeInv, InputOK, Reads
<1>2. current + 1 \in 1..Len(input)
    BY <1>1
<1>3. current + 1 # Len(input) => current + 2 \in 1..Len(input)
    BY <1>1
<1> QED
    BY <1>1, <1>2, <1>3

LEMMA TypeInvStep == TypeInv /\ [Next]_vars => TypeInv'
<1> SUFFICES ASSUME TypeInv, [Next]_vars
             PROVE  TypeInv'
    OBVIOUS
<1>1. CASE ParseEnds
    BY <1>1 DEF ParseEnds, Return, tokenizerVars, TypeInv, InputOK, IsVersion
<1>2. CASE ParseEmpty
    <2>1. current + 1 \in 0..Len(input)
        BY <1>2, ReadsToken DEF ParseEmpty
    <2> QED
        BY <1>2, <2>1 DEF ParseEmpty, Reads, TypeInv, InputOK, IsVersion
<1>3. CASE ParseBtle
    <2>1. Reads(Plain("btle"))
        BY <1>3 DEF ParseBtle
    <2>2. current' \in 0..Len(input)
        BY <1>3, <2>1, ReadsToken DEF ParseBtle
    <2>3. protocols' \in Seq(UUID)
        <3>1. CASE protocols' = protocols
            BY <3>1 DEF TypeInv
        <3>2. CASE /\ current + 1 # Len(input)
                   /\ ParsesAsUUID(input[current + 2])
                   /\ protocols' = Append(protocols, input[current + 2].value)
            <4>1. input[current + 2].value \in UUID
                BY <2>1, <3>2, ReadsToken, Tokens DEF ParsesAsUUID
            <4>2. protocols \in Seq(UUID)
                BY DEF TypeInv
            <4> QED
                BY <3>2, <4>1, <4>2
        <3> QED
            BY <1>3, <3>1, <3>2 DEF ParseBtle, Return
    <2>4. result' \in {"running", "address", "nullopt", "throws"} /\ version' = version
        BY <1>3 DEF ParseBtle, Return, TypeInv
    <2> QED
        BY <2>1, <2>2, <2>3, <2>4 DEF Reads, TypeInv, InputOK, IsVersion
<1>4. CASE ParseVersion
    <2> PICK t \in Token :
                /\ Reads(t)
                /\ current' = current + 1
                /\ IF IsDone(current + 1) /\ t.kind = "semver"
                   THEN /\ version' = {t.value}
                        /\ result' = "address"
                        /\ UNCHANGED protocols
                   ELSE Return("nullopt")
        BY <1>4 DEF ParseVersion
    <2>1. current' \in 0..Len(input)
        BY ReadsToken
    <2>2. t.kind = "semver" => t.value \in Versions
        BY Tokens
    <2>3. IsVersion(version) /\ protocols \in Seq(UUID)
        BY DEF TypeInv
    <2>4. IsVersion(version') /\ protocols' = protocols /\ result' \in {"address", "nullopt"}
        BY <2>2, <2>3 DEF Return, IsVersion
    <2> QED
        BY <2>1, <2>3, <2>4 DEF Reads, TypeInv, InputOK, IsVersion
<1>5. CASE ParseRawEnds
    BY <1>5 DEF ParseRawEnds, Return, tokenizerVars, TypeInv, InputOK, IsVersion
<1>6. CASE ParseRawProtocol
    <2>1. /\ form = "raw" /\ input \in Seq(Bytes) /\ Len(input) \in Nat
          /\ current \in 0..Len(input) /\ protocols \in Seq(UUID)
          /\ form' = form /\ input' = input /\ words' = words /\ got' = got
          /\ version' = version
        BY <1>6 DEF ParseRawProtocol, Return, TypeInv, InputOK
    <2>2. ReadUleb128 # {}
        BY <1>6 DEF ParseRawProtocol
    <2>3. AddressFrom \in 1..Len(input)
        BY <2>1, <2>2, BytesAreBytes, ReadsWithin DEF AddressFrom
    <2>4. CASE current' = AddressFrom /\ protocols' = protocols /\ result' = "nullopt"
        BY <2>1, <2>3, <2>4 DEF TypeInv, InputOK, IsVersion
    <2>5. CASE /\ AddressFrom + kSize <= Len(input)
               /\ current' = AddressFrom + kSize
               /\ protocols' = Append(protocols,
                                      SubSeq(input, AddressFrom + 1, AddressFrom + kSize))
               /\ result' = result
        <3>1. SubSeq(input, AddressFrom + 1, AddressFrom + kSize) \in UUID
            BY <2>1, <2>3, <2>5, AddressIsUUID
        <3>2. current' \in 0..Len(input)
            BY <2>1, <2>3, <2>5, BoundsAssumption
        <3>3. protocols' \in Seq(UUID)
            BY <2>1, <2>5, <3>1
        <3> QED
            BY <2>1, <2>5, <3>2, <3>3 DEF TypeInv, InputOK, IsVersion
    <2> QED
        BY <1>6, <2>4, <2>5 DEF ParseRawProtocol, Return
<1>7. CASE Reparse
    <2>1. IsText(ToText(protocols, version), protocols, version)
        BY ToTextIsText DEF TypeInv
    <2>2. input' \in Seq(Token) /\ Len(input') \in Nat
        BY <1>7, <2>1 DEF Reparse, IsText
    <2>3. got = <<>>
        BY <1>7 DEF Reparse, TypeInv
    <2> QED
        BY <1>7, <2>2, <2>3 DEF Reparse, TypeInv, InputOK, IsVersion
<1>8. CASE UseTokenizer
    <2>1. /\ form = "calls" /\ input \in Seq(Byte) /\ Len(input) \in Nat
          /\ words \in Seq(Uint)
          /\ current \in 0..Len(input) /\ got \in Seq(CallRecord)
          /\ UNCHANGED <<form, protocols, version, result, printed, input, words>>
        BY <1>8 DEF UseTokenizer, Call, TypeInv, InputOK
    <2>2. current' \in 0..Len(input) /\ got' \in Seq(CallRecord)
        BY <1>8, <2>1, CallTypes DEF UseTokenizer
    <2> QED
        BY <2>1, <2>2 DEF TypeInv, InputOK, IsVersion
<1>9. CASE UNCHANGED vars
    BY <1>9 DEF vars, tokenizerVars, TypeInv, InputOK, IsVersion
<1> QED
    BY <1>1, <1>2, <1>3, <1>4, <1>5, <1>6, <1>7, <1>8, <1>9 DEF Next

\* MultiaddrTypeOK, for all bounds: a position never leaves the input, and what
\* is parsed are UUIDs and versions (Multiaddr::parse, Multiaddr::parse_raw, and
\* the tokenizers of utils/multiaddr.h).
THEOREM MultiaddrTypeCorrect == Spec => []MultiaddrTypeOK
<1>1. TypeInv => MultiaddrTypeOK
    BY DEF TypeInv, MultiaddrTypeOK, IsVersion
<1> QED
    BY <1>1, TypeInvInit, TypeInvStep, PTL DEF Spec

\* An iteration of a parser ends its loop or reads on in the same input.
Advances ==
    form # "calls" /\ result = "running" =>
        /\ input' = input
        /\ result' # "running" \/ current < current'

\* Both parsers end: every iteration that does not return has read a token or a
\* byte, and the position stays within the input, so that there are no more
\* iterations than tokens or bytes and one (the loops of Multiaddr::parse and
\* Multiaddr::parse_raw, utils/multiaddr.cpp).
THEOREM ParsersAdvance == Spec => [][Advances]_vars
<1>1. TypeInv /\ [Next]_vars => [Advances]_vars
    <2> SUFFICES ASSUME TypeInv, Next, form # "calls", result = "running"
                 PROVE  input' = input /\ (result' # "running" \/ current < current')
        BY DEF Advances
    <2>1. ASSUME NEW t, Reads(t)
          PROVE  input' = input /\ current < current + 1 /\ current < current + 2
        BY <2>1, ReadsToken DEF Reads
    <2>2. CASE ParseEnds
        BY <2>2 DEF ParseEnds, Return, tokenizerVars
    <2>3. CASE ParseEmpty
        BY <2>1, <2>3 DEF ParseEmpty
    <2>4. CASE ParseBtle
        BY <2>1, <2>4 DEF ParseBtle
    <2>5. CASE ParseVersion
        BY <2>1, <2>5 DEF ParseVersion
    <2>6. CASE ParseRawEnds
        BY <2>6 DEF ParseRawEnds, Return, tokenizerVars
    <2>7. CASE ParseRawProtocol
        <3>1. /\ input \in Seq(Bytes) /\ input' = input /\ ReadUleb128 # {}
              /\ current \in 0..Len(input) /\ kSize \in Nat
              /\ current' = AddressFrom \/ current' = AddressFrom + kSize
            BY <2>7, BoundsAssumption DEF ParseRawProtocol, TypeInv, InputOK
        <3>2. VarintLen(Rest) \in Nat /\ VarintLen(Rest) > 0
            BY <3>1, BytesAreBytes, ReadsWithin
        <3> QED
            BY <3>1, <3>2 DEF AddressFrom
    <2> QED
        BY <2>2, <2>3, <2>4, <2>5, <2>6, <2>7 DEF Next, Reparse, UseTokenizer
<1> QED
    BY <1>1, TypeInvInit, TypeInvStep, PTL DEF Spec

-----------------------------------------------------------------------------
(***************************************************************************)
(* What parse_raw reads                                                    *)
(***************************************************************************)

\* The bytes of the varint that read_uleb128 reads are that varint and no more,
\* wherever the input goes on.
LEMMA CodeIsWhole ==
    ASSUME NEW s \in Seq(Byte), Ends(s) # {}
    PROVE  LET code == SubSeq(s, 1, VarintLen(s))
           IN  Ends(code) = {Len(code)} /\ DecodeVaruint(code) = DecodeVaruint(s)
<1> DEFINE n == VarintLen(s)
           code == SubSeq(s, 1, n)
<1>1. /\ n \in Ends(s) /\ n \in 1..Len(s)
      /\ \A j \in Ends(s) : n <= j
    BY VarintLenIsLeast
<1>2. /\ code \in Seq(Byte) /\ Len(code) = n
      /\ \A j \in 1..n : code[j] = s[j]
    <2>1. Len(s) \in Nat /\ n \in Nat /\ 1 <= n /\ n <= Len(s)
        BY <1>1
    <2>2. \A j \in 1..n : s[j] \in Byte
        BY <2>1
    <2> HIDE DEF n
    <2> QED
        BY <2>1, <2>2, SubSeqProperties
<1> HIDE DEF code
<1>3. Ends(code) = {n}
    <2>1. \A j \in Ends(code) : j = n
        BY <1>1, <1>2 DEF Ends
    <2>2. n \in Ends(code)
        BY <1>1, <1>2 DEF Ends
    <2> QED
        BY <2>1, <2>2
<1>4. VarintLen(code) = n
    <2>1. VarintLen(code) \in Ends(code)
        <3>1. Ends(code) # {} /\ code \in Seq(Byte)
            BY <1>2, <1>3
        <3> HIDE DEF n
        <3> QED
            BY <3>1, VarintLenIsLeast
    <2> QED
        BY <1>3, <2>1
<1>5. SubSeq(code, 1, n) = code
    <2>1. n \in Nat /\ 1 <= n
        BY <1>1
    <2> DEFINE u == SubSeq(code, 1, n)
    <2>2. u \in Seq(Byte) /\ Len(u) = n /\ \A j \in 1..n : u[j] = code[j]
        <3>1. \A j \in 1..n : code[j] \in Byte
            BY <1>2
        <3> HIDE DEF n
        <3> QED
            BY <2>1, <3>1, SubSeqProperties
    <2> HIDE DEF u
    <2>3. u = code
        BY <1>2, <2>2, SeqEqual
    <2> QED
        BY <2>3 DEF u
<1>6. DecodeVaruint(code) = DecodeVaruint(s)
    <2>1. SubSeq(code, 1, n) = SubSeq(s, 1, VarintLen(s))
        BY <1>5 DEF code
    <2> QED
        BY <1>4, <2>1 DEF DecodeVaruint
<1> QED
    BY <1>2, <1>3, <1>6 DEF code

\* What begins the rest of the input follows the position.
LEMMA CodeInInput ==
    ASSUME NEW S, input \in Seq(S), current \in 0..Len(input), NEW n \in 1..Len(Rest)
    PROVE  SubSeq(input, current + 1, current + n) = SubSeq(Rest, 1, n)
<1>1. /\ Rest \in Seq(S) /\ Len(Rest) = Len(input) - current /\ Len(Rest) \in Nat
      /\ \A j \in 1..Len(Rest) : Rest[j] = input[current + j]
    BY RestOfInput
<1> DEFINE r == Rest
           s == SubSeq(input, current + 1, current + n)
           t == SubSeq(r, 1, n)
<1>2. /\ t \in Seq(S) /\ Len(t) = n /\ \A j \in 1..n : t[j] = r[j]
    <2>1. \A j \in 1..n : r[j] \in S
        BY <1>1
    <2>2. n \in Nat /\ 1 <= n
        BY <1>1
    <2> HIDE DEF r
    <2> QED
        BY <2>1, <2>2, SubSeqProperties
<1>3. /\ s \in Seq(S) /\ Len(s) = n /\ \A j \in 1..n : s[j] = input[current + j]
    <2> DEFINE a == current + 1
               z == current + n
    <2>1. a \in Nat /\ z \in Nat /\ a <= z /\ z - a + 1 = n /\ z <= Len(input)
        BY <1>1
    <2>2. \A j \in a..z : input[j] \in S
        BY <1>1, <2>1
    <2>3. \A j \in 1..n : a + j - 1 = current + j
        BY <1>1
    <2> HIDE DEF a, z
    <2>4. /\ SubSeq(input, a, z) \in Seq(S) /\ Len(SubSeq(input, a, z)) = z - a + 1
          /\ \A j \in 1..z - a + 1 : SubSeq(input, a, z)[j] = input[a + j - 1]
        BY <2>1, <2>2, SubSeqProperties
    <2> QED
        BY <2>1, <2>3, <2>4 DEF a, z
<1> HIDE DEF s, t
<1>4. \A j \in 1..n : s[j] = t[j]
    <2>1. ASSUME NEW j \in 1..n
          PROVE  s[j] = t[j]
        <3>1. j \in 1..Len(Rest)
            BY <1>1
        <3>2. t[j] = Rest[j] /\ Rest[j] = input[current + j] /\ s[j] = input[current + j]
            BY <1>1, <1>2, <1>3, <3>1 DEF r
        <3> QED
            BY <3>2
    <2> QED
        BY <2>1
<1>5. s = t
    BY <1>2, <1>3, <1>4, SeqEqual
<1> QED
    BY <1>5 DEF s, t

\* Where the first n of the protocols that parse_raw returns are, one after the
\* other from the beginning to "end".
Located(at, ps, n, end) ==
    /\ at \in [0..n -> 0..Len(input)]
    /\ at[0] = 0
    /\ at[n] = end
    /\ \A i \in 1..n : IsProtocol(at[i - 1], at[i], ps[i])

\* While parse_raw runs, it has read the protocols that it returns.
RawInv ==
    form = "raw" /\ result \in {"running", "address"} =>
        /\ \E at : Located(at, protocols, Len(protocols), current)
        /\ result = "address" => \A i \in current + 1..Len(input) : input[i] >= Base

LEMMA RawInvInit == Init => RawInv
<1> SUFFICES ASSUME Init
             PROVE  RawInv
    OBVIOUS
<1>1. protocols = <<>> /\ current = 0 /\ result = "running"
    BY DEF Init
<1>2. ASSUME form = "raw"
      PROVE  Located([i \in 0..0 |-> 0], protocols, Len(protocols), current)
    <2>1. Len(input) \in Nat
        BY <1>2, BoundedSeqs DEF Init
    <2> QED
        BY <1>1, <2>1 DEF Located
<1> QED
    BY <1>1, <1>2 DEF RawInv

\* One more protocol behind those that were located.
LEMMA OneMoreProtocol ==
    ASSUME NEW ps \in Seq(UUID), NEW u \in UUID, NEW at, NEW from, NEW to \in 0..Len(input),
           Located(at, ps, Len(ps), from), IsProtocol(from, to, u)
    PROVE  \E b : Located(b, Append(ps, u), Len(ps) + 1, to)
<1> DEFINE n == Len(ps)
           qs == Append(ps, u)
           b == [i \in 0..n + 1 |-> IF i = n + 1 THEN to ELSE at[i]]
<1>1. n \in Nat /\ qs[n + 1] = u /\ \A i \in 1..n : qs[i] = ps[i]
    OBVIOUS
<1> HIDE DEF n, qs
<1>2. /\ at \in [0..n -> 0..Len(input)] /\ at[0] = 0 /\ at[n] = from
      /\ \A i \in 1..n : IsProtocol(at[i - 1], at[i], ps[i])
    BY DEF Located, n
<1>3. b \in [0..n + 1 -> 0..Len(input)] /\ b[0] = 0 /\ b[n + 1] = to
    BY <1>1, <1>2
<1>4. ASSUME NEW i \in 1..n
      PROVE  IsProtocol(b[i - 1], b[i], qs[i])
    <2>1. b[i - 1] = at[i - 1] /\ b[i] = at[i]
        BY <1>1
    <2> HIDE DEF b
    <2> QED
        BY <1>1, <1>2, <2>1
<1>5. IsProtocol(b[(n + 1) - 1], b[n + 1], qs[n + 1])
    <2>1. (n + 1) - 1 = n /\ b[n] = at[n] /\ b[n + 1] = to
        BY <1>1
    <2> HIDE DEF b
    <2> QED
        BY <1>1, <1>2, <2>1
<1>6. \A i \in 1..n + 1 : i \in 1..n \/ i = n + 1
    BY <1>1
<1> HIDE DEF b
<1>7. \A i \in 1..n + 1 : IsProtocol(b[i - 1], b[i], qs[i])
    BY <1>4, <1>5, <1>6
<1>8. Located(b, qs, n + 1, to)
    BY <1>3, <1>7 DEF Located
<1> QED
    BY <1>8 DEF n, qs

LEMMA RawInvStep == TypeInv /\ RawInv /\ [Next]_vars => RawInv'
<1> SUFFICES ASSUME TypeInv, RawInv, [Next]_vars, form' = "raw",
                    result' \in {"running", "address"}
             PROVE  RawInv'
    BY DEF RawInv
<1>1. CASE ParseRawEnds
    <2>1. /\ form = "raw" /\ result = "running" /\ ReadUleb128 = {}
          /\ input \in Seq(Byte) /\ current \in 0..Len(input)
          /\ UNCHANGED <<form, input, current, protocols>>
        BY <1>1, BytesAreBytes DEF ParseRawEnds, Return, tokenizerVars, TypeInv, InputOK
    <2>2. ASSUME NEW i \in current + 1..Len(input)
          PROVE  input[i] >= Base
        <3>1. /\ Rest \in Seq(Byte) /\ i - current \in 1..Len(Rest)
              /\ Rest[i - current] = input[i]
            <4>1. /\ Len(Rest) = Len(input) - current /\ Rest \in Seq(Byte)
                  /\ \A j \in 1..Len(Rest) : Rest[j] = input[current + j]
                BY <2>1, RestOfInput
            <4>2. i - current \in 1..Len(Rest) /\ current + (i - current) = i
                BY <2>1, <4>1
            <4> QED
                BY <4>1, <4>2
        <3>2. Ends(Rest) = {}
            BY <2>1, ReadsWithin
        <3>3. ~(Rest[i - current] < Base)
            BY <3>1, <3>2 DEF Ends
        <3>4. Rest[i - current] \in Nat
            BY <3>1, BaseIsNat
        <3> QED
            BY <3>1, <3>3, <3>4, BaseIsNat
    <2> QED
        BY <2>1, <2>2 DEF RawInv, Located, IsProtocol
<1>2. CASE ParseRawProtocol
    <2>1. /\ form = "raw" /\ result = "running" /\ input \in Seq(Byte)
          /\ Len(input) \in Nat /\ current \in 0..Len(input)
          /\ protocols \in Seq(UUID) /\ input' = input
        BY <1>2, BytesAreBytes DEF ParseRawProtocol, TypeInv, InputOK
    <2>2. /\ Btle \in ReadUleb128
          /\ AddressFrom + kSize <= Len(input)
          /\ current' = AddressFrom + kSize
          /\ protocols' = Append(protocols,
                                 SubSeq(input, AddressFrom + 1, AddressFrom + kSize))
          /\ result' = "running"
        BY <1>2, <2>1 DEF ParseRawProtocol, Return
    <2>3. /\ Rest \in Seq(Byte) /\ Ends(Rest) # {} /\ Btle \in DecodeVaruint(Rest)
          /\ VarintLen(Rest) \in 1..Len(Rest) /\ Len(Rest) = Len(input) - current
        BY <2>1, <2>2, RestOfInput, ReadsWithin DEF ReadUleb128
    <2> DEFINE u == SubSeq(input, AddressFrom + 1, AddressFrom + kSize)
    <2>4. u \in UUID
        <3>1. input \in Seq(Bytes) /\ AddressFrom \in Nat
            BY <2>1, <2>3 DEF TypeInv, InputOK, AddressFrom
        <3> QED
            BY <2>2, <3>1, AddressIsUUID
    <2>5. IsProtocol(current, current', u)
        <3>1. /\ AddressFrom \in Nat /\ kSize \in Nat
              /\ current' - kSize = AddressFrom
            <4> DEFINE n == VarintLen(Rest)
            <4>1. n \in Nat /\ current \in Nat /\ kSize \in Nat
                BY <2>1, <2>3, BoundsAssumption
            <4>2. AddressFrom = current + n /\ current' = AddressFrom + kSize
                BY <2>2 DEF AddressFrom
            <4> HIDE DEF n
            <4> QED
                BY <4>1, <4>2
        <3>2. SubSeq(input, current + 1, AddressFrom) = SubSeq(Rest, 1, VarintLen(Rest))
            BY <2>1, <2>3, CodeInInput DEF AddressFrom
        <3>3. SubSeq(input, current' - kSize + 1, current') = u
            BY <2>2, <3>1
        <3> QED
            BY <2>3, <3>1, <3>2, <3>3, CodeIsWhole DEF IsProtocol
    <2>6. current' \in 0..Len(input)
        BY <2>1, <2>2, <2>3, BoundsAssumption DEF AddressFrom
    <2>7. PICK at : Located(at, protocols, Len(protocols), current)
        BY <2>1 DEF RawInv
    <2> HIDE DEF u
    <2>8. protocols' = Append(protocols, u) /\ Len(protocols') = Len(protocols) + 1
        <3>1. protocols' = Append(protocols, u)
            BY <2>2 DEF u
        <3> QED
            BY <2>1, <2>4, <3>1
    <2>9. \E b : Located(b, protocols', Len(protocols'), current')
        BY <2>1, <2>4, <2>5, <2>6, <2>7, <2>8, OneMoreProtocol
    <2>10. ASSUME NEW b, Located(b, protocols', Len(protocols'), current')
           PROVE  Located(b, protocols, Len(protocols), current)'
        BY <2>1, <2>10 DEF Located, IsProtocol
    <2> QED
        BY <2>2, <2>9, <2>10 DEF RawInv
<1>3. CASE UNCHANGED vars
    BY <1>3 DEF vars, tokenizerVars, RawInv, Located, IsProtocol
<1>4. CASE ParseEnds \/ ParseEmpty \/ ParseBtle \/ ParseVersion
    BY <1>4 DEF ParseEnds, ParseEmpty, ParseBtle, ParseVersion, Reads
<1>5. CASE Reparse \/ UseTokenizer
    BY <1>5 DEF Reparse, UseTokenizer
<1> QED
    BY <1>1, <1>2, <1>3, <1>4, <1>5 DEF Next

\* RawIsRead: what parse_raw read when it accepts is the codes and the bytes of
\* the protocols that it returns and nothing else, and what it left unread is no
\* more than the beginning of a varint (Multiaddr::parse_raw, read_uleb128,
\* read_bytes).
THEOREM RawAddressIsRead == Spec => []RawIsRead
<1>1. TypeInv /\ RawInv => RawIsRead
    BY DEF RawInv, RawIsRead, Located
<1>2. Init => TypeInv /\ RawInv
    BY TypeInvInit, RawInvInit
<1>3. TypeInv /\ RawInv /\ [Next]_vars => (TypeInv /\ RawInv)'
    BY TypeInvStep, RawInvStep
<1> QED
    BY <1>1, <1>2, <1>3, PTL DEF Spec

-----------------------------------------------------------------------------
(***************************************************************************)
(* Printing and parsing again                                              *)
(***************************************************************************)

\* The protocols parsed are the first of those printed.
IsPrefixOf(ps, of) == Len(ps) <= Len(of) /\ \A j \in 1..Len(ps) : ps[j] = of[j]

LEMMA WholePrefix ==
    ASSUME NEW S, NEW ps \in Seq(S), NEW of \in Seq(S), IsPrefixOf(ps, of), Len(ps) = Len(of)
    PROVE  ps = of
    BY SeqEqual DEF IsPrefixOf

\* Where the parser is in the text of an address: before the empty token or
\* after a protocol; and what it has parsed.
PrintedInv ==
    /\ printed.yet \in BOOLEAN
    /\ printed.yet =>
        /\ form = "text"
        /\ printed.protocols \in Seq(UUID)
        /\ IsVersion(printed.version)
        /\ IsText(input, printed.protocols, printed.version)
        /\ result = "running" =>
              /\ version = {}
              /\ IsPrefixOf(protocols, printed.protocols)
              /\ \/ current = 0 /\ protocols = <<>>
                 \/ current = 2 * Len(protocols) + 1
        /\ result # "running" =>
              /\ result = "address"
              /\ protocols = printed.protocols
              /\ version = printed.version

LEMMA Kinds ==
    /\ \A k : Plain(k).kind = k
    /\ \A u, b : UUIDToken(u, b).kind = "uuid" /\ UUIDToken(u, b).value = u
    /\ \A v, b : VersionToken(v, b).kind = "semver" /\ VersionToken(v, b).value = v
    BY DEF Plain, UUIDToken, VersionToken

\* The token that is read next is the first, a protocol's or the version's.
AtEmpty(t) ==
    current = 0 /\ protocols = <<>> /\ t.kind = "empty"

AtProtocol(t) ==
    /\ current = 2 * Len(protocols) + 1
    /\ Len(protocols) < Len(printed.protocols)
    /\ t.kind = "btle"
    /\ current + 1 # Len(input)
    /\ input[current + 2] = UUIDToken(printed.protocols[Len(protocols) + 1], TRUE)

AtVersion(t) ==
    /\ current + 1 = Len(input)
    /\ Len(protocols) = Len(printed.protocols)
    /\ t.kind = "semver"
    /\ printed.version = {t.value}

LEMMA PrintedToken ==
    ASSUME TypeInv, PrintedInv, printed.yet, NEW t, Reads(t)
    PROVE  AtEmpty(t) \/ AtProtocol(t) \/ AtVersion(t)
<1> DEFINE P == printed.protocols
           n == Len(printed.protocols)
           k == Len(protocols)
<1>1. /\ P \in Seq(UUID) /\ n \in Nat /\ protocols \in Seq(UUID) /\ k \in Nat /\ k <= n
      /\ IsVersion(printed.version)
      /\ IsText(input, P, printed.version)
      /\ (current = 0 /\ protocols = <<>>) \/ current = 2 * k + 1
      /\ t = input[current + 1]
    BY DEF PrintedInv, TypeInv, IsPrefixOf, Reads
<1>2. current + 1 <= Len(input) /\ Len(input) \in Nat
    BY ReadsToken
<1>3. CASE current = 0 /\ protocols = <<>>
    <2>1. current + 1 = 1
        BY <1>3
    <2>2. t = Plain("empty")
        BY <1>1, <2>1 DEF IsText
    <2> QED
        BY <1>3, <2>2, Kinds DEF AtEmpty
<1>4. CASE current = 2 * k + 1 /\ k < n
    <2>1. k + 1 \in 1..n /\ current + 1 = 2 * (k + 1) /\ current + 2 = 2 * (k + 1) + 1
        BY <1>1, <1>4
    <2>2. t = Plain("btle") /\ input[current + 2] = UUIDToken(P[k + 1], TRUE)
        <3>1. /\ input[2 * (k + 1)] = Plain("btle")
              /\ input[2 * (k + 1) + 1] = UUIDToken(P[k + 1], TRUE)
            BY <1>1, <2>1 DEF IsText
        <3> QED
            BY <1>1, <2>1, <3>1
    <2>3. Len(input) >= 2 * n + 1
        <3>1. Len(input) = 2 * n + 1 \/ Len(input) = 2 * n + 2
            BY <1>1 DEF IsText, IsVersion
        <3> QED
            BY <1>1, <3>1
    <2>4. current + 1 # Len(input)
        BY <1>1, <1>4, <2>3
    <2> QED
        BY <1>4, <2>2, <2>4, Kinds DEF AtProtocol
<1>5. CASE current = 2 * k + 1 /\ k = n
    <2>1. printed.version # {}
        BY <1>1, <1>2, <1>5 DEF IsText
    <2>2. PICK v \in Versions : printed.version = {v}
        BY <1>1, <2>1 DEF IsVersion
    <2>3. Len(input) = 2 * n + 2 /\ input[2 * n + 2] = VersionToken(v, TRUE)
        BY <1>1, <2>2 DEF IsText
    <2>4. current + 1 = 2 * n + 2
        BY <1>1, <1>5
    <2>5. t = VersionToken(v, TRUE)
        BY <1>1, <2>3, <2>4
    <2>6. t.kind = "semver" /\ t.value = v
        BY <2>5, Kinds
    <2> QED
        BY <1>5, <2>2, <2>3, <2>4, <2>6 DEF AtVersion
<1> QED
    BY <1>1, <1>3, <1>4, <1>5

LEMMA PrintedInvInit == Init => PrintedInv
    BY DEF Init, NotPrinted, PrintedInv

LEMMA PrintedInvStep == TypeInv /\ PrintedInv /\ [Next]_vars => PrintedInv'
<1> SUFFICES ASSUME TypeInv, PrintedInv, [Next]_vars
             PROVE  PrintedInv'
    OBVIOUS
<1>1. CASE Reparse
    <2>1. /\ IsText(ToText(protocols, version), protocols, version)
          /\ protocols \in Seq(UUID) /\ IsVersion(version)
        BY ToTextIsText DEF TypeInv
    <2>2. /\ printed'.protocols = protocols /\ printed'.version = version
          /\ printed'.yet = TRUE
          /\ input' = ToText(protocols, version) /\ form' = "text"
          /\ current' = 0 /\ protocols' = <<>> /\ version' = {} /\ result' = "running"
        BY <1>1 DEF Reparse
    <2>3. IsPrefixOf(<<>>, protocols)
        BY <2>1 DEF IsPrefixOf
    <2> QED
        BY <2>1, <2>2, <2>3 DEF PrintedInv
<1>2. CASE ~printed.yet /\ printed' = printed
    BY <1>2 DEF PrintedInv
<1>3. CASE printed.yet /\ ParseEnds
    <2>1. /\ current = Len(input) /\ result = "running" /\ result' = "address"
          /\ UNCHANGED <<form, input, printed, protocols, version>>
        BY <1>3 DEF ParseEnds, Return, tokenizerVars
    <2> DEFINE n == Len(printed.protocols)
               k == Len(protocols)
    <2>2. /\ printed.protocols \in Seq(UUID) /\ n \in Nat
          /\ protocols \in Seq(UUID) /\ k \in Nat /\ k <= n
          /\ IsVersion(printed.version)
          /\ IsText(input, printed.protocols, printed.version)
          /\ IsPrefixOf(protocols, printed.protocols)
          /\ version = {}
          /\ current = 0 \/ current = 2 * k + 1
        BY <1>3, <2>1 DEF PrintedInv, TypeInv, IsPrefixOf
    <2>3. CASE printed.version = {}
        <3>1. Len(input) = 2 * n + 1
            BY <2>2, <2>3 DEF IsText
        <3>2. k = n
            BY <2>1, <2>2, <3>1
        <3>3. protocols = printed.protocols
            BY <2>2, <3>2, WholePrefix
        <3> QED
            BY <1>3, <2>1, <2>2, <2>3, <3>3 DEF PrintedInv
    <2>4. CASE printed.version # {}
        <3>1. Len(input) = 2 * n + 2
            BY <2>2, <2>4 DEF IsText
        <3>2. FALSE
            BY <2>1, <2>2, <3>1
        <3> QED
            BY <3>2
    <2> QED
        BY <2>3, <2>4
<1>4. CASE printed.yet /\ ParseEmpty
    <2>1. current = 0 /\ protocols = <<>>
        <3>1. Plain("empty").kind = "empty" /\ Reads(Plain("empty"))
            BY <1>4, Kinds DEF ParseEmpty
        <3>2. AtEmpty(Plain("empty"))
            BY <1>4, <3>1, PrintedToken DEF AtProtocol, AtVersion
        <3> QED
            BY <3>2 DEF AtEmpty
    <2>2. /\ current' = 1 /\ result = "running"
          /\ UNCHANGED <<form, input, printed, protocols, version, result>>
        BY <1>4, <2>1 DEF ParseEmpty, Reads
    <2>3. current' = 2 * Len(protocols') + 1
        BY <2>1, <2>2
    <2> QED
        BY <1>4, <2>2, <2>3 DEF PrintedInv
<1>5. CASE printed.yet /\ ParseBtle
    <2> DEFINE n == Len(printed.protocols)
               k == Len(protocols)
    <2>1. /\ current = 2 * k + 1 /\ k < n /\ current + 1 # Len(input)
          /\ input[current + 2] = UUIDToken(printed.protocols[k + 1], TRUE)
        <3>1. Plain("btle").kind = "btle" /\ Reads(Plain("btle"))
            BY <1>5, Kinds DEF ParseBtle
        <3>2. AtProtocol(Plain("btle"))
            BY <1>5, <3>1, PrintedToken DEF AtEmpty, AtVersion
        <3> QED
            BY <3>2 DEF AtProtocol
    <2> DEFINE next == input[current + 2]
    <2>0. next.kind = "uuid" /\ next.value = printed.protocols[k + 1]
        BY <2>1 DEF UUIDToken
    <2>2. /\ result = "running"
          /\ UNCHANGED <<form, input, printed, version, result>>
          /\ current' = current + 2
          /\ protocols' = Append(protocols, printed.protocols[k + 1])
        BY <1>5, <2>0, <2>1 DEF ParseBtle, Reads, ParsesAsUUID
    <2>3. /\ printed.protocols \in Seq(UUID) /\ n \in Nat
          /\ protocols \in Seq(UUID) /\ k \in Nat
          /\ IsPrefixOf(protocols, printed.protocols)
        BY <1>5, <2>2 DEF PrintedInv, TypeInv
    <2>4. IsPrefixOf(protocols', printed.protocols) /\ Len(protocols') = k + 1
        BY <2>1, <2>2, <2>3 DEF IsPrefixOf
    <2>5. current' = 2 * Len(protocols') + 1
        BY <2>1, <2>2, <2>3, <2>4
    <2> QED
        BY <1>5, <2>2, <2>4, <2>5 DEF PrintedInv
<1>6. CASE printed.yet /\ ParseVersion
    <2> PICK t \in Token :
                /\ t.kind \in {"uuid", "semver", "junk"}
                /\ Reads(t)
                /\ current' = current + 1
                /\ IF IsDone(current + 1) /\ t.kind = "semver"
                   THEN /\ version' = {t.value}
                        /\ result' = "address"
                        /\ UNCHANGED protocols
                   ELSE Return("nullopt")
        BY <1>6 DEF ParseVersion
    <2>1. AtVersion(t)
        BY <1>6, PrintedToken DEF AtEmpty, AtProtocol
    <2>2. t.kind = "semver" /\ printed.version = {t.value} /\ IsDone(current + 1)
        BY <2>1 DEF IsDone, AtVersion
    <2>3. /\ version' = printed.version /\ result' = "address" /\ result = "running"
          /\ UNCHANGED <<form, input, printed, protocols>>
        BY <2>2 DEF Reads
    <2>4. protocols = printed.protocols
        BY <1>6, <2>1, <2>3, WholePrefix DEF PrintedInv, TypeInv, AtVersion
    <2> QED
        BY <1>6, <2>3, <2>4 DEF PrintedInv
<1>7. CASE UNCHANGED vars
    BY <1>7 DEF vars, tokenizerVars, PrintedInv
<1>8. ParseRawEnds \/ ParseRawProtocol \/ UseTokenizer => ~printed.yet /\ printed' = printed
    BY DEF ParseRawEnds, ParseRawProtocol, UseTokenizer, PrintedInv
<1>9. ParseEnds \/ ParseEmpty \/ ParseBtle \/ ParseVersion =>
          printed.yet \/ (~printed.yet /\ printed' = printed)
    BY DEF ParseEnds, ParseEmpty, ParseBtle, ParseVersion, Reads
<1> QED
    BY <1>1, <1>2, <1>3, <1>4, <1>5, <1>6, <1>7, <1>8, <1>9 DEF Next

\* RoundTrip, for any number of protocols: an address survives being printed and
\* parsed again (Multiaddr::to_string, Multiaddr::parse).
THEOREM AddressSurvivesRoundTrip == Spec => []RoundTrip
<1>1. PrintedInv => RoundTrip
    BY DEF PrintedInv, RoundTrip
<1>2. Init => TypeInv /\ PrintedInv
    BY TypeInvInit, PrintedInvInit
<1>3. TypeInv /\ PrintedInv /\ [Next]_vars => (TypeInv /\ PrintedInv)'
    BY TypeInvStep, PrintedInvStep
<1> QED
    BY <1>1, <1>2, <1>3, PTL DEF Spec

-----------------------------------------------------------------------------
(***************************************************************************)
(* Varints that are written are read back                                  *)
(***************************************************************************)

Encoded(ws) == [i \in 1..Len(ws) |-> EncodeVaruint(ws[i])]

\* What follows the first pieces.
GoesOn(F, T, n, m) == \E t \in Seq(T) : F[m] = F[n] \o t

LEMMA Associate ==
    ASSUME NEW T, NEW a \in Seq(T), NEW b \in Seq(T), NEW c \in Seq(T), NEW d, NEW e,
           d = a \o b, e = d \o c
    PROVE  e = a \o (b \o c) /\ b \o c \in Seq(T)
    BY ConcatAssociative, ConcatProperties

LEMMA FlatteningGoesOn ==
    ASSUME NEW T, NEW seqs \in Seq(Seq(T)), NEW F, IsFlattening(F, T, seqs),
           NEW n \in Nat, NEW m \in Nat, n <= m, m <= Len(seqs)
    PROVE  GoesOn(F, T, n, m)
<1> DEFINE S == {d \in Nat : n + d <= Len(seqs) => GoesOn(F, T, n, n + d)}
<1>1. 0 \in S
    <2>1. F[n] \in Seq(T)
        BY DEF IsFlattening
    <2>2. F[n + 0] = F[n] \o <<>> /\ <<>> \in Seq(T)
        BY <2>1
    <2>3. GoesOn(F, T, n, n + 0)
        BY <2>2 DEF GoesOn
    <2> QED
        BY <2>3
<1>2. ASSUME NEW d \in Nat, d \in S
      PROVE  d + 1 \in S
    <2>1. ASSUME n + (d + 1) <= Len(seqs)
          PROVE  GoesOn(F, T, n, n + (d + 1))
        <3> DEFINE k == n + d
                   a == F[n]
                   b == F[k]
                   c == F[k + 1]
                   e == seqs[k + 1]
        <3>1. k \in Nat /\ k <= Len(seqs) /\ k + 1 \in 1..Len(seqs) /\ (k + 1) - 1 = k
              /\ n + (d + 1) = k + 1
            BY <2>1
        <3>2. GoesOn(F, T, n, k)
            BY <1>2, <3>1
        <3> HIDE DEF k
        <3>3. F \in [Nat -> Seq(T)]
            BY DEF IsFlattening
        <3>10. e \in Seq(T)
            BY <3>1
        <3>4. a \in Seq(T) /\ b \in Seq(T)
            BY <3>1, <3>3
        <3>5. c = F[(k + 1) - 1] \o e
            BY <3>1 DEF IsFlattening
        <3>6. c = b \o e
            BY <3>1, <3>5
        <3>7. PICK t \in Seq(T) : b = a \o t
            BY <3>2 DEF GoesOn
        <3> HIDE DEF a, b, c, e
        <3>8. c = a \o (t \o e) /\ t \o e \in Seq(T)
            BY <3>4, <3>6, <3>7, <3>10, Associate
        <3>9. GoesOn(F, T, n, k + 1)
            BY <3>8 DEF GoesOn, a, c
        <3> QED
            BY <3>1, <3>9
    <2> QED
        BY <2>1
<1> HIDE DEF S
<1>3. Nat \subseteq S
    BY <1>1, <1>2, NatSetInduction
<1>4. m - n \in Nat /\ n + (m - n) = m
    OBVIOUS
<1>5. m - n \in S
    BY <1>3, <1>4
<1> QED
    BY <1>4, <1>5 DEF S

LEMMA AfterPrefix ==
    ASSUME NEW T, NEW a \in Seq(T), NEW b \in Seq(T), NEW c, c = a \o b
    PROVE  SubSeq(c, Len(a) + 1, Len(c)) = b
<1> DEFINE u == SubSeq(c, Len(a) + 1, Len(c))
<1>1. IsConcatenation(T, a, b, c)
    BY Concatenation
<1>2. Len(a) \in Nat /\ Len(b) \in Nat /\ c \in Seq(T) /\ Len(c) = Len(a) + Len(b)
    BY <1>1 DEF IsConcatenation
<1>3. \A i \in Len(a) + 1..Len(c) : c[i] \in T
    BY <1>2
<1>4. /\ u \in Seq(T)
      /\ Len(u) = IF Len(a) + 1 <= Len(c) THEN Len(c) - (Len(a) + 1) + 1 ELSE 0
      /\ \A i \in 1..Len(c) - (Len(a) + 1) + 1 : u[i] = c[(Len(a) + 1) + i - 1]
    BY <1>2, <1>3, SubSeqProperties
<1> HIDE DEF u
<1>5. Len(u) = Len(b)
    BY <1>2, <1>4
<1>6. ASSUME NEW i \in 1..Len(u)
      PROVE  u[i] = b[i]
    <2>1. /\ i \in 1..Len(b) /\ i \in 1..Len(c) - (Len(a) + 1) + 1
          /\ (Len(a) + 1) + i - 1 = Len(a) + i
        BY <1>2, <1>5
    <2>2. u[i] = c[Len(a) + i]
        BY <1>4, <2>1
    <2>3. c[Len(a) + i] = b[i]
        BY <1>1, <2>1 DEF IsConcatenation
    <2> QED
        BY <2>2, <2>3
<1>7. u = b
    BY <1>4, <1>5, <1>6, SeqEqual
<1> QED
    BY <1>7 DEF u

\* What a call adds to the calls that were made.
CallAdds(call, answer) ==
    /\ got' = Append(got, [call |-> call, answer |-> answer])
    /\ Len(got') = Len(got) + 1
    /\ \A i \in 1..Len(got) : got'[i] = got[i]
    /\ got'[Len(got) + 1].call = call
    /\ got'[Len(got) + 1].answer = answer

LEMMA AddsCall ==
    ASSUME NEW S, got \in Seq(S), NEW call, NEW answer,
           got' = Append(got, [call |-> call, answer |-> answer])
    PROVE  CallAdds(call, answer)
<1> DEFINE r == [call |-> call, answer |-> answer]
<1>1. r.call = call /\ r.answer = answer
    OBVIOUS
<1>2. got' = Append(got, r)
    OBVIOUS
<1> HIDE DEF r
<1>3. /\ Len(got') = Len(got) + 1
      /\ \A i \in 1..Len(got) : got'[i] = got[i]
      /\ got'[Len(got) + 1] = r
    BY <1>2
<1> QED
    BY <1>1, <1>3 DEF CallAdds

OnlyVarints == \A i \in 1..Len(got) : got[i].call \in {<<"uleb128">>, <<"varuint32">>}

\* The words and what the calls read of them: the position is after as many words
\* as calls were made.
Written(F) ==
    /\ IsFlattening(F, Byte, Encoded(words))
    /\ input = F[Len(words)]
    /\ OnlyVarints /\ Len(got) <= Len(words) => current = Len(F[Len(got)])

VarintsInv == form = "calls" => (\E F : Written(F)) /\ VarintsReadBack

LEMMA VarintsInvInit == Init => VarintsInv
<1> SUFFICES ASSUME Init, form = "calls"
             PROVE  (\E F : Written(F)) /\ VarintsReadBack
    BY DEF VarintsInv
<1>1. words \in Seq(Uint) /\ input = FlattenSeq(Encoded(words)) /\ got = <<>> /\ current = 0
    BY BoundedSeqs DEF Init, Encoded
<1>2. Encoded(words) \in Seq(Seq(Byte)) /\ Len(Encoded(words)) = Len(words)
    BY <1>1, WordsEncoded DEF Encoded
<1>3. PICK F : /\ IsFlattening(F, Byte, Encoded(words))
               /\ FlattenSeq(Encoded(words)) = F[Len(Encoded(words))]
    BY <1>2, FlattenSeqDef
<1>4. F[0] = <<>>
    BY <1>3 DEF IsFlattening
<1>5. current = Len(F[Len(got)])
    BY <1>1, <1>4
<1>6. Written(F)
    BY <1>1, <1>2, <1>3, <1>5 DEF Written
<1>7. VarintsReadBack
    BY <1>1 DEF VarintsReadBack
<1> QED
    BY <1>6, <1>7

\* Before the next word a varint is read, and it is that word.
LEMMA NextWord ==
    ASSUME TypeInv, form = "calls", NEW F, Written(F), OnlyVarints, Len(got) < Len(words)
    PROVE  /\ ReadUleb128 = {words[Len(got) + 1]}
           /\ current + VarintLen(Rest) = Len(F[Len(got) + 1])
<1> DEFINE n == Len(got)
           e == EncodeVaruint(words[n + 1])
<1>1. /\ words \in Seq(Uint) /\ Len(words) \in Nat /\ n \in Nat /\ n + 1 \in 1..Len(words)
      /\ words[n + 1] \in Uint
    BY DEF TypeInv, InputOK
<1>2. Encoded(words) \in Seq(Seq(Byte)) /\ Len(Encoded(words)) = Len(words)
      /\ Encoded(words)[n + 1] = e
    BY <1>1, WordsEncoded DEF Encoded
<1>3. /\ IsFlattening(F, Byte, Encoded(words)) /\ input = F[Len(words)]
      /\ current = Len(F[n])
    BY <1>1 DEF Written
<1>4. e \in Seq(Byte)
    BY <1>1, EncodeIsVarint DEF IsVarint
<1> HIDE DEF e
<1>5. PICK t \in Seq(Byte) : input = F[n + 1] \o t
    <2>1. n + 1 \in Nat /\ n + 1 <= Len(words) /\ Len(words) <= Len(Encoded(words))
        BY <1>1, <1>2
    <2>2. GoesOn(F, Byte, n + 1, Len(words))
        BY <1>1, <1>2, <1>3, <2>1, FlatteningGoesOn
    <2> QED
        BY <1>3, <2>2 DEF GoesOn
<1>6. F[n + 1] = F[n] \o e /\ F[n] \in Seq(Byte)
    <2>1. n + 1 \in 1..Len(Encoded(words)) /\ (n + 1) - 1 = n
        BY <1>1, <1>2
    <2>2. F[n + 1] = F[(n + 1) - 1] \o Encoded(words)[n + 1] /\ F[n] \in Seq(Byte)
        BY <1>1, <1>3, <2>1 DEF IsFlattening
    <2> QED
        BY <1>2, <2>1, <2>2
<1>7. Rest = e \o t
    <2> DEFINE a == F[n]
               b == F[n + 1]
    <2>1. a \in Seq(Byte) /\ b = a \o e /\ input = b \o t
        BY <1>5, <1>6
    <2> HIDE DEF a, b
    <2>2. input = a \o (e \o t) /\ e \o t \in Seq(Byte)
        BY <1>4, <1>5, <2>1, Associate
    <2>4. SubSeq(input, Len(a) + 1, Len(input)) = e \o t
        BY <2>1, <2>2, AfterPrefix
    <2>3. SubSeq(input, Len(F[n]) + 1, Len(input)) = e \o t
        BY <2>4 DEF a
    <2> QED
        BY <1>3, <2>3 DEF Rest
<1>8. /\ Ends(e \o t) # {}
      /\ VarintLen(e \o t) = Len(e)
      /\ DecodeVaruint(e \o t) = {words[n + 1]}
    BY <1>1, DecodeEncode DEF e
<1>9. Len(F[n + 1]) = Len(F[n]) + Len(e)
    BY <1>4, <1>6
<1> QED
    BY <1>3, <1>7, <1>8, <1>9 DEF ReadUleb128

\* A call that reads varints is one of the two.
LEMMA OneMoreVarint ==
    ASSUME TypeInv, form = "calls", Call, OnlyVarints'
    PROVE  /\ OnlyVarints
           /\ CallReadUleb128 \/ CallVaruint32
<1>1. got \in Seq(CallRecord) /\ Len(got) \in Nat
    BY DEF TypeInv
<1>2. ASSUME NEW call, NEW answer, got' = Append(got, [call |-> call, answer |-> answer])
      PROVE  call \in {<<"uleb128">>, <<"varuint32">>} /\ OnlyVarints
    <2>1. CallAdds(call, answer)
        BY <1>1, <1>2, AddsCall
    <2>2. Len(got) + 1 \in 1..Len(got') /\ \A i \in 1..Len(got) : i \in 1..Len(got')
        BY <1>1, <2>1 DEF CallAdds
    <2>3. \A i \in 1..Len(got') : got'[i].call \in {<<"uleb128">>, <<"varuint32">>}
        BY DEF OnlyVarints
    <2>4. got'[Len(got) + 1].call \in {<<"uleb128">>, <<"varuint32">>}
        BY <2>2, <2>3
    <2>5. \A i \in 1..Len(got) : got[i].call \in {<<"uleb128">>, <<"varuint32">>}
        BY <2>1, <2>2, <2>3 DEF CallAdds
    <2> QED
        BY <2>1, <2>4, <2>5 DEF CallAdds, OnlyVarints
<1>3. \A a, b, c : <<a, b>> # <<c>>
    <2> SUFFICES ASSUME NEW a, NEW b, NEW c, <<a, b>> = <<c>>
                 PROVE  FALSE
        OBVIOUS
    <2>1. Len(<<a, b>>) = 2 /\ Len(<<c>>) = 1
        OBVIOUS
    <2> QED
        BY <2>1
<1>4. ASSUME NEW size \in WordSizes
      PROVE  ~CallRead(size)
    <2>1. SUFFICES ASSUME CallRead(size)
                   PROVE  FALSE
        OBVIOUS
    <2>2. \E answer : got' = Append(got, [call |-> <<"read", size>>, answer |-> answer])
        BY <2>1 DEF CallRead, Take, Refuse
    <2>3. <<"read", size>> \in {<<"uleb128">>, <<"varuint32">>}
        BY <1>2, <2>2
    <2> QED
        BY <1>3, <2>3
<1>5. ASSUME NEW size \in WordSizes
      PROVE  ~CallReadBytes(size)
    <2>1. SUFFICES ASSUME CallReadBytes(size)
                   PROVE  FALSE
        OBVIOUS
    <2>2. \E answer : got' = Append(got, [call |-> <<"bytes", size>>, answer |-> answer])
        BY <2>1 DEF CallReadBytes, Take, Refuse
    <2>3. <<"bytes", size>> \in {<<"uleb128">>, <<"varuint32">>}
        BY <1>2, <2>2
    <2> QED
        BY <1>3, <2>3
<1>6. OnlyVarints
    <2>1. \E call, answer : got' = Append(got, [call |-> call, answer |-> answer])
        BY DEF Call, CallRead, CallReadBytes, CallReadUleb128, CallVaruint32, Take, Refuse
    <2> QED
        BY <1>2, <2>1
<1> QED
    BY <1>4, <1>5, <1>6 DEF Call

\* What a call is to answer.
Answers(r, w) == r.answer = {x \in {w} : r.call = <<"varuint32">> => x < Max32}

LEMMA VarintsInvStep == TypeInv /\ VarintsInv /\ [Next]_vars => VarintsInv'
<1> SUFFICES ASSUME TypeInv, VarintsInv, [Next]_vars, form' = "calls"
             PROVE  VarintsInv'
    BY DEF VarintsInv
<1>1. CASE UseTokenizer
    <2>1. form = "calls" /\ Call /\ UNCHANGED <<input, words>>
        BY <1>1 DEF UseTokenizer, Call
    <2>2. got \in Seq(CallRecord) /\ Len(got) \in Nat /\ words \in Seq(Uint) /\ Len(words) \in Nat
        BY <2>1 DEF TypeInv, InputOK
    <2>3. PICK F : Written(F)
        BY <2>1 DEF VarintsInv
    <2>4. \E call, answer : CallAdds(call, answer)
        <3>1. \E call, answer : got' = Append(got, [call |-> call, answer |-> answer])
            BY <2>1 DEF Call, CallRead, CallReadBytes, CallReadUleb128, CallVaruint32,
                        Take, Refuse
        <3> QED
            BY <2>2, <3>1, AddsCall
    <2>5. Len(got') = Len(got) + 1 /\ \A i \in 1..Len(got) : got'[i] = got[i]
        BY <2>4 DEF CallAdds
    <2>6. ASSUME OnlyVarints', Len(got') <= Len(words)
          PROVE  /\ current' = Len(F[Len(got')])
                 /\ Answers(got'[Len(got')], words[Len(got')])
        <3> DEFINE n == Len(got)
                   w == words[n + 1]
        <3>1. OnlyVarints /\ (CallReadUleb128 \/ CallVaruint32)
            BY <2>1, <2>6, OneMoreVarint
        <3>2. ReadUleb128 = {w} /\ current + VarintLen(Rest) = Len(F[n + 1])
            BY <2>1, <2>2, <2>3, <2>5, <2>6, <3>1, NextWord
        <3> HIDE DEF w
        <3>3. CASE CallReadUleb128
            <4>1. /\ current' = current + VarintLen(Rest)
                  /\ got' = Append(got, [call |-> <<"uleb128">>, answer |-> {w}])
                BY <3>2, <3>3 DEF CallReadUleb128
            <4>2. CallAdds(<<"uleb128">>, {w})
                BY <2>2, <4>1, AddsCall
            <4>3. <<"uleb128">> # <<"varuint32">>
                BY OneElement
            <4>4. Answers(got'[n + 1], w)
                BY <4>2, <4>3 DEF CallAdds, Answers
            <4>5. current' = Len(F[Len(got')])
                BY <2>5, <3>2, <4>1
            <4> QED
                BY <2>5, <4>4, <4>5 DEF w
        <3>4. CASE CallVaruint32
            <4> DEFINE a == {x \in {w} : x < Max32}
            <4>1. /\ current' = current + VarintLen(Rest)
                  /\ got' = Append(got, [call |-> <<"varuint32">>, answer |-> a])
                BY <3>2, <3>4 DEF CallVaruint32, AfterVarint
            <4> HIDE DEF a
            <4>2. CallAdds(<<"varuint32">>, a)
                BY <2>2, <4>1, AddsCall
            <4>3. Answers(got'[n + 1], w)
                BY <4>2 DEF CallAdds, Answers, a
            <4>4. current' = Len(F[Len(got')])
                BY <2>5, <3>2, <4>1
            <4> QED
                BY <2>5, <4>3, <4>4 DEF w
        <3> QED
            BY <3>1, <3>3, <3>4
    <2>7. Written(F)'
        BY <2>1, <2>3, <2>6 DEF Written
    <2>8. VarintsReadBack'
        <3> SUFFICES ASSUME OnlyVarints', NEW i \in 1..Len(got'), i <= Len(words)
                     PROVE  Answers(got'[i], words[i])
            BY <2>1 DEF VarintsReadBack, OnlyVarints, Answers
        <3>1. i \in 1..Len(got) \/ i = Len(got')
            BY <2>2, <2>5
        <3>2. CASE i \in 1..Len(got)
            <4>1. OnlyVarints /\ VarintsReadBack
                BY <2>1, OneMoreVarint DEF VarintsInv
            <4>2. Answers(got[i], words[i])
                BY <3>2, <4>1 DEF VarintsReadBack, OnlyVarints, Answers
            <4> QED
                BY <2>5, <3>2, <4>2
        <3>3. CASE i = Len(got')
            BY <2>6, <3>3
        <3> QED
            BY <3>1, <3>2, <3>3
    <2> QED
        BY <2>7, <2>8 DEF VarintsInv
<1>2. CASE UNCHANGED vars
    BY <1>2 DEF vars, tokenizerVars, VarintsInv, Written, OnlyVarints, VarintsReadBack
<1>3. CASE Reparse \/ ParseEnds \/ ParseEmpty \/ ParseBtle \/ ParseVersion
           \/ ParseRawEnds \/ ParseRawProtocol
    BY <1>3 DEF Reparse, ParseEnds, ParseEmpty, ParseBtle, ParseVersion, Reads,
                ParseRawEnds, ParseRawProtocol
<1> QED
    BY <1>1, <1>2, <1>3 DEF Next

\* VarintsReadBack, for any words, whatever the width and the groups: reading
\* varints, the i-th call answers with the i-th word, unless it is too large for
\* varuint32 (encode_varuint, decode_varuint, read_uleb128, varuint32).
THEOREM WrittenVarintsAreRead == Spec => []VarintsReadBack
<1>1. TypeInv /\ VarintsInv => VarintsReadBack
    <2>1. got = <<>> => VarintsReadBack
        BY DEF VarintsReadBack
    <2> QED
        BY <2>1 DEF TypeInv, VarintsInv
<1>2. Init => TypeInv /\ VarintsInv
    BY TypeInvInit, VarintsInvInit
<1>3. TypeInv /\ VarintsInv /\ [Next]_vars => (TypeInv /\ VarintsInv)'
    BY TypeInvStep, VarintsInvStep
<1> QED
    BY <1>1, <1>2, <1>3, PTL DEF Spec

-----------------------------------------------------------------------------
(***************************************************************************)
(* A text says what the address says                                       *)
(***************************************************************************)

\* A token in the spelling of to_string, and what a token adds to what is said.
Respelled(t) == [t EXCEPT !.canonical = TRUE]
Says(t) == IF t = Plain("empty") THEN <<>> ELSE <<t>>

Sayings(s) == [i \in 1..Len(s) |-> Says(s[i])]

LEMMA Respelling ==
    ASSUME NEW k, NEW v, NEW b, NEW c
    PROVE  [[kind |-> k, value |-> v, canonical |-> b] EXCEPT !.canonical = c]
           = [kind |-> k, value |-> v, canonical |-> c]
    OBVIOUS

LEMMA RespelledTokens ==
    /\ \A t \in Token : Respelled(t) \in Token
    /\ \A k : Respelled(Plain(k)) = Plain(k)
    /\ \A t \in Token : t.kind = "uuid" => Respelled(t) = UUIDToken(t.value, TRUE)
    /\ \A t \in Token : t.kind = "semver" => Respelled(t) = VersionToken(t.value, TRUE)
<1>1. ASSUME NEW k
      PROVE  Respelled(Plain(k)) = Plain(k)
    BY Respelling, Zenon DEF Respelled, Plain
<1>2. ASSUME NEW u, NEW b
      PROVE  Respelled(UUIDToken(u, b)) = UUIDToken(u, TRUE)
    BY Respelling, Zenon DEF Respelled, UUIDToken
<1>3. ASSUME NEW v, NEW b
      PROVE  Respelled(VersionToken(v, b)) = VersionToken(v, TRUE)
    BY Respelling, Zenon DEF Respelled, VersionToken
<1>4. ASSUME NEW t \in Token
      PROVE  /\ Respelled(t) \in Token
             /\ t.kind = "uuid" => Respelled(t) = UUIDToken(t.value, TRUE)
             /\ t.kind = "semver" => Respelled(t) = VersionToken(t.value, TRUE)
    <2>1. CASE \E k \in {"empty", "btle", "junk"} : t = Plain(k)
        <3> PICK k \in {"empty", "btle", "junk"} : t = Plain(k)
            BY <2>1
        <3>1. Respelled(t) = t /\ t.kind = k
            BY <1>1, Kinds
        <3> QED
            BY <3>1
    <2>2. CASE \E u \in UUID, b \in BOOLEAN : t = UUIDToken(u, b)
        <3> PICK u \in UUID, b \in BOOLEAN : t = UUIDToken(u, b)
            BY <2>2
        <3>1. Respelled(t) = UUIDToken(u, TRUE)
            BY <1>2
        <3>2. t.kind = "uuid" /\ t.value = u
            BY DEF UUIDToken
        <3> QED
            BY <3>1, <3>2, Tokens
    <2>3. CASE \E v \in Versions, b \in BOOLEAN : t = VersionToken(v, b)
        <3> PICK v \in Versions, b \in BOOLEAN : t = VersionToken(v, b)
            BY <2>3
        <3>1. Respelled(t) = VersionToken(v, TRUE)
            BY <1>3
        <3>2. t.kind = "semver" /\ t.value = v
            BY DEF VersionToken
        <3> QED
            BY <3>1, <3>2, Tokens
    <2>4. \/ \E k \in {"empty", "btle", "junk"} : t = Plain(k)
          \/ \E u \in UUID, b \in BOOLEAN : t = UUIDToken(u, b)
          \/ \E v \in Versions, b \in BOOLEAN : t = VersionToken(v, b)
        BY DEF Token
    <2> QED
        BY <2>1, <2>2, <2>3, <2>4, Zenon
<1> QED
    BY <1>1, <1>4

LEMMA CanonicalOf ==
    ASSUME NEW s \in Seq(Token)
    PROVE  /\ Canonical(s) \in Seq(Token) /\ Len(Canonical(s)) = Len(s)
           /\ \A i \in 1..Len(s) : Canonical(s)[i] = Respelled(s[i])
<1>1. Len(s) \in Nat /\ \A i \in 1..Len(s) : Respelled(s[i]) \in Token
    BY RespelledTokens
<1>2. Canonical(s) = [i \in 1..Len(s) |-> Respelled(s[i])]
    BY DEF Canonical, Respelled
<1> QED
    BY <1>1, <1>2

LEMMA AppendIs ==
    ASSUME NEW S, NEW s \in Seq(S), NEW e \in S
    PROVE  /\ Append(s, e) \in Seq(S) /\ Len(Append(s, e)) = Len(s) + 1
           /\ \A i \in 1..Len(s) : Append(s, e)[i] = s[i]
           /\ Append(s, e)[Len(s) + 1] = e
    OBVIOUS

LEMMA CanonicalOfAppend ==
    ASSUME NEW s \in Seq(Token), NEW t \in Token
    PROVE  Canonical(Append(s, t)) = Append(Canonical(s), Respelled(t))
<1> DEFINE st == Append(s, t)
           a == Canonical(st)
           r == Respelled(t)
           c == Canonical(s)
           b == Append(c, r)
<1>1. /\ st \in Seq(Token) /\ Len(st) = Len(s) + 1 /\ Len(s) \in Nat
      /\ \A i \in 1..Len(s) : st[i] = s[i]
      /\ st[Len(s) + 1] = t
    BY AppendIs
<1> HIDE DEF st
<1>2. /\ a \in Seq(Token) /\ Len(a) = Len(st)
      /\ \A i \in 1..Len(st) : a[i] = Respelled(st[i])
    BY <1>1, CanonicalOf
<1>3. /\ c \in Seq(Token) /\ Len(c) = Len(s)
      /\ \A i \in 1..Len(s) : c[i] = Respelled(s[i])
    BY CanonicalOf
<1>4. r \in Token
    BY RespelledTokens
<1> HIDE DEF a, c, r
<1>5. /\ b \in Seq(Token) /\ Len(b) = Len(c) + 1
      /\ \A i \in 1..Len(c) : b[i] = c[i]
      /\ b[Len(c) + 1] = r
    BY <1>3, <1>4, AppendIs
<1> HIDE DEF b
<1>6. Len(a) = Len(b)
    BY <1>1, <1>2, <1>3, <1>5
<1>7. ASSUME NEW i \in 1..Len(a)
      PROVE  a[i] = b[i]
    <2>1. i \in 1..Len(st)
        BY <1>2
    <2>2. a[i] = Respelled(st[i])
        BY <1>2, <2>1
    <2>3. i \in 1..Len(s) \/ i = Len(s) + 1
        BY <1>1, <2>1
    <2>4. CASE i \in 1..Len(s)
        BY <1>1, <1>3, <1>5, <2>2, <2>4
    <2>5. CASE i = Len(s) + 1
        BY <1>1, <1>3, <1>5, <2>2, <2>5 DEF r
    <2> QED
        BY <2>3, <2>4, <2>5
<1>8. a = b
    BY <1>2, <1>5, <1>6, <1>7, SeqEqual
<1> QED
    BY <1>8 DEF a, b, c, r, st

LEMMA SayingsOf ==
    ASSUME NEW s \in Seq(Token)
    PROVE  /\ Sayings(s) \in Seq(Seq(Token)) /\ Len(Sayings(s)) = Len(s)
           /\ \A i \in 1..Len(s) : Sayings(s)[i] = Says(s[i])
<1>1. \A t \in Token : Says(t) \in Seq(Token)
    BY OneElement DEF Says
<1>2. Len(s) \in Nat /\ \A i \in 1..Len(s) : Says(s[i]) \in Seq(Token)
    BY <1>1
<1> QED
    BY <1>2 DEF Sayings

LEMMA SayingsOfAppend ==
    ASSUME NEW s \in Seq(Token), NEW t \in Token
    PROVE  Sayings(Append(s, t)) = Append(Sayings(s), Says(t))
<1> DEFINE st == Append(s, t)
           a == Sayings(st)
           r == Says(t)
           c == Sayings(s)
           b == Append(c, r)
<1>1. /\ st \in Seq(Token) /\ Len(st) = Len(s) + 1 /\ Len(s) \in Nat
      /\ \A i \in 1..Len(s) : st[i] = s[i]
      /\ st[Len(s) + 1] = t
    BY AppendIs
<1> HIDE DEF st
<1>2. /\ a \in Seq(Seq(Token)) /\ Len(a) = Len(st)
      /\ \A i \in 1..Len(st) : a[i] = Says(st[i])
    BY <1>1, SayingsOf
<1>3. /\ c \in Seq(Seq(Token)) /\ Len(c) = Len(s)
      /\ \A i \in 1..Len(s) : c[i] = Says(s[i])
    BY SayingsOf
<1>4. r \in Seq(Token)
    BY OneElement DEF Says
<1> HIDE DEF a, c, r
<1>5. /\ b \in Seq(Seq(Token)) /\ Len(b) = Len(c) + 1
      /\ \A i \in 1..Len(c) : b[i] = c[i]
      /\ b[Len(c) + 1] = r
    BY <1>3, <1>4, AppendIs
<1> HIDE DEF b
<1>6. Len(a) = Len(b)
    BY <1>1, <1>2, <1>3, <1>5
<1>7. ASSUME NEW i \in 1..Len(a)
      PROVE  a[i] = b[i]
    <2>1. i \in 1..Len(st)
        BY <1>2
    <2>2. a[i] = Says(st[i])
        BY <1>2, <2>1
    <2>3. i \in 1..Len(s) \/ i = Len(s) + 1
        BY <1>1, <2>1
    <2>4. CASE i \in 1..Len(s)
        BY <1>1, <1>3, <1>5, <2>2, <2>4
    <2>5. CASE i = Len(s) + 1
        BY <1>1, <1>3, <1>5, <2>2, <2>5 DEF r
    <2> QED
        BY <2>3, <2>4, <2>5
<1>8. a = b
    BY <1>2, <1>5, <1>6, <1>7, SeqEqual
<1> QED
    BY <1>8 DEF a, b, c, r, st

\* What a token adds to what a text says.
LEMMA SignificantOfAppend ==
    ASSUME NEW s \in Seq(Token), NEW t \in Token
    PROVE  /\ Significant(s) \in Seq(Token)
           /\ t = Plain("empty") => Significant(Append(s, t)) = Significant(s)
           /\ t # Plain("empty") => Significant(Append(s, t)) = Append(Significant(s), t)
<1> DEFINE f == FlattenSeq(Sayings(s))
<1>1. /\ Significant(s) = f
      /\ Significant(Append(s, t)) = FlattenSeq(Sayings(Append(s, t)))
    BY DEF Significant, Sayings, Says
<1>2. Sayings(s) \in Seq(Seq(Token)) /\ Says(t) \in Seq(Token)
    BY SayingsOf, OneElement DEF Says
<1>3. f \in Seq(Token) /\ FlattenSeq(Append(Sayings(s), Says(t))) = f \o Says(t)
    BY <1>2, FlattenSeqAppend
<1>4. Sayings(Append(s, t)) = Append(Sayings(s), Says(t))
    BY SayingsOfAppend
<1> HIDE DEF f
<1>5. Significant(Append(s, t)) = f \o Says(t)
    BY <1>1, <1>3, <1>4
<1>6. CASE t = Plain("empty")
    BY <1>1, <1>3, <1>5, <1>6, ConcatEmptySeq DEF Says
<1>7. CASE t # Plain("empty")
    <2>1. f \o <<t>> = Append(f, t)
        BY <1>3
    <2> QED
        BY <1>1, <1>3, <1>5, <1>7, <2>1 DEF Says
<1> QED
    BY <1>6, <1>7

LEMMA AppendTwo ==
    ASSUME NEW S, NEW a \in Seq(S), NEW x \in S, NEW y \in S
    PROVE  a \o <<x, y>> = Append(Append(a, x), y)
<1> DEFINE ax == Append(a, x)
           axy == Append(ax, y)
           p == <<x, y>>
           c == a \o p
<1>1. p \in Seq(S) /\ Len(p) = 2 /\ p[1] = x /\ p[2] = y
    BY PairIsSeq
<1> HIDE DEF p
<1>2. IsConcatenation(S, a, p, c)
    BY <1>1, Concatenation
<1>3. /\ ax \in Seq(S) /\ Len(ax) = Len(a) + 1 /\ Len(a) \in Nat
      /\ \A i \in 1..Len(a) : ax[i] = a[i]
      /\ ax[Len(a) + 1] = x
    BY AppendIs
<1> HIDE DEF ax, c
<1>4. /\ axy \in Seq(S) /\ Len(axy) = Len(ax) + 1
      /\ \A i \in 1..Len(ax) : axy[i] = ax[i]
      /\ axy[Len(ax) + 1] = y
    BY <1>3, AppendIs
<1> HIDE DEF axy
<1>5. c \in Seq(S) /\ Len(c) = Len(axy)
    BY <1>1, <1>2, <1>3, <1>4 DEF IsConcatenation
<1>6. ASSUME NEW i \in 1..Len(c)
      PROVE  c[i] = axy[i]
    <2>1. i \in 1..Len(a) \/ i = Len(a) + 1 \/ i = Len(a) + 2
        BY <1>3, <1>4, <1>5
    <2>2. CASE i \in 1..Len(a)
        <3>1. i \in 1..Len(ax)
            BY <1>3, <2>2
        <3> QED
            BY <1>2, <1>3, <1>4, <2>2, <3>1 DEF IsConcatenation
    <2>3. CASE i = Len(a) + 1
        <3>1. i \in 1..Len(ax) /\ 1 \in 1..Len(p)
            BY <1>1, <1>3, <2>3
        <3>2. c[i] = p[1]
            BY <1>2, <2>3, <3>1 DEF IsConcatenation
        <3> QED
            BY <1>1, <1>3, <1>4, <2>3, <3>1, <3>2
    <2>4. CASE i = Len(a) + 2
        <3>1. i = Len(ax) + 1 /\ 2 \in 1..Len(p)
            BY <1>1, <1>3, <2>4
        <3>2. c[i] = p[2]
            BY <1>2, <2>4, <3>1 DEF IsConcatenation
        <3> QED
            BY <1>1, <1>4, <3>1, <3>2
    <2> QED
        BY <2>1, <2>2, <2>3, <2>4
<1>7. c = axy
    BY <1>4, <1>5, <1>6, SeqEqual
<1> QED
    BY <1>7 DEF c, axy, ax, p

LEMMA PairsOfAppend ==
    ASSUME NEW ps \in Seq(UUID), NEW u \in UUID
    PROVE  Pairs(Append(ps, u)) = Append(Pairs(ps), <<Plain("btle"), UUIDToken(u, TRUE)>>)
<1> DEFINE pu == Append(ps, u)
           a == Pairs(pu)
           r == <<Plain("btle"), UUIDToken(u, TRUE)>>
           c == Pairs(ps)
           b == Append(c, r)
<1>1. /\ pu \in Seq(UUID) /\ Len(pu) = Len(ps) + 1 /\ Len(ps) \in Nat
      /\ \A i \in 1..Len(ps) : pu[i] = ps[i]
      /\ pu[Len(ps) + 1] = u
    BY AppendIs
<1> HIDE DEF pu
<1>2. /\ a \in Seq(Seq(Token)) /\ Len(a) = Len(pu)
      /\ \A i \in 1..Len(pu) : a[i] = <<Plain("btle"), UUIDToken(pu[i], TRUE)>>
    BY <1>1, PairsAreTokens
<1>3. /\ c \in Seq(Seq(Token)) /\ Len(c) = Len(ps)
      /\ \A i \in 1..Len(ps) : c[i] = <<Plain("btle"), UUIDToken(ps[i], TRUE)>>
    BY PairsAreTokens
<1>4. r \in Seq(Token)
    BY PairIsSeq, Tokens
<1> HIDE DEF a, c, r
<1>5. /\ b \in Seq(Seq(Token)) /\ Len(b) = Len(c) + 1
      /\ \A i \in 1..Len(c) : b[i] = c[i]
      /\ b[Len(c) + 1] = r
    BY <1>3, <1>4, AppendIs
<1> HIDE DEF b
<1>6. Len(a) = Len(b)
    BY <1>1, <1>2, <1>3, <1>5
<1>7. ASSUME NEW i \in 1..Len(a)
      PROVE  a[i] = b[i]
    <2>1. i \in 1..Len(pu)
        BY <1>2
    <2>2. a[i] = <<Plain("btle"), UUIDToken(pu[i], TRUE)>>
        BY <1>2, <2>1
    <2>3. i \in 1..Len(ps) \/ i = Len(ps) + 1
        BY <1>1, <2>1
    <2>4. CASE i \in 1..Len(ps)
        BY <1>1, <1>3, <1>5, <2>2, <2>4
    <2>5. CASE i = Len(ps) + 1
        BY <1>1, <1>3, <1>5, <2>2, <2>5 DEF r
    <2> QED
        BY <2>3, <2>4, <2>5
<1>8. a = b
    BY <1>2, <1>5, <1>6, <1>7, SeqEqual
<1> QED
    BY <1>8 DEF a, b, c, r, pu

\* The text of an address grows with it.
LEMMA TextGrows ==
    ASSUME NEW ps \in Seq(UUID)
    PROVE  /\ ToText(ps, {}) \in Seq(Token)
           /\ \A u \in UUID : ToText(Append(ps, u), {})
                              = Append(Append(ToText(ps, {}), Plain("btle")), UUIDToken(u, TRUE))
           /\ \A v \in Versions : ToText(ps, {v}) = Append(ToText(ps, {}), VersionToken(v, TRUE))
<1> DEFINE e == <<Plain("empty")>>
           f == FlattenSeq(Pairs(ps))
           t == e \o f
<1>1. e \in Seq(Token) /\ f \in Seq(Token) /\ Plain("btle") \in Token
    BY Tokens, PairsFlattened
<1>2. SetToSeq({VersionToken(v, TRUE) : v \in {}}) = <<>>
    <2>1. {VersionToken(v, TRUE) : v \in {}} = {}
        OBVIOUS
    <2> QED
        BY <2>1, SetToSeqOfFew
<1>3. ToText(ps, {}) = t \o <<>>
    BY <1>2 DEF ToText, Pairs
<1>4. t \in Seq(Token) /\ t \o <<>> = t
    <2> HIDE DEF e, f
    <2>1. t \in Seq(Token)
        BY <1>1
    <2> QED
        BY <2>1, ConcatEmptySeq
<1>5. ASSUME NEW u \in UUID
      PROVE  ToText(Append(ps, u), {}) = Append(Append(t, Plain("btle")), UUIDToken(u, TRUE))
    <2> DEFINE x == Plain("btle")
               y == UUIDToken(u, TRUE)
               g == FlattenSeq(Pairs(Append(ps, u)))
    <2>1. x \in Token /\ y \in Token
        BY Tokens
    <2>2. ToText(Append(ps, u), {}) = e \o g \o <<>>
        BY <1>2 DEF ToText, Pairs
    <2>3. g = f \o <<x, y>>
        <3>1. Pairs(ps) \in Seq(Seq(Token)) /\ <<x, y>> \in Seq(Token)
            BY <2>1, PairsAreTokens, PairIsSeq
        <3>2. Pairs(Append(ps, u)) = Append(Pairs(ps), <<x, y>>)
            BY PairsOfAppend
        <3> QED
            BY <3>1, <3>2, FlattenSeqAppend
    <2> HIDE DEF e, f, g, x, y
    <2>4. <<x, y>> \in Seq(Token)
        BY <2>1, PairIsSeq
    <2> DEFINE p == <<x, y>>
    <2> HIDE DEF p
    <2>5. g \in Seq(Token) /\ e \o g = t \o p
        <3>1. p \in Seq(Token) /\ g = f \o p
            BY <2>3, <2>4 DEF p
        <3>2. f \o p \in Seq(Token)
            BY <1>1, <3>1, ConcatProperties
        <3>3. (e \o f) \o p = e \o (f \o p)
            BY <1>1, <3>1, ConcatAssociative
        <3> QED
            BY <3>1, <3>2, <3>3
    <2> DEFINE eg == e \o g
    <2>6. eg \in Seq(Token)
        BY <1>1, <2>5, ConcatProperties
    <2> HIDE DEF eg
    <2>7. eg \o <<>> = eg
        BY <2>6, ConcatEmptySeq
    <2> HIDE DEF t
    <2>8. t \o <<x, y>> = Append(Append(t, x), y)
        BY <1>4, <2>1, AppendTwo
    <2> QED
        BY <2>2, <2>5, <2>7, <2>8 DEF eg, p, x, y
<1>6. ASSUME NEW v \in Versions
      PROVE  ToText(ps, {v}) = Append(t, VersionToken(v, TRUE))
    <2>1. {VersionToken(w, TRUE) : w \in {v}} = {VersionToken(v, TRUE)}
        OBVIOUS
    <2>2. SetToSeq({VersionToken(w, TRUE) : w \in {v}}) = <<VersionToken(v, TRUE)>>
        BY <2>1, SetToSeqOfFew
    <2>3. ToText(ps, {v}) = t \o <<VersionToken(v, TRUE)>>
        BY <2>2 DEF ToText, Pairs
    <2>4. VersionToken(v, TRUE) \in Token
        BY Tokens
    <2> DEFINE x == VersionToken(v, TRUE)
    <2> HIDE DEF t, x
    <2>5. t \o <<x>> = Append(t, x)
        BY <1>4
    <2> QED
        BY <2>3, <2>5 DEF x
<1> HIDE DEF t
<1> QED
    BY <1>3, <1>4, <1>5, <1>6

\* What the first n tokens of the text say.
Said(n) == Significant(Canonical(SubSeq(input, 1, n)))

LEMMA NothingIsSaid ==
    /\ Significant(<<>>) = <<>>
    /\ Canonical(<<>>) = <<>>
    /\ Significant(ToText(<<>>, {})) = <<>>
<1>1. Significant(<<>>) = <<>>
    <2>1. Significant(<<>>) = FlattenSeq(<<>>)
        BY DEF Significant
    <2> QED
        BY <2>1, FlattenSeqEmpty
<1>2. Canonical(<<>>) = <<>>
    BY DEF Canonical
<1>3. ToText(<<>>, {}) = Append(<<>>, Plain("empty"))
    <2>1. Pairs(<<>>) = <<>>
        BY DEF Pairs
    <2>2. {VersionToken(v, TRUE) : v \in {}} = {}
        OBVIOUS
    <2>3. ToText(<<>>, {}) = <<Plain("empty")>> \o <<>> \o <<>>
        <3>1. ToText(<<>>, {}) = <<Plain("empty")>> \o FlattenSeq(Pairs(<<>>))
                                 \o SetToSeq({VersionToken(v, TRUE) : v \in {}})
            BY DEF ToText, Pairs
        <3> QED
            BY <2>1, <2>2, <3>1, FlattenSeqEmpty, SetToSeqOfFew
    <2>4. <<Plain("empty")>> \in Seq(Token) /\ <<Plain("empty")>> = Append(<<>>, Plain("empty"))
        BY Tokens
    <2> DEFINE e == <<Plain("empty")>>
    <2> HIDE DEF e
    <2>5. e \o <<>> = e
        BY <2>4, ConcatEmptySeq DEF e
    <2> QED
        BY <2>3, <2>4, <2>5 DEF e
<1>4. <<>> \in Seq(Token) /\ Plain("empty") \in Token
    BY Tokens
<1>5. Significant(ToText(<<>>, {})) = Significant(<<>>)
    BY <1>3, <1>4, SignificantOfAppend
<1> QED
    BY <1>1, <1>2, <1>5

LEMMA FirstsGrow ==
    ASSUME NEW S, NEW s \in Seq(S), NEW n \in Nat, n + 1 <= Len(s)
    PROVE  /\ SubSeq(s, 1, n) \in Seq(S)
           /\ SubSeq(s, 1, n + 1) = Append(SubSeq(s, 1, n), s[n + 1])
<1> DEFINE a == SubSeq(s, 1, n)
           c == SubSeq(s, 1, n + 1)
           b == Append(a, s[n + 1])
<1>1. Len(s) \in Nat /\ n + 1 \in 1..Len(s) /\ s[n + 1] \in S
    OBVIOUS
<1>2. /\ a \in Seq(S)
      /\ Len(a) = IF 1 <= n THEN n - 1 + 1 ELSE 0
      /\ \A i \in 1..n - 1 + 1 : a[i] = s[1 + i - 1]
    <2>1. \A i \in 1..n : s[i] \in S
        BY <1>1
    <2> QED
        BY <2>1, SubSeqProperties
<1>3. /\ c \in Seq(S)
      /\ Len(c) = IF 1 <= n + 1 THEN (n + 1) - 1 + 1 ELSE 0
      /\ \A i \in 1..(n + 1) - 1 + 1 : c[i] = s[1 + i - 1]
    <2>1. \A i \in 1..n + 1 : s[i] \in S
        BY <1>1
    <2> QED
        BY <2>1, SubSeqProperties
<1> HIDE DEF a, c
<1>4. Len(a) = n /\ \A i \in 1..n : a[i] = s[i]
    BY <1>2
<1>5. Len(c) = n + 1 /\ \A i \in 1..n + 1 : c[i] = s[i]
    BY <1>3
<1>6. /\ b \in Seq(S) /\ Len(b) = Len(a) + 1
      /\ \A i \in 1..Len(a) : b[i] = a[i]
      /\ b[Len(a) + 1] = s[n + 1]
    BY <1>1, <1>2, AppendIs
<1> HIDE DEF b
<1>7. ASSUME NEW i \in 1..Len(c)
      PROVE  c[i] = b[i]
    <2>1. i \in 1..n \/ i = n + 1
        BY <1>5
    <2> QED
        BY <1>4, <1>5, <1>6, <2>1
<1>8. c = b
    BY <1>3, <1>4, <1>5, <1>6, <1>7, SeqEqual
<1> QED
    BY <1>2, <1>8 DEF a, b, c

\* What the next token says.
LEMMA SaidNext ==
    ASSUME input \in Seq(Token), NEW n \in Nat, n + 1 <= Len(input)
    PROVE  /\ Said(n) \in Seq(Token)
           /\ Respelled(input[n + 1]) = Plain("empty") => Said(n + 1) = Said(n)
           /\ Respelled(input[n + 1]) # Plain("empty") =>
                 Said(n + 1) = Append(Said(n), Respelled(input[n + 1]))
<1> DEFINE s == SubSeq(input, 1, n)
           x == input[n + 1]
           c == Canonical(s)
           t == Respelled(x)
<1>1. x \in Token
    <2>1. n + 1 \in 1..Len(input)
        OBVIOUS
    <2> QED
        BY <2>1
<1>2. s \in Seq(Token) /\ SubSeq(input, 1, n + 1) = Append(s, x)
    BY FirstsGrow
<1>3. Said(n) = Significant(c)
    BY DEF Said
<1>4. Said(n + 1) = Significant(Canonical(Append(s, x)))
    BY <1>2 DEF Said
<1> HIDE DEF s, x
<1>5. Canonical(Append(s, x)) = Append(c, t) /\ c \in Seq(Token) /\ t \in Token
    BY <1>1, <1>2, CanonicalOf, CanonicalOfAppend, RespelledTokens
<1> HIDE DEF c, t
<1>6. /\ Significant(c) \in Seq(Token)
      /\ t = Plain("empty") => Significant(Append(c, t)) = Significant(c)
      /\ t # Plain("empty") => Significant(Append(c, t)) = Append(Significant(c), t)
    BY <1>5, SignificantOfAppend
<1> QED
    BY <1>3, <1>4, <1>5, <1>6 DEF t, x

\* While a text is parsed, what was read says what was parsed.
Prints(ps, vs) == Significant(ToText(ps, vs))

SaidInv ==
    form = "text" =>
        /\ result = "running" => version = {} /\ Said(current) = Prints(protocols, {})
        /\ result = "address" =>
              \/ Said(Len(input)) = Prints(protocols, version)
              \/ /\ version # {}
                 /\ \E t \in Token : Said(Len(input)) = Append(Prints(protocols, version), t)

LEMMA PrintsGrow ==
    ASSUME NEW ps \in Seq(UUID)
    PROVE  /\ Prints(ps, {}) \in Seq(Token)
           /\ \A u \in UUID : Prints(Append(ps, u), {})
                              = Append(Append(Prints(ps, {}), Plain("btle")), UUIDToken(u, TRUE))
           /\ \A v \in Versions : /\ Prints(ps, {v}) = Append(Prints(ps, {}), VersionToken(v, TRUE))
                                  /\ Prints(ps, {v}) \in Seq(Token)
<1> DEFINE t == ToText(ps, {})
           p == Prints(ps, {})
<1>1. t \in Seq(Token)
    BY TextGrows
<1>2. p = Significant(t)
    BY DEF Prints
<1>3. Plain("btle") \in Token /\ Plain("btle") # Plain("empty")
    <2>1. Plain("btle").kind # Plain("empty").kind
        BY Kinds
    <2> QED
        BY <2>1, Tokens
<1> HIDE DEF t, p
<1>4. p \in Seq(Token)
    BY <1>1, <1>2, <1>3, SignificantOfAppend
<1>5. ASSUME NEW u \in UUID
      PROVE  Prints(Append(ps, u), {}) = Append(Append(p, Plain("btle")), UUIDToken(u, TRUE))
    <2> DEFINE x == Plain("btle")
               y == UUIDToken(u, TRUE)
               tx == Append(t, x)
    <2>1. Prints(Append(ps, u), {}) = Significant(Append(tx, y))
        BY TextGrows DEF Prints, t
    <2>2. y \in Token /\ y # Plain("empty")
        <3>1. y.kind # Plain("empty").kind
            BY Kinds DEF UUIDToken
        <3> QED
            BY <3>1, Tokens
    <2> HIDE DEF x, y
    <2>3. tx \in Seq(Token) /\ Significant(tx) = Append(p, x)
        BY <1>1, <1>2, <1>3, SignificantOfAppend, AppendIs DEF x
    <2> HIDE DEF tx
    <2>4. Significant(Append(tx, y)) = Append(Significant(tx), y)
        BY <2>2, <2>3, SignificantOfAppend
    <2> QED
        BY <2>1, <2>3, <2>4 DEF x, y
<1>6. ASSUME NEW v \in Versions
      PROVE  /\ Prints(ps, {v}) = Append(p, VersionToken(v, TRUE))
             /\ Prints(ps, {v}) \in Seq(Token)
    <2> DEFINE y == VersionToken(v, TRUE)
    <2>1. Prints(ps, {v}) = Significant(Append(t, y))
        BY TextGrows DEF Prints, t
    <2>2. y \in Token /\ y # Plain("empty")
        <3>1. y.kind # Plain("empty").kind
            BY Kinds DEF VersionToken
        <3> QED
            BY <3>1, Tokens
    <2> HIDE DEF y
    <2>3. Significant(Append(t, y)) = Append(p, y) /\ Append(p, y) \in Seq(Token)
        BY <1>1, <1>2, <1>4, <2>2, SignificantOfAppend, AppendIs
    <2> QED
        BY <2>1, <2>3 DEF y
<1> QED
    BY <1>4, <1>5, <1>6 DEF p

LEMMA FrontOfAppend ==
    ASSUME NEW S, NEW p \in Seq(S), NEW t \in S, NEW s, s = Append(p, t)
    PROVE  Len(s) = Len(p) + 1 /\ Front(s) = p
<1>1. /\ s \in Seq(S) /\ Len(s) = Len(p) + 1 /\ Len(p) \in Nat
      /\ \A i \in 1..Len(p) : s[i] = p[i]
    BY AppendIs
<1> DEFINE a == SubSeq(s, 1, Len(p))
<1>2. Front(s) = a
    <2>1. Len(s) - 1 = Len(p)
        BY <1>1
    <2> QED
        BY <2>1 DEF Front
<1>3. /\ a \in Seq(S)
      /\ Len(a) = IF 1 <= Len(p) THEN Len(p) - 1 + 1 ELSE 0
      /\ \A i \in 1..Len(p) - 1 + 1 : a[i] = s[1 + i - 1]
    <2>1. \A i \in 1..Len(p) : s[i] \in S
        BY <1>1
    <2> QED
        BY <1>1, <2>1, SubSeqProperties
<1> HIDE DEF a
<1>4. Len(a) = Len(p) /\ \A i \in 1..Len(p) : a[i] = s[i]
    BY <1>1, <1>3
<1>5. a = p
    BY <1>1, <1>3, <1>4, SeqEqual
<1> QED
    BY <1>1, <1>2, <1>5

LEMMA WholeInput ==
    ASSUME NEW S, NEW s \in Seq(S)
    PROVE  SubSeq(s, 1, Len(s)) = s
<1> DEFINE a == SubSeq(s, 1, Len(s))
<1>1. Len(s) \in Nat /\ \A i \in 1..Len(s) : s[i] \in S
    OBVIOUS
<1>2. /\ a \in Seq(S)
      /\ Len(a) = IF 1 <= Len(s) THEN Len(s) - 1 + 1 ELSE 0
      /\ \A i \in 1..Len(s) - 1 + 1 : a[i] = s[1 + i - 1]
    BY <1>1, SubSeqProperties
<1> HIDE DEF a
<1>3. Len(a) = Len(s) /\ \A i \in 1..Len(s) : a[i] = s[i]
    BY <1>1, <1>2
<1>4. a = s
    BY <1>2, <1>3, SeqEqual
<1> QED
    BY <1>4 DEF a

\* Nothing was read, and nothing parsed.
LEMMA SaidAtFirst ==
    ASSUME form = "text", result = "running", version = {}, current = 0, protocols = <<>>
    PROVE  SaidInv
<1>1. SubSeq(input, 1, 0) = <<>>
    OBVIOUS
<1>2. Said(0) = <<>>
    BY <1>1, NothingIsSaid DEF Said
<1>3. Prints(<<>>, {}) = <<>>
    BY NothingIsSaid DEF Prints
<1> QED
    BY <1>2, <1>3 DEF SaidInv

LEMMA SaidInvInit == Init => SaidInv
    BY SaidAtFirst DEF Init, SaidInv

LEMMA SaidInvStep == TypeInv /\ SaidInv /\ [Next]_vars => SaidInv'
<1> SUFFICES ASSUME TypeInv, SaidInv, [Next]_vars, form' = "text"
             PROVE  SaidInv'
    BY DEF SaidInv
<1>1. CASE Reparse
    <2>1. form' = "text" /\ result' = "running" /\ version' = {} /\ current' = 0
          /\ protocols' = <<>>
        BY <1>1 DEF Reparse
    <2>2. SubSeq(input', 1, 0) = <<>>
        OBVIOUS
    <2>3. Said(0)' = <<>>
        BY <2>2, NothingIsSaid DEF Said
    <2>4. Prints(<<>>, {}) = <<>>
        BY NothingIsSaid DEF Prints
    <2>5. Said(current)' = <<>>
        BY <2>1, <2>3
    <2>6. Prints(protocols', {}) = <<>>
        BY <2>1, <2>4
    <2> QED
        BY <2>1, <2>5, <2>6 DEF SaidInv
<1>2. CASE ParseEnds
    <2>1. /\ form = "text" /\ result = "running" /\ result' = "address"
          /\ current = Len(input) /\ input' = input
          /\ protocols' = protocols /\ version' = version
        BY <1>2 DEF ParseEnds, Return, tokenizerVars
    <2>2. version = {} /\ Said(Len(input)) = Prints(protocols, version)
        BY <2>1 DEF SaidInv
    <2>3. Said(Len(input))' = Said(Len(input))
        BY <2>1 DEF Said
    <2> QED
        BY <2>1, <2>2, <2>3 DEF SaidInv
<1>3. ASSUME NEW t, Reads(t)
      PROVE  /\ input \in Seq(Token) /\ Len(input) \in Nat
             /\ current \in Nat /\ current + 1 <= Len(input)
             /\ input[current + 1] = t /\ t \in Token /\ result = "running" /\ version = {}
             /\ protocols \in Seq(UUID)
             /\ Said(current) = Prints(protocols, {})
             /\ input' = input
             /\ Respelled(t) = Plain("empty") => Said(current + 1) = Said(current)
             /\ Respelled(t) # Plain("empty") =>
                   Said(current + 1) = Append(Said(current), Respelled(t))
    <2>1. /\ input \in Seq(Token) /\ Len(input) \in Nat
          /\ current \in Nat /\ current + 1 <= Len(input)
          /\ input[current + 1] = t /\ t \in Token
        BY <1>3, ReadsToken
    <2>2. result = "running" /\ version = {} /\ input' = input /\ protocols \in Seq(UUID)
          /\ Said(current) = Prints(protocols, {})
        BY <1>3 DEF Reads, SaidInv, TypeInv
    <2> QED
        BY <2>1, <2>2, SaidNext
<1>5. CASE ParseEmpty
    <2>1. Reads(Plain("empty")) /\ current' = current + 1
          /\ UNCHANGED <<protocols, version, result>>
        BY <1>5 DEF ParseEmpty
    <2>2. Said(current + 1) = Prints(protocols, {})
        BY <1>3, <2>1, RespelledTokens
    <2>3. Said(current)' = Prints(protocols', {})
        BY <2>1, <2>2, <1>3 DEF Said
    <2> QED
        BY <1>3, <2>1, <2>3 DEF SaidInv
<1>6. CASE ParseBtle
    <2> DEFINE u == input[current + 2].value
    <2>1. Reads(Plain("btle"))
        BY <1>6 DEF ParseBtle
    <2>2. CASE result' \in {"throws", "nullopt"}
        BY <2>2 DEF SaidInv
    <2>3. CASE /\ current + 1 # Len(input) /\ current' = current + 2
               /\ ParsesAsUUID(input[current + 2])
               /\ protocols' = Append(protocols, u)
               /\ UNCHANGED <<version, result>>
        <3>1. Said(current + 1) = Append(Prints(protocols, {}), Plain("btle"))
            <4>1. Plain("btle") # Plain("empty")
                <5>1. Plain("btle").kind # Plain("empty").kind
                    BY Kinds
                <5> QED
                    BY <5>1
            <4> QED
                BY <1>3, <2>1, <4>1, RespelledTokens
        <3>2. /\ (current + 1) + 1 <= Len(input) /\ current + 1 \in Nat
              /\ (current + 1) + 1 = current + 2
              /\ input \in Seq(Token) /\ input[current + 2] \in Token
            BY <2>1, <2>3, ReadsToken
        <3>3. u \in UUID /\ Respelled(input[current + 2]) = UUIDToken(u, TRUE)
            BY <2>3, <3>2, Tokens, RespelledTokens DEF ParsesAsUUID
        <3>4. Respelled(input[current + 2]) # Plain("empty")
            <4>1. UUIDToken(u, TRUE).kind # Plain("empty").kind
                BY Kinds DEF UUIDToken
            <4> QED
                BY <3>3, <4>1
        <3>5. Said(current + 2) = Append(Said(current + 1), UUIDToken(u, TRUE))
            <4>1. Respelled(input[(current + 1) + 1]) # Plain("empty") =>
                    Said((current + 1) + 1)
                    = Append(Said(current + 1), Respelled(input[(current + 1) + 1]))
                BY <3>2, SaidNext
            <4> QED
                BY <3>2, <3>3, <3>4, <4>1
        <3>6. Said(current + 2) = Prints(protocols', {})
            BY <1>3, <2>1, <2>3, <3>1, <3>3, <3>5, PrintsGrow
        <3>7. Said(current)' = Prints(protocols', {})
            BY <1>3, <2>1, <2>3, <3>6 DEF Said
        <3> QED
            BY <1>3, <2>1, <2>3, <3>7 DEF SaidInv
    <2> QED
        BY <1>6, <2>2, <2>3 DEF ParseBtle, Return
<1>7. CASE ParseVersion
    <2> PICK t \in Token :
                /\ t.kind \in {"uuid", "semver", "junk"}
                /\ Reads(t)
                /\ current' = current + 1
                /\ IF IsDone(current + 1) /\ t.kind = "semver"
                   THEN /\ version' = {t.value}
                        /\ result' = "address"
                        /\ UNCHANGED protocols
                   ELSE Return("nullopt")
        BY <1>7 DEF ParseVersion
    <2>1. CASE result' = "nullopt"
        BY <2>1 DEF SaidInv
    <2>2. CASE /\ IsDone(current + 1) /\ t.kind = "semver"
               /\ version' = {t.value} /\ result' = "address" /\ protocols' = protocols
        <3> DEFINE v == t.value
                   p == Prints(protocols, {v})
        <3>1. v \in Versions /\ Respelled(t) = VersionToken(v, TRUE)
            BY <2>2, Tokens, RespelledTokens
        <3>2. Respelled(t) # Plain("empty")
            <4>1. VersionToken(v, TRUE).kind # Plain("empty").kind
                BY Kinds DEF VersionToken
            <4> QED
                BY <3>1, <4>1
        <3>3. Said(current + 1) = Append(Prints(protocols, {}), VersionToken(v, TRUE))
            BY <1>3, <3>1, <3>2
        <3>4. Said(current + 1) = p /\ p \in Seq(Token)
            BY <1>3, <3>1, <3>3, PrintsGrow
        <3>5. current + 1 = Len(input) \/ (current + 1) + 1 = Len(input)
            BY <2>2 DEF IsDone
        <3>6. input' = input /\ version' = {v} /\ version' # {} /\ protocols' = protocols
              /\ Said(Len(input))' = Said(Len(input))
              /\ Prints(protocols, version)' = p
            BY <1>3, <2>2 DEF Said
        <3>7. CASE current + 1 = Len(input)
            <4>1. Said(Len(input))' = p
                BY <3>4, <3>6, <3>7
            <4> QED
                BY <2>2, <3>6, <4>1 DEF SaidInv
        <3>8. CASE (current + 1) + 1 = Len(input)
            <4> DEFINE n == current + 1
                       w == Respelled(input[n + 1])
            <4>1. n \in Nat /\ n + 1 <= Len(input) /\ input \in Seq(Token) /\ w \in Token
                <5>1. n \in Nat /\ n + 1 <= Len(input) /\ input \in Seq(Token)
                      /\ n + 1 \in 1..Len(input)
                    BY <1>3, <3>8
                <5>2. input[n + 1] \in Token
                    BY <5>1
                <5> QED
                    BY <5>1, <5>2, RespelledTokens
            <4>2. Said(n + 1) = Said(n) \/ Said(n + 1) = Append(Said(n), w)
                BY <4>1, SaidNext
            <4>3. n + 1 = Len(input) /\ Said(n) = p
                BY <3>4, <3>8
            <4> HIDE DEF n, w, p
            <4>4. Said(Len(input))' = p \/ Said(Len(input))' = Append(p, w)
                BY <3>6, <4>2, <4>3
            <4> QED
                BY <2>2, <3>6, <4>1, <4>4 DEF SaidInv
        <3> QED
            BY <3>5, <3>7, <3>8
    <2> QED
        BY <2>1, <2>2 DEF Return
<1>8. CASE UNCHANGED vars
    BY <1>8 DEF vars, tokenizerVars, SaidInv, Said
<1>9. CASE ParseRawEnds \/ ParseRawProtocol \/ UseTokenizer
    BY <1>9 DEF ParseRawEnds, ParseRawProtocol, UseTokenizer
<1> QED
    BY <1>1, <1>2, <1>5, <1>6, <1>7, <1>8, <1>9 DEF Next

\* NothingInvented, for texts of any length: an accepted text says what the
\* address says, and nothing but a token after a version is dropped
\* (Multiaddr::parse, MultiaddrStringTokenizer::is_done, Multiaddr::to_string).
THEOREM TextSaysTheAddress == Spec => []NothingInvented
<1>1. TypeInv /\ SaidInv => NothingInvented
    <2> SUFFICES ASSUME TypeInv, SaidInv, form = "text", result = "address"
                 PROVE  LET said == Significant(Canonical(input))
                            prints == Significant(ToText(protocols, version))
                        IN  \/ said = prints
                            \/ version # {} /\ Len(said) = Len(prints) + 1 /\ Front(said) = prints
        BY DEF NothingInvented
    <2> DEFINE said == Significant(Canonical(input))
               prints == Significant(ToText(protocols, version))
    <2>1. Said(Len(input)) = said /\ Prints(protocols, version) = prints
        <3>1. SubSeq(input, 1, Len(input)) = input
            BY WholeInput DEF TypeInv, InputOK
        <3> QED
            BY <3>1 DEF Said, Prints
    <2>2. prints \in Seq(Token)
        <3>1. protocols \in Seq(UUID) /\ IsVersion(version)
            BY DEF TypeInv
        <3>2. CASE version = {}
            BY <2>1, <3>1, <3>2, PrintsGrow
        <3>3. CASE version # {}
            BY <2>1, <3>1, <3>3, PrintsGrow DEF IsVersion
        <3> QED
            BY <3>2, <3>3
    <2> HIDE DEF said, prints
    <2>3. \/ said = prints
          \/ version # {} /\ \E t \in Token : said = Append(prints, t)
        BY <2>1 DEF SaidInv
    <2>4. ASSUME NEW t \in Token, said = Append(prints, t)
          PROVE  Len(said) = Len(prints) + 1 /\ Front(said) = prints
        BY <2>2, <2>4, FrontOfAppend
    <2> QED
        BY <2>3, <2>4 DEF said, prints
<1>2. Init => TypeInv /\ SaidInv
    BY TypeInvInit, SaidInvInit
<1>3. TypeInv /\ SaidInv /\ [Next]_vars => (TypeInv /\ SaidInv)'
    BY TypeInvStep, SaidInvStep
<1> QED
    BY <1>1, <1>2, <1>3, PTL DEF Spec
=============================================================================
