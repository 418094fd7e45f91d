------------------------------- MODULE Varint -------------------------------
(***************************************************************************)
(* encode_varuint and decode_varuint (utils/varint.h): groups of bits, the *)
(* lowest first, each in a byte whose highest bit says that more follow.   *)
(***************************************************************************)
EXTENDS Naturals, Sequences, SequencesExt

CONSTANTS
    Base,   \* 2^7: a byte is a group below it, and its highest bit
    Limit,  \* 2^64, of uint64_t
    Groups  \* 10: the groups whose shift is less than the width of the type

\* Base ^ n
Power[n \in Nat] == IF n = 0 THEN 1 ELSE Base * Power[n - 1]

ASSUME VarintAssumption ==
    /\ Base \in Nat \ {0, 1} /\ Groups \in Nat \ {0} /\ Limit \in Nat
    /\ Power[Groups - 1] < Limit /\ Limit <= Power[Groups]

Uint == 0..Limit - 1

Byte == 0..2 * Base - 1

EncodeVaruint(val) ==
    LET encode[v \in Uint] ==
            IF v >= Base THEN <<(v % Base) + Base>> \o encode[v \div Base]
                         ELSE <<v>>
    IN  encode[val]

\* The bytes with which a varint in s may end.
Ends(s) == {i \in 1..Len(s) : s[i] < Base}

\* How many bytes decode_varuint reads of s, which has an end.
VarintLen(s) == CHOOSE i \in Ends(s) : \A j \in Ends(s) : i <= j

\* What decode_varuint may make of them: bits beyond the width are lost, and a
\* shift by more than the width is undefined.
DecodeVaruint(s) ==
    IF VarintLen(s) > Groups
    THEN Uint
    ELSE {FoldRight(LAMBDA b, acc : acc * Base + (b % Base),
                    SubSeq(s, 1, VarintLen(s)), 0) % Limit}
=============================================================================
