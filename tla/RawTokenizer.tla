---------------------------- MODULE RawTokenizer ----------------------------
(***************************************************************************)
(* MultiaddrRawTokenizer (utils/multiaddr.h): bytes and a position, and    *)
(* calls that read from there on.  An answer is a set, empty for nullopt.  *)
(***************************************************************************)
EXTENDS Varint

CONSTANTS
    WordSizes,  \* sizeof(T) of the types that are read: 4 and 8
    Max32,      \* UINT32_MAX
    MaxCalls    \* BOUND: calls of a tokenizer

ASSUME TokenizerAssumption ==
    WordSizes \subseteq Nat \ {0} /\ Max32 \in Nat /\ MaxCalls \in Nat

VARIABLES
    input,      \* bytes_
    current,    \* current_
    words,      \* GHOST: the values that the input is the encoding of
    got         \* GHOST: the calls made on a tokenizer and their answers

tokenizerVars == <<input, current, words, got>>

-----------------------------------------------------------------------------

Rest == SubSeq(input, current + 1, Len(input))

\* What read_uleb128 may return.
ReadUleb128 == IF Ends(Rest) = {} THEN {} ELSE DecodeVaruint(Rest)

\* The condition of read<T>, which asks for a byte more than it reads.
Fits(size) == current + size < Len(input)

Take(call, size) ==
    /\ current' = current + size
    /\ got' = Append(got, [call |-> call, answer |-> {SubSeq(Rest, 1, size)}])

Refuse(call) ==
    /\ got' = Append(got, [call |-> call, answer |-> {}])
    /\ UNCHANGED current

CallRead(size) ==
    IF Fits(size) THEN Take(<<"read", size>>, size) ELSE Refuse(<<"read", size>>)

CallReadBytes(count) ==
    IF current + count <= Len(input)
    THEN Take(<<"bytes", count>>, count)
    ELSE Refuse(<<"bytes", count>>)

CallReadUleb128 ==
    IF ReadUleb128 = {}
    THEN Refuse(<<"uleb128">>)
    ELSE \E value \in ReadUleb128 :
            /\ current' = current + VarintLen(Rest)
            /\ got' = Append(got, [call |-> <<"uleb128">>, answer |-> {value}])

\* MUTANT: varuint32 stays where it is when it refuses.
AfterVaruint32(value) == IF value < Max32 THEN current + VarintLen(Rest) ELSE current

\* varuint32 has read its varint when it finds that it is too large.
AfterVarint(value) == current + VarintLen(Rest)

CallVaruint32 ==
    IF ReadUleb128 = {}
    THEN Refuse(<<"varuint32">>)
    ELSE \E value \in ReadUleb128 :
            /\ current' = AfterVarint(value)
            /\ got' = Append(got, [call |-> <<"varuint32">>,
                                   answer |-> {v \in {value} : v < Max32}])

Call ==
    /\ Len(got) < MaxCalls
    /\ \/ \E size \in WordSizes : CallRead(size) \/ CallReadBytes(size)
       \/ CallReadUleb128
       \/ CallVaruint32
    /\ UNCHANGED <<input, words>>

-----------------------------------------------------------------------------
(***************************************************************************)
(* Properties                                                              *)
(***************************************************************************)

\* Where varints were written one after the other, and nothing but varints is
\* read, the i-th call reads the i-th value, and a value too large for
\* varuint32 is refused without the ones after it being lost.
VarintsReadBack ==
    (\A i \in 1..Len(got) : got[i].call \in {<<"uleb128">>, <<"varuint32">>}) =>
        \A i \in 1..Len(got) : i <= Len(words) =>
            got[i].answer = {w \in {words[i]} :
                                got[i].call = <<"varuint32">> => w < Max32}
=============================================================================
