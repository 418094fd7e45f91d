----------------------------- MODULE Multiaddr ------------------------------
(***************************************************************************)
(* Multiaddr::parse, Multiaddr::parse_raw and Multiaddr::to_string         *)
(* (utils/multiaddr.cpp), with the tokenizers of utils/multiaddr.h.        *)
(*                                                                         *)
(* A text address is what StrSplit makes of it: tokens between slashes.  A *)
(* token is a record of its kind, of the value it stands for and of        *)
(* whether it is spelled the way to_string spells that value: UUID::parse  *)
(* drops everything but letters and digits, and SimpleAtoi takes leading   *)
(* zeros, so that a value has many spellings.  A raw address is bytes.     *)
(* Both loops are state machines with one step per iteration.  An address  *)
(* that was parsed is printed and the result parsed again.  The tokenizer  *)
(* of the raw form is also used by itself, in calls of any kind.           *)
(***************************************************************************)
EXTENDS Integers, RawTokenizer

CONSTANTS
    Bytes,      \* the bytes a raw address is made of
    Btle,       \* the code of "btle" among the raw protocol parsers, 150
    Versions,   \* semantic versions
    kSize,      \* UUID::kSize, 16 in the code
    MaxTokens,  \* BOUND: tokens of a text address
    MaxBytes,   \* BOUND: bytes of a raw address
    MaxWords    \* BOUND: varints written for a tokenizer used by itself

ASSUME BytesAssumption == Bytes \subseteq Byte
ASSUME BtleAssumption == Btle \in Uint
ASSUME BoundsAssumption ==
    /\ kSize \in Nat \ {0} /\ MaxTokens \in Nat \ {0}
    /\ MaxBytes \in Nat /\ MaxWords \in Nat

UUID == [1..kSize -> Bytes]

Plain(k) == [kind |-> k, value |-> <<>>, canonical |-> TRUE]
UUIDToken(u, canonical) == [kind |-> "uuid", value |-> u, canonical |-> canonical]
VersionToken(v, canonical) == [kind |-> "semver", value |-> v, canonical |-> canonical]

Token ==
    {Plain(k) : k \in {"empty", "btle", "junk"}}
    \cup {UUIDToken(u, b) : u \in UUID, b \in BOOLEAN}
    \cup {VersionToken(v, b) : v \in Versions, b \in BOOLEAN}

VARIABLES
    form,       \* "text" or "raw": which parser runs; "calls": none does
    protocols,  \* the UUIDs of the BluetoothAddresses parsed so far
    version,    \* the version parsed, a set of at most one
    result,     \* "running", "address", "nullopt" or "throws"
    printed     \* the address that to_string printed, once it has

\* The input of a text is its tokens, and the position is among them.
vars == <<form, tokenizerVars, protocols, version, result, printed>>

NotPrinted == [protocols |-> <<>>, version |-> {}, yet |-> FALSE]

Init ==
    /\ \/ /\ form = "text" /\ words = <<>>
          /\ input \in BoundedSeq(Token, MaxTokens) \ {<<>>}
       \/ /\ form = "raw" /\ words = <<>>
          /\ input \in BoundedSeq(Bytes, MaxBytes)
       \/ /\ form = "calls" /\ words \in BoundedSeq(Uint, MaxWords)
          /\ input = FlattenSeq([i \in 1..Len(words) |-> EncodeVaruint(words[i])])
    /\ current = 0
    /\ got = <<>>
    /\ protocols = <<>>
    /\ version = {}
    /\ result = "running"
    /\ printed = NotPrinted

-----------------------------------------------------------------------------
(***************************************************************************)
(* Multiaddr::parse                                                        *)
(***************************************************************************)

Return(r) ==
    /\ result' = r
    /\ UNCHANGED <<protocols, version>>

\* The loop has come to an end: the address is what was parsed.
ParseEnds ==
    /\ form = "text"
    /\ result = "running"
    /\ current = Len(input)
    /\ Return("address")
    /\ UNCHANGED <<form, tokenizerVars, printed>>

\* tokenizer.next() returns the token t, which is not an address's own.
Reads(t) ==
    /\ form = "text"
    /\ result = "running"
    /\ current < Len(input)
    /\ t = input[current + 1]
    /\ UNCHANGED <<form, input, words, got, printed>>

ParseEmpty ==
    /\ Reads(Plain("empty"))
    /\ current' = current + 1
    /\ UNCHANGED <<protocols, version, result>>

\* MUTANT: any token that is not empty passes for a UUID.
NotEmpty(t) == t.kind # "empty"

\* UUID::parse finds 32 hexadecimal digits.
ParsesAsUUID(t) == t.kind = "uuid"

\* BluetoothAddress::parse_to_protocol takes the next token, too; value() of
\* what next() returns at the end throws.
ParseBtle ==
    /\ Reads(Plain("btle"))
    /\ current' = IF current + 1 = Len(input) THEN current + 1 ELSE current + 2
    /\ IF current + 1 = Len(input)
       THEN Return("throws")
       ELSE IF ~ParsesAsUUID(input[current + 2])
       THEN Return("nullopt")
       ELSE /\ protocols' = Append(protocols, input[current + 2].value)
            /\ UNCHANGED <<version, result>>

\* MultiaddrStringTokenizer::is_done, after the tokenizer has passed "passed"
\* tokens: none is left, or one.
IsDone(passed) == passed = Len(input) \/ passed + 1 = Len(input)

\* MUTANT: a version does not end the loop.
ParseVersionAnywhere ==
    \E t \in Token :
        /\ t.kind \in {"uuid", "semver", "junk"}
        /\ Reads(t)
        /\ current' = current + 1
        /\ IF t.kind = "semver"
           THEN /\ version' = {t.value}
                /\ UNCHANGED <<protocols, result>>
           ELSE Return("nullopt")

\* A token that names no protocol can only be a version, at the end.
ParseVersion ==
    \E t \in Token :
        /\ t.kind \in {"uuid", "semver", "junk"}
        /\ Reads(t)
        /\ current' = current + 1
        /\ IF IsDone(current + 1) /\ t.kind = "semver"
           THEN /\ version' = {t.value}
                /\ result' = "address"
                /\ UNCHANGED protocols
           ELSE Return("nullopt")

-----------------------------------------------------------------------------
(***************************************************************************)
(* Multiaddr::parse_raw                                                    *)
(***************************************************************************)

\* read_uleb128 returns nothing at the end, nor where a varint has no end:
\* either way the loop ends, and the address is what was parsed.
ParseRawEnds ==
    /\ form = "raw"
    /\ result = "running"
    /\ ReadUleb128 = {}
    /\ Return("address")
    /\ UNCHANGED <<form, tokenizerVars, printed>>

\* MUTANT: a protocol's code is taken for one byte.
AfterOneByte == current + 1

\* Where BluetoothAddress::parse_raw_to_protocol reads its bytes.
AddressFrom == current + VarintLen(Rest)

ParseRawProtocol ==
    /\ form = "raw"
    /\ result = "running"
    /\ \E code \in ReadUleb128 :
          IF code = Btle /\ AddressFrom + kSize <= Len(input)
          THEN /\ current' = AddressFrom + kSize
               /\ protocols' = Append(protocols,
                                      SubSeq(input, AddressFrom + 1, AddressFrom + kSize))
               /\ UNCHANGED <<version, result>>
          ELSE /\ current' = AddressFrom
               /\ Return("nullopt")
    /\ UNCHANGED <<form, input, words, got, printed>>

-----------------------------------------------------------------------------
(***************************************************************************)
(* Multiaddr::to_string                                                    *)
(***************************************************************************)

\* MUTANT: the version is printed before the protocols.
VersionFirst(ps, vs) ==
    <<Plain("empty")>>
    \o SetToSeq({VersionToken(v, TRUE) : v \in vs})
    \o FlattenSeq([i \in 1..Len(ps) |-> <<Plain("btle"), UUIDToken(ps[i], TRUE)>>])

\* The tokens of what to_string returns, which begins with a slash.
ToText(ps, vs) ==
    <<Plain("empty")>>
    \o FlattenSeq([i \in 1..Len(ps) |-> <<Plain("btle"), UUIDToken(ps[i], TRUE)>>])
    \o SetToSeq({VersionToken(v, TRUE) : v \in vs})

\* The address is printed and what was printed is parsed.
Reparse ==
    /\ result = "address"
    /\ ~printed.yet
    /\ printed' = [protocols |-> protocols, version |-> version, yet |-> TRUE]
    /\ form' = "text"
    /\ input' = ToText(protocols, version)
    /\ current' = 0
    /\ protocols' = <<>>
    /\ version' = {}
    /\ result' = "running"
    /\ UNCHANGED <<words, got>>

\* The tokenizer is used by itself.
UseTokenizer ==
    /\ form = "calls"
    /\ Call
    /\ UNCHANGED <<form, protocols, version, result, printed>>

Next ==
    \/ ParseEnds
    \/ ParseEmpty
    \/ ParseBtle
    \/ ParseVersion
    \/ ParseRawEnds
    \/ ParseRawProtocol
    \/ Reparse
    \/ UseTokenizer

Spec == Init /\ [][Next]_vars

-----------------------------------------------------------------------------
(***************************************************************************)
(* Properties                                                              *)
(***************************************************************************)

MultiaddrTypeOK ==
    /\ form \in {"text", "raw", "calls"}
    /\ current \in 0..Len(input)
    /\ \A i \in 1..Len(protocols) : protocols[i] \in UUID
    /\ version \subseteq Versions
    /\ result \in {"running", "address", "nullopt", "throws"}

Canonical(s) == [i \in 1..Len(s) |-> [s[i] EXCEPT !.canonical = TRUE]]

Significant(s) ==
    FlattenSeq([i \in 1..Len(s) |-> IF s[i] = Plain("empty") THEN <<>> ELSE <<s[i]>>])

\* A text that is accepted says what the address says: in order and leaving out
\* empty tokens it is what to_string would print, but for one token that may
\* follow a version and is dropped.
NothingInvented ==
    form = "text" /\ result = "address" =>
        LET said == Significant(Canonical(input))
            prints == Significant(ToText(protocols, version))
        IN  \/ said = prints
            \/ version # {} /\ Len(said) = Len(prints) + 1 /\ Front(said) = prints

\* An address survives being printed and parsed again, from whichever form and
\* spelling it was parsed first.
RoundTrip ==
    printed.yet /\ result # "running" =>
        /\ result = "address"
        /\ protocols = printed.protocols
        /\ version = printed.version

\* What lies between two positions of the input is a varint that says "btle",
\* whole and nothing else, and then the bytes of the UUID.
IsProtocol(from, to, uuid) ==
    LET code == SubSeq(input, from + 1, to - kSize)
    IN  /\ Ends(code) = {Len(code)}
        /\ Btle \in DecodeVaruint(code)
        /\ SubSeq(input, to - kSize + 1, to) = uuid

\* What parse_raw read when it accepts is the codes and the bytes of the
\* protocols that it returns, one after the other and nothing else, and what it
\* left unread is no more than the beginning of a varint.
RawIsRead ==
    form = "raw" /\ result = "address" =>
        /\ \E at \in [0..Len(protocols) -> 0..Len(input)] :
              /\ at[0] = 0
              /\ at[Len(protocols)] = current
              /\ \A i \in 1..Len(protocols) : IsProtocol(at[i - 1], at[i], protocols[i])
        /\ \A i \in current + 1..Len(input) : input[i] >= Base

\* test_multiaddr.cpp:8, "Semver before protocol": a text with a version before
\* a protocol is not an address.  is_done is also true with a token left, so
\* that a protocol's name which is the last token is dropped.
NoProtocolAfterVersion ==
    form = "text" /\ result = "address" =>
        \A i, j \in 1..Len(input) :
            i < j /\ input[i].kind = "semver" => input[j].kind # "btle"
=============================================================================
