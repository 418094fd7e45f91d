-------------------------------- MODULE Keys --------------------------------
(***************************************************************************)
(* The life of private keys (crypto/crypto.h, crypto.cpp): a private key   *)
(* is its pair, wherever its bytes are.  Public keys are copied freely and *)
(* are not state, and signing, verifying, sealing and opening change none. *)
(***************************************************************************)
EXTENDS Naturals, FiniteSets

CONSTANTS
    Pairs,      \* the key pairs that there are
    Slots,      \* places for a Privkey object
    NoObject,   \* a place without one
    Zeros,      \* an object whose bytes are all zero
    MaxMade     \* BOUND: how often one pair is made, from its seed

ASSUME SlotsAssumption == IsFiniteSet(Slots)
ASSUME ContentsAssumption == {NoObject, Zeros} \cap Pairs = {} /\ NoObject # Zeros
ASSUME MaxMadeAssumption == MaxMade \in Nat

VARIABLES
    holds,      \* bytes_ of the object in each place
    made        \* GHOST: how often each pair was made

keysVars == <<holds, made>>

KeysTypeOK ==
    /\ holds \in [Slots -> Pairs \cup {NoObject, Zeros}]
    /\ made \in [Pairs -> 0..MaxMade]

KeysInit ==
    /\ holds = [s \in Slots |-> NoObject]
    /\ made = [p \in Pairs |-> 0]

\* An object comes to be in an empty place.
Appears(s, bytes) ==
    /\ holds[s] = NoObject
    /\ holds' = [holds EXCEPT ![s] = bytes]

\* Keypair::generate and generate_from: the Privkey is initialised from a
\* prvalue, without a move, and its constructor wipes the array it came in.
Generate(s, p) ==
    /\ made[p] < MaxMade
    /\ Appears(s, p)
    /\ made' = [made EXCEPT ![p] = @ + 1]

\* The move constructor copies its own bytes, which are zero, onto themselves.
MovedBytes(s) == Zeros

\* MUTANT: the move constructor copies and leaves the other as it was.
MoveAsCopy(s, t) ==
    /\ s # t
    /\ holds[s] # NoObject
    /\ Appears(t, holds[s])
    /\ UNCHANGED made

\* Privkey(Privkey &&): what is moved from is wiped.
Move(s, t) ==
    /\ s # t
    /\ holds[s] # NoObject
    /\ holds[t] = NoObject
    /\ holds' = [holds EXCEPT ![t] = MovedBytes(s), ![s] = Zeros]
    /\ UNCHANGED made

\* Privkey::from_base64 of a text of the right length: the Privkey is moved into
\* the optional.  Of any other text nothing comes.
FromBase64(s) ==
    /\ Appears(s, Zeros)
    /\ UNCHANGED made

\* The destructor wipes the bytes.
Destroy(s) ==
    /\ holds[s] # NoObject
    /\ holds' = [holds EXCEPT ![s] = NoObject]
    /\ UNCHANGED made

KeysNext ==
    \E s \in Slots :
        \/ Destroy(s)
        \/ FromBase64(s)
        \/ \E t \in Slots : Move(s, t)
        \/ \E p \in Pairs : Generate(s, p)

KeysSpec == KeysInit /\ [][KeysNext]_keysVars

-----------------------------------------------------------------------------
(***************************************************************************)
(* Properties                                                              *)
(***************************************************************************)

\* However private keys are moved, parsed and destroyed, one that was made n
\* times is in at most n objects: no operation multiplies it.
OneHolder ==
    \A p \in Pairs : Cardinality({s \in Slots : holds[s] = p}) <= made[p]
=============================================================================
