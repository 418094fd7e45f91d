------------------------------ MODULE KDFChain ------------------------------
(***************************************************************************)
(* KDFChain (crypto/kdf_chain.cpp): two ends derive message keys from a    *)
(* seed each, at their own pace.  HMAC is symbolic: its two halves tell    *)
(* what it was keyed with, which is the chain key as HMAC takes it: filled *)
(* up with zeros to a block of 128 bytes, or by its hash if it is longer.  *)
(*                                                                         *)
(* A chain key, which has at least a byte, is told by its head, the first  *)
(* 32 bytes (a shorter one's filled up with zeros), by the tail that a     *)
(* longer seed leaves behind them, up to its last byte that is not zero,   *)
(* and by the number of zeros at its end.  The piece of a half that a      *)
(* short chain key has room for is not told apart from the half.           *)
(***************************************************************************)
EXTENDS Naturals, Sequences

CONSTANTS
    Chains,     \* the KDFChain objects
    Heads,      \* the first 32 bytes of a seed
    Tails,      \* the bytes of a longer seed beyond them
    MaxZeros,   \* BOUND: zeros at the end of a seed
    MaxKeys     \* BOUND: calls of next_key

ASSUME MaxZerosAssumption == MaxZeros \in Nat
ASSUME MaxKeysAssumption == MaxKeys \in Nat

Head32(b) == [half |-> "seed", of |-> b]

\* Seeds shorter than 32 bytes, of up to a block of HMAC, and of over a block.
Seed ==
    {s \in [size : {"short", "block", "over"},
            head : {Head32(b) : b \in Heads},
            tail : {{}} \cup {{t} : t \in Tails},
            zeros : 0..MaxZeros] :
        /\ s.size = "short" => s.tail = {}
        /\ s.size = "over" => s.tail # {} \/ s.zeros > 0}

VARIABLES
    root,       \* root_key_, {} before the object exists
    chain,      \* chain_key_
    keys,       \* what next_key has returned; its length is n_
    overran     \* the process died in the copy into a short chain key

chainVars == <<root, chain, keys, overran>>

ChainTypeOK ==
    /\ \A e \in Chains :
          /\ root[e] = {} \/ \E s \in Seed : root[e] = {s}
          /\ chain[e] # {} => root[e] # {}
          /\ Len(keys[e]) \in 0..MaxKeys
    /\ overran \in BOOLEAN

ChainInit ==
    /\ root = [e \in Chains |-> {}]
    /\ chain = [e \in Chains |-> {}]
    /\ keys = [e \in Chains |-> <<>>]
    /\ overran = FALSE

\* The constructor copies the seed twice.
StartChain(e, s) ==
    /\ ~overran
    /\ root[e] = {}
    /\ root' = [root EXCEPT ![e] = {s}]
    /\ chain' = [chain EXCEPT ![e] = {s}]
    /\ UNCHANGED <<keys, overran>>

\* MUTANT: the salt is the first 32 bytes of the chain key.
SaltHead(c) == [c EXCEPT !.size = "block", !.tail = {}, !.zeros = 0]

\* The whole chain key is the salt of kdf_hmac, that is the key of the HMAC, which
\* does not tell zeros at the end of one that fits in a block.
Salt(c) ==
    IF c.size = "over" THEN c ELSE [c EXCEPT !.size = "block", !.zeros = 0]

Half(h, c) == [half |-> h, of |-> Salt(c)]

\* MUTANT: the second half is copied from the beginning, too.
MessageKeyFirst(c) == Half("first", c)

MessageKey(c) == Half("second", c)

\* next_key replaces the head.  Where there is no room for it, it writes past
\* the end of the vector: unnoticed, or the process dies.
NextKey(e) ==
    /\ ~overran
    /\ Len(keys[e]) < MaxKeys
    /\ \E c \in chain[e] :
          /\ chain' = [chain EXCEPT ![e] = {[c EXCEPT !.head = Half("first", c)]}]
          /\ keys' = [keys EXCEPT ![e] = Append(@, MessageKey(c))]
    /\ UNCHANGED <<root, overran>>

Overrun(e) ==
    /\ ~overran
    /\ \E c \in chain[e] : c.size = "short"
    /\ overran' = TRUE
    /\ UNCHANGED <<root, chain, keys>>

ChainNext ==
    \E e \in Chains :
        \/ \E s \in Seed : StartChain(e, s)
        \/ NextKey(e)
        \/ Overrun(e)

ChainSpec == ChainInit /\ [][ChainNext]_chainVars

-----------------------------------------------------------------------------
(***************************************************************************)
(* Properties                                                              *)
(***************************************************************************)

Roomy(e) == \E s \in root[e] : s.size # "short"

\* Seeds that are the same, but for zeros at the end if they fit in a block.
Alike(s, t) ==
    \/ s = t
    \/ "over" \notin {s.size, t.size} /\ s.head = t.head /\ s.tail = t.tail

\* Two ends derive the same i-th key exactly if their seeds are alike, however
\* far each has got: the tail of a long seed, which next_key never replaces,
\* still counts, but zeros at the end do not.
ChainsAgree ==
    \A d, e \in {x \in Chains : Roomy(x)} :
        \A i \in 1..Len(keys[d]) \cap 1..Len(keys[e]) :
            keys[d][i] = keys[e][i] <=> \A s \in root[d], t \in root[e] : Alike(s, t)

\* No message key is handed out twice by a chain, nor is it what any chain will
\* derive its next keys from, its own or one of the same seed that is behind.
KeysFresh ==
    \A d, e \in {x \in Chains : Roomy(x)} :
        \A i \in 1..Len(keys[d]) :
            /\ \A c \in chain[e] : keys[d][i] # c.head
            /\ \A j \in 1..Len(keys[e]) : keys[d][i] = keys[e][j] => i = j
=============================================================================
