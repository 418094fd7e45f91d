------------------------------ MODULE Library -------------------------------
(***************************************************************************)
(* The parts that no other code of src/ calls yet: the Bloom filter, the   *)
(* chain of keys and the key pairs.  They share nothing, so that a program *)
(* is a program that uses one of them.                                     *)
(***************************************************************************)
EXTENDS BloomFilter, KDFChain, Keys

VARIABLE uses

libraryVars == <<uses, filterVars, chainVars, keysVars>>

LibraryTypeOK == FilterTypeOK /\ ChainTypeOK /\ KeysTypeOK

LibraryInit ==
    /\ uses \in {"filter", "chain", "keys"}
    /\ FilterInit
    /\ ChainInit
    /\ KeysInit

LibraryNext ==
    /\ UNCHANGED uses
    /\ \/ uses = "filter" /\ FilterNext /\ UNCHANGED <<chainVars, keysVars>>
       \/ uses = "chain" /\ ChainNext /\ UNCHANGED <<filterVars, keysVars>>
       \/ uses = "keys" /\ KeysNext /\ UNCHANGED <<filterVars, chainVars>>

LibrarySpec == LibraryInit /\ [][LibraryNext]_libraryVars
=============================================================================
