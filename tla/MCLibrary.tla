----------------------------- MODULE MCLibrary ------------------------------
(***************************************************************************)
(* For TLC: the parts of Library and Multiaddr, each in programs of its    *)
(* own, so that one run checks them all without multiplying their states.  *)
(***************************************************************************)
EXTENDS Library, Multiaddr

\* The parsers and their tokenizer are in no use.
Unused == words = <<>> /\ input = <<>> /\ form = "calls"

MCInit ==
    \/ LibraryInit /\ Init /\ Unused
    \/ uses = "addresses" /\ FilterInit /\ ChainInit /\ KeysInit /\ Init

MCNext ==
    \/ LibraryNext /\ UNCHANGED vars
    \/ uses = "addresses" /\ Next /\ UNCHANGED libraryVars

MCSpec == MCInit /\ [][MCNext]_<<libraryVars, vars>>
=============================================================================
