------------------------------- MODULE MCNode -------------------------------
(***************************************************************************)
(* Contacts as the code makes them: never synced, with a zero key.         *)
(***************************************************************************)
EXTENDS Node

CONSTANTS zero

NeverSynced == [c \in Connections |-> 0]
ZeroKey == [c \in Connections |-> zero]
=============================================================================
