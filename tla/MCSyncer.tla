------------------------------ MODULE MCSyncer ------------------------------
(***************************************************************************)
(* A contact that was synced after the oldest timestamp.                   *)
(***************************************************************************)
EXTENDS Syncer, TLC

CONSTANTS c2, k1, k2

OneLastSync == (c2 :> 2)
OnePubkey == (c2 :> k2)
=============================================================================
