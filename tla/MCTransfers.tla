----------------------------- MODULE MCTransfers -----------------------------
(* Instances of Transfers for TLC. *)
EXTENDS Transfers
MCNoIndex == 65535
=============================================================================
