------------------------------ MODULE MCEscrow ------------------------------
(* Instances of Escrow for TLC. *)
EXTENDS Escrow

CONSTANTS b1, b2, c1
=============================================================================
