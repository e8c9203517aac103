---------------------------- MODULE MCSlotIngest ----------------------------
(* Instances of SlotIngest for TLC. *)
EXTENDS SlotIngest

\* `-1` cannot be written in a cfg.
MCFromCursor == NoStartHeight
=============================================================================
