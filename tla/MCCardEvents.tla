----------------------------- MODULE MCCardEvents -----------------------------
(* Instances of the card requests of the SIM PA for TLC. *)
EXTENDS CardEvents
=============================================================================
