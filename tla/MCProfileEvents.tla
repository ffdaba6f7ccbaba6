--------------------------- MODULE MCProfileEvents ---------------------------
(* Instances of ProfileEvents for TLC. *)
EXTENDS ProfileEvents

=============================================================================
