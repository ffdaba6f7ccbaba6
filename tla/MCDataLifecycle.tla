--------------------------- MODULE MCDataLifecycle ---------------------------
(* Instances of DataLifecycle for TLC. *)
EXTENDS DataLifecycle

=============================================================================
