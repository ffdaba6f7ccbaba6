--------------------------- MODULE MCDataCallList ---------------------------
(* Instances of DataCallList for TLC. *)
EXTENDS DataCallList

=============================================================================
