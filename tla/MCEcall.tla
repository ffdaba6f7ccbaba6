------------------------------- MODULE MCEcall -------------------------------
(* Instances of the eCall PA for TLC. *)
EXTENDS EcallLifecycle
=============================================================================
