------------------------------ MODULE MCRequests ------------------------------
(* Instances of the requests for TLC: a call of any of the functions, next to *)
(* one that waits with a timeout and keeps its manager, or keeps nothing.     *)
EXTENDS RequestShapes

CONSTANT Other     \* the call next to it

MCInit == Init /\ shape[Other] \in {taf_pa_ecall_UpdateMsd, taf_pa_location_requestXtraStatus}
MCSpec == MCInit /\ [][Next]_vars /\ Fairness

=============================================================================
