------------------------- MODULE MCThroughputEvents -------------------------
(* Instances of ThroughputEvents for TLC. *)
EXTENDS ThroughputEvents, TLC

\* The clients are interchangeable, and no liveness is checked.
Symmetry == Permutations(Clients)

=============================================================================
