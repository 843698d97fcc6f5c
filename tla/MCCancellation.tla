--------------------------- MODULE MCCancellation ---------------------------
(* Small instances of Cancellation for TLC: connections are interchangeable. *)
EXTENDS Cancellation, TLC

Symmetry == Permutations(Connection)
=============================================================================
