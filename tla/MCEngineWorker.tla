--------------------------- MODULE MCEngineWorker ---------------------------
(* Small instances of EngineWorker for TLC: connections are interchangeable. *)
EXTENDS EngineWorker, TLC

Symmetry == Permutations(Connection)
=============================================================================
