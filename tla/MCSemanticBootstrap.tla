----------------------- MODULE MCSemanticBootstrap -----------------------
(* A small instance of SemanticBootstrap for TLC. *)
EXTENDS SemanticBootstrap
=============================================================================
