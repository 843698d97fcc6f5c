---------------------------- MODULE MCUiSession ----------------------------
(* Small instances of UiSession for TLC: rows are interchangeable.         *)
EXTENDS UiSession

Symmetry == Permutations(Row)
=============================================================================
