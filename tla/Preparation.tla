---------------------------- MODULE Preparation ----------------------------
(***************************************************************************)
(* What the preparation of the semantic runtime promises to the            *)
(* coordinator (prepare_semantic_runtime of crates/ui/src/                 *)
(* semantic_bootstrap.rs): once started it ends, ready or failed, unless   *)
(* the process ends first. AssetDownload implements it.                    *)
(***************************************************************************)

VARIABLE phase

Phase == {"idle", "working", "ready", "failed"}

PreparationInit == phase = "idle"

\* A preference that the custom library does not support fails at once.
StartPreparation == phase # "working" /\ phase' \in {"working", "failed"}
EndPreparation == phase = "working" /\ phase' \in {"ready", "failed"}
KillPreparation == phase' = "idle"

PreparationSpec ==
    /\ PreparationInit
    /\ [][StartPreparation \/ EndPreparation \/ KillPreparation]_phase
    /\ WF_phase(EndPreparation)
=============================================================================
