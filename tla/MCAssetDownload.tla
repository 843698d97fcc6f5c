-------------------------- MODULE MCAssetDownload --------------------------
(* A small instance of AssetDownload for TLC. *)
EXTENDS AssetDownload
=============================================================================
