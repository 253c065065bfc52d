---------------------------- MODULE MCImageLoads ----------------------------
(***************************************************************************)
(* Small instances of ImageLoads for TLC.                                  *)
(***************************************************************************)
EXTENDS ImageLoads
=============================================================================
