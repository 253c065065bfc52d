--------------------------- MODULE MCDownloadView ---------------------------
(***************************************************************************)
(* Small instances of DownloadView for TLC.                                *)
(***************************************************************************)
EXTENDS DownloadView
=============================================================================
