-------------------------- MODULE MCDownloadLinks --------------------------
(***************************************************************************)
(* A data node with few links and two requests at a time for TLC.          *)
(***************************************************************************)
EXTENDS DownloadLinks

CONSTANTS i1, i2, i3
============================================================================
