---------------------------- MODULE MCHashStore ----------------------------
(***************************************************************************)
(* Contents of two sizes for TLC.                                          *)
(***************************************************************************)
EXTENDS HashStore, TLC

CONSTANTS h1, h2

Sizes == (h1 :> 1) @@ (h2 :> 2)

Symmetry == Permutations(FileId) \cup Permutations(Reader) \cup Permutations(Uploader)
============================================================================
