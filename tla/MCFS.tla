------------------------------- MODULE MCFS -------------------------------
(***************************************************************************)
(* Small namespaces for TLC.                                               *)
(***************************************************************************)
EXTENDS FS, TLC

CONSTANTS
    a, b,   \* paths in canonical spelling; they also name their places
    aa      \* another spelling of a

WalksTo == [p \in Path |-> IF p = aa THEN a ELSE p]

Symmetry == Permutations(FileId)

\* What is left in a File that nothing points to is never read again: NewFile
\* writes all of it.  States that differ in nothing else are one state to TLC.
Reachable ==
    <<entry, ChecksumDB, [f \in FileId |-> IF Unused(f) THEN None ELSE file[f]],
      add, del, history>>
===========================================================================
