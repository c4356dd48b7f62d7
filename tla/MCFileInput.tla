---------------------------- MODULE MCFileInput ----------------------------
(***************************************************************************)
(* FileInput for TLC.                                                      *)
(***************************************************************************)
EXTENDS FileInput, TLC

Symmetry == Permutations(Paths) \cup Permutations(Inodes)

=============================================================================
