---------------------------- MODULE MCStateFiles ----------------------------
(***************************************************************************)
(* Instance of StateFiles.  The jobs and the files are interchangeable.    *)
(***************************************************************************)
EXTENDS StateFiles, TLC

Symmetry == Permutations(Jobs) \cup Permutations(Inode)
=============================================================================
