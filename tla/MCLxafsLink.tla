---------------------------- MODULE MCLxafsLink ----------------------------
(* Instances of LxafsLink for TLC.                                         *)
EXTENDS LxafsLink, TLC

Symmetry == Permutations(Name)

\* The properties say nothing of what follows an orphaned inode.
Explored == ~orphaned
=============================================================================
