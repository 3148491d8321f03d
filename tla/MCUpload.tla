------------------------------ MODULE MCUpload ------------------------------
(***************************************************************************)
(* Instances of Upload for TLC.                                            *)
(***************************************************************************)
EXTENDS Upload, TLC

CONSTANTS s1, s2, s3, i1, i2, i3

\* Sound where every session has the same way of opening the file.
Symmetry == Permutations(Session) \cup Permutations(Inode)
=============================================================================
