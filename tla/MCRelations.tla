----------------------------- MODULE MCRelations ----------------------------
(***************************************************************************)
(* Small instances of Relations for TLC.                                   *)
(***************************************************************************)
EXTENDS Relations, TLC

CONSTANTS s1, s2, s3, v1, v2, v3

Ids3 == {s1, s2, s3}
MCSameText == {<<v1, v2>>}
Symm3 == Permutations(Ids3)
=============================================================================
