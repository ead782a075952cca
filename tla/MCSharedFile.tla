---------------------------- MODULE MCSharedFile ----------------------------
(***************************************************************************)
(* Small instances of SharedFile for TLC.                                  *)
(***************************************************************************)
EXTENDS SharedFile, TLC

CONSTANTS s1, s2, s3, v1, v2, v3, u1, as, h, a

Ids == {s1, s2, s3}
MCRules == {[satisfies |-> {v1}, approver |-> h]}
Symm == Permutations(Ids)
=============================================================================
