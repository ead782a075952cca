--------------------------- MODULE MCAdjudication ---------------------------
(***************************************************************************)
(* Small instances of Adjudication for TLC.                                *)
(***************************************************************************)
EXTENDS SlotContract, TLC

CONSTANTS s1, s2, s3, v1, v2, v3, u1, u0, as, h, a

Ids3 == {s1, s2, s3}

\* Two rules: one approved by a human, one whose approver is an agent.
MCRules == {[satisfies |-> {v1}, approver |-> h], [satisfies |-> {v2, v3}, approver |-> a]}

\* Statement identities are interchangeable.
Symm3 == Permutations(Ids3)
=============================================================================
