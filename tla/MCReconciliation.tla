-------------------------- MODULE MCReconciliation --------------------------
(***************************************************************************)
(* A claim and three others, of which two are shown. It is newer than all  *)
(* of them, one reads the same but for its case, and two are equally old.  *)
(***************************************************************************)
EXTENDS Reconciliation

CONSTANTS s, a, b, c, tool

MCOthers == {a, b, c}
MCCreatedAt == [x \in {s, a, b, c} |-> IF x = s THEN 3 ELSE IF x = b THEN 2 ELSE 1]
MCSameChannel == {a, b}
MCSameText == {c}
MCRetries == [x \in Calls |-> 1]
=============================================================================
