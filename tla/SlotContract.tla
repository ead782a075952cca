---------------------------- MODULE SlotContract ----------------------------
(***************************************************************************)
(* Adjudication implements GovernedSlot: the believed values are those of  *)
(* the accepted statements, the retired ones those of the superseded.      *)
(***************************************************************************)
EXTENDS Adjudication

ValuesIn(st) == {claim[s].value : s \in {x \in StatementIds : state[x] = st}}

Slot == INSTANCE GovernedSlot WITH
  kind     <- IF dimension = "absent" THEN "unset" ELSE cardinality,
  belief   <- ValuesIn("accepted"),
  retired  <- ValuesIn("superseded"),
  disputed <- dimension = "conflict"

\* Every behaviour of the operations on statements and edges is, to a reader
\* of values, one of GovernedSlot: clashes are flagged before anything is
\* replaced, one value is replaced by one value, and none comes back.
ImplementsGovernedSlot == Slot!Spec

=============================================================================
