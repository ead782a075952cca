----------------------------- MODULE FactStates -----------------------------
(***************************************************************************)
(* The two closed state machines of src/model/state-machine.ts: acceptance *)
(* states of fact nodes (dimensions and statements) and activation states  *)
(* of constraints, with the transition tables every write is checked by.   *)
(***************************************************************************)

FactNodeState == {"tentative", "accepted", "conflict", "superseded", "rejected"}

\* Terminal states: history is kept, and nothing leaves them.
Terminal == {"superseded", "rejected"}

LiveState == FactNodeState \ Terminal

FactTransitions ==
  [tentative  |-> FactNodeState,
   accepted   |-> {"accepted", "conflict", "superseded", "rejected"},
   conflict   |-> {"conflict", "accepted", "rejected", "superseded"},
   superseded |-> {"superseded"},
   rejected   |-> {"rejected"}]

CanTransitionFact(from, to) == to \in FactTransitions[from]

ConstraintState == {"proposed", "active", "deprecated", "retired"}

ConstraintTransitions ==
  [proposed   |-> {"proposed", "active", "retired"},
   active     |-> {"active", "deprecated", "retired"},
   deprecated |-> {"deprecated", "retired"},
   retired    |-> {"retired"}]

CanTransitionConstraint(from, to) == to \in ConstraintTransitions[from]

=============================================================================
