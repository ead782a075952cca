----------------------------- MODULE Governance -----------------------------
(***************************************************************************)
(* The life of the graph's constraints under Q01, the rule that a          *)
(* constraint is only active by the approval of a human: addConstraint and *)
(* transitionConstraintState of the store, and the use of an active rule   *)
(* by autoResolveConstraintGuided.                                         *)
(***************************************************************************)
EXTENDS FactStates

CONSTANTS
  RuleIds,    \* identities of constraints
  Humans,     \* principals human:<id>
  Agents,     \* principals agent:<name>:<id>
  NoOne       \* no approver

ASSUME GovernanceAssumption ==
  /\ Humans \cap Agents = {}
  /\ NoOne \notin Humans \cup Agents

VARIABLES
  activation,  \* activation_state of each constraint, "absent" before it exists
  approver,    \* approved_by
  stamped,     \* whether approved_at is set
  decided      \* <<constraint, resolved_by>> of the conflicts it decided

rulesVars == <<activation, approver, stamped, decided>>

Approvers == Humans \cup Agents \cup {NoOne}

Init ==
  /\ activation = [c \in RuleIds |-> "absent"]
  /\ approver = [c \in RuleIds |-> NoOne]
  /\ stamped = [c \in RuleIds |-> FALSE]
  /\ decided = {}

\* addConstraint: created in any state; `active` needs a human approver.
AddConstraint(c, st, by) ==
  /\ activation[c] = "absent"
  /\ st = "active" => by \in Humans
  /\ activation' = [activation EXCEPT ![c] = st]
  /\ approver' = [approver EXCEPT ![c] = by]
  /\ stamped' = [stamped EXCEPT ![c] = (st = "active")]
  /\ UNCHANGED decided

\* transitionConstraintState: the first activation of a constraint without an
\* approver takes the one the call names, who must be human.
\* Mutant: every activation takes it, also of a rule that is active already.
TransitionReapproves(c, to, by) ==
  LET asks == to = "active" IN
  /\ activation[c] # "absent"
  /\ CanTransitionConstraint(activation[c], to)
  /\ asks => by \in Humans
  /\ activation' = [activation EXCEPT ![c] = to]
  /\ approver' = [approver EXCEPT ![c] = IF asks THEN by ELSE @]
  /\ stamped' = [stamped EXCEPT ![c] = @ \/ asks]
  /\ UNCHANGED decided
TransitionConstraint(c, to, by) ==
  LET asks == to = "active" /\ approver[c] = NoOne IN
  /\ activation[c] # "absent"
  /\ CanTransitionConstraint(activation[c], to)
  /\ asks => by \in Humans
  /\ activation' = [activation EXCEPT ![c] = to]
  /\ approver' = [approver EXCEPT ![c] = IF asks THEN by ELSE @]
  /\ stamped' = [stamped EXCEPT ![c] = @ \/ asks]
  /\ UNCHANGED decided

\* autoResolveConstraintGuided: an active rule decides a conflict in the name
\* of its approver; both the rebuilt hypothetical rule and resolveConflict
\* refuse an approver who is not human.
DecideConflict(c) ==
  /\ activation[c] = "active"
  /\ approver[c] \in Humans
  /\ decided' = decided \cup {<<c, approver[c]>>}
  /\ UNCHANGED <<activation, approver, stamped>>

Next ==
  \E c \in RuleIds :
    \/ \E st \in ConstraintState, by \in Approvers :
         AddConstraint(c, st, by) \/ TransitionConstraint(c, st, by)
    \/ DecideConflict(c)

Spec == Init /\ [][Next]_rulesVars

-----------------------------------------------------------------------------
(* Correctness *)

\* A human's approval is final: nothing replaces the name under which a rule
\* acts, so the decisions it made stay attributed to one person.
OneApproverPerRule ==
  /\ \A d, e \in decided : d[1] = e[1] => d[2] = e[2]
  /\ \A d \in decided : approver[d[1]] = d[2]

\* approved_at is only ever set by the approval of a human, and whatever has
\* decided a conflict has it.
StampIsHuman ==
  /\ \A c \in RuleIds : stamped[c] => approver[c] \in Humans
  /\ \A d \in decided : activation[d[1]] \in {"active", "deprecated", "retired"}

\* store.ts: a constraint may only go `active` with a human approver.
ActiveHasHumanApprover ==
  \A c \in RuleIds : activation[c] = "active" => approver[c] \in Humans

=============================================================================
