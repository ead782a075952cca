----------------------------- MODULE Relations ------------------------------
(***************************************************************************)
(* The other way to change a slot: a relation between two live statements, *)
(* proposed by the fact reconciler and applied by                          *)
(* applyFactRelationProposal with a human's approval, or, where rules      *)
(* alone find it, without. Added to the operations of Adjudication on the  *)
(* same slot.                                                              *)
(*                                                                         *)
(* A relation may join statements of two slots that are about one entity.  *)
(* Of such a step this module has what happens in its slot. Duplicates and *)
(* refinements only add an edge that no operation on a slot reads.         *)
(***************************************************************************)
EXTENDS Adjudication

CONSTANT SameText   \* pairs of values that differ in case or spacing only

VARIABLE outside    \* statements with a core:supersedes edge from another slot

allVars == <<vars, outside>>

ASSUME SameTextAssumption == SameText \subseteq Values \X Values

-----------------------------------------------------------------------------

Proposable(s, o) == s # o /\ Live(s) /\ Live(o)

\* What the rules alone take for a contradiction.
Deterministic(s, o) ==
  /\ cardinality = "single"
  /\ claim[s].value # claim[o].value
  /\ {<<claim[s].value, claim[o].value>>, <<claim[o].value, claim[s].value>>} \cap SameText = {}

\* restoreDimensionIfSettled.
Restored == IF LiveContradictions' = {} /\ dimension = "conflict" THEN "accepted" ELSE dimension

\* A contradiction decides nothing, and flags slots of many values too.
\* Mutant: the edge is drawn, the slot is not flagged.
ContradictUnflagged(s, o, by) ==
  /\ Proposable(s, o)
  /\ Deterministic(s, o) \/ by \in Humans
  /\ contradicts' = contradicts \cup {<<s, o>>}
  /\ UNCHANGED <<dimension, cardinality, state, claim, supersedes, outside>>

ApplyContradicts(s, o, by) ==
  /\ Proposable(s, o)
  /\ Deterministic(s, o) \/ by \in Humans
  /\ contradicts' = contradicts \cup {<<s, o>>}
  /\ dimension' = "conflict"
  /\ UNCHANGED <<cardinality, state, claim, supersedes, outside>>

\* A supersession makes its subject current and retires its object, whatever
\* the slot's cardinality and its other statements.
\* Mutant: the subject is left as it was.
SupersedeOnly(s, o, by) ==
  /\ Proposable(s, o) /\ by \in Humans
  /\ state' = [state EXCEPT ![o] = "superseded"]
  /\ supersedes' = supersedes \cup AuditEdges(s, {o}, by)
  /\ UNCHANGED <<cardinality, claim, contradicts, outside>>
  /\ dimension' = Restored

ApplySupersedes(s, o, by) ==
  /\ Proposable(s, o)
  /\ by \in Humans
  /\ state' = [state EXCEPT ![s] = "accepted", ![o] = "superseded"]
  /\ supersedes' = supersedes \cup AuditEdges(s, {o}, by)
  /\ UNCHANGED <<cardinality, claim, contradicts, outside>>
  /\ dimension' = Restored

\* The same with one of the two in another slot.
\* Mutant: the edge is not drawn.
OvertakenUnrecorded(o, by) ==
  /\ Live(o) /\ by \in Humans
  /\ state' = [state EXCEPT ![o] = "superseded"]
  /\ UNCHANGED <<cardinality, claim, contradicts, supersedes, outside>>
  /\ dimension' = Restored

OvertakenFromOutside(o, by) ==
  /\ Live(o)
  /\ by \in Humans
  /\ state' = [state EXCEPT ![o] = "superseded"]
  /\ outside' = outside \cup {o}
  /\ UNCHANGED <<cardinality, claim, contradicts, supersedes>>
  /\ dimension' = Restored

OvertakesOutside(s, by) ==
  /\ Live(s)
  /\ by \in Humans
  /\ state' = [state EXCEPT ![s] = "accepted"]
  /\ UNCHANGED <<cardinality, claim, contradicts, supersedes, outside>>
  /\ dimension' = Restored

RelationStep ==
  \E s \in StatementIds, by \in Actors :
    \/ \E o \in StatementIds : ApplyContradicts(s, o, by) \/ ApplySupersedes(s, o, by)
    \/ OvertakenFromOutside(s, by)
    \/ OvertakesOutside(s, by)

RelationsInit == Init /\ outside = {}
RelationsNext == (Next /\ UNCHANGED outside) \/ RelationStep
RelationsSpec == RelationsInit /\ [][RelationsNext]_allVars

-----------------------------------------------------------------------------
(* Correctness. SingleAccepted and ChallengersFaceIncumbent of             *)
(* Adjudication do not survive these steps; FlagMatchesDocket does.        *)

\* Types of the variables; only what is superseded was superseded from outside.
RelationsTypeOK ==
  /\ TypeOK
  /\ outside \subseteq {s \in StatementIds : state[s] = "superseded"}

\* Audit: from every superseded statement the edges lead to a statement that is
\* accepted, or out of the slot.
AuditLeadsOn ==
  \A s \in StatementIds :
    state[s] = "superseded" =>
      \A S \in SUBSET StatementIds :
        s \in S /\ SuccessorClosed(S) => S \cap (Accepted \cup outside) # {}

\* A slot that has a current value only loses it to a statement of another slot.
AnswerLeavesOnlyAcross ==
  [][Accepted # {} /\ Accepted' = {} => outside' # outside]_allVars

=============================================================================
