--------------------------- MODULE Reconciliation ---------------------------
(***************************************************************************)
(* One conflicting claim from the capture that flagged it to its verdict:  *)
(* resolveCapturedConflicts, reconcileStatement and the calls they make,   *)
(* through the transport that repeats a request that failed in transit.    *)
(*                                                                         *)
(* Up to three calls are awaited: the optional decision driver, the model, *)
(* and the model again once it has been shown what it asked to read.       *)
(* Meanwhile the statements of the slot go on changing.                    *)
(***************************************************************************)
EXTENDS FactStates, Naturals, FiniteSets

CONSTANTS
  Subject,        \* the claim in conflict
  Others,         \* the other statements of its slot
  CreatedAt,      \* created_at of every statement
  SameChannel,    \* those of the authority and speaker of the subject
  SameText,       \* those whose normalized value is the subject's
  Related,        \* those already joined to it by another relation than contradicts
  Relations,      \* what a candidate can be to the subject
  Tools,          \* what the model may ask to read about a candidate
  Confidences,
  MaxCandidates, MaxReads,
  MaxRetries,     \* of each call, beyond its first request
  DecisionMin, ApplyMin,
  HasDecision     \* whether a decision driver is configured

Statements == {Subject} \cup Others
Calls == {"decision", "initial", "followup"}
Proposal == [object : Others, relation : Relations, basis : {"deterministic", "agent"},
             confidence : Confidences]
Answer == [relation : Relations \cup {"needs_context"}, confidence : Confidences]
Decision == [relation : Relations, confidence : Confidences]

ASSUME ReconciliationAssumption ==
  /\ Subject \notin Others /\ IsFiniteSet(Others)
  /\ CreatedAt \in [Statements -> Nat]
  /\ SameChannel \subseteq Others
  /\ SameText \subseteq Others
  /\ Related \subseteq Others
  /\ {"supersedes", "duplicate"} \subseteq Relations
  /\ Confidences \subseteq Nat /\ 1 \in Confidences
  /\ MaxCandidates \in Nat /\ MaxReads \in Nat
  /\ MaxRetries \in [Calls -> Nat]
  /\ DecisionMin \in Nat /\ ApplyMin \in Nat
  /\ HasDecision \in BOOLEAN

VARIABLES
  state,      \* acceptance state of the statements
  stage,      \* the call that is awaited, or how far the claim has got
  attempts,   \* requests sent for each call
  shown,      \* the candidates
  remaining,  \* those nobody has answered for yet; in the end, unresolvedIds
  reads,      \* what the model asked to read
  proposals

local == <<attempts, shown, remaining, reads, proposals>>
recVars == <<state, stage, local>>

-----------------------------------------------------------------------------

Live(s) == state[s] \in LiveState

\* The newest live statements, up to the limit.
Newest(k) ==
  LET comparable == {s \in Others \ Related : Live(s)}
  IN  /\ k \subseteq comparable
      /\ Cardinality(k) = IF Cardinality(comparable) < MaxCandidates
                            THEN Cardinality(comparable) ELSE MaxCandidates
      /\ \A a \in k, b \in comparable \ k : CreatedAt[a] >= CreatedAt[b]

Propose(answer, ids) ==
  {[object |-> o, relation |-> answer[o].relation, basis |-> "agent",
    confidence |-> answer[o].confidence] : o \in ids}

\* A request is sent for the next call.
Await(call) ==
  /\ stage' = call
  /\ attempts' = [attempts EXCEPT ![call] = 1]

Init ==
  /\ state \in [Statements -> {"tentative", "accepted", "superseded"}]
  /\ state[Subject] = "tentative"
  /\ stage = "begin"
  /\ attempts = [c \in Calls |-> 0]
  /\ shown = {} /\ remaining = {} /\ reads = {} /\ proposals = {}

\* With a model at hand the rules alone only settle what reads the same.
Begin ==
  /\ stage = "begin"
  /\ \E k \in SUBSET Others :
       /\ Newest(k)
       /\ shown' = k
       /\ remaining' = k \ SameText
       /\ proposals' = {[object |-> o, relation |-> "duplicate", basis |-> "deterministic",
                         confidence |-> 1] : o \in k \cap SameText}
  /\ IF remaining' = {} THEN stage' = "decided" /\ UNCHANGED attempts
                        ELSE Await(IF HasDecision THEN "decision" ELSE "initial")
  /\ UNCHANGED <<state, reads>>

\* postJsonWithRetry: a network error, a timeout, a 429 or a 5xx.
\* Mutant: one request too many.
RetryOnceMore(call) ==
  /\ stage = call /\ attempts[call] <= MaxRetries[call] + 1
  /\ attempts' = [attempts EXCEPT ![call] = @ + 1]
  /\ UNCHANGED <<state, stage, shown, remaining, reads, proposals>>
Retry(call) ==
  /\ stage = call
  /\ attempts[call] <= MaxRetries[call]
  /\ attempts' = [attempts EXCEPT ![call] = @ + 1]
  /\ UNCHANGED <<state, stage, shown, remaining, reads, proposals>>

\* The decision driver fails, for good: the model decides alone.
DecisionFails ==
  /\ stage = "decision"
  /\ Await("initial")
  /\ UNCHANGED <<state, shown, remaining, reads, proposals>>

\* It answers for some candidates; of those, it must be sure enough.
\* Mutant: what it is not sure of is forgotten.
DecisionForgets ==
  /\ stage = "decision"
  /\ \E answered \in SUBSET remaining : \E answer \in [answered -> Answer] :
       LET sure == {o \in answered : answer[o].relation \in Relations /\
                                     answer[o].confidence >= DecisionMin}
       IN  /\ proposals' = proposals \cup Propose(answer, sure)
           /\ remaining' = remaining \ answered
  /\ IF remaining' = {} THEN stage' = "decided" /\ UNCHANGED attempts ELSE Await("initial")
  /\ UNCHANGED <<state, shown, reads>>
DecisionAnswers ==
  /\ stage = "decision"
  /\ \E answered \in SUBSET remaining : \E answer \in [answered -> Answer] :
       LET sure == {o \in answered : answer[o].relation \in Relations /\
                                     answer[o].confidence >= DecisionMin}
       IN  /\ proposals' = proposals \cup Propose(answer, sure)
           /\ remaining' = remaining \ sure
  /\ IF remaining' = {} THEN stage' = "decided" /\ UNCHANGED attempts ELSE Await("initial")
  /\ UNCHANGED <<state, shown, reads>>

\* The model asks to read first: a few tools, each on a candidate it was shown.
\* Mutant: on any statement.
AsksToReadAny ==
  /\ stage = "initial"
  /\ reads' \in SUBSET (Tools \X Others)
  /\ Cardinality(reads') \in 1..MaxReads
  /\ Await("followup")
  /\ UNCHANGED <<state, shown, remaining, proposals>>
AsksToRead ==
  /\ stage = "initial"
  /\ reads' \in SUBSET (Tools \X remaining)
  /\ Cardinality(reads') \in 1..MaxReads
  /\ Await("followup")
  /\ UNCHANGED <<state, shown, remaining, proposals>>

\* Its decisions: one per candidate, the first; unknown ids are skipped.
ModelDecides ==
  /\ stage \in {"initial", "followup"}
  /\ \E answered \in SUBSET remaining : \E decision \in [answered -> Decision] :
       /\ proposals' = proposals \cup Propose(decision, answered)
       /\ remaining' = remaining \ answered
  /\ stage' = "decided"
  /\ UNCHANGED <<state, attempts, shown, reads>>

\* The model fails for good, or its reply is malformed: a human decides, and
\* what the decision driver had proposed is dropped with the rest.
ModelFails ==
  /\ stage \in {"initial", "followup"}
  /\ stage' = "escalated"
  /\ UNCHANGED <<state, local>>

\* applyAgentFactRelationProposal, on the statements as they are now.
\* Mutant: as they were when they were shown.
ApplicableWhenRead(p) ==
  p.relation = "supersedes" /\ p.basis = "agent" /\ p.confidence >= ApplyMin /\
  p.object \in SameChannel /\ CreatedAt[Subject] > CreatedAt[p.object]
Applicable(p) ==
  /\ p.relation = "supersedes" /\ p.basis = "agent"
  /\ p.confidence >= ApplyMin
  /\ state[Subject] = "tentative"
  /\ state[p.object] = "accepted"
  /\ p.object \in SameChannel
  /\ CreatedAt[Subject] > CreatedAt[p.object]

\* Supersessions are tried, the surest first, until one is accepted.
\* Mutant: in any order.
ResolveAnyOrder ==
  /\ stage = "decided"
  /\ \E p \in proposals :
       /\ Applicable(p)
       /\ state' = [state EXCEPT ![Subject] = "accepted", ![p.object] = "superseded"]
  /\ stage' = "resolved"
  /\ UNCHANGED local
Resolve ==
  /\ stage = "decided"
  /\ \E p \in proposals :
       /\ Applicable(p)
       /\ \A q \in proposals : Applicable(q) => q.confidence <= p.confidence
       /\ state' = [state EXCEPT ![Subject] = "accepted", ![p.object] = "superseded"]
  /\ stage' = "resolved"
  /\ UNCHANGED local

Escalate ==
  /\ stage = "decided"
  /\ \A p \in proposals : ~Applicable(p)
  /\ stage' = "escalated"
  /\ UNCHANGED <<state, local>>

Step ==
  \/ Begin \/ DecisionFails \/ DecisionAnswers
  \/ AsksToRead \/ ModelDecides \/ ModelFails
  \/ Resolve \/ Escalate
  \/ \E call \in Calls : Retry(call)

\* A person, or another turn.
Elsewhere ==
  /\ \E s \in Statements, to \in {"accepted", "superseded"} :
       /\ state[s] # to /\ CanTransitionFact(state[s], to)
       /\ state' = [state EXCEPT ![s] = to]
  /\ UNCHANGED <<stage, local>>

Next == Step \/ Elsewhere

Spec == Init /\ [][Next]_recVars

\* Each request has a timeout, and what is synchronous goes on.
FairSpec == Spec /\ WF_recVars(Step)

-----------------------------------------------------------------------------
(* Correctness *)

\* Types; what the model reads is about candidates, and within its allowance.
ReconciliationTypeOK ==
  /\ state \in [Statements -> FactNodeState]
  /\ stage \in Calls \cup {"begin", "decided", "resolved", "escalated"}
  /\ attempts \in [Calls -> Nat]
  /\ shown \in SUBSET Others /\ remaining \in SUBSET shown
  /\ proposals \in SUBSET Proposal
  /\ reads \in SUBSET (Tools \X shown) /\ Cardinality(reads) <= MaxReads

\* reconcileStatement: a candidate that was shown is answered for once, or
\* still to be answered, and in the end reported as unresolved: no failure, no
\* partial or repeated answer, of either layer loses one or answers it twice,
\* and none is left unresolved that the model was not asked about.
AnsweredOnce ==
  /\ \A o \in shown : o \in remaining <=> ~ \E p \in proposals : p.object = o
  /\ \A p, q \in proposals : p.object = q.object => p = q
  /\ \A p \in proposals : p.object \in shown
  /\ stage = "decided" /\ remaining # {} => attempts["initial"] > 0

\* http.ts: a call costs at most its first request and its retries, and the
\* model is only asked again when it asked to read.
RequestsBounded ==
  /\ \A c \in Calls : attempts[c] <= MaxRetries[c] + 1
  /\ attempts["followup"] > 0 <=> reads # {}

\* resolveCapturedConflicts: no surer supersession that could be applied is
\* passed over.
SurestApplies ==
  [][stage' = "resolved" /\ stage # "resolved" =>
       \E p \in proposals :
         /\ state[p.object] = "accepted" /\ state'[p.object] = "superseded"
         /\ \A q \in proposals : Applicable(q) => q.confidence <= p.confidence]_recVars

\* One verdict, and it is carried out as it is given, once.
Verdict == INSTANCE Adjudicator WITH
  Eligible <- {o \in SameChannel : CreatedAt[Subject] > CreatedAt[o]},
  verdict <- IF stage \in {"resolved", "escalated"} THEN stage ELSE "open"

Adjudicates == Verdict!Spec

=============================================================================
