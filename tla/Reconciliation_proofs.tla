----------------------- MODULE Reconciliation_proofs ------------------------
(***************************************************************************)
(* Proofs about Reconciliation, for any statements, limits and thresholds. *)
(***************************************************************************)
EXTENDS Reconciliation, TLAPS, FiniteSetTheorems

\* Which calls have been made by which stage.
CallOrder ==
  /\ stage \in {"begin", "decision", "initial"} => reads = {} /\ attempts["followup"] = 0
  /\ stage \in {"initial", "followup"} => attempts["initial"] > 0
  /\ stage = "followup" => attempts["followup"] > 0

RecInv ==
  /\ ReconciliationTypeOK
  /\ AnsweredOnce
  /\ RequestsBounded
  /\ CallOrder

-----------------------------------------------------------------------------
(* What the steps share *)

\* Sending the next request keeps the attempts bounded.
LEMMA AwaitBounded ==
  ASSUME RecInv, NEW call \in Calls, Await(call)
  PROVE  /\ attempts' \in [Calls -> Nat]
         /\ \A c \in Calls : attempts'[c] <= MaxRetries[c] + 1
         /\ attempts'[call] = 1
         /\ \A c \in Calls \ {call} : attempts'[c] = attempts[c]
<1>1. attempts \in [Calls -> Nat] /\ attempts' = [attempts EXCEPT ![call] = 1]
  BY DEF RecInv, ReconciliationTypeOK, Await
<1>2. \A c \in Calls : attempts[c] <= MaxRetries[c] + 1 /\ MaxRetries[c] \in Nat
  BY ReconciliationAssumption DEF RecInv, RequestsBounded
<1>. QED BY <1>1, <1>2

\* Answers about candidates nobody had answered for keep the account.
LEMMA ProposeOnce ==
  ASSUME RecInv, NEW ids \in SUBSET remaining, NEW answer,
         \A o \in ids : /\ answer[o].relation \in Relations
                        /\ answer[o].confidence \in Confidences,
         proposals' = proposals \cup Propose(answer, ids),
         remaining' = remaining \ ids, shown' = shown
  PROVE  /\ proposals' \in SUBSET Proposal
         /\ \A o \in shown : o \in remaining' <=> ~ \E p \in proposals' : p.object = o
         /\ \A p, q \in proposals' : p.object = q.object => p = q
         /\ \A p \in proposals' : p.object \in shown
<1> DEFINE P(o) == [object |-> o, relation |-> answer[o].relation, basis |-> "agent",
                    confidence |-> answer[o].confidence]
<1>1. Propose(answer, ids) = {P(o) : o \in ids}
  BY DEF Propose
<1>2. \A o \in ids : P(o) \in Proposal /\ P(o).object = o
  BY DEF RecInv, ReconciliationTypeOK, Proposal
<1>3. \A p \in Propose(answer, ids) : p.object \in ids /\ p = P(p.object)
  BY <1>1, <1>2
<1>4. \A o \in ids : \E p \in Propose(answer, ids) : p.object = o
  BY <1>1, <1>2
<1>5. \A p \in proposals : p.object \in shown \ remaining
  BY DEF RecInv, AnsweredOnce
<1>6. ids \subseteq shown /\ remaining \subseteq shown
  BY DEF RecInv, ReconciliationTypeOK
<1>7. proposals' \in SUBSET Proposal
  BY <1>1, <1>2 DEF RecInv, ReconciliationTypeOK
<1>8. \A p, q \in proposals' : p.object = q.object => p = q
  <2> HIDE DEF P
  <2>. QED BY <1>3, <1>5 DEF RecInv, AnsweredOnce
<1>9. \A o \in shown : o \in remaining' <=> ~ \E p \in proposals' : p.object = o
  <2> HIDE DEF P
  <2>1. \A o \in shown : o \in remaining <=> ~ \E p \in proposals : p.object = o
    BY DEF RecInv, AnsweredOnce
  <2>. QED BY <2>1, <1>3, <1>4
<1>10. \A p \in proposals' : p.object \in shown
  BY <1>3, <1>5, <1>6
<1>. QED BY <1>7, <1>8, <1>9, <1>10

-----------------------------------------------------------------------------
(* The steps *)

LEMMA InitRecInv == Init => RecInv
<1> SUFFICES ASSUME Init PROVE RecInv
  OBVIOUS
<1>1. Cardinality({}) = 0
  BY FS_EmptySet
<1>. QED
  BY <1>1, ReconciliationAssumption
  DEF Init, RecInv, ReconciliationTypeOK, AnsweredOnce, RequestsBounded, CallOrder, Calls,
      FactNodeState

LEMMA BeginRecInv == ASSUME RecInv, Begin PROVE RecInv'
<1>1. PICK k \in SUBSET Others :
        /\ shown' = k
        /\ remaining' = k \ SameText
        /\ proposals' = {[object |-> o, relation |-> "duplicate", basis |-> "deterministic",
                          confidence |-> 1] : o \in k \cap SameText}
  BY DEF Begin
<1> DEFINE D(o) == [object |-> o, relation |-> "duplicate", basis |-> "deterministic",
                    confidence |-> 1]
<1>a. proposals' = {D(o) : o \in k \cap SameText}
  BY <1>1
<1>b. \A o \in k : D(o).object = o /\ D(o) \in Proposal
  BY ReconciliationAssumption DEF Proposal
<1> HIDE DEF D
<1>2. \A p \in proposals' : p.object \in k \cap SameText /\ p \in Proposal /\ p = D(p.object)
  BY <1>a, <1>b
<1>3. \A o \in k \cap SameText : \E p \in proposals' : p.object = o
  BY <1>a, <1>b
<1>4. reads' = {} /\ state' = state /\ reads = {} /\ attempts["followup"] = 0 /\ stage = "begin"
  BY DEF Begin, RecInv, CallOrder
<1>5. Cardinality({}) = 0
  BY FS_EmptySet
<1>6. /\ \A o \in shown' : o \in remaining' <=> ~ \E p \in proposals' : p.object = o
      /\ \A p, q \in proposals' : p.object = q.object => p = q
      /\ \A p \in proposals' : p.object \in shown'
  BY <1>1, <1>2, <1>3
<1>7. proposals' \in SUBSET Proposal /\ remaining' \in SUBSET shown' /\ shown' \in SUBSET Others
  BY <1>1, <1>2
<1>8. CASE remaining' = {} /\ stage' = "decided" /\ UNCHANGED attempts
  BY <1>4, <1>5, <1>6, <1>7, <1>8, ReconciliationAssumption
  DEF RecInv, ReconciliationTypeOK, AnsweredOnce, RequestsBounded, CallOrder
<1>9. ASSUME NEW call \in {"decision", "initial"}, Await(call) PROVE RecInv'
  <2>1. call \in Calls /\ call # "followup" /\ stage' = call
    BY <1>9 DEF Calls, Await
  <2>. QED
    BY <2>1, <1>4, <1>5, <1>6, <1>7, <1>9, AwaitBounded, ReconciliationAssumption
    DEF RecInv, ReconciliationTypeOK, AnsweredOnce, RequestsBounded, CallOrder, Calls
<1>. QED BY <1>8, <1>9 DEF Begin

LEMMA RetryRecInv ==
  ASSUME RecInv, NEW call \in Calls, Retry(call) PROVE RecInv'
<1>1. attempts \in [Calls -> Nat] /\ attempts[call] <= MaxRetries[call] /\ stage = call
  BY DEF Retry, RecInv, ReconciliationTypeOK
<1>2. /\ attempts' = [attempts EXCEPT ![call] = @ + 1]
      /\ UNCHANGED <<state, stage, shown, remaining, reads, proposals>>
  BY DEF Retry
<1>3. attempts'[call] = attempts[call] + 1 /\ \A c \in Calls \ {call} : attempts'[c] = attempts[c]
  BY <1>1, <1>2
<1>4. attempts' \in [Calls -> Nat] /\ \A c \in Calls : attempts'[c] <= MaxRetries[c] + 1
  <2>1. MaxRetries \in [Calls -> Nat]
    BY ReconciliationAssumption
  <2>2. attempts' \in [Calls -> Nat]
    BY <1>1, <1>2
  <2>3. \A c \in Calls : attempts[c] <= MaxRetries[c] + 1
    BY DEF RecInv, RequestsBounded
  <2>4. attempts'[call] <= MaxRetries[call] + 1
    BY <1>1, <1>3, <2>1
  <2>. QED BY <1>3, <2>2, <2>3, <2>4
<1>5. attempts["initial"] > 0 => attempts'["initial"] > 0
  BY <1>1, <1>3 DEF Calls
<1>6. attempts'["followup"] > 0 <=> reads' # {}
  <2>1. CASE call = "followup"
    BY <2>1, <1>1, <1>2, <1>3
    DEF RecInv, RequestsBounded, CallOrder, ReconciliationTypeOK
  <2>2. CASE call # "followup"
    BY <2>2, <1>2, <1>3 DEF RecInv, RequestsBounded, Calls
  <2>. QED BY <2>1, <2>2
<1>7. stage # "followup" => attempts'["followup"] = attempts["followup"]
  BY <1>1, <1>3 DEF Calls
<1>. QED
  BY <1>1, <1>2, <1>4, <1>5, <1>6, <1>7
  DEF RecInv, ReconciliationTypeOK, AnsweredOnce, RequestsBounded, CallOrder, Calls

LEMMA DecisionRecInv ==
  ASSUME RecInv, DecisionAnswers PROVE RecInv'
<1>0. PICK answered \in SUBSET remaining : \E answer \in [answered -> Answer] :
        LET sure == {o \in answered : answer[o].relation \in Relations /\
                                      answer[o].confidence >= DecisionMin}
        IN  /\ proposals' = proposals \cup Propose(answer, sure)
            /\ remaining' = remaining \ sure
  BY DEF DecisionAnswers
<1>1. PICK answer \in [answered -> Answer] :
        LET sure == {o \in answered : answer[o].relation \in Relations /\
                                      answer[o].confidence >= DecisionMin}
        IN  /\ proposals' = proposals \cup Propose(answer, sure)
            /\ remaining' = remaining \ sure
  BY <1>0
<1> DEFINE sure == {o \in answered : answer[o].relation \in Relations /\
                                     answer[o].confidence >= DecisionMin}
<1>2. /\ stage = "decision" /\ reads = {} /\ attempts["followup"] = 0
      /\ UNCHANGED <<state, shown, reads>>
  BY DEF DecisionAnswers, RecInv, CallOrder
<1>3. sure \in SUBSET remaining
  OBVIOUS
<1>4. \A o \in sure : answer[o].relation \in Relations /\ answer[o].confidence \in Confidences
  BY DEF Answer
<1>5. /\ proposals' \in SUBSET Proposal
      /\ \A o \in shown : o \in remaining' <=> ~ \E p \in proposals' : p.object = o
      /\ \A p, q \in proposals' : p.object = q.object => p = q
      /\ \A p \in proposals' : p.object \in shown
  <2> HIDE DEF sure
  <2>. QED BY <1>1, <1>2, <1>3, <1>4, ProposeOnce DEF sure
<1>6. remaining' \in SUBSET shown
  BY <1>1 DEF RecInv, ReconciliationTypeOK
<1>7. CASE remaining' = {} /\ stage' = "decided" /\ UNCHANGED attempts
  BY <1>2, <1>5, <1>6, <1>7
  DEF RecInv, ReconciliationTypeOK, AnsweredOnce, RequestsBounded, CallOrder
<1>8. CASE Await("initial")
  BY <1>2, <1>5, <1>6, <1>8, AwaitBounded
  DEF RecInv, ReconciliationTypeOK, AnsweredOnce, RequestsBounded, CallOrder, Calls, Await
<1>. QED BY <1>7, <1>8 DEF DecisionAnswers

LEMMA DecisionFailsRecInv ==
  ASSUME RecInv, DecisionFails PROVE RecInv'
<1>1. /\ stage = "decision" /\ Await("initial") /\ stage' = "initial"
      /\ UNCHANGED <<state, shown, remaining, reads, proposals>>
  BY DEF DecisionFails, Await
<1>. QED
  BY <1>1, AwaitBounded
  DEF RecInv, ReconciliationTypeOK, AnsweredOnce, RequestsBounded, CallOrder, Calls

LEMMA AsksToReadRecInv ==
  ASSUME RecInv, AsksToRead PROVE RecInv'
<1>1. /\ stage = "initial" /\ Await("followup") /\ stage' = "followup"
      /\ reads' \in SUBSET (Tools \X remaining) /\ Cardinality(reads') \in 1..MaxReads
      /\ UNCHANGED <<state, shown, remaining, proposals>>
  BY DEF AsksToRead, Await
<1>2. reads' # {} /\ Cardinality(reads') <= MaxReads
  BY <1>1, FS_EmptySet, ReconciliationAssumption
<1>3. reads' \in SUBSET (Tools \X shown)
  BY <1>1 DEF RecInv, ReconciliationTypeOK
<1>4. /\ attempts' \in [Calls -> Nat]
      /\ \A c \in Calls : attempts'[c] <= MaxRetries[c] + 1
      /\ attempts'["followup"] = 1 /\ attempts'["initial"] = attempts["initial"]
  BY <1>1, AwaitBounded DEF Calls
<1>. QED
  BY <1>1, <1>2, <1>3, <1>4
  DEF RecInv, ReconciliationTypeOK, AnsweredOnce, RequestsBounded, CallOrder, Calls

LEMMA ModelDecidesRecInv ==
  ASSUME RecInv, ModelDecides PROVE RecInv'
<1>0. PICK answered \in SUBSET remaining : \E decision \in [answered -> Decision] :
        /\ proposals' = proposals \cup Propose(decision, answered)
        /\ remaining' = remaining \ answered
  BY DEF ModelDecides
<1>1. PICK decision \in [answered -> Decision] :
        /\ proposals' = proposals \cup Propose(decision, answered)
        /\ remaining' = remaining \ answered
  BY <1>0
<1>2. /\ stage \in {"initial", "followup"} /\ stage' = "decided"
      /\ attempts["initial"] > 0
      /\ UNCHANGED <<state, attempts, shown, reads>>
  BY DEF ModelDecides, RecInv, CallOrder
<1>3. \A o \in answered : decision[o].relation \in Relations /\
                          decision[o].confidence \in Confidences
  BY DEF Decision
<1>4. /\ proposals' \in SUBSET Proposal
      /\ \A o \in shown : o \in remaining' <=> ~ \E p \in proposals' : p.object = o
      /\ \A p, q \in proposals' : p.object = q.object => p = q
      /\ \A p \in proposals' : p.object \in shown
  BY <1>1, <1>2, <1>3, ProposeOnce
<1>. QED
  BY <1>1, <1>2, <1>4
  DEF RecInv, ReconciliationTypeOK, AnsweredOnce, RequestsBounded, CallOrder

\* Verdicts, and what goes on elsewhere, only touch the statements.
LEMMA StatementsRecInv ==
  ASSUME RecInv, UNCHANGED local, state' \in [Statements -> FactNodeState],
         stage' \in {stage, "resolved", "escalated"}
  PROVE  RecInv'
BY DEF RecInv, ReconciliationTypeOK, AnsweredOnce, RequestsBounded, CallOrder, local

LEMMA NextRecInv == ASSUME RecInv, [Next]_recVars PROVE RecInv'
<1>1. state \in [Statements -> FactNodeState] /\ proposals \subseteq Proposal
  BY DEF RecInv, ReconciliationTypeOK
<1>2. CASE UNCHANGED recVars
  BY <1>1, <1>2, StatementsRecInv DEF recVars
<1>3. CASE ModelFails \/ Escalate
  BY <1>1, <1>3, StatementsRecInv DEF ModelFails, Escalate
<1>4. CASE Resolve
  BY <1>1, <1>4, StatementsRecInv DEF Resolve, FactNodeState
<1>5. CASE Elsewhere
  BY <1>1, <1>5, StatementsRecInv DEF Elsewhere, FactNodeState
<1>. QED
  BY <1>2, <1>3, <1>4, <1>5, BeginRecInv, RetryRecInv, DecisionRecInv, DecisionFailsRecInv,
     AsksToReadRecInv, ModelDecidesRecInv
  DEF Next, Step

-----------------------------------------------------------------------------
(* Theorems *)

\* The inductive invariant of reconcileStatement and its calls.
THEOREM ReconciliationInvariance == Spec => []RecInv
BY InitRecInv, NextRecInv, PTL DEF Spec

\* Types, and that the model only reads about what it was shown.
THEOREM ReconciliationTypes == Spec => []ReconciliationTypeOK
BY ReconciliationInvariance, PTL DEF RecInv

\* However the two layers answer, fail and are asked again, every candidate has
\* one proposal or is still open.
THEOREM EveryCandidateAnsweredOnce == Spec => []AnsweredOnce
BY ReconciliationInvariance, PTL DEF RecInv

\* postJsonWithRetry's limit holds of every call of a reconciliation, and there
\* is at most one further round.
THEOREM RequestsStayBounded == Spec => []RequestsBounded
BY ReconciliationInvariance, PTL DEF RecInv

\* resolveCapturedConflicts applies the surest supersession that it may.
THEOREM TheSurestApplies == Spec => SurestApplies
<1> DEFINE Surest ==
      stage' = "resolved" /\ stage # "resolved" =>
        \E p \in proposals :
          /\ state[p.object] = "accepted" /\ state'[p.object] = "superseded"
          /\ \A q \in proposals : Applicable(q) => q.confidence <= p.confidence
<1>1. ASSUME RecInv, Next, stage' = "resolved", stage # "resolved"
      PROVE  \E p \in proposals :
               /\ state[p.object] = "accepted" /\ state'[p.object] = "superseded"
               /\ \A q \in proposals : Applicable(q) => q.confidence <= p.confidence
  <2>1. Resolve
    BY <1>1
    DEF Next, Step, Begin, DecisionFails, DecisionAnswers, AsksToRead, ModelDecides, ModelFails,
        Escalate, Retry, Elsewhere, Await
  <2>2. PICK p \in proposals :
          /\ Applicable(p)
          /\ \A q \in proposals : Applicable(q) => q.confidence <= p.confidence
          /\ state' = [state EXCEPT ![Subject] = "accepted", ![p.object] = "superseded"]
    BY <2>1 DEF Resolve
  <2>3. p.object \in Others /\ state \in [Statements -> FactNodeState]
    BY <1>1 DEF RecInv, ReconciliationTypeOK, Proposal
  <2>4. state[p.object] = "accepted" /\ state'[p.object] = "superseded"
    BY <2>2, <2>3 DEF Applicable, Statements
  <2>. QED BY <2>2, <2>4
<1>2. RecInv /\ [Next]_recVars => [Surest]_recVars
  BY <1>1
<1>. QED BY <1>2, ReconciliationInvariance, PTL DEF Spec, SurestApplies

\* All of it implements one step: a verdict given on the statements as they are.
\* (That it is given is a matter of fairness, left to the model checker.)
THEOREM OneVerdict ==
  Spec => Verdict!Init /\
          [][Verdict!Next]_<<state, IF stage \in {"resolved", "escalated"} THEN stage ELSE "open">>
<1>1. Init => Verdict!Init
  BY DEF Init, Verdict!Init
<1>2. Next => Verdict!Next
  <2> SUFFICES ASSUME Next PROVE Verdict!Next
    OBVIOUS
  <2>1. CASE Resolve
    <3>1. PICK p \in proposals :
            /\ Applicable(p)
            /\ state' = [state EXCEPT ![Subject] = "accepted", ![p.object] = "superseded"]
      BY <2>1 DEF Resolve
    <3>2. p.object \in {o \in SameChannel : CreatedAt[Subject] > CreatedAt[o]}
      BY <3>1 DEF Applicable
    <3>3. Verdict!Replace
      BY <2>1, <3>1, <3>2 DEF Resolve, Applicable, Verdict!Replace
    <3>. QED BY <3>3 DEF Verdict!Next
  <2>2. CASE ModelFails \/ Escalate
    BY <2>2 DEF ModelFails, Escalate, Verdict!Next, Verdict!Escalate
  <2>3. CASE Elsewhere \/ \E call \in Calls : Retry(call)
    BY <2>3 DEF Elsewhere, Retry, Verdict!Next, Verdict!Elsewhere
  <2>4. CASE Begin \/ DecisionFails \/ DecisionAnswers \/ AsksToRead \/ ModelDecides
    BY <2>4
    DEF Begin, DecisionFails, DecisionAnswers, AsksToRead, ModelDecides, Await,
        Verdict!Next, Verdict!Elsewhere
  <2>. QED BY <2>1, <2>2, <2>3, <2>4 DEF Next, Step
<1>3. UNCHANGED recVars =>
        UNCHANGED <<state, IF stage \in {"resolved", "escalated"} THEN stage ELSE "open">>
  BY DEF recVars
<1>. QED BY <1>1, <1>2, <1>3, PTL DEF Spec

=============================================================================
