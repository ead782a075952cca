---------------------------- MODULE Turns_proofs ----------------------------
(***************************************************************************)
(* Interleaved turns make no step on a slot that Adjudication does not     *)
(* have, so every theorem about Adjudication holds of them too.            *)
(***************************************************************************)
EXTENDS Turns, Adjudication_proofs

-----------------------------------------------------------------------------
(* Types of the pipeline *)

\* What Append and Tail do to the type of a queue.
LEMMA SeqSteps ==
  ASSUME NEW S, NEW q \in Seq(S), NEW s \in S
  PROVE  /\ Append(q, s) \in Seq(S)
         /\ q # <<>> => Head(q) \in S /\ Tail(q) \in Seq(S)
OBVIOUS

\* Reporting a capture keeps the types.
LEMMA ReportTypes ==
  ASSUME TurnsTypeOK, NEW t \in Turns, NEW s \in StatementIds, NEW new, NEW clash,
         Report(t, s, new, clash)
  PROVE  /\ queue' \in [Turns -> Seq(StatementIds)]
         /\ conflicts' \in [Turns -> SUBSET StatementIds]
         /\ stored' \in [Turns -> SUBSET StatementIds]
         /\ \A u \in Turns \ {t} : queue'[u] = queue[u]
<1>1. Append(queue[t], s) \in Seq(StatementIds)
  BY DEF TurnsTypeOK
<1>. QED BY <1>1 DEF TurnsTypeOK, Report

\* Every step of a turn keeps the types.
LEMMA TurnStepTypes ==
  ASSUME TurnsTypeOK, NEW t \in Turns, TurnStep(t)
  PROVE  TurnsTypeOK'
<1> USE TurnsAssumption DEF TurnsTypeOK, Phase, Awaiting, Goto
<1>1. CASE Start(t)
  BY <1>1 DEF Start
<1>2. CASE Drop(t)
  BY <1>2 DEF Drop
<1>3. CASE Gated(t)
  BY <1>3 DEF Gated
<1>4. CASE Extracted(t)
  BY <1>4 DEF Extracted
<1>5. CASE Enriched(t)
  BY <1>5 DEF Enriched
<1>6. CASE CaptureContent(t)
  <2>1. PICK s \in StatementIds : \E new, clash : Report(t, s, new, clash)
    BY <1>6 DEF CaptureContent
  <2>2. /\ queue' \in [Turns -> Seq(StatementIds)]
        /\ conflicts' \in [Turns -> SUBSET StatementIds]
        /\ stored' \in [Turns -> SUBSET StatementIds]
        /\ \A u \in Turns \ {t} : queue'[u] = queue[u]
    BY <2>1, ReportTypes
  <2>3. /\ phase[t] = "capture" /\ left[t] > 0
        /\ left' = [left EXCEPT ![t] = @ - 1]
        /\ UNCHANGED <<phase, asked, verdicts, vectors>>
    BY <1>6 DEF CaptureContent
  <2>4. left' \in [Turns -> 0..MaxContents]
    BY <2>3
  <2>. QED BY <2>2, <2>3, <2>4
<1>7. CASE Captured(t) \/ CaptureThrows(t)
  BY <1>7 DEF Captured, CaptureThrows
<1>8. CASE Ask(t)
  BY <1>8 DEF Ask, LiveIds
<1>9. ASSUME NEW status \in {"resolved", "escalated"}, phase[t] = "asked", Judged(t, status)
      PROVE  TurnsTypeOK'
  <2>1. Head(queue[t]) \in StatementIds /\ Tail(queue[t]) \in Seq(StatementIds)
    BY <1>9
  <2>2. queue' \in [Turns -> Seq(StatementIds)]
    BY <1>9, <2>1 DEF Judged
  <2>3. verdicts' \in [Turns -> SUBSET (StatementIds \X {"resolved", "escalated"})]
    BY <1>9, <2>1 DEF Judged
  <2>4. /\ phase' \in [Turns -> {"idle", "capture", "adjudicate", "done", "failed"}
                                 \cup {"gate", "extract", "enrich", "asked", "embed"}]
        /\ \A u \in Turns : phase'[u] = "asked" => queue'[u] # <<>>
    BY <1>9, <2>1 DEF Judged
  <2>. QED BY <1>9, <2>2, <2>3, <2>4 DEF Judged
<1>10. CASE AnswerEscalates(t)
  BY <1>9, <1>10 DEF AnswerEscalates
<1>11. CASE Adjudicated(t)
  BY <1>11 DEF Adjudicated
<1>12. CASE Embedded(t)
  BY <1>12 DEF Embedded
<1>13. CASE \E by \in Agents : AnswerApplies(t, by)
  BY <1>9, <1>13 DEF AnswerApplies
<1>. QED
  BY <1>1, <1>2, <1>3, <1>4, <1>5, <1>6, <1>7, <1>8, <1>10, <1>11, <1>12, <1>13 DEF TurnStep

\* In every state of every behaviour the eight variables of the turns have their
\* types, and a turn that waits for the adjudicator still has its conflict queued.
THEOREM TurnsTypes == TurnsSpec => []TurnsTypeOK
<1>1. TurnsInit => TurnsTypeOK
  BY TurnsAssumption DEF TurnsInit, TurnsTypeOK, Phase, Awaiting
<1>2. TurnsTypeOK /\ [TurnsNext]_allVars => TurnsTypeOK'
  <2> SUFFICES ASSUME TurnsTypeOK, [TurnsNext]_allVars PROVE TurnsTypeOK'
    OBVIOUS
  <2>1. CASE Elsewhere
    BY <2>1 DEF Elsewhere, turnVars, TurnsTypeOK
  <2>2. CASE UNCHANGED allVars
    BY <2>2 DEF allVars, turnVars, TurnsTypeOK
  <2>. QED BY <2>1, <2>2, TurnStepTypes DEF TurnsNext
<1>. QED BY <1>1, <1>2, PTL DEF TurnsSpec

-----------------------------------------------------------------------------
(* Turns implement the slot *)

\* A step of a turn on the slot is the step of one operation, or none.
LEMMA TurnStepOnSlot ==
  ASSUME TurnsTypeOK, NEW t \in Turns, TurnStep(t)
  PROVE  [Next]_vars
<1>1. CASE CaptureContent(t)
  <2>1. PICK s \in StatementIds :
          \/ \E c \in Claim, card \in Cardinalities : CaptureNew(s, c, card)
          \/ RestateAgainstRival(s)
          \/ RestateToConfirm(s)
          \/ UNCHANGED vars
    BY <1>1 DEF CaptureContent, Restatement
  <2>. QED BY <2>1 DEF Next, Autocommitted
<1>2. CASE \E by \in Agents : AnswerApplies(t, by)
  <2>1. PICK by \in Agents : AnswerApplies(t, by)
    BY <1>2
  <2>2. PICK older \in asked[t] : AgentSupersede(Head(queue[t]), older, by)
    BY <2>1 DEF AnswerApplies
  <2>3. Head(queue[t]) \in StatementIds /\ older \in StatementIds /\ by \in Actors
    BY <2>1, <2>2 DEF TurnsTypeOK, AnswerApplies, Actors
  <2>. QED BY <2>2, <2>3 DEF Next, Transactional
<1>3. CASE Start(t) \/ Drop(t) \/ Gated(t) \/ Extracted(t) \/ Enriched(t) \/ Captured(t)
           \/ CaptureThrows(t) \/ Ask(t) \/ AnswerEscalates(t) \/ Adjudicated(t) \/ Embedded(t)
  BY <1>3 DEF Start, Drop, Gated, Extracted, Enriched, Captured, CaptureThrows, Ask,
              AnswerEscalates, Adjudicated, Embedded
<1>. QED BY <1>1, <1>2, <1>3 DEF TurnStep

\* However turns, tools and people interleave, and however stale the graph an
\* adjudicator's answer was based on, the slot makes only the steps of
\* Adjudication: the re-validation in applyAgentFactRelationProposal suffices.
THEOREM TurnsImplementSlot == TurnsSpec => SlotSpec
<1>1. TurnsInit => Init
  BY DEF TurnsInit
<1>2. TurnsTypeOK /\ [TurnsNext]_allVars => [Next]_vars
  <2> SUFFICES ASSUME TurnsTypeOK, [TurnsNext]_allVars PROVE [Next]_vars
    OBVIOUS
  <2>1. CASE Elsewhere
    BY <2>1 DEF Elsewhere
  <2>2. CASE UNCHANGED allVars
    BY <2>2 DEF allVars
  <2>. QED BY <2>1, <2>2, TurnStepOnSlot DEF TurnsNext
<1>. QED BY <1>1, <1>2, TurnsTypes, PTL DEF TurnsSpec, SlotSpec, Spec

\* So a single slot never holds two accepted values, and a conflict is never
\* without a case, under any interleaving of turns.
THEOREM TurnsKeepOneValue == TurnsSpec => [](SingleAccepted /\ FlagMatchesDocket)
BY TurnsImplementSlot, OneCurrentValue, NothingStuckNothingHidden, PTL DEF SlotSpec

\* A reader of the slot's values, between any two awaits of any number of turns,
\* sees a slot that keeps the contract, and no turn asks for a transition the
\* state machine refuses or leaves a slot that had an answer without one.
THEOREM TurnsKeepTheContract ==
  TurnsSpec => ImplementsGovernedSlot /\ LegalTransitions /\ AnswerNeverLost
BY TurnsImplementSlot, Refinement, OnlyLegalTransitions, AlwaysAnAnswer, PTL DEF SlotSpec

\* A conflict is reported as resolved only when its claim is the one current
\* value of the slot and nothing contradicts it, however stale the reading
\* was on which the adjudicator's answer rests.
THEOREM ReportsAreTrue == TurnsSpec => ResolvedIsCurrent
<1> DEFINE True ==
      \A t \in Turns, s \in StatementIds :
        <<s, "resolved">> \in verdicts'[t] \ verdicts[t] =>
          /\ Accepted' = {s}
          /\ LiveContradictions' = {}
<1>1. ASSUME IInv, TurnsTypeOK, [TurnsNext]_allVars PROVE True
  <2> SUFFICES ASSUME NEW t \in Turns, NEW s \in StatementIds,
                      <<s, "resolved">> \in verdicts'[t] \ verdicts[t]
               PROVE  Accepted' = {s} /\ LiveContradictions' = {}
    OBVIOUS
  <2>1. verdicts' # verdicts
    OBVIOUS
  <2>2. ASSUME NEW u \in Turns, NEW status, status # "resolved", Judged(u, status)
        PROVE  FALSE
    <3>1. verdicts' = [verdicts EXCEPT ![u] = @ \cup {<<Head(queue[u]), status>>}]
      BY <2>2 DEF Judged
    <3>2. verdicts'[t] \subseteq verdicts[t] \cup {<<Head(queue[u]), status>>}
      BY <1>1, <3>1 DEF TurnsTypeOK
    <3>. QED BY <2>2, <3>2
  <2>3. PICK u \in Turns, by \in Agents : AnswerApplies(u, by)
    <3>1. \E u \in Turns : TurnStep(u)
      BY <1>1, <2>1 DEF TurnsNext, Elsewhere, allVars, turnVars
    <3>. QED
      BY <2>1, <2>2, <3>1
      DEF TurnStep, Start, Drop, Gated, Extracted, Enriched, CaptureContent, CaptureThrows,
          Captured, Ask, AnswerEscalates, Adjudicated, Embedded
  <2>4. PICK older \in asked[u] : AgentSupersede(Head(queue[u]), older, by)
    BY <2>3 DEF AnswerApplies
  <2>5. Head(queue[u]) \in StatementIds /\ older \in StatementIds /\ by \in Actors
    BY <1>1, <2>3, <2>4 DEF TurnsTypeOK, AnswerApplies, Actors
  <2>6. verdicts' = [verdicts EXCEPT ![u] = @ \cup {<<Head(queue[u]), "resolved">>}]
    BY <2>3 DEF AnswerApplies, Judged
  <2>7. s = Head(queue[u])
    <3>1. verdicts'[t] \subseteq verdicts[t] \cup {<<Head(queue[u]), "resolved">>}
      BY <1>1, <2>6 DEF TurnsTypeOK
    <3>. QED BY <3>1
  <2>. QED BY <1>1, <2>4, <2>5, <2>7, AgentSupersedeIInv
<1>2. TurnsSpec => []IInv
  BY TurnsImplementSlot, Invariance, PTL DEF SlotSpec
<1>. QED BY <1>1, <1>2, TurnsTypes, PTL DEF TurnsSpec, ResolvedIsCurrent

-----------------------------------------------------------------------------
(* No conflict goes unanswered                                             *)

Queued(q) == {q[i] : i \in DOMAIN q}

\* The conflicts a turn has reported are those with a verdict and those still
\* in its queue, and an adjudicating turn goes on only when its queue is empty.
AnswerInv ==
  /\ TurnsTypeOK
  /\ \A t \in Turns : conflicts[t] = {v[1] : v \in verdicts[t]} \cup Queued(queue[t])
  /\ \A t \in Turns :
       phase[t] \in {"idle", "gate", "extract", "enrich"} => queue[t] = <<>>
  /\ \A t \in Adjudicating : phase[t] \in {"embed", "done"} => queue[t] = <<>>

\* What is queued after Append and before Tail.
LEMMA QueuedSteps ==
  ASSUME NEW S, NEW q \in Seq(S), NEW s \in S
  PROVE  /\ Queued(<<>>) = {}
         /\ Queued(Append(q, s)) = Queued(q) \cup {s}
         /\ q # <<>> => Queued(q) = {Head(q)} \cup Queued(Tail(q))
<1>1. Queued(<<>>) = {}
  BY DEF Queued
<1>2. Queued(Append(q, s)) = Queued(q) \cup {s}
  <2>1. DOMAIN q = 1 .. Len(q) /\ DOMAIN Append(q, s) = 1 .. Len(q) + 1 /\ Len(q) \in Nat
    OBVIOUS
  <2>2. /\ \A i \in 1 .. Len(q) : Append(q, s)[i] = q[i]
        /\ Append(q, s)[Len(q) + 1] = s
    OBVIOUS
  <2>3. Queued(Append(q, s)) \subseteq Queued(q) \cup {s}
    <3>1. ASSUME NEW i \in DOMAIN Append(q, s) PROVE Append(q, s)[i] \in Queued(q) \cup {s}
      <4>1. i \in 1 .. Len(q) \/ i = Len(q) + 1
        BY <2>1
      <4>. QED BY <4>1, <2>1, <2>2 DEF Queued
    <3>. QED BY <3>1 DEF Queued
  <2>4. Queued(q) \cup {s} \subseteq Queued(Append(q, s))
    <3>1. ASSUME NEW i \in DOMAIN q PROVE q[i] \in Queued(Append(q, s))
      <4>1. i \in DOMAIN Append(q, s) /\ Append(q, s)[i] = q[i]
        BY <2>1, <2>2
      <4>. QED BY <4>1 DEF Queued
    <3>2. s \in Queued(Append(q, s))
      <4>1. Len(q) + 1 \in DOMAIN Append(q, s)
        BY <2>1
      <4>. QED BY <4>1, <2>2 DEF Queued
    <3>. QED BY <3>1, <3>2 DEF Queued
  <2>. QED BY <2>3, <2>4
<1>3. ASSUME q # <<>> PROVE Queued(q) = {Head(q)} \cup Queued(Tail(q))
  <2>1. /\ DOMAIN q = 1 .. Len(q) /\ Len(q) \in Nat /\ Len(q) > 0 /\ Head(q) = q[1]
        /\ DOMAIN Tail(q) = 1 .. Len(q) - 1
        /\ \A i \in 1 .. Len(q) - 1 : Tail(q)[i] = q[i + 1]
    BY <1>3
  <2>2. ASSUME NEW i \in DOMAIN q PROVE q[i] \in {Head(q)} \cup Queued(Tail(q))
    <3>1. CASE i = 1
      BY <3>1, <2>1
    <3>2. CASE i # 1
      <4>1. i - 1 \in 1 .. Len(q) - 1 /\ (i - 1) + 1 = i
        BY <3>2, <2>1
      <4>2. Tail(q)[i - 1] = q[i] /\ i - 1 \in DOMAIN Tail(q)
        BY <4>1, <2>1
      <4>. QED BY <4>2 DEF Queued
    <3>. QED BY <3>1, <3>2
  <2>3. ASSUME NEW i \in DOMAIN Tail(q) PROVE Tail(q)[i] \in Queued(q)
    <3>1. i + 1 \in DOMAIN q /\ Tail(q)[i] = q[i + 1]
      BY <2>1
    <3>. QED BY <3>1 DEF Queued
  <2>4. Head(q) \in Queued(q)
    <3>1. 1 \in DOMAIN q
      BY <2>1
    <3>. QED BY <3>1, <2>1 DEF Queued
  <2>. QED BY <2>2, <2>3, <2>4 DEF Queued
<1>. QED BY <1>1, <1>2, <1>3

LEMMA AnswerStep ==
  ASSUME AnswerInv, NEW t \in Turns, TurnStep(t) PROVE AnswerInv'
<1>1. TurnsTypeOK'
  BY TurnStepTypes DEF AnswerInv
<1> DEFINE Account(u) == conflicts[u] = {v[1] : v \in verdicts[u]} \cup Queued(queue[u])
           Done(u) ==
             /\ phase[u] \in {"idle", "gate", "extract", "enrich"} => queue[u] = <<>>
             /\ u \in Adjudicating /\ phase[u] \in {"embed", "done"} => queue[u] = <<>>
<1>2. \A u \in Turns : Account(u) /\ Done(u)
  BY DEF AnswerInv
<1>3. ASSUME \A u \in Turns : Account(u)' /\ Done(u)' PROVE AnswerInv'
  BY <1>1, <1>3, TurnsAssumption DEF AnswerInv
<1>a. /\ phase \in [Turns -> Phase] /\ queue \in [Turns -> Seq(StatementIds)]
      /\ conflicts \in [Turns -> SUBSET StatementIds]
      /\ verdicts \in [Turns -> SUBSET (StatementIds \X {"resolved", "escalated"})]
  BY DEF AnswerInv, TurnsTypeOK
<1>4. CASE UNCHANGED <<conflicts, verdicts, queue>> /\ \E p : Goto(t, p) /\ Done(t)'
  <2>1. \A u \in Turns \ {t} : phase'[u] = phase[u]
    BY <1>4, <1>a DEF Goto
  <2>2. \A u \in Turns : Account(u)'
    BY <1>2, <1>4
  <2>3. \A u \in Turns : Done(u)'
    BY <1>2, <1>4, <2>1
  <2>. QED BY <1>3, <2>2, <2>3
<1>5. CASE Start(t) \/ Drop(t) \/ Gated(t) \/ Extracted(t) \/ Enriched(t) \/ Captured(t)
           \/ CaptureThrows(t) \/ Ask(t) \/ Adjudicated(t) \/ Embedded(t)
  <2>1. UNCHANGED <<conflicts, verdicts, queue>> /\ \E p : Goto(t, p)
    BY <1>5
    DEF Start, Drop, Gated, Extracted, Enriched, Captured, CaptureThrows, Ask, Adjudicated,
        Embedded
  <2>2. Done(t)'
    BY <1>2, <1>5, <1>a
    DEF Start, Drop, Gated, Extracted, Enriched, Captured, CaptureThrows, Ask, Adjudicated,
        Embedded, Goto
  <2>. QED BY <1>4, <2>1, <2>2
<1>6. CASE CaptureContent(t)
  <2>1. PICK s \in StatementIds : \E new, clash : Report(t, s, new, clash)
    BY <1>6 DEF CaptureContent
  <2>2. PICK new, clash : Report(t, s, new, clash)
    BY <2>1
  <2>3. phase[t] = "capture" /\ UNCHANGED <<phase, verdicts>>
    BY <1>6 DEF CaptureContent
  <2>4. /\ queue' = [queue EXCEPT ![t] = IF clash THEN Append(@, s) ELSE @]
        /\ conflicts' = [conflicts EXCEPT ![t] = IF clash THEN @ \cup {s} ELSE @]
    BY <2>2 DEF Report
  <2>5. \A u \in Turns \ {t} : queue'[u] = queue[u] /\ conflicts'[u] = conflicts[u]
    BY <2>4, <1>a
  <2>6. Queued(Append(queue[t], s)) = Queued(queue[t]) \cup {s}
    BY <1>a, QueuedSteps
  <2>7. Account(t)'
    <3>1. CASE clash
      <4>1. queue'[t] = Append(queue[t], s) /\ conflicts'[t] = conflicts[t] \cup {s}
        BY <2>4, <3>1, <1>a
      <4>. QED BY <4>1, <2>3, <2>6, <1>2
    <3>2. CASE ~clash
      <4>1. queue'[t] = queue[t] /\ conflicts'[t] = conflicts[t]
        BY <2>4, <3>2, <1>a
      <4>. QED BY <4>1, <2>3, <1>2
    <3>. QED BY <3>1, <3>2
  <2>. QED BY <1>2, <1>3, <2>3, <2>5, <2>7
<1>7. ASSUME NEW status, phase[t] = "asked", Judged(t, status) PROVE AnswerInv'
  <2>1. /\ verdicts' = [verdicts EXCEPT ![t] = @ \cup {<<Head(queue[t]), status>>}]
        /\ queue' = [queue EXCEPT ![t] = Tail(@)]
        /\ phase' = [phase EXCEPT ![t] = "adjudicate"]
        /\ UNCHANGED conflicts
    BY <1>7 DEF Judged, Goto
  <2>2. queue[t] # <<>> /\ queue[t] \in Seq(StatementIds)
    BY <1>7, <1>a DEF AnswerInv, TurnsTypeOK
  <2>3. Queued(queue[t]) = {Head(queue[t])} \cup Queued(Tail(queue[t]))
    <3>1. Head(queue[t]) \in StatementIds
      BY <2>2
    <3>. QED BY <2>2, <3>1, QueuedSteps
  <2>4. \A u \in Turns \ {t} :
          queue'[u] = queue[u] /\ verdicts'[u] = verdicts[u] /\ phase'[u] = phase[u]
    BY <2>1, <1>a
  <2>5. /\ queue'[t] = Tail(queue[t]) /\ phase'[t] = "adjudicate"
        /\ verdicts'[t] = verdicts[t] \cup {<<Head(queue[t]), status>>}
    BY <2>1, <1>a
  <2>6. {v[1] : v \in verdicts'[t]} = {v[1] : v \in verdicts[t]} \cup {Head(queue[t])}
    <3> DEFINE new == <<Head(queue[t]), status>>
    <3>1. new[1] = Head(queue[t]) /\ verdicts'[t] = verdicts[t] \cup {new}
      BY <2>5
    <3> HIDE DEF new
    <3>. QED BY <3>1
  <2>7. Account(t)'
    BY <1>2, <2>1, <2>3, <2>5, <2>6
  <2>. QED BY <1>2, <1>3, <2>1, <2>4, <2>5, <2>7
<1>8. CASE AnswerEscalates(t) \/ \E by \in Agents : AnswerApplies(t, by)
  BY <1>7, <1>8 DEF AnswerEscalates, AnswerApplies
<1>. QED BY <1>5, <1>6, <1>8 DEF TurnStep

\* Every conflict a turn opened has a verdict when the turn is done, for any
\* number of turns and conflicts, whatever fails and whoever interferes.
THEOREM EveryConflictIsAnswered == TurnsSpec => []EveryConflictAnswered
<1>1. TurnsInit => AnswerInv
  <2> SUFFICES ASSUME TurnsInit PROVE AnswerInv
    OBVIOUS
  <2>1. TurnsTypeOK
    BY TurnsAssumption DEF TurnsInit, TurnsTypeOK, Phase, Awaiting
  <2>2. Queued(<<>>) = {}
    BY DEF Queued
  <2>. QED BY <2>1, <2>2, TurnsAssumption DEF TurnsInit, AnswerInv
<1>2. AnswerInv /\ [TurnsNext]_allVars => AnswerInv'
  <2> SUFFICES ASSUME AnswerInv, [TurnsNext]_allVars PROVE AnswerInv'
    OBVIOUS
  <2>1. CASE UNCHANGED turnVars
    BY <2>1 DEF turnVars, AnswerInv, TurnsTypeOK
  <2>. QED BY <2>1, AnswerStep DEF TurnsNext, Elsewhere, allVars
<1>3. AnswerInv => EveryConflictAnswered
  <2>1. Queued(<<>>) = {}
    BY DEF Queued
  <2>. QED BY <2>1, TurnsAssumption DEF AnswerInv, EveryConflictAnswered
<1>. QED BY <1>1, <1>2, <1>3, PTL DEF TurnsSpec
=============================================================================
