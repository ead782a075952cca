------------------------------- MODULE Turns --------------------------------
(***************************************************************************)
(* processTurn over one slot, several turns at a time. Every model call is *)
(* an await, so between the steps of a turn other turns, tools and people  *)
(* change the graph the turn has read: gate, extraction and enrichment     *)
(* come before its captures, the adjudicator's answer between reading the  *)
(* candidates and applying the proposal, embedding after everything.       *)
(* The captures of a turn are one synchronous loop.                        *)
(*                                                                         *)
(* The slot is that of Adjudication, and what a turn captures is chosen    *)
(* when it is captured: the models' replies are arbitrary.                 *)
(***************************************************************************)
EXTENDS Adjudication, Sequences

CONSTANTS
  Turns,        \* turns being processed
  Adjudicating, \* those whose options configure conflictResolution
  MaxContents   \* bound on the contents one extraction yields

ASSUME TurnsAssumption == MaxContents \in Nat /\ Adjudicating \subseteq Turns

VARIABLES
  phase,      \* where each turn is
  left,       \* contents each turn still has to capture
  queue,      \* statements whose conflict it still has to adjudicate
  asked,      \* candidates the adjudicator was shown for the head of queue
  conflicts,  \* statements its captures reported in conflict
  verdicts,   \* <<statement, status>> of resolveCapturedConflicts
  stored,     \* statements it created
  vectors     \* statements that have an embedding

turnVars == <<phase, left, queue, asked, conflicts, verdicts, stored, vectors>>
allVars == <<vars, turnVars>>

Awaiting == {"gate", "extract", "enrich", "asked", "embed"}
Phase == {"idle", "capture", "adjudicate", "done", "failed"} \cup Awaiting

\* Between two awaits a turn is the only code that runs.
Synchronous(t) == phase[t] \in {"capture", "adjudicate"}
MayRun(t) == \A u \in Turns : Synchronous(u) => u = t

Goto(t, p) == phase' = [phase EXCEPT ![t] = p]

TurnsInit ==
  /\ Init
  /\ phase = [t \in Turns |-> "idle"]
  /\ left = [t \in Turns |-> 0]
  /\ queue = [t \in Turns |-> <<>>]
  /\ asked = [t \in Turns |-> {}]
  /\ conflicts = [t \in Turns |-> {}]
  /\ verdicts = [t \in Turns |-> {}]
  /\ stored = [t \in Turns |-> {}]
  /\ vectors = {}

-----------------------------------------------------------------------------
(* The pipeline of a turn *)

Start(t) ==
  /\ phase[t] = "idle" /\ MayRun(t)
  /\ Goto(t, "gate")
  /\ UNCHANGED <<vars, left, queue, asked, conflicts, verdicts, stored, vectors>>

\* The gate or the extractor drops the turn, or its call fails.
Drop(t) ==
  /\ phase[t] \in {"gate", "extract"} /\ MayRun(t)
  /\ \E p \in {"done", "failed"} : Goto(t, p)
  /\ UNCHANGED <<vars, left, queue, asked, conflicts, verdicts, stored, vectors>>

Gated(t) ==
  /\ phase[t] = "gate" /\ MayRun(t)
  /\ Goto(t, "extract")
  /\ UNCHANGED <<vars, left, queue, asked, conflicts, verdicts, stored, vectors>>

\* With graph enrichment one more call is awaited. Its plan commits or rolls
\* back as a whole, and a plan that fails falls back to plain captures.
Extracted(t) ==
  /\ phase[t] = "extract" /\ MayRun(t)
  /\ \E n \in 1..MaxContents : left' = [left EXCEPT ![t] = n]
  /\ \E p \in {"enrich", "capture"} : Goto(t, p)
  /\ UNCHANGED <<vars, queue, asked, conflicts, verdicts, stored, vectors>>

Enriched(t) ==
  /\ phase[t] = "enrich" /\ MayRun(t)
  /\ Goto(t, "capture")
  /\ UNCHANGED <<vars, left, queue, asked, conflicts, verdicts, stored, vectors>>

\* What the capture of one content reports: the statement, whether it is new,
\* whether it clashes.
Report(t, s, new, clash) ==
  /\ queue' = [queue EXCEPT ![t] = IF clash THEN Append(@, s) ELSE @]
  /\ conflicts' = [conflicts EXCEPT ![t] = IF clash THEN @ \cup {s} ELSE @]
  /\ stored' = [stored EXCEPT ![t] = IF new THEN @ \cup {s} ELSE @]

Restatement(s) == RestateAgainstRival(s) \/ RestateToConfirm(s)
Restatable(s) ==
  /\ state[s] = "tentative"
  /\ \/ cardinality = "single" /\ Rivals(claim[s].value) # {}
     \/ dimension # "conflict"

CaptureContent(t) ==
  /\ phase[t] = "capture" /\ left[t] > 0
  /\ left' = [left EXCEPT ![t] = @ - 1]
  /\ \E s \in StatementIds :
       \/ \E c \in Claim, card \in Cardinalities :
            /\ CaptureNew(s, c, card)
            /\ Report(t, s, TRUE, contradicts' # contradicts)
       \/ /\ Restatement(s)
          /\ Report(t, s, FALSE, state'[s] = "tentative")
       \/ /\ Exists(s)
          /\ AssistantChannels # {} \/ ~Restatable(s)
          /\ UNCHANGED vars
          /\ Report(t, s, FALSE, FALSE)
  /\ UNCHANGED <<phase, asked, verdicts, vectors>>

\* A capture throws (the store refuses a row): what was captured before it
\* stays, its conflicts unadjudicated, and the turn fails.
CaptureThrows(t) ==
  /\ phase[t] = "capture" /\ left[t] > 0
  /\ Goto(t, "failed")
  /\ UNCHANGED <<vars, left, queue, asked, conflicts, verdicts, stored, vectors>>

Captured(t) ==
  /\ phase[t] = "capture" /\ left[t] = 0
  /\ Goto(t, IF t \in Adjudicating THEN "adjudicate" ELSE "embed")
  /\ UNCHANGED <<vars, left, queue, asked, conflicts, verdicts, stored, vectors>>

\* resolveCapturedConflicts and reconcileStatement: the live statements of the
\* slot are shown to the adjudicator, who answers some time later.
Ask(t) ==
  /\ phase[t] = "adjudicate" /\ queue[t] # <<>>
  /\ asked' = [asked EXCEPT ![t] = LiveIds \ {Head(queue[t])}]
  /\ Goto(t, "asked")
  /\ UNCHANGED <<vars, left, queue, conflicts, verdicts, stored, vectors>>

\* Mutant: the first verdict ends the loop.
JudgedOnce(t, status) ==
  /\ verdicts' = [verdicts EXCEPT ![t] = @ \cup {<<Head(queue[t]), status>>}]
  /\ queue' = [queue EXCEPT ![t] = <<>>]
  /\ asked' = [asked EXCEPT ![t] = {}]
  /\ Goto(t, "adjudicate")
  /\ UNCHANGED <<left, conflicts, stored, vectors>>
Judged(t, status) ==
  /\ verdicts' = [verdicts EXCEPT ![t] = @ \cup {<<Head(queue[t]), status>>}]
  /\ queue' = [queue EXCEPT ![t] = Tail(@)]
  /\ asked' = [asked EXCEPT ![t] = {}]
  /\ Goto(t, "adjudicate")
  /\ UNCHANGED <<left, conflicts, stored, vectors>>

\* The answer names a supersession that the graph, as it is now, still allows.
\* Mutant: it is applied to the graph as it was read.
AnswerAppliesUnchecked(t, by) ==
  /\ phase[t] = "asked" /\ MayRun(t)
  /\ \E older \in asked[t] :
       state' = [state EXCEPT ![Head(queue[t])] = "accepted", ![older] = "superseded"]
  /\ UNCHANGED <<dimension, cardinality, claim, contradicts, supersedes>>
  /\ Judged(t, "resolved")
AnswerApplies(t, by) ==
  /\ phase[t] = "asked" /\ MayRun(t)
  /\ \E older \in asked[t] : AgentSupersede(Head(queue[t]), older, by)
  /\ Judged(t, "resolved")

\* It names none, or none that is allowed, or the call fails.
\* Mutants: a refused supersession counts as one; a failed call is made again.
AnswerMisreported(t) ==
  /\ phase[t] = "asked" /\ MayRun(t)
  /\ \E status \in {"resolved", "escalated"} : Judged(t, status)
  /\ UNCHANGED vars
AnswerRetried(t) ==
  /\ phase[t] = "asked" /\ MayRun(t)
  /\ Goto(t, "adjudicate")
  /\ asked' = [asked EXCEPT ![t] = {}]
  /\ UNCHANGED <<vars, left, queue, conflicts, verdicts, stored, vectors>>
AnswerEscalates(t) ==
  /\ phase[t] = "asked" /\ MayRun(t)
  /\ Judged(t, "escalated")
  /\ UNCHANGED vars

Adjudicated(t) ==
  /\ phase[t] = "adjudicate" /\ queue[t] = <<>>
  /\ Goto(t, "embed")
  /\ UNCHANGED <<vars, left, queue, asked, conflicts, verdicts, stored, vectors>>

\* Vectors are derived data: when the call fails the turn succeeds without.
Embedded(t) ==
  /\ phase[t] = "embed" /\ MayRun(t)
  /\ vectors' \in {vectors, vectors \cup stored[t]}
  /\ Goto(t, "done")
  /\ UNCHANGED <<vars, left, queue, asked, conflicts, verdicts, stored>>

TurnStep(t) ==
  \/ Start(t) \/ Drop(t) \/ Gated(t) \/ Extracted(t) \/ Enriched(t)
  \/ CaptureContent(t) \/ CaptureThrows(t) \/ Captured(t)
  \/ Ask(t) \/ AnswerEscalates(t) \/ Adjudicated(t) \/ Embedded(t)
  \/ \E by \in Agents : AnswerApplies(t, by)

\* A person or another tool works on the slot while the turns wait.
Elsewhere ==
  /\ \A t \in Turns : ~Synchronous(t)
  /\ Next
  /\ UNCHANGED turnVars

TurnsNext == Elsewhere \/ \E t \in Turns : TurnStep(t)

TurnsSpec == TurnsInit /\ [][TurnsNext]_allVars

\* Every awaited call returns or times out (postJsonWithRetry bounds both the
\* attempts and each attempt's time), so a turn that can go on does.
FairTurnsSpec == TurnsSpec /\ \A t \in Turns : WF_allVars(TurnStep(t) /\ phase[t] # "idle")

-----------------------------------------------------------------------------
(* Correctness *)

TurnsTypeOK ==
  /\ phase \in [Turns -> Phase]
  /\ left \in [Turns -> 0..MaxContents]
  /\ queue \in [Turns -> Seq(StatementIds)]
  /\ \A t \in Turns : phase[t] = "asked" => queue[t] # <<>>
  /\ asked \in [Turns -> SUBSET StatementIds]
  /\ conflicts \in [Turns -> SUBSET StatementIds]
  /\ verdicts \in [Turns -> SUBSET (StatementIds \X {"resolved", "escalated"})]
  /\ stored \in [Turns -> SUBSET StatementIds]
  /\ vectors \in SUBSET StatementIds

\* Whatever turns and people interleave, and however old the reading an answer
\* is based on, the slot only ever makes the steps of Adjudication.
SlotSpec == Spec

\* runtime.ts: every newly opened conflict is adjudicated or returned as an
\* escalation. No verdict is lost when one of several is decided.
EveryConflictAnswered ==
  \A t \in Adjudicating :
    phase[t] = "done" => conflicts[t] = {v[1] : v \in verdicts[t]}

\* A conflict reported as resolved is: at the moment of the report the claim is
\* the current one, on the graph as it then is and not as it was read.
ResolvedIsCurrent ==
  [][\A t \in Turns, s \in StatementIds :
       <<s, "resolved">> \in verdicts'[t] \ verdicts[t] =>
         /\ Accepted' = {s}
         /\ LiveContradictions' = {}]_allVars

\* A turn that was started ends, whatever the models answer or fail to.
TurnsEnd == \A t \in Turns : phase[t] = "gate" ~> phase[t] \in {"done", "failed"}

=============================================================================
