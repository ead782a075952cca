---------------------------- MODULE Adjudication ----------------------------
(***************************************************************************)
(* One semantic slot of the memory graph: a core:dimension node, the       *)
(* core:statement nodes that claim a value for it, and the                 *)
(* core:contradicts / core:supersedes edges between them, under the        *)
(* operations the CLI, the MCP server and processTurn offer on them:       *)
(* capture, confirmStatement, resolveConflict, autoResolveConstraintGuided *)
(* and applyAgentFactRelationProposal. The CLI's raw node add and edge add *)
(* bypass them all, and are left out.                                      *)
(*                                                                         *)
(* Each operation is one synchronous function of a single-threaded         *)
(* process, hence one action here; SharedFile takes them apart into the    *)
(* durable writes they are made of.                                        *)
(***************************************************************************)
EXTENDS FactStates, Naturals

CONSTANTS
  StatementIds,        \* identities a statement may get (UUIDs, unordered)
  Values,              \* the values a claim may carry
  Times,               \* created_at stamps: live captures and dated imports
  Channels,            \* (created_by, saidBy) pairs a claim may come through
  AssistantChannels,   \* those with saidBy = "assistant"
  AttributedChannels,  \* those whose saidBy is defined
  Humans,              \* principals of the form human:<id>
  Agents,              \* principals of the form agent:<name>:<id>
  Rules,               \* active single-dimension constraints on this slot
  NoClaim              \* the claim of an identity not yet used

Claim == [value : Values, channel : Channels, at : Times]
Actors == Humans \cup Agents
Rule == [satisfies : SUBSET Values, approver : Actors]
Cardinalities == {"single", "multi"}

ASSUME ConstantsAssumption ==
  /\ Times \subseteq Nat
  /\ AssistantChannels \subseteq AttributedChannels
  /\ AttributedChannels \subseteq Channels
  /\ Humans \cap Agents = {}
  /\ Rules \subseteq Rule
  /\ NoClaim \notin Claim

VARIABLES
  dimension,    \* state of the core:dimension node, "absent" before it exists
  cardinality,  \* fixed when the dimension is created
  state,        \* acceptance state of each statement, "absent" if unused
  claim,        \* value, channel and created_at of each statement
  contradicts,  \* core:contradicts edges <<challenger, incumbent>>
  supersedes    \* core:supersedes edges <<winner, loser, created_by>>

vars == <<dimension, cardinality, state, claim, contradicts, supersedes>>

-----------------------------------------------------------------------------
(* State functions *)

Exists(s) == state[s] # "absent"

Live(s) == state[s] \in LiveState

LiveIds == {s \in StatementIds : Live(s)}
Accepted == {s \in StatementIds : state[s] = "accepted"}

\* The slot has a statement with this value, whatever became of it.
\* Mutant: history does not count.
HeldByLive(v) == \E s \in LiveIds : claim[s].value = v
Held(v) == \E s \in StatementIds : Exists(s) /\ claim[s].value = v

\* Accepted statements that hold another value than v.
\* Mutant: the clash may be with a claim nobody has accepted.
RivalsAnyLive(v) == {s \in LiveIds : claim[s].value # v}
Rivals(v) == {s \in Accepted : claim[s].value # v}

\* Contradictions both of whose ends are live.
LiveContradictions == {e \in contradicts : Live(e[1]) /\ Live(e[2])}

\* The connected component of s in the graph of live contradictions: what
\* every edge-closed set of live statements around s contains.
EdgeClosed(S) == \A e \in LiveContradictions : e[1] \in S <=> e[2] \in S

\* Mutant: s and its direct opponents only.
Opponents(s) == {s} \cup {x \in LiveIds : {<<s, x>>, <<x, s>>} \cap LiveContradictions # {}}
Component(s) ==
  {x \in LiveIds : \A S \in SUBSET LiveIds : s \in S /\ EdgeClosed(S) => x \in S}

\* Databases older than contradiction edges have none: there the whole
\* dimension is one case as soon as two of its statements are live.
LegacyCases ==
  IF \E a, b \in LiveIds : a # b THEN {LiveIds} ELSE {}

Cases ==
  IF contradicts = {} THEN LegacyCases
                      ELSE {Component(e[1]) : e \in LiveContradictions}

\* listConflicts, restricted to this dimension.
Docket == IF dimension = "conflict" THEN Cases ELSE {}

\* The audit record of a decision: an edge to each loser, in the decider's name.
\* Mutant: drawn from the losers.
AuditReversed(winner, losers, by) == {<<s, winner, by>> : s \in losers}
AuditEdges(winner, losers, by) == {<<winner, s, by>> : s \in losers}

-----------------------------------------------------------------------------
(* Initial states: a fresh slot, or one written before contradiction edges *)
(* existed, in which an accepted claim faces a tentative one.              *)

FreshSlot ==
  /\ dimension = "absent"
  /\ cardinality = "multi"
  /\ state = [s \in StatementIds |-> "absent"]
  /\ claim = [s \in StatementIds |-> NoClaim]

LegacyConflict ==
  /\ dimension = "conflict"
  /\ cardinality = "single"
  /\ \E a, b \in StatementIds, ca, cb \in Claim :
       /\ a # b
       /\ ca.value # cb.value
       /\ {ca.channel, cb.channel} \cap AssistantChannels = {}
       /\ state = [s \in StatementIds |->
                     IF s = a THEN "accepted" ELSE IF s = b THEN "tentative" ELSE "absent"]
       /\ claim = [s \in StatementIds |->
                     IF s = a THEN ca ELSE IF s = b THEN cb ELSE NoClaim]

Init ==
  /\ FreshSlot \/ LegacyConflict
  /\ contradicts = {}
  /\ supersedes = {}

-----------------------------------------------------------------------------
(* capture: the value is new to the slot.                                  *)
(* A capture without saidBy is treated as the user's. The cardinality of   *)
(* the content only counts when it creates the dimension.                  *)
(* Mutant: the statement is stored without creating its dimension.         *)

CaptureUnslotted(s, c, card) ==
  /\ ~Exists(s) /\ ~Held(c.value)
  /\ state' = [state EXCEPT ![s] = "tentative"]
  /\ claim' = [claim EXCEPT ![s] = c]
  /\ UNCHANGED <<dimension, cardinality, contradicts, supersedes>>

CaptureNew(s, c, card) ==
  LET kind    == IF dimension = "absent" THEN card ELSE cardinality
      clash   == kind = "single" /\ Rivals(c.value) # {}
      byUser  == c.channel \notin AssistantChannels
  IN
  /\ ~Exists(s)
  /\ ~Held(c.value)
  /\ cardinality' = kind
  /\ state' = [state EXCEPT ![s] = IF clash \/ ~byUser THEN "tentative" ELSE "accepted"]
  /\ claim' = [claim EXCEPT ![s] = c]
  /\ \/ /\ clash /\ byUser
        /\ \E r \in Rivals(c.value) : contradicts' = contradicts \cup {<<s, r>>}
        /\ dimension' = "conflict"
     \/ /\ ~(clash /\ byUser)
        /\ contradicts' = contradicts
        /\ dimension' = IF dimension = "absent" THEN "tentative" ELSE dimension
  /\ UNCHANGED supersedes

(* capture: the value is already there. Only a user's restatement of a     *)
(* tentative value changes anything: it confirms the value, or, against an *)
(* accepted rival, opens the conflict. Every other repeat, and one made    *)
(* while an adjudication runs, is deduplicated and changes nothing.        *)
(* Mutant: the contradiction is linked, the dimension is not flagged.      *)

RestateUnflagged(s) ==
  /\ state[s] = "tentative" /\ cardinality = "single"
  /\ \E r \in Rivals(claim[s].value) : contradicts' = contradicts \cup {<<s, r>>}
  /\ UNCHANGED <<dimension, cardinality, state, claim, supersedes>>

RestateAgainstRival(s) ==
  /\ state[s] = "tentative"
  /\ cardinality = "single"
  /\ \E r \in Rivals(claim[s].value) : contradicts' = contradicts \cup {<<s, r>>}
  /\ dimension' = "conflict"
  /\ UNCHANGED <<cardinality, state, claim, supersedes>>

RestateToConfirm(s) ==
  /\ state[s] = "tentative"
  /\ ~(cardinality = "single" /\ Rivals(claim[s].value) # {})
  /\ dimension # "conflict"
  /\ state' = [state EXCEPT ![s] = "accepted"]
  /\ UNCHANGED <<dimension, cardinality, claim, contradicts, supersedes>>

(* confirmStatement: a human promotes a tentative statement, unless that   *)
(* would put a second accepted value into a single slot.                   *)
(* Mutant: rivals are not looked for.                                      *)

ConfirmAnyway(s, by) ==
  /\ by \in Humans
  /\ state[s] = "tentative"
  /\ state' = [state EXCEPT ![s] = "accepted"]
  /\ UNCHANGED <<dimension, cardinality, claim, contradicts, supersedes>>

Confirm(s, by) ==
  /\ by \in Humans
  /\ state[s] = "tentative"
  /\ cardinality = "single" => Rivals(claim[s].value) = {}
  /\ state' = [state EXCEPT ![s] = "accepted"]
  /\ UNCHANGED <<dimension, cardinality, claim, contradicts, supersedes>>

(* resolveConflict: the winner of an open case is accepted, the others of  *)
(* that case are superseded, and the dimension is released when no case is *)
(* left open.                                                              *)

Resolve(case, winner, by) ==
  /\ by \in Humans
  /\ case \in Docket
  /\ winner \in case
  /\ state' = [s \in StatementIds |->
                 IF s = winner THEN "accepted"
                 ELSE IF s \in case THEN "superseded" ELSE state[s]]
  /\ supersedes' = supersedes \cup AuditEdges(winner, case \ {winner}, by)
  /\ UNCHANGED <<cardinality, claim, contradicts>>
  /\ dimension' = IF Cases' # {} THEN "conflict" ELSE "accepted"

(* autoResolveConstraintGuided: a rule that exactly one candidate of a     *)
(* case satisfies decides it, in the name of the rule's approver.          *)

AutoResolve(case, rule) ==
  LET candidates == {s \in case : state[s] \in {"tentative", "accepted"}}
      satisfied  == {s \in candidates : claim[s].value \in rule.satisfies}
  IN
  /\ case \in Docket
  /\ \E a, b \in candidates : a # b
  /\ \E winner \in satisfied :
       /\ satisfied = {winner}
       /\ Resolve(case, winner, rule.approver)

(* applyAgentFactRelationProposal: an agent may make the newer of two      *)
(* claims of one attributed channel current in a single slot.              *)
(* Mutant: the older claim is retired, the newer one is not accepted.      *)

AgentRetires(newer, older, by) ==
  /\ by \in Agents /\ cardinality = "single"
  /\ state[newer] = "tentative" /\ state[older] = "accepted"
  /\ claim[newer].at > claim[older].at
  /\ state' = [state EXCEPT ![older] = "superseded"]
  /\ supersedes' = supersedes \cup AuditEdges(newer, {older}, by)
  /\ UNCHANGED <<dimension, cardinality, claim, contradicts>>

AgentSupersede(newer, older, by) ==
  /\ by \in Agents
  /\ cardinality = "single"
  /\ state[newer] = "tentative"
  /\ state[older] = "accepted"
  /\ claim[newer].channel = claim[older].channel
  /\ claim[newer].channel \in AttributedChannels
  /\ claim[newer].at > claim[older].at
  /\ state' = [state EXCEPT ![newer] = "accepted", ![older] = "superseded"]
  /\ supersedes' = supersedes \cup AuditEdges(newer, {older}, by)
  /\ UNCHANGED <<cardinality, claim, contradicts>>
  /\ dimension' = IF dimension = "conflict" /\ LiveContradictions' = {}
                    THEN "accepted" ELSE dimension

\* The operations made of writes that are durable one by one.
Autocommitted ==
  \/ \E s \in StatementIds :
       \/ \E c \in Claim, card \in Cardinalities : CaptureNew(s, c, card)
       \/ RestateAgainstRival(s)
       \/ RestateToConfirm(s)
       \/ \E by \in Actors : Confirm(s, by)
  \/ \E case \in Docket :
       \/ \E winner \in case, by \in Actors : Resolve(case, winner, by)
       \/ \E rule \in Rules : AutoResolve(case, rule)

\* The one that is a transaction of the store.
Transactional ==
  \E newer, older \in StatementIds, by \in Actors : AgentSupersede(newer, older, by)

Next == Autocommitted \/ Transactional

Spec == Init /\ [][Next]_vars

-----------------------------------------------------------------------------
(* Correctness *)

\* Types of the six variables; statements need their dimension, only used
\* identities carry claims, and edges join used identities.
TypeOK ==
  /\ dimension \in {"absent", "tentative", "accepted", "conflict"}
  /\ cardinality \in Cardinalities
  /\ state \in [StatementIds -> {"absent", "tentative", "accepted", "superseded"}]
  /\ claim \in [StatementIds -> Claim \cup {NoClaim}]
  /\ \A s \in StatementIds : claim[s] = NoClaim <=> ~Exists(s)
  /\ dimension = "absent" => \A s \in StatementIds : ~Exists(s)
  /\ contradicts \in SUBSET (StatementIds \X StatementIds)
  /\ \A e \in contradicts : Exists(e[1]) /\ Exists(e[2])
  /\ supersedes \in SUBSET (StatementIds \X StatementIds \X Actors)

\* model/types.ts: a single-cardinality dimension holds at most one accepted
\* value, whatever captures, confirmations, human and rule resolutions and
\* agent supersessions are interleaved.
SingleAccepted ==
  cardinality = "single" =>
    \A a, b \in Accepted : claim[a].value = claim[b].value

\* The conflict flag and the docket agree: a dimension in conflict always has
\* a case somebody can resolve, and an open contradiction is never hidden
\* behind a dimension that is not flagged.
FlagMatchesDocket ==
  /\ dimension = "conflict" => Docket # {}
  /\ LiveContradictions # {} => dimension = "conflict"

\* Only single slots are ever in conflict, and every open contradiction is one
\* of a tentative challenger with the accepted value, so each case has an
\* incumbent.
ChallengersFaceIncumbent ==
  /\ dimension = "conflict" => cardinality = "single"
  /\ \A e \in LiveContradictions :
       state[e[1]] = "tentative" /\ state[e[2]] = "accepted"

\* agent/fact-reconciler.ts: what an agent does not decide stays in the human
\* docket. A claim that a user's clash has put there is never just dropped.
OnDocket(s) == \E case \in Docket : s \in case
FlaggedStaysOnDocket ==
  \A e \in contradicts : state[e[1]] = "tentative" => OnDocket(e[1])

\* What does hold: the claim leaves the docket by a decision about it, or when
\* an agent retires the claim it faces, and in no other way.
RetiredByAgent(s) == \E by \in Agents, w \in StatementIds : <<w, s, by>> \in supersedes
OnlyAgentsDropClaims ==
  \A e \in contradicts :
    state[e[1]] = "tentative" => OnDocket(e[1]) \/ RetiredByAgent(e[2])

\* agent/conflicts.ts: cases of databases older than contradiction edges are
\* listed too. What is listed, for whatever reason, leaves by a decision.
LeavesOnlyDecided ==
  [][\A case \in Docket : \A s \in case :
       state[s] = "tentative" /\ state'[s] = "tentative" =>
         OnDocket(s)']_vars

\* No two statements of a slot ever carry the same value: capture's dedupe is
\* what makes "the statement with that value" well defined.
OneStatementPerValue ==
  \A a, b \in StatementIds :
    Exists(a) /\ Exists(b) /\ claim[a].value = claim[b].value => a = b

\* Audit: from every superseded statement the supersedes edges lead, through
\* statements that are themselves superseded, to one that is accepted now.
SuccessorClosed(S) ==
  \A e \in supersedes : e[2] \in S => e[1] \in S
HistoryReachesCurrent ==
  \A s \in StatementIds :
    state[s] = "superseded" =>
      \A S \in SUBSET StatementIds :
        s \in S /\ SuccessorClosed(S) => S \cap Accepted # {}

\* No operation asks transitionNodeState for a move its table refuses (which
\* would throw halfway through), so superseded claims are never revived.
LegalTransitions ==
  [][/\ \A s \in StatementIds :
          Exists(s) => CanTransitionFact(state[s], state'[s])
     /\ dimension # "absent" => CanTransitionFact(dimension, dimension')]_vars

\* A slot that has a current value never loses it: each step that retires the
\* accepted claim accepts another in its place.
AnswerNeverLost == [][Accepted # {} => Accepted' # {}]_vars

\* agent/capture.ts: assistant-authored facts always await user confirmation.
\* So a claim of an assistant channel that replaces an accepted value does it
\* by the decision of a human.
AssistantNeverReplaces ==
  [][\A s \in Accepted' \ Accepted, o \in Accepted \ Accepted' :
       claim[s].channel \in AssistantChannels =>
         \E by \in Humans : <<s, o, by>> \in supersedes']_vars

=============================================================================
