# A TLA+ model of EdgeLore

EdgeLore keeps what a person and their agents know as a typed graph in a SQLite file. A language
model reads each conversation turn and proposes facts; the graph decides what it believes. This
directory holds TLA+ specifications of that second half, the TLC configurations that check them,
and proofs checked by TLAPS. Paths below are relative to the repository (`src/agent/...` and so on).

## 1. Inventory

Component | State it keeps | Operations | Interacts with
--- | --- | --- | ---
State machines (`src/model/state-machine.ts`) | none: two transition tables | `canTransitionFact`, `canTransitionConstraint` | called by the store before every change of state
Graph store (`src/model/store.ts`) | maps of nodes, edges, constraints, episodes | `addNode`, `addEdge`, `transitionNodeState`, `addConstraint`, `transitionConstraintState`, `evaluateConstraint`, `putEpisode`, `transaction` | everything
SQLite store (`src/store/sqlite.ts`) | the same maps, and a file with one row per object | each mutation: memory first, then one committed row; `transaction`; `loadAll` once | CLI, MCP server and web console open the same file
Capture (`src/agent/capture.ts`) | none of its own | `capture`: find or create the slot, dedupe, detect a clash, decide the state | store; called by the pipeline, tools, write plans
Conflicts (`src/agent/conflicts.ts`) | none: the docket is derived from dimension states and contradiction edges | `listConflicts`, `resolveConflict`, `confirmStatement`, `autoResolveConstraintGuided` | store, engine
Fact reconciler (`src/agent/fact-reconciler.ts`, `decision.ts`) | candidates read before a model call | `reconcileStatement` (async), `applyFactRelationProposal`, `applyAgentFactRelationProposal` | store, drivers
Constraint engine (`src/engine/evaluate.ts`) | none | `evaluate` of an expression to one of four outcomes | store resolves names to believed numbers
Governance of constraints (`src/model/store.ts`) | `activation_state`, `approved_by`, `approved_at` | add, transition, decide conflicts | conflicts
Turn pipeline (`src/agent/runtime.ts`, `gate.ts`, `extract.ts`, `graph-enrichment.ts`) | one promise per turn | `processTurn`: gate, extract, enrich, capture, adjudicate, embed | drivers (await), store (synchronous)
Write plans (`src/agent/graph-write.ts`, `graph-batch.ts`, `graph-enrichment.ts`) | references from plan to graph | normalise a model's reply into a plan; `commitGraphWritePlan` in one transaction | capture, store
Retrieval (`src/agent/retrieval.ts`; `retrievalContext`, `aboutRelatedHits`, `coldEpisodeEvidence` in `runtime.ts`) | vectors, cached bigrams | ranked hits, claims around them, quotations, blocks of slots under a line budget | store, embedder (await)
Drivers (`src/agent/*-driver.ts`, `http.ts`) | retry counter | a call that answers, fails or times out | pipeline
MCP server, CLI, web console, ask layer | a loaded graph | expose the operations above | store

What is hard in it:

* **Many ways to change one slot.** Six operations, each with its own guard against a second accepted
  value, may be called in any order by users, agents and rules.
* **Derived dockets.** A conflict is not an object: it is a flag on a dimension and the live ends of
  edges, and each operation maintains its part.
* **Torn operations.** Only write plans and reconciler proposals are transactions. The others are
  sequences of separately committed rows, which a crash or a refused write splits.
* **A cache without invalidation.** Each process answers from the graph it loaded when it started.
* **Plans of a model.** A reply names entities, facts and relations by references of its own, some wrong;
  it is applied as a whole or not at all, and the facts must be kept in either case.
* **Layers of failure.** A verdict takes up to three calls, each retried in transit, each of which may
  answer for a part, be unsure, or fail for good.
* **Awaits.** Between reading the graph for a model and applying the model's answer, other turns,
  tools and people change the graph.

What makes each part correct: at most one accepted value per single slot, never lost and never
silently replaced; flag and docket that agree; a history that leads to the current value; a file that
loads into a graph without dangling references; rules that judge only what is believed, and act only
in a human's name; turns that end, with a verdict for every conflict they open; plans that neither
dangle nor lose a fact nor make anything believed; a context that keeps to the scope asked for and to
its budget.

## 2. Modules

Module | Models | State and actions
--- | --- | ---
`FactStates` | the two transition tables | constants only
`Adjudication` | one slot under every operation on it | `dimension`, `cardinality`, `state`, `claim`, `contradicts`, `supersedes`; `CaptureNew`, `RestateAgainstRival`, `RestateToConfirm`, `Confirm`, `Resolve`, `AutoResolve`, `AgentSupersede`
`GovernedSlot` | what a slot promises to a reader of values | `kind`, `belief`, `retired`, `disputed`; `Open`, `Learn`, `Dispute`, `Decide`
`SlotContract` | the mapping from the first to the second | `Slot == INSTANCE GovernedSlot WITH ...`
`SharedFile` | a slot in its SQLite file | adds the file (`d...`), the `resident` graph and the rows left `todo`; `Begin`, `Write`, `WriteFails`, `Transact`, `Reopen`
`Expressions` | the constraint engine | operators, no state
`RuleCheck` | rules evaluated on a graph that changes | `body`, `statement`; `AddStatement`, `Transition`
`Governance` | the life of constraints | `activation`, `approver`, `stamped`, `decided`; `AddConstraint`, `TransitionConstraint`, `DecideConflict`
`Turns` | processTurn, several turns at a time, on one slot | adds phase, queue, readings and verdicts of each turn; one action per step between awaits, `Elsewhere`
`Relations` | relations applied by the reconciler, added to `Adjudication` | adds `outside`; `ApplyContradicts`, `ApplySupersedes`, `OvertakenFromOutside`, `OvertakesOutside`
`Adjudicator` | what an adjudication promises: one verdict | `state`, `verdict`; `Replace`, `Escalate`
`Reconciliation` | one claim through decision driver, model, reads and retries | `stage`, `attempts`, `shown`, `remaining`, `reads`, `proposals`; an action per answer or failure of a call, `Resolve`, `Escalate`
`Enrichment` | the organiser's reply made a plan | operators, no state
`BatchReply` | an import's reply made contents and a plan | operators, no state
`GraphWrite` | a turn or import written to memory and file, several slots and entities | `graph`, `saved`, `phase`, `turn`, `refs`, `heard`; `Begin`, `BeginBatch`, `FindEntity`, `CaptureFact`, `Promote`, `Relate`, `Infer`, `Commit`, `Abort`, `FallbackStep`, `Crash`, `Confirm`, `Decide`
`Retrieval` | candidates, fused ranking, the two boundaries | `state`, `query`, `candidates`
`Neighborhood` | claims reached through entities | operators over Retrieval
`ColdEvidence` | quotations from conversations, unit by unit | `sources`, whose `turn` it is and with which `unit`, `added`, `remainder`, `evidence`, `chars`; `Gather`, `Take`, `Pass`, `NextRound`, `Prioritize`
`Context` | retrievalContext as a whole | adds the active constraints, the hits, the messages, the blocks and the counts of lines; `Read`, `Retrieved`, `GatherEvidence`, `Quote`, `Choose`, `StartMessages`, `QuoteMessage`, `StartSlots`, `WriteSlot`, `SummariseSlot`, `Deliver`, and `Captured`, `Decided`, `ConstraintChanges` meanwhile
`*_proofs` | theorems about the modules they are named for |
`MC*` | model values, small rule sets and symmetry for TLC; `MCRules` puts `Governance` beside `RuleCheck` |

**Adjudication.** An operation is one synchronous function of a single-threaded process, so it is one
action, whose guard is the conjunction of the function's checks. A call that throws, or is deduplicated,
changes nothing and is a stuttering step. Left out are the CLI's raw `node add` and `edge add`
(`src/cli.ts`, lines 130-176), which write to the store without any of these functions. A claim carries what
the guards compare: its value, its channel (`created_by` and `saidBy` together, since only their equality
and whether the assistant speaks are asked) and its time. `Component` is the depth-first search of
`listConflicts`, stated as the smallest set closed under live contradictions. The initial slot is fresh, or
one that a database older than contradiction edges left in conflict. `AutoResolve` takes any rule that
separates the candidates, where the code takes the first in order of insertion; the model has all the
orders.

**SharedFile** takes the same operations apart. `Begin` runs an operation of `Adjudication` to its end in
the variables of that module, and notes in `todo` the rows it will write: those in which the graph before
and after differ (`Rows`). `Write` performs one of them on the resident graph and on the file, in the order
of the code (`Stage`, `Due`): a new dimension, the statement added or accepted, the contradiction, the
losers each with its audit edge, the state of the dimension. The order in which the losers of one case are
retired is left open: the code follows the order of its node map. `Reopen` is a crash, or an orderly end,
and a restart: a command of the CLI is `Begin`, its writes, and `Reopen`. There is one process at a time,
which is what `docs/shared-memory-m2-spec.md` (line 31) declares supported. `Transact` is an agent
supersession: its rows reach the file together. A transaction that fails restores memory and is a stutter.
The file is a second copy of Adjudication's variables, so that its integrity is stated by the very
invariants of that module (`Disk!TypeOK` and so on).

**Turns** composes Adjudication with the pipeline. Its variables are changed by the synchronous
part of one turn at a time (`MayRun`), while every phase in `Awaiting` lets others in. What models
answer is arbitrary within what the code accepts, so gate, extractor and adjudicator are choices.
The candidates shown to the adjudicator (`asked`) are those of the time of the question; the
supersession is checked when it is applied. A capture that the store refuses (`CaptureThrows`) ends the
turn without adjudicating what it has captured before.

**Relations** has the second way into a slot. A supersession may join two slots; of it the module has
the part in its own slot, and `outside` remembers which statements were retired from elsewhere.

**Reconciliation** is one item of `resolveCapturedConflicts`, from the choice of candidates to the
verdict; `Turns` has several of them with one answer each, `Reconciliation` opens the box of that
answer. It implements `Adjudicator`, with `verdict` read off `stage` (`Verdict`).

**GraphWrite** has two copies of a graph, memory and file. `Begin` takes a turn from `MCGraphWrite`:
what was said, and what the organiser replied, well formed or not; `Enrichment` makes the plan, as
`normalizeGraphEnrichment` does. The steps of `commitGraphWritePlan` follow one by one, so that a
refusal (`Abort`), or a crash, may come at any of them; `Commit` copies memory to the file. A turn
whose plan failed is captured again without it (`FallbackStep`), each claim a transaction of its own. An import
(`BeginBatch`) has contents and plan from one reply, which `BatchReply` merges. `CamelCase` are the keys a
mapping may name; keys known from before that rule are refused even for the facts that have them.

**Context** composes `Retrieval`, `Neighborhood` and `ColdEvidence`. What is random access to texts in
the code, how well a text fits, is given with the question: the ranking of each route, the entities
named, the conversations that match, and the units of a conversation in the order of their fit. An
empty list of sessions is taken for none. The limits of the search that are larger than the instances
(six direct hits, four named entities, eight claims of a layer) are left out. One line of a
quotation, a block or a summary is one line of the budget. The loops of `coldEpisodeEvidence` are taken
step by step: `turn` and `unit` are their indices, `Pass` is a unit that is skipped, `NextRound` the next
rank for every conversation, and `Prioritize` the change, after one round, to the second pass that a
question about a date makes. The loop over messages comes after it, as in the code. The walk through
entities has the three layers of `maxDepth`. A block notes the rules that give it a line (`RulesOn`):
active when it is written, of the scope asked for, and bound to its slot. What a rule line says of the rule's
outcome is not in the model.

**RuleCheck and Expressions.** JavaScript numbers are exact fractions; rounding, infinities and NaN are
left out, and the values TLC is given do not need them. The tree of an `ExpressionNode` is the sequence of
its nodes, literals and references among them, arguments before what they are arguments of; `Num`, `Ref`,
`Unary` and `Binary` build such sequences. `evalNum` and `evalBool` are functions on the nodes, each
computed from those of its arguments. `Operators` are the operators a stored rule may name, whether the
engine knows them or not, since a rule is only checked when it is evaluated.

Definitions marked `Mutant` are plausible bugs of the definition that follows them. No specification
uses them: each stands in for that definition when the properties are tested against faults.

## 3. Runs

Run | Bounds | What it shows
--- | --- | ---
`slot` | 3 statements, 3 values, 2 times, 3 channels, a human and an agent, a rule by each | `TypeOK`, `SingleAccepted`, `FlagMatchesDocket`, `ChallengersFaceIncumbent`, `OneStatementPerValue`, `HistoryReachesCurrent`, `OnlyAgentsDropClaims`; no step breaks `AnswerNeverLost`; every behaviour is one of the contract (`ImplementsGovernedSlot`)
`file_crash` | 3 statements, 3 values, crash between any two rows | `DurableIntegrity`, `WriteThrough`, `DurableAudit`, `DurableAnswer`
`rules` | 24 rule bodies over two names and none, 2 statements, numbers 0 and 2 and a text; 2 constraints, 2 humans, an agent | `NeverJudgesBlind`, `DeMorgan`, `SuggestionsAreInert`, `VerdictsOnlyLostWithBelief`; `OneApproverPerRule`
`turns` | 2 turns, of two captures and of one, fairness | `EveryConflictAnswered`, `SlotSpec`, `ResolvedIsCurrent`, `TurnsEnd`
`relations` | 3 statements, 3 values, 2 times, user and assistant, two values that differ in spacing only | `FlagMatchesDocket` and `AuditLeadsOn` survive the relations; `AnswerLeavesOnlyAcross`
`write_plan` | the turns and imports of `MCGraphWrite`, claims limited by `MaxClaims`, failures and crashes at every step | `WriteTypeOK`, `NothingDangles`, `TrustIsBacked`, `FactsSurvive`, `OrganisedTogether`, `TurnsDecideNothing`
`model_calls` | a claim and three others of its slot, at most 2 of them candidates, 3 confidences, a read, retries, fairness | `ReconciliationTypeOK`, `AnsweredOnce`, `RequestsBounded`, `SurestApplies`; implements `Adjudicator` (`Adjudicates`)
`context` | 7 claims of 5 slots, 2 messages, 3 conversations, 2 scopes, 2 rules, 960 questions, 7 lines | `ContextIsolated`, `OthersAsFallback`, `BudgetKept`, `SourcesFirst`

Why the bounds are enough: a case needs an incumbent and a challenger, and the interesting ones a second
challenger; a third statement gives that, and a history of three successive values. Two times tell newer
from older, and equal. The channels are an attributed user, an unattributed one and an assistant. In `turns`
two turns are enough for one to change what the other has read, and two conflicts of one turn for a failure
to come between them; `Elsewhere` adds people and tools. `MaxContents` bounds what one extraction yields.
The constraint `InOrder` removes what differs only in names or in the order of steps that touch nothing in
common: identities are taken in order, each with a value of its own, and gate and extraction of the second
turn come before the first starts. Liveness is thus checked of the behaviours within that bound. Deadlock is
not checked: a slot whose identities are used up, and a process whose turns are done, really stop. Statement
identities are interchangeable, so the safety runs on a slot use symmetry; the runs with liveness do not.

In `write_plan` the turns were chosen one per way a reply can be wrong or can meet the graph: a reference to
nothing, an entity known by another name or scope, two facts of one key, a governed relation, a mapping
to another key. In `context` the home is told three times, so that a block has a gap; one conversation
repeats another's text; rules take the lines that were kept for slots, and there are questions with
more slots and quotations than lines, so that both cases of `BudgetKept` occur. One rule is of one of the
two scopes, and the constraint `OneChange` lets one rule be activated or withdrawn during the embedding.
In `rules` the two modules share no state, so each moves only while the other rests.

**Fairness.** `FairTurnsSpec` assumes that a turn which can take a step eventually takes one. Awaited
calls go through `postJsonWithRetry`, which bounds the attempts and each attempt's time, and a
settled promise is resumed by the event loop. No fairness is assumed of the answers, of people or of
other turns; nor is a turn that was not started assumed to start. `FairSpec` of `Reconciliation` assumes the
same of one adjudication: `Retry` is bounded by `MaxRetries`, each request by its timeout.

### What the code does and its documentation does not say

These runs check a statement of the repository and find it violated. Each is described in full, with
the quotation, in `PROJECT.json` under `findings`.

Run | Violated | Shortest story
--- | --- | ---
`file_torn_accepted` | `DurableSingle` | crash in `resolveConflict` after the winner: two accepted values
`rules_documented` | `EveryStatementCounts` | a tentative number makes no verdict: only accepted statements are read (`src/model/store.ts:444`), where the comment of the same function (line 422), `docs/shared-memory-m1-spec.md` (line 111) and `docs/notes/conflicts.md` (line 73) say that every statement counts; these describe an earlier version, and `SuggestionsAreInert` is about the code as it is
`context_budget` | `BudgetHard` | a slot that fits is followed by its rule lines, which nothing limits (`src/agent/runtime.ts:1660`): the context is longer than the limit that line 139 calls hard, and `test/agent/runtime.test.ts` (line 434) asserts in an example without rules
`write_subjects` | `SubjectsKeptApart` | an import reports one value of one property for two subjects; `contentIdentity` (`src/agent/graph-batch.ts:182`) leaves the subject out, and one claim is written

More disagreements are stated in the modules, and TLC refutes each of them when it is put in place of the
properties of the configuration named:

Definition | Configuration | What happens
--- | --- | ---
`FlaggedStaysOnDocket` (`Adjudication`) | `slot` | two user challengers of one value; the agent supersedes the value by one of them; the other is tentative and on no docket (`src/agent/fact-reconciler.ts:265` keeps what is less certain on the docket)
`AssistantNeverReplaces` (`Adjudication`) | `slot` | the assistant's newer claim replaces its confirmed older one without a user (`src/agent/capture.ts:216`)
`LeavesOnlyDecided` (`Adjudication`) | `slot` | the first contradiction edge of a legacy conflict hides its old challenger (`src/agent/conflicts.ts:84`)
`SingleAccepted` (`Adjudication`) | `relations` | a human-approved supersession accepts its subject beside an accepted third statement of a single slot (`src/model/types.ts:114`)
`DurableIntegrity` (`SharedFile`) | `file_crash` with `FaultSpec` | a refused dimension row, and statements stored for it (`src/store/sqlite.ts:74`)
`ActiveHasHumanApprover` (`Governance`) | `rules` | a proposed rule that already names an agent as approver is activated (`src/model/store.ts:9`)
`OnlyOwnClaims` (`Context`) | `context` | with `scopeSessionIds` given, a slot in which the account has no claim is written with those of other accounts, tagged (`src/agent/runtime.ts:1449` and `1553`), although the option is documented so that "a retrieved dimension never renders another tenant's statements" (lines 156 to 158); a comment at line 1436 calls this fallback intended, and `OthersAsFallback` states it

`BudgetKept` says how far the budget of lines is exceeded, and what is lost. Beyond the limit are at most
the rule lines of the last slot written in full. And slots that were found vanish without the line with
their count that the comment of `retrievalContext` promises, in two cases: because rule lines took the lines
kept for the slots that follow, and then no more slots than there are rule lines; or because slots and
quotations together are more than the lines from the start, and then no more than both reasons add up to.

## 4. Proofs

All theorems hold for every value of the constants that satisfies the named assumptions
(`ConstantsAssumption`: channels and rules are as declared, and nobody is both human and agent;
`TurnsAssumption`; `GovernanceAssumption`; `RuleAssumption` and `OperatorAssumption`, that bodies are
well-formed trees and bindings name dimensions; `SameTextAssumption`; `ReconciliationAssumption`; those of
the modules of `Context`; `TurnsAreRead` and `BatchesAreRead`, that the fields of a reply are of their
types). The sets of statements, values and turns need not be finite; the candidates of a claim, and the
claims, messages, conversations, slots and rules of a context, are.

* `Adjudication_proofs`. The invariant `IInv` is the conjunction of `TypeOK`, `SingleAccepted`,
  `FlagMatchesDocket`, `ChallengersFaceIncumbent` and `OneStatementPerValue`. None of them is
  inductive alone: that a resolution leaves one accepted value needs the incumbent to be in the
  winner's case (`CaseCoversConflict`), which needs every open contradiction to face the accepted
  value, which needs the flag to guard confirmation, and so on. One lemma per operation shows that it
  keeps `IInv`. From it follow `TypeCorrect`, `OneCurrentValue`, `Deduplicated`,
  `NothingStuckNothingHidden`, `EveryCaseHasIncumbent`, `OnlyLegalTransitions` (which no run repeats) and
  `AlwaysAnAnswer`.
  `ClaimsLeaveByDecision` needs more: a second invariant says that a tentative challenger faces an
  accepted claim, or one an agent has retired. Its corollary `HumanDocketComplete` says that where no
  agent adjudicates every challenger is on the docket; `FlaggedStaysOnDocket`, which
  lacks the hypothesis, is refuted.
* `Adjudication_proofs` ends with `Refinement`, that a slot implements its contract: initial slots map to
  initial slots, and one lemma per operation says which step of `GovernedSlot` it is. That a promoted or
  winning value is not retired follows from `OneStatementPerValue`.
* `SharedFile_proofs`. What an operation may do is first said of its two ends alone (`OperationStep`: what
  it may add, accept and retire, given only the types), because after a crash the other invariants of the
  slot are lost. The invariant `FileInv` says that the file and what is still `todo` together are the graph
  the operation leaves (`Pending`), and that among what is left no loser is without the winner of its case
  (`Retiring`). From it `FileKeepsIntegrity`, `AcknowledgedIsStored`, `FileAuditIsTrue` and
  `FileKeepsAnAnswer`, for a crash at any row. `CleanRestartsAreInvisible`: processes that end between
  operations implement Adjudication, so that every theorem about a slot holds across them
  (`CleanRestartsKeepTheContract`), as `FileAtRestHasOneValue` does; with a crash inside an operation it
  does not (`file_torn_accepted`). This refinement (`CleanSpec`) has no run of its own: the proof is for all
  constants.
* `Turns_proofs`. `TurnsTypes`, and `TurnsImplementSlot`: each step of a turn is a step of Adjudication
  or leaves the slot alone, so all of the above holds under any interleaving (`TurnsKeepOneValue`,
  `TurnsKeepTheContract`).
  `ReportsAreTrue` combines this with what a supersession leaves behind. `EveryConflictIsAnswered` has an
  account as its invariant: the conflicts a turn has reported are those with a verdict and those in its queue.
* `Rules_proofs`. For the life of rules, `DecisionsHaveOneAuthor` and `ApprovalIsHuman`, by an invariant that
  says that a rule which has decided a conflict is still under the approver it then had. For their
  evaluation, all four properties of `rules`, for any rule bodies, bindings and graph. The two recursive
  functions are shown to be defined by a least counterexample (`NumDefined`, `TruthDefined`), and the same
  argument on nodes replaces induction on trees: a node that is `Answered` has only answered
  arguments (`AnsweredDown`), so a verdict rests on every node (`VerdictNeedsAll`); data is missing
  only where a dimension is empty (`MissingHasACause`); and an expression evaluates to the same wherever it
  stands (`Embedded`), so that `not`, `and` and `or` over whole bodies follow their truth tables.
  From these `VerdictsRestOnBelief` and `NegationIsDual`. The invariant `CheckInv` of the graph is
  about types and finiteness; with what a step leaves alone (`StatementsStay`), it gives
  `SuggestionsChangeNoVerdict` and `BeliefKeepsVerdicts`.
* In `Adjudication_proofs` also `AuditReachesCurrent`: the audit edges from a superseded statement are followed
  by sets closed under successors instead of paths, which makes an induction on their length
  unnecessary; a step only adds edges from what it retires to what it accepts (`HistoryStep`).
* `Relations_proofs`. Of `IInv` only the types and `FlagMatchesDocket` survive the relations; with
  them go `HistoryLeadsOn`, by the argument of `HistoryStep` with `outside` as a second place where a
  history may end, and `AnswersLeaveOnlyAcross`.
* `Reconciliation_proofs`. One invariant relates the stage to what has been sent, shown and answered:
  what remains and what is proposed for partition the candidates at every stage. From it the types,
  `EveryCandidateAnsweredOnce`, `RequestsStayBounded` and `TheSurestApplies`; and `OneVerdict`, the safety
  part of the refinement of `Adjudicator`.
* `Context_proofs`. All four properties of `context`, for any memory, question and limits, by an invariant
  in five parts. `FoundInv`: what the ranking and the walk through entities lead to is there and in scope,
  and stays so while other turns capture and decide (`MemoryGrows`). `QuotesInv`: the conversations chosen,
  and those quoted, are the account's own unless neither hits nor question lead to one of its own
  (`Fallback`), and every quotation is tagged by its origin. `BlocksInv`: a block shows members of its slot
  and rules of the scope, and is the account's, or of a slot where the account has nothing (`Apart`); this
  holds while the memory changes because that is over when the first block is written. From these
  `ScopeHidesTheRest` and `OthersAreToldApart`. `TurnsInv` says who has been `Served`: in the first round
  every conversation before the one whose turn it is, and none quoted twice; afterwards all. Being served is
  lasting (`ServedStays`): a unit that repeats a quotation or is too long for what is left stays so. From it
  `EveryConversationFirst`; the sum of characters its statement speaks of is a recursive function, shown to
  be defined by a least counterexample (`CharsDefined`). `BudgetInv` says that beside the lines written
  there is one left for each slot still to come (`Room`), except for what rules took and for what slots and
  quotations are too many from the start; `Fits` keeps it, and `BudgetIsKept` follows. That the rule lines
  of one slot are the whole excess holds because a slot is only begun, and only fits, below the limit.
* `GraphWrite_proofs`. All six properties of `write_plan`, by one invariant for any reply. First, what
  normalisation promises is shown of both kinds of reply (`TurnPlanFits`, `BatchPlanFits`): a plan whose facts
  are those of the turn, and whose relations start at facts, end at what is known and are not governed.
  `RefsInv` says how far each loop has bound references to recorded claims and existing entities, `GraphInv`
  how far memory may be ahead of the file. `TrustIsBacked` is not inductive: between `Promote` and
  `Relate` an entity is trusted before the relation that justifies it is written, so there the invariant asks
  for a relation that the plan is still to write.

Only model-checked: liveness (`TurnsEnd`, and that an adjudication ends, in `Adjudicates`), which is out of the
prover's reach.

## 5. Not modelled

* What models answer, prompts, the gate's and the extractor's normalisation of a single turn; the
  scores of retrieval, cached bigrams and stored vectors, which only give the rankings.
* The limits of a list of hits (64 or 8k for a route, 32 or 4k in all), larger than the instances of
  `context`; the early returns where there is no candidate, after which nothing is found either.
* The outcome a rule line reports, which is computed from the accepted statements of all scopes.
* Which property a key names, beyond the relation of compatible keys in `Enrichment`; how two names are
  recognised as one entity, beyond the relation of acronyms in `GraphWrite`.
* In `GraphWrite`: subjects that name a fact of the plan instead of an entity; the cardinality of a slot,
  which is fixed by its key where the code takes it from the first capture; the type of an entity, a
  boundary of identity like its scope, for which the scope stands; and the refusal of an entity of which two
  are stored, which these writers never bring about. The checks of a plan before its transaction are among
  the reasons of `Abort`.
* The CLI's raw `node add` and `edge add`.
* Rounding of numbers; formats of identifiers and times; usage accounting.
* The ask layer, the web console, tool schemas, recall triggers and evidence formatting, which add no
  state.
* Two processes on one file, which `docs/shared-memory-m2-spec.md` (line 31) excludes.
* The harness of the bulk importer: that it stops at a failing session, and what it reports.

## 6. Plan

1. `Slots`: two processes on one file, each with the graph it loaded: stale rows written over newer
   ones, and two dimensions created for one key with the lookup that finds the first.
2. `Context` with `Turns`: the hints a context gives to the extractor, and a turn that uses hints older
   than the slot it writes.

