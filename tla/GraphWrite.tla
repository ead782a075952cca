----------------------------- MODULE GraphWrite -----------------------------
(***************************************************************************)
(* The writing half of a turn: the facts the extractor produced, organised *)
(* by a plan (Enrichment) that commitGraphWritePlan commits in one         *)
(* transaction, or captured one by one when the plan is refused. Entities, *)
(* the slots bound to them, the claims in the slots, and the relations     *)
(* from claims to entities.                                                *)
(*                                                                         *)
(* A plan is committed by one synchronous function; it is taken apart here *)
(* into its loops, since the store may refuse a write, and the process may *)
(* stop, inside any of them.                                               *)
(***************************************************************************)
EXTENDS BatchReply

CONSTANTS
  SingleKeys,   \* keys whose slots hold one value; the others hold many
  Acronyms,     \* pairs of names of which one is the acronym of the other
  Turns,        \* what a turn may bring: [contents, reply] records
  Batches,      \* what an import may bring: replies of BatchReply
  Nowhere,      \* the target of a reference that names nothing
  MaxClaims     \* bound: no turn begins once the file holds this many claims

Entities == Scopes \X Names
Slots == (Entities \cup {Owner}) \X Keys
Claims == Slots \X Values

VARIABLES
  graph,   \* the resident graph: [dimension, claim, contradicts, entity, label, relation]
  saved,   \* what the file holds: the graph of the last commit
  phase,   \* the loop of the turn that runs
  turn,    \* its contents and plan, and the facts or drafts left in that loop
  refs,    \* what the plan's references have become
  heard    \* facts of the turns that have ended

vars == <<graph, saved, phase, turn, refs, heard>>

ASSUME GraphWriteAssumption ==
  /\ SingleKeys \subseteq Keys /\ NoKey \notin Keys
  /\ Names \cap Nat = {}
  /\ Entities \cap Claims = {}
  /\ Nowhere \notin Entities \cup Claims

\* What a turn or an import brings is read field by field, each of its type. There
\* is no subject before the organisation.
Mapping ==
  [fact : Names \cup {NoName} \cup Nat, subject : Names \cup {Owner}, key : Keys \cup {NoKey}]

ASSUME TurnsAreRead ==
  \A t \in Turns :
    /\ \A f \in DOMAIN t.contents : t.contents[f] \in Content /\ t.contents[f].subject = Owner
    /\ \A m \in Listed(t.reply.mappings) : m \in Mapping
    /\ Listed(t.reply.entities) \subseteq Draft
    /\ Listed(t.reply.relations) \subseteq Relation

ASSUME BatchesAreRead ==
  \A b \in Batches :
    /\ Considered(b) \in Seq(Entry)
    /\ \A f \in DOMAIN Considered(b) : WellFormed(Considered(b)[f])
    /\ Positions(b) \subseteq DOMAIN Considered(b)
    /\ b.mappings \in Seq(Mapping)
    /\ Listed(b.entities) \subseteq Draft
    /\ Listed(b.relations) \subseteq Relation

SlotOf(c) == c[1]
ValueOf(c) == c[2]
Subject(slot) == slot[1]

Existing(g) == {e \in Entities : g.entity[e] # "absent"}
Recorded(g) == {c \in Claims : g.claim[c] # "absent"}
Live(g) == {c \in Claims : g.claim[c] \in {"tentative", "accepted"}}

-----------------------------------------------------------------------------
(* capture of one fact in its slot, as a function of the graph: see        *)
(* Adjudication for the cases.                                             *)

Rivals(g, c) ==
  {r \in Claims : /\ SlotOf(r) = SlotOf(c) /\ ValueOf(r) # ValueOf(c)
                  /\ g.claim[r] = "accepted" /\ SlotOf(c)[2] \in SingleKeys}

Capture(g, fact) ==
  LET slot   == <<fact.subject, fact.key>>
      c      == <<slot, fact.value>>
      was    == g.claim[c]
      byUser == fact.said = "user"
      clash  == Rivals(g, c) # {}
      flag   == clash /\ byUser /\ was \in {"absent", "tentative"}
      accept == /\ ~clash /\ byUser
                /\ \/ was = "absent"
                   \/ was = "tentative" /\ g.dimension[slot] # "conflict"
  IN [g EXCEPT
        !.claim[c] = IF accept THEN "accepted" ELSE IF @ = "absent" THEN "tentative" ELSE @,
        !.contradicts = IF flag THEN @ \cup {<<c, CHOOSE r \in Rivals(g, c) : TRUE>>} ELSE @,
        !.dimension[slot] = IF flag THEN "conflict" ELSE IF @ = "absent" THEN "tentative" ELSE @]

-----------------------------------------------------------------------------
(* Identity                                                                *)

SameName(a, b) == a = b \/ <<a, b>> \in Acronyms \/ <<b, a>> \in Acronyms

DraftSurfaces(draft) == {draft.ref, draft.name, draft.label}
Surfaces(g, e) == {e[2], g.label[e]}

\* The stored entity a draft is: of its key, or the only one that shares a name.
\* Type and scope are hard boundaries alike; the scope here stands for both. Two
\* stored entities of one key, which the code refuses, these writers never make.
SameAs(g, draft) ==
  IF <<draft.scope, draft.name>> \in Existing(g) THEN {<<draft.scope, draft.name>>}
  ELSE LET matches == {e \in Existing(g) :
                         /\ e[1] = draft.scope
                         /\ \E a \in DraftSurfaces(draft), b \in Surfaces(g, e) : SameName(a, b)}
       IN {e \in matches : matches = {e}}

\* What a reference stands for: a draft of the plan, by its ref or the only one
\* with that name, or the only stored entity so named.
Resolved(g, plan, ref) ==
  LET refsOf == {d.ref : d \in {d \in plan.entities : ref \in DraftSurfaces(d)}}
      stored == {e \in Existing(g) : ref \in Surfaces(g, e)}
  IN IF ref \in {d.ref : d \in plan.entities} \/ ref = Owner THEN ref
     ELSE IF \E d \in refsOf : refsOf = {d} THEN CHOOSE d \in refsOf : TRUE
     ELSE IF \E e \in stored : stored = {e} THEN CHOOSE e \in stored : TRUE
     ELSE Nowhere
Addressed(g, plan, fact) == [fact EXCEPT !.subject = Resolved(g, plan, @)]

-----------------------------------------------------------------------------
(* A turn                                                                  *)

EmptyGraph ==
  [dimension   |-> [slot \in Slots |-> "absent"],
   claim       |-> [c \in Claims |-> "absent"],
   contradicts |-> {},
   entity      |-> [e \in Entities |-> "absent"],
   label       |-> [e \in Entities |-> NoName],
   relation    |-> {}]

NoPlan == [entities |-> {}, facts |-> <<>>, relations |-> {}]
NoTurn == [contents |-> <<>>, said |-> {}, plan |-> NoPlan, bulk |-> FALSE, todo |-> {}]
NoRefs == [r \in {} |-> Nowhere]

Init ==
  /\ graph = EmptyGraph
  /\ saved = EmptyGraph
  /\ phase = "idle"
  /\ turn = NoTurn
  /\ refs = NoRefs
  /\ heard = {}

InTransaction == phase \in {"entities", "facts", "promote", "relate", "infer", "commit"}

\* The reply is normalised before the transaction; a refused one leads to the
\* plain captures. References of facts are resolved against the graph as it is.
\* said is what was told: the facts, under the keys the plan gives them.
Ready == phase = "idle" /\ Cardinality(Recorded(saved)) < MaxClaims

Organise(contents, said, plan, bulk) ==
  /\ phase' = "entities"
  /\ turn' = [contents |-> contents, said |-> said, bulk |-> bulk, todo |-> plan.entities,
              plan |-> [plan EXCEPT !.facts =
                          [f \in DOMAIN contents |-> Addressed(graph, plan, plan.facts[f])]]]

CaptureOnly(contents, bulk) ==
  /\ phase' = "fallback"
  /\ turn' = [contents |-> contents, said |-> Listed(contents), bulk |-> bulk,
              plan |-> NoPlan, todo |-> DOMAIN contents]

Begin(t) ==
  /\ Ready
  /\ IF OneMappingPerFact(t.reply, t.contents)
       THEN Organise(t.contents, Listed(t.contents), Plan(t.reply, t.contents), FALSE)
       ELSE CaptureOnly(t.contents, FALSE)
  /\ UNCHANGED <<graph, saved, refs, heard>>

\* A reply whose decisions are not complete brings nothing at all.
SaidIn(b) ==
  UNION {{[key |-> Integrated(b).mappings[f].key, value |-> Considered(b)[i].value,
           said |-> Considered(b)[i].said, subject |-> Considered(b)[i].subject] :
             i \in {i \in Twins(b, f) : b.expected = {} => i = f}} : f \in Positions(b)}

BeginBatch(b) ==
  /\ Ready
  /\ DecisionsComplete(b)
  /\ IF MappingsUsable(b)
       THEN Organise(BatchContents(b), SaidIn(b), BatchPlan(b), TRUE)
       ELSE CaptureOnly(BatchContents(b), TRUE)
  /\ UNCHANGED <<graph, saved, refs, heard>>

\* Every step of the transaction may throw; the graph is then restored. A turn
\* captures its facts without the plan; an import hands the error on.
\* Mutant: entities and their labels are not restored.
Undone ==
  /\ refs' = NoRefs
  /\ UNCHANGED <<saved, heard>>
  /\ IF turn.bulk THEN phase' = "idle" /\ turn' = NoTurn
                  ELSE /\ phase' = "fallback"
                       /\ turn' = [turn EXCEPT !.todo = DOMAIN turn.contents]

AbortKeepingEntities ==
  /\ InTransaction
  /\ graph' = [saved EXCEPT !.entity = graph.entity, !.label = graph.label]
  /\ Undone
Abort ==
  /\ InTransaction
  /\ graph' = saved
  /\ Undone

Bind(ref, id) == refs' = [r \in DOMAIN refs \cup {ref} |-> IF r = ref THEN id ELSE refs[r]]

\* Entities: reuse, or create as tentative. Which of two drafts is looked up
\* first is left open; a draft without a usable key cannot go on (Abort).
FindEntity(draft) ==
  LET found == SameAs(graph, draft)
      fresh == <<draft.scope, draft.name>>
  IN /\ phase = "entities"
     /\ draft \in turn.todo
     /\ draft.name # NoName
     /\ turn' = [turn EXCEPT !.todo = @ \ {draft}]
     /\ \/ /\ \E e \in found : Bind(draft.ref, e)
           /\ graph' = graph
        \/ /\ found = {}
           /\ Bind(draft.ref, fresh)
           /\ graph' = [graph EXCEPT !.entity[fresh] = "tentative", !.label[fresh] = draft.label]
     /\ UNCHANGED <<saved, phase, heard>>

\* Facts in their order, in the slots their subjects and keys name. An
\* unresolved subject cannot go on (Abort).
\* Mutant: it does, with an identity nobody has created.
SubjectOf(fact) ==
  IF fact.subject \in Names THEN refs[fact.subject] ELSE fact.subject
First(f) == \A other \in turn.todo : f <= other

CaptureAnySubject(f) ==
  /\ phase = "facts" /\ f \in turn.todo /\ First(f)
  /\ \E s \in {<<Context, n>> : n \in Names} \cup {Owner} :
       LET fact == [turn.plan.facts[f] EXCEPT !.subject = s]
       IN /\ graph' = Capture(graph, fact)
          /\ Bind(f, <<<<s, fact.key>>, fact.value>>)
  /\ turn' = [turn EXCEPT !.todo = @ \ {f}]
  /\ UNCHANGED <<saved, phase, heard>>
CaptureFact(f) ==
  LET fact == [turn.plan.facts[f] EXCEPT !.subject = SubjectOf(turn.plan.facts[f])]
  IN /\ phase = "facts"
     /\ f \in turn.todo
     /\ First(f)
     /\ fact.subject \in Existing(graph) \cup {Owner}
     /\ graph' = Capture(graph, fact)
     /\ Bind(f, <<<<fact.subject, fact.key>>, fact.value>>)
     /\ turn' = [turn EXCEPT !.todo = @ \ {f}]
     /\ UNCHANGED <<saved, phase, heard>>

\* Entities are trusted when an accepted claim of the plan supports them.
\* Mutant: when any claim does.
SupportedByAny(draft) ==
  \E r \in turn.plan.relations : r.to = draft.ref /\ r.from \in DOMAIN turn.contents
Supported(draft) ==
  \E r \in turn.plan.relations :
    /\ r.to = draft.ref
    /\ r.from \in DOMAIN turn.contents
    /\ graph.claim[refs[r.from]] = "accepted"

Promote ==
  LET trusted == {refs[d.ref] : d \in {d \in turn.plan.entities : Supported(d)}}
  IN /\ phase = "promote"
     /\ graph' = [graph EXCEPT !.entity =
                    [e \in Entities |-> IF e \in trusted THEN "accepted" ELSE @[e]]]
     /\ phase' = "relate"
     /\ UNCHANGED <<saved, turn, refs, heard>>

\* Relations, at most one of a type between two nodes.
Relate ==
  /\ phase = "relate"
  /\ graph' = [graph EXCEPT !.relation =
                 @ \cup {<<r.type, refs[r.from], refs[r.to]>> : r \in turn.plan.relations}]
  /\ phase' = "infer"
  /\ UNCHANGED <<saved, turn, refs, heard>>

\* A fact whose value is the name of exactly one other entity is about it.
Inferred(f) ==
  LET named == {e \in Existing(graph) \ {SubjectOf(turn.plan.facts[f])} :
                  turn.contents[f].value \in Surfaces(graph, e)}
  IN {<<"about", refs[f], e>> : e \in {e \in named : named = {e}}}

Infer ==
  /\ phase = "infer"
  /\ graph' = [graph EXCEPT !.relation = @ \cup UNION {Inferred(f) : f \in DOMAIN turn.contents}]
  /\ phase' = "commit"
  /\ UNCHANGED <<saved, turn, refs, heard>>

\* The end of a loop.
Loop ==
  /\ turn.todo = {}
  /\ \/ /\ phase = "entities"
        /\ phase' = "facts"
        /\ turn' = [turn EXCEPT !.todo = DOMAIN turn.contents]
     \/ /\ phase = "facts"
        /\ phase' = "promote"
        /\ turn' = turn
  /\ UNCHANGED <<graph, saved, refs, heard>>

EndTurn ==
  /\ phase' = "idle"
  /\ turn' = NoTurn
  /\ refs' = NoRefs
  /\ heard' = heard \cup turn.said

Commit ==
  /\ phase = "commit"
  /\ saved' = graph
  /\ EndTurn
  /\ UNCHANGED graph

\* The extracted facts, one by one, each committed by itself.
FallbackStep ==
  /\ phase = "fallback"
  /\ \/ /\ turn.todo = {}
        /\ EndTurn
        /\ UNCHANGED <<graph, saved>>
     \/ \E f \in turn.todo :
          /\ First(f)
          /\ graph' = Capture(graph, turn.contents[f])
          /\ saved' = graph'
          /\ turn' = [turn EXCEPT !.todo = @ \ {f}]
          /\ UNCHANGED <<phase, refs, heard>>

\* The process stops; the file is opened again.
Crash ==
  /\ phase # "idle"
  /\ graph' = saved
  /\ phase' = "idle"
  /\ turn' = NoTurn
  /\ refs' = NoRefs
  /\ UNCHANGED <<saved, heard>>

-----------------------------------------------------------------------------
(* Between turns, a person confirms a claim or decides a conflict. Every   *)
(* open contradiction of a slot is with its one accepted claim (proved of  *)
(* Adjudication), so the parties of a slot are one case.                   *)

Parties(slot) ==
  {c \in Live(graph) : /\ SlotOf(c) = slot
                       /\ \E e \in graph.contradicts :
                            /\ c \in {e[1], e[2]}
                            /\ {e[1], e[2]} \subseteq Live(graph)}

Settle(g) == graph' = g /\ saved' = g /\ UNCHANGED <<phase, turn, refs, heard>>

Confirm(c) ==
  /\ phase = "idle"
  /\ graph.claim[c] = "tentative"
  /\ Rivals(graph, c) = {}
  /\ Settle([graph EXCEPT !.claim[c] = "accepted"])

Decide(winner) ==
  LET slot == SlotOf(winner)
  IN /\ phase = "idle"
     /\ graph.dimension[slot] = "conflict"
     /\ winner \in Parties(slot)
     /\ Settle([graph EXCEPT
          !.claim = [c \in Claims |-> IF c = winner THEN "accepted"
                                      ELSE IF c \in Parties(slot) THEN "superseded" ELSE @[c]],
          !.dimension[slot] = "accepted"])

TurnStep ==
  \/ \E t \in Turns : Begin(t)
  \/ \E b \in Batches : BeginBatch(b)
  \/ \E d \in turn.plan.entities : FindEntity(d)
  \/ \E f \in DOMAIN turn.contents : CaptureFact(f)
  \/ Loop \/ Promote \/ Relate \/ Infer \/ Commit
  \/ Abort \/ FallbackStep \/ Crash

Next == TurnStep \/ \E c \in Claims : Confirm(c) \/ Decide(c)

Spec == Init /\ [][Next]_vars

-----------------------------------------------------------------------------
(* Correctness *)

\* Types of the state; references of a turn are bound to what exists.
Graph ==
  [dimension   : [Slots -> {"absent", "tentative", "accepted", "conflict"}],
   claim       : [Claims -> {"absent", "tentative", "accepted", "superseded"}],
   contradicts : SUBSET (Claims \X Claims),
   entity      : [Entities -> {"absent", "tentative", "accepted"}],
   label       : [Entities -> Names \cup {NoName}],
   relation    : SUBSET (RelationTypes \X Claims \X (Claims \cup Entities))]

WriteTypeOK ==
  /\ graph \in Graph
  /\ saved \in Graph
  /\ phase \in {"idle", "entities", "facts", "promote", "relate", "infer", "commit", "fallback"}
  /\ heard \subseteq Content
  /\ \A r \in DOMAIN refs : refs[r] \in Existing(graph) \cup Recorded(graph)

\* Referential integrity, in memory and in the file, in the middle of a plan and
\* after every abort and crash: a slot's subject, the ends of every relation and
\* the slot of every claim are there.
Joined(g) ==
  /\ \A slot \in Slots :
       g.dimension[slot] # "absent" => Subject(slot) \in Existing(g) \cup {Owner}
  /\ \A c \in Recorded(g) : g.dimension[SlotOf(c)] # "absent"
  /\ \A e \in g.contradicts : {e[1], e[2]} \subseteq Recorded(g)
  /\ \A r \in g.relation : {r[2], r[3]} \subseteq Recorded(g) \cup Existing(g)
NothingDangles == Joined(graph) /\ Joined(saved)

\* graph-write.ts: entity identity is accepted when an accepted statement
\* supports it. An entity is never trusted without a claim about it in the file
\* that is accepted or has lost a decision since, whatever became of the plan.
TrustIsBacked ==
  \A e \in Entities :
    saved.entity[e] = "accepted" =>
      \E r \in saved.relation :
        r[3] = e /\ saved.claim[r[2]] \in {"accepted", "superseded"}

\* graph-enrichment.ts: the organiser never adds, drops, merges or rewrites a
\* fact. Every fact of a turn that has ended is in the file with its value,
\* under its key or one that asks the same, even if the plan was refused, or
\* the store failed in the middle of it; every fact of an import that has
\* ended, repeated or not, under the key its mapping gave.
FactsSurvive ==
  \A fact \in heard :
    \E c \in Recorded(saved) :
      /\ ValueOf(c) = fact.value
      /\ SlotOf(c)[2] = fact.key \/ <<fact.key, SlotOf(c)[2]>> \in Compatible

\* A plan reaches the file as a whole: entities and relations never without
\* the facts of the turn that brought them.
OrganisedTogether ==
  [][saved'.entity # saved.entity \/ saved'.relation # saved.relation =>
       \A f \in DOMAIN turn.plan.facts :
         \E c \in Recorded(saved)' : ValueOf(c) = turn.contents[f].value]_vars

\* Writing a turn settles nothing: it leaves every believed claim believed, and
\* records no relation that is the reconciler's or a person's to decide.
TurnsDecideNothing ==
  [][/\ \A c \in Claims :
          saved.claim[c] = "accepted" /\ saved'.claim[c] # "accepted" =>
            \E winner \in Claims : SlotOf(winner) = SlotOf(c) /\ Decide(winner)
     /\ \A r \in saved'.relation : r[1] \notin Governed]_vars

\* graph-batch.ts tells the model that there is one slot for each subject,
\* property and scope: one value said of two subjects is two claims.
SubjectsKeptApart ==
  phase = "commit" =>
    \A a, b \in turn.said :
      a.key = b.key /\ a.value = b.value /\ a.subject # b.subject =>
        \E c, d \in Recorded(graph) :
          /\ c # d
          /\ {ValueOf(c), ValueOf(d)} = {a.value}
          /\ {SlotOf(c)[2], SlotOf(d)[2]} = {a.key}

=============================================================================
