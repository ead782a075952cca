-------------------------- MODULE GraphWrite_proofs --------------------------
(***************************************************************************)
(* Proofs about GraphWrite, for any turns and imports that are read as the *)
(* assumptions say, any keys and names, and any number of claims.          *)
(***************************************************************************)
EXTENDS GraphWrite, TLAPS, FiniteSetTheorems, WellFoundedInduction

-----------------------------------------------------------------------------
(* What the normalisation of a reply promises: a plan fit for contents.    *)

RefsOf(plan) == {d.ref : d \in plan.entities}

PlanFits(plan, contents) ==
  /\ DOMAIN plan = {"entities", "facts", "relations"}
  /\ plan.entities \subseteq Draft
  /\ DOMAIN plan.facts = DOMAIN contents
  /\ \A f \in DOMAIN contents :
       /\ DOMAIN plan.facts[f] = {"key", "value", "said", "subject"}
       /\ plan.facts[f].key \in Keys
       /\ plan.facts[f].value = contents[f].value
  /\ \A r \in plan.relations :
       /\ r.type \in RelationTypes \ Governed
       /\ r.from \in DOMAIN contents
       /\ r.to \in DOMAIN contents \cup RefsOf(plan)

\* A fact that was said is in the plan, under its key or a compatible one.
ToldIn(fact, plan, contents) ==
  \E f \in DOMAIN contents :
    /\ contents[f].value = fact.value
    /\ \/ plan.facts[f].key = fact.key
       \/ <<fact.key, plan.facts[f].key>> \in Compatible

ContentsFit(contents) ==
  \A f \in DOMAIN contents : contents[f] \in Content /\ contents[f].subject = Owner

\* Relations of a plan start at facts, end at what the plan knows, and are not
\* the reconciler's to decide.
LEMMA RelationsFit ==
  ASSUME NEW reply, NEW contents,
         \A i \in DOMAIN reply.relations :
           /\ DOMAIN reply.relations[i] = {"type", "from", "to"}
           /\ reply.relations[i].type \in RelationTypes
  PROVE  \A r \in Relations(reply, contents) :
           /\ r.type \in RelationTypes \ Governed
           /\ r.from \in DOMAIN contents
           /\ r.to \in KnownRefs(reply, contents)
<1> DEFINE all == reply.relations
           C == Candidates(reply, contents)
           facts == {i \in C : all[i].from \in DOMAIN contents}
           By(i) == Supporters(reply, contents, all[i].from)
           Moved(i) == {[all[i] EXCEPT !.from = all[j].from] : j \in {k \in By(i) : By(i) = {k}}}
<1>1. \A i \in C : /\ i \in DOMAIN all
                   /\ all[i].to \in KnownRefs(reply, contents)
                   /\ all[i].type \notin Governed
  BY DEF Candidates
<1>2. \A i \in C : \A r \in Moved(i) :
        /\ r.type = all[i].type /\ r.to = all[i].to
        /\ r.from \in DOMAIN contents
  <2> SUFFICES ASSUME NEW i \in C, NEW j \in By(i)
               PROVE  LET r == [all[i] EXCEPT !.from = all[j].from]
                      IN /\ r.type = all[i].type /\ r.to = all[i].to
                         /\ r.from \in DOMAIN contents
    OBVIOUS
  <2>1. all[j].from \in DOMAIN contents
    BY DEF Supporters
  <2>. QED BY <2>1, <1>1
<1>3. Relations(reply, contents) =
        {all[i] : i \in facts} \cup UNION {Moved(i) : i \in C \ facts}
  BY DEF Relations
<1> HIDE DEF Moved, C
<1>4. ASSUME NEW r \in UNION {Moved(i) : i \in C \ facts}
      PROVE  \E i \in C : r \in Moved(i)
  OBVIOUS
<1>. QED BY <1>1, <1>2, <1>3, <1>4

\* The plan of a turn fits it and forgets nothing.
LEMMA TurnPlanFits ==
  ASSUME NEW t \in Turns, OneMappingPerFact(t.reply, t.contents)
  PROVE  /\ ContentsFit(t.contents)
         /\ PlanFits(Plan(t.reply, t.contents), t.contents)
         /\ \A fact \in Listed(t.contents) :
              fact \in Content /\ ToldIn(fact, Plan(t.reply, t.contents), t.contents)
<1> DEFINE reply == t.reply  contents == t.contents  plan == Plan(reply, contents)
<1>1. ContentsFit(contents)
  BY TurnsAreRead DEF ContentsFit
<1>2. plan = [entities  |-> KeptEntities(reply, contents),
              facts     |-> [f \in DOMAIN contents |-> Guarded(contents[f], MappingOf(reply, f))],
              relations |-> Relations(reply, contents)]
  BY DEF Plan
<1>3. ASSUME NEW f \in DOMAIN contents
      PROVE  /\ DOMAIN plan.facts[f] = {"key", "value", "said", "subject"}
             /\ plan.facts[f].key \in Keys
             /\ plan.facts[f].value = contents[f].value
             /\ \/ plan.facts[f].key = contents[f].key
                \/ <<contents[f].key, plan.facts[f].key>> \in Compatible
  <2>1. \E m \in Listed(reply.mappings) : m.fact = f
    BY DEF OneMappingPerFact
  <2>2. MappingOf(reply, f) \in Listed(reply.mappings)
    BY <2>1 DEF MappingOf
  <2>3. MappingOf(reply, f).key \in Keys
    BY <2>2, EnrichmentAssumption DEF OneMappingPerFact
  <2>4. contents[f] \in Content
    BY <1>1 DEF ContentsFit
  <2>5. plan.facts[f] = Guarded(contents[f], MappingOf(reply, f))
    BY <1>2
  <2>. QED BY <2>3, <2>4, <2>5 DEF Guarded, Remapped, Content
<1>4. plan.entities \subseteq Draft
  BY <1>2, TurnsAreRead DEF KeptEntities, Listed
<1>5. \A i \in DOMAIN reply.relations :
        /\ DOMAIN reply.relations[i] = {"type", "from", "to"}
        /\ reply.relations[i].type \in RelationTypes
  BY TurnsAreRead DEF Listed, Relation
<1>6. KnownRefs(reply, contents) = DOMAIN contents \cup RefsOf(plan)
  BY <1>2 DEF KnownRefs, RefsOf
<1>7. PlanFits(plan, contents)
  <2>1. \A r \in plan.relations :
          /\ r.type \in RelationTypes \ Governed
          /\ r.from \in DOMAIN contents
          /\ r.to \in DOMAIN contents \cup RefsOf(plan)
    BY <1>2, <1>5, <1>6, RelationsFit
  <2>2. DOMAIN plan = {"entities", "facts", "relations"} /\ DOMAIN plan.facts = DOMAIN contents
    BY <1>2
  <2> HIDE DEF plan
  <2>. QED BY <1>3, <1>4, <2>1, <2>2 DEF PlanFits
<1>8. \A fact \in Listed(contents) : fact \in Content /\ ToldIn(fact, plan, contents)
  <2> HIDE DEF plan
  <2>. QED BY <1>1, <1>3 DEF Listed, ToldIn, ContentsFit
<1>. QED BY <1>1, <1>7, <1>8

-----------------------------------------------------------------------------
(* An import *)

LEMMA BatchContentsFit ==
  ASSUME NEW b \in Batches
  PROVE  /\ ContentsFit(BatchContents(b))
         /\ DOMAIN BatchContents(b) = Positions(b)
         /\ \A f \in Positions(b) :
              /\ BatchContents(b)[f] \in Content
              /\ BatchContents(b)[f].value = Considered(b)[f].value
<1>1. \A f \in Positions(b) : Considered(b)[f] \in Entry /\ WellFormed(Considered(b)[f])
  BY BatchesAreRead
<1>2. \A f \in Positions(b) :
        BatchContents(b)[f] = [key |-> Considered(b)[f].key, value |-> Considered(b)[f].value,
                               said |-> Considered(b)[f].said, subject |-> Owner]
  BY DEF BatchContents
<1>3. DOMAIN BatchContents(b) = Positions(b)
  BY DEF BatchContents
<1>. QED BY <1>1, <1>2, <1>3 DEF ContentsFit, Content, Entry, WellFormed

\* The key a fact of an import is given is of the type of keys.
LEMMA BatchKey ==
  ASSUME NEW b \in Batches, NEW f \in Positions(b), MappingsUsable(b)
  PROVE  Integrated(b).mappings[f].key \in Keys
BY EnrichmentAssumption DEF MappingsUsable

LEMMA BatchPlanFits ==
  ASSUME NEW b \in Batches, MappingsUsable(b)
  PROVE  /\ PlanFits(BatchPlan(b), BatchContents(b))
         /\ \A fact \in SaidIn(b) :
              fact \in Content /\ ToldIn(fact, BatchPlan(b), BatchContents(b))
<1> DEFINE reply == Integrated(b)  contents == BatchContents(b)  plan == BatchPlan(b)
<1>1. plan = [entities  |-> KeptEntities(reply, contents),
              facts     |-> [f \in Positions(b) |-> Remapped(contents[f], reply.mappings[f])],
              relations |-> Relations(reply, contents)]
  BY DEF BatchPlan
<1>2. /\ reply.entities = b.entities
      /\ DOMAIN reply.relations = DOMAIN b.relations
      /\ \A k \in DOMAIN b.relations :
           reply.relations[k] = [b.relations[k] EXCEPT !.from = Canonical(b, @), !.to = Canonical(b, @)]
  BY DEF Integrated
<1>3. \A k \in DOMAIN b.relations : b.relations[k] \in Relation
  BY BatchesAreRead DEF Listed
<1>4. \A i \in DOMAIN reply.relations :
        /\ DOMAIN reply.relations[i] = {"type", "from", "to"}
        /\ reply.relations[i].type \in RelationTypes
  BY <1>2, <1>3 DEF Relation
<1>5. KnownRefs(reply, contents) = DOMAIN contents \cup RefsOf(plan)
  BY <1>1 DEF KnownRefs, RefsOf
<1>6. plan.entities \subseteq Draft
  <2>1. plan.entities \subseteq Listed(reply.entities)
    BY <1>1 DEF KeptEntities, Listed
  <2>. QED BY <1>2, <2>1, BatchesAreRead
<1>7. ASSUME NEW f \in Positions(b)
      PROVE  /\ DOMAIN plan.facts[f] = {"key", "value", "said", "subject"}
             /\ plan.facts[f].key \in Keys
             /\ plan.facts[f].key = reply.mappings[f].key
             /\ plan.facts[f].value = contents[f].value
  <2>1. plan.facts[f] = [contents[f] EXCEPT !.key = reply.mappings[f].key,
                                            !.subject = reply.mappings[f].subject]
    <3> HIDE DEF plan, reply, contents
    <3>. QED BY <1>1 DEF Remapped
  <2>2. contents[f] \in Content
    BY BatchContentsFit
  <2>3. reply.mappings[f].key \in Keys
    BY BatchKey
  <2> HIDE DEF plan, reply, contents
  <2>. QED BY <2>1, <2>2, <2>3 DEF Content
<1>8. DOMAIN contents = Positions(b)
  BY BatchContentsFit
<1>9. PlanFits(plan, contents)
  <2>1. \A r \in plan.relations :
          /\ r.type \in RelationTypes \ Governed
          /\ r.from \in DOMAIN contents
          /\ r.to \in DOMAIN contents \cup RefsOf(plan)
    BY <1>1, <1>4, <1>5, RelationsFit
  <2>2. DOMAIN plan = {"entities", "facts", "relations"} /\ DOMAIN plan.facts = Positions(b)
    BY <1>1
  <2> HIDE DEF plan, contents
  <2>. QED BY <1>6, <1>7, <1>8, <2>1, <2>2 DEF PlanFits
<1>10. ASSUME NEW fact \in SaidIn(b)
       PROVE  fact \in Content /\ ToldIn(fact, plan, contents)
  <2> DEFINE Said(f, i) == [key |-> reply.mappings[f].key, value |-> Considered(b)[i].value,
                            said |-> Considered(b)[i].said, subject |-> Considered(b)[i].subject]
  <2>a. PICK f \in Positions(b) :
          fact \in {Said(f, i) : i \in {i \in Twins(b, f) : b.expected = {} => i = f}}
    BY DEF SaidIn
  <2>1. PICK i \in Twins(b, f) : fact = Said(f, i)
    BY <2>a
  <2>2. i \in DOMAIN Considered(b) /\ Considered(b)[i].value = Considered(b)[f].value
    BY DEF Twins, Identity
  <2>3. Considered(b)[i] \in Entry
    BY <2>2, BatchesAreRead
  <2>4. fact \in Content
    BY <2>1, <2>3, <1>7 DEF Content, Entry
  <2>5. contents[f].value = fact.value /\ plan.facts[f].key = fact.key
    BY <2>1, <2>2, <1>7, BatchContentsFit
  <2> HIDE DEF plan, contents
  <2>. QED BY <2>4, <2>5, <1>8 DEF ToldIn
<1>. QED BY <1>9, <1>10

-----------------------------------------------------------------------------
(* The graph                                                               *)

Believed(g) == {c \in Claims : g.claim[c] \in {"accepted", "superseded"}}
Accepted(g) == {c \in Claims : g.claim[c] = "accepted"}

\* What no step of a turn or of a person takes back.
Keeps(g, h) ==
  /\ Recorded(g) \subseteq Recorded(h)
  /\ Believed(g) \subseteq Believed(h)
  /\ Existing(g) \subseteq Existing(h)
  /\ g.relation \subseteq h.relation
  /\ \A slot \in Slots : g.dimension[slot] # "absent" => h.dimension[slot] # "absent"

Backed(g, e) == \E r \in g.relation : r[3] = e /\ r[2] \in Believed(g)
TrustBacked(g) == \A e \in Entities : g.entity[e] = "accepted" => Backed(g, e)
Ungoverned(g) == \A r \in g.relation : r[1] \notin Governed

LEMMA BackedStays ==
  ASSUME NEW g, NEW h, Keeps(g, h), NEW e, Backed(g, e)
  PROVE  Backed(h, e)
BY DEF Keeps, Backed

\* The graph after a capture has the claim, and all it had before.
LEMMA CaptureKeeps ==
  ASSUME NEW g \in Graph, NEW fact, fact.key \in Keys, fact.value \in Values,
         fact.subject \in Entities \cup {Owner}
  PROVE  LET h == Capture(g, fact)
             c == <<<<fact.subject, fact.key>>, fact.value>>
         IN /\ h \in Graph
            /\ c \in Claims /\ c \in Recorded(h) /\ Recorded(h) \subseteq Recorded(g) \cup {c}
            /\ Keeps(g, h)
            /\ Accepted(g) \subseteq Accepted(h)
            /\ h.entity = g.entity /\ h.relation = g.relation
            /\ Joined(g) /\ fact.subject \in Existing(g) \cup {Owner} => Joined(h)
<1> DEFINE slot == <<fact.subject, fact.key>>
           c == <<slot, fact.value>>
           h == Capture(g, fact)
           clash == Rivals(g, c) # {}
           byUser == fact.said = "user"
           flag == clash /\ byUser /\ g.claim[c] \in {"absent", "tentative"}
           accept == /\ ~clash /\ byUser
                     /\ \/ g.claim[c] = "absent"
                        \/ g.claim[c] = "tentative" /\ g.dimension[slot] # "conflict"
           state == IF accept THEN "accepted" ELSE IF g.claim[c] = "absent" THEN "tentative" ELSE g.claim[c]
           edges == IF flag THEN g.contradicts \cup {<<c, CHOOSE r \in Rivals(g, c) : TRUE>>}
                            ELSE g.contradicts
           mark == IF flag THEN "conflict" ELSE IF g.dimension[slot] = "absent" THEN "tentative"
                           ELSE g.dimension[slot]
<1>1. h = [g EXCEPT !.claim[c] = state, !.contradicts = edges, !.dimension[slot] = mark]
  BY DEF Capture
<1>2. slot \in Slots /\ c \in Claims /\ SlotOf(c) = slot
  BY DEF Slots, Claims, SlotOf
<1>3. g.claim[c] \in {"absent", "tentative", "accepted", "superseded"}
  BY <1>2 DEF Graph
<1>4. state \in {"tentative", "accepted", "superseded"} /\ (g.claim[c] \in {"accepted", "superseded"} => state = g.claim[c])
  BY <1>3
<1>5. mark \in {"tentative", "accepted", "conflict"}
  <2>1. g.dimension[slot] \in {"absent", "tentative", "accepted", "conflict"}
    BY <1>2 DEF Graph
  <2>. QED BY <2>1
<1>6. flag => (CHOOSE r \in Rivals(g, c) : TRUE) \in Accepted(g)
  BY DEF Rivals, Accepted
<1>7. /\ edges \subseteq Claims \X Claims
      /\ \A e \in edges : e \in g.contradicts \/ (e[1] = c /\ e[2] \in Accepted(g))
  <2> HIDE DEF flag, c
  <2>1. g.contradicts \subseteq Claims \X Claims
    BY DEF Graph
  <2>2. CASE flag
    <3> DEFINE r == CHOOSE r \in Rivals(g, c) : TRUE
    <3>1. edges = g.contradicts \cup {<<c, r>>} /\ r \in Accepted(g)
      BY <2>2, <1>6
    <3> HIDE DEF r, edges
    <3>. QED BY <3>1, <2>1, <1>2 DEF Accepted
  <2>3. CASE ~flag
    BY <2>3, <2>1
  <2>. QED BY <2>2, <2>3
<1> HIDE DEF state, edges, mark, flag, accept
<1>8. /\ h.claim = [g.claim EXCEPT ![c] = state]
      /\ h.contradicts = edges
      /\ h.dimension = [g.dimension EXCEPT ![slot] = mark]
      /\ h.entity = g.entity /\ h.label = g.label /\ h.relation = g.relation
      /\ DOMAIN h = DOMAIN g
  <2> HIDE DEF c, slot, h
  <2>. QED BY <1>1 DEF Graph
<1>9. h \in Graph
  <2>1. h = [g EXCEPT !.claim = h.claim, !.contradicts = h.contradicts, !.dimension = h.dimension]
    <3> HIDE DEF c, slot, h
    <3>. QED BY <1>1, <1>8 DEF Graph
  <2>2. h.claim \in [Claims -> {"absent", "tentative", "accepted", "superseded"}]
    <3> HIDE DEF c, slot, h
    <3>. QED BY <1>4, <1>8 DEF Graph
  <2>3. h.dimension \in [Slots -> {"absent", "tentative", "accepted", "conflict"}]
    <3> HIDE DEF c, slot, h
    <3>. QED BY <1>5, <1>8 DEF Graph
  <2>4. h.contradicts \subseteq Claims \X Claims
    BY <1>7, <1>8
  <2> HIDE DEF h
  <2>. QED BY <2>1, <2>2, <2>3, <2>4 DEF Graph
<1> HIDE DEF slot, c, h
<1>a. g.claim \in [Claims -> {"absent", "tentative", "accepted", "superseded"}]
  BY DEF Graph
<1>b. g.dimension \in [Slots -> {"absent", "tentative", "accepted", "conflict"}]
  BY DEF Graph
<1>10. c \in Recorded(h) /\ Recorded(g) \subseteq Recorded(h) /\ Recorded(h) \subseteq Recorded(g) \cup {c}
  BY <1>2, <1>4, <1>8, <1>a DEF Recorded
<1>11. Believed(g) \subseteq Believed(h) /\ Accepted(g) \subseteq Accepted(h)
  BY <1>2, <1>4, <1>8, <1>a DEF Believed, Accepted
<1>12. Existing(g) = Existing(h)
  BY <1>8 DEF Existing
<1>13. \A s \in Slots : g.dimension[s] # "absent" => h.dimension[s] # "absent"
  BY <1>2, <1>5, <1>8, <1>b
<1>14. ASSUME Joined(g), fact.subject \in Existing(g) \cup {Owner}
       PROVE  Joined(h)
  <2>1. \A s \in Slots : h.dimension[s] # "absent" => Subject(s) \in Existing(h) \cup {Owner}
    <3>1. Subject(slot) = fact.subject
      BY DEF Subject, slot
    <3>2. \A s \in Slots : s # slot => h.dimension[s] = g.dimension[s]
      BY <1>8, <1>b, <1>2
    <3>. QED BY <3>1, <3>2, <1>12, <1>14 DEF Joined
  <2>2. \A k \in Recorded(h) : h.dimension[SlotOf(k)] # "absent"
    <3>1. h.dimension[slot] # "absent"
      BY <1>2, <1>5, <1>8, <1>b
    <3>2. \A k \in Recorded(g) : SlotOf(k) \in Slots
      BY DEF Recorded, Claims, SlotOf
    <3>. QED BY <3>1, <3>2, <1>2, <1>10, <1>13, <1>14 DEF Joined
  <2>3. \A e \in h.contradicts : {e[1], e[2]} \subseteq Recorded(h)
    <3>1. Accepted(g) \subseteq Recorded(g)
      BY DEF Accepted, Recorded
    <3>. QED BY <3>1, <1>7, <1>8, <1>10, <1>14 DEF Joined
  <2>4. \A r \in h.relation : {r[2], r[3]} \subseteq Recorded(h) \cup Existing(h)
    BY <1>8, <1>10, <1>12, <1>14 DEF Joined
  <2>. QED BY <2>1, <2>2, <2>3, <2>4 DEF Joined
<1>15. Keeps(g, h)
  BY <1>8, <1>10, <1>11, <1>12, <1>13 DEF Keeps
<1>. QED BY <1>2, <1>8, <1>9, <1>10, <1>11, <1>14, <1>15 DEF c, slot, h

-----------------------------------------------------------------------------
(* The invariant                                                           *)

\* Memory and file are well-formed, and memory is ahead of the file only within
\* a transaction. Between the promotion of entities and the writing of relations
\* the trust of an entity rests on the relations the plan is still to write.
GraphInv ==
  /\ Ungoverned(graph) /\ Ungoverned(saved)
  /\ TrustBacked(saved)
  /\ phase # "relate" => TrustBacked(graph)
  /\ phase = "relate" =>
       \A e \in Entities : graph.entity[e] = "accepted" =>
         Backed(graph, e) \/ \E d \in turn.plan.entities : refs[d.ref] = e /\ Supported(d)
  /\ Recorded(saved) \subseteq Recorded(graph)
  /\ Accepted(saved) \subseteq Accepted(graph)
  /\ phase \in {"idle", "fallback"} => graph = saved

\* What the turn carries.
TurnInv ==
  /\ DOMAIN turn = {"contents", "said", "plan", "bulk", "todo"}
  /\ ContentsFit(turn.contents)
  /\ turn.said \subseteq Content
  /\ InTransaction =>
       /\ PlanFits(turn.plan, turn.contents)
       /\ \A fact \in turn.said : ToldIn(fact, turn.plan, turn.contents)
  /\ phase = "fallback" \/ (InTransaction /\ ~turn.bulk) => turn.said = Listed(turn.contents)

\* The claim a fact of the plan has become.
FactBound(f) ==
  /\ f \in DOMAIN refs
  /\ refs[f] \in Recorded(graph)
  /\ SlotOf(refs[f])[2] = turn.plan.facts[f].key
  /\ ValueOf(refs[f]) = turn.plan.facts[f].value

\* How far the loops have come.
RefsInv ==
  /\ phase = "entities" =>
       /\ turn.todo \subseteq turn.plan.entities
       /\ \A d \in turn.plan.entities \ turn.todo : d.ref \in DOMAIN refs
  /\ InTransaction /\ phase # "entities" => RefsOf(turn.plan) \subseteq DOMAIN refs
  /\ phase = "facts" =>
       /\ turn.todo \subseteq DOMAIN turn.contents
       /\ \A f \in DOMAIN turn.contents \ turn.todo : FactBound(f)
  /\ phase \in {"promote", "relate", "infer", "commit"} =>
       \A f \in DOMAIN turn.contents : FactBound(f)
  /\ phase = "fallback" =>
       /\ turn.todo \subseteq DOMAIN turn.contents
       /\ \A f \in DOMAIN turn.contents \ turn.todo :
            <<<<Owner, turn.contents[f].key>>, turn.contents[f].value>> \in Recorded(saved)

WriteInv ==
  /\ WriteTypeOK
  /\ NothingDangles
  /\ FactsSurvive
  /\ GraphInv
  /\ TurnInv
  /\ RefsInv

LEMMA InitWrite == Init => WriteInv
<1> SUFFICES ASSUME Init PROVE WriteInv
  OBVIOUS
<1>1. EmptyGraph \in Graph
  BY DEF EmptyGraph, Graph
<1>2. /\ Recorded(EmptyGraph) = {} /\ Existing(EmptyGraph) = {}
      /\ EmptyGraph.relation = {} /\ EmptyGraph.contradicts = {}
      /\ \A slot \in Slots : EmptyGraph.dimension[slot] = "absent"
      /\ \A e \in Entities : EmptyGraph.entity[e] = "absent"
  BY DEF EmptyGraph, Recorded, Existing
<1>3. Joined(EmptyGraph) /\ Ungoverned(EmptyGraph) /\ TrustBacked(EmptyGraph)
  BY <1>2 DEF Joined, Ungoverned, TrustBacked
<1>4. /\ graph = EmptyGraph /\ saved = EmptyGraph /\ phase = "idle" /\ heard = {}
      /\ turn = NoTurn /\ refs = NoRefs
  BY DEF Init
<1>5. DOMAIN NoRefs = {} /\ DOMAIN NoTurn.contents = {} /\ NoTurn.said = {}
  BY DEF NoRefs, NoTurn
<1>6. WriteTypeOK /\ NothingDangles /\ FactsSurvive
  BY <1>1, <1>3, <1>4, <1>5 DEF WriteTypeOK, NothingDangles, FactsSurvive
<1>7. GraphInv
  BY <1>3, <1>4 DEF GraphInv
<1>8. TurnInv
  BY <1>4, <1>5 DEF TurnInv, NoTurn, ContentsFit, InTransaction
<1>9. RefsInv
  BY <1>4 DEF RefsInv, InTransaction
<1>. QED BY <1>6, <1>7, <1>8, <1>9 DEF WriteInv

-----------------------------------------------------------------------------
(* The beginning and the end of a turn                                     *)

LEMMA OrganiseWrite ==
  ASSUME WriteInv, phase = "idle", UNCHANGED <<graph, saved, refs, heard>>,
         NEW contents, NEW said, NEW plan, NEW bulk, Organise(contents, said, plan, bulk),
         ContentsFit(contents), PlanFits(plan, contents),
         \A fact \in said : fact \in Content /\ ToldIn(fact, plan, contents),
         ~bulk => said = Listed(contents)
  PROVE  WriteInv'
<1> DEFINE addressed == [f \in DOMAIN contents |-> Addressed(graph, plan, plan.facts[f])]
           fit == [plan EXCEPT !.facts = addressed]
<1>1. /\ phase' = "entities"
      /\ turn' = [contents |-> contents, said |-> said, bulk |-> bulk, todo |-> plan.entities,
                  plan |-> fit]
  BY DEF Organise
<1>2. /\ fit.entities = plan.entities /\ fit.facts = addressed /\ fit.relations = plan.relations
      /\ DOMAIN fit = {"entities", "facts", "relations"}
  <2> HIDE DEF addressed
  <2>. QED BY DEF PlanFits
<1>3. \A f \in DOMAIN contents :
        /\ DOMAIN addressed[f] = {"key", "value", "said", "subject"}
        /\ addressed[f].key = plan.facts[f].key
        /\ addressed[f].value = plan.facts[f].value
  BY DEF Addressed, PlanFits
<1>4. DOMAIN addressed = DOMAIN contents
  OBVIOUS
<1> HIDE DEF addressed, fit
<1>5. PlanFits(fit, contents)
  BY <1>2, <1>3, <1>4 DEF PlanFits, RefsOf
<1>6. ASSUME NEW fact \in said PROVE ToldIn(fact, fit, contents)
  <2>1. PICK f \in DOMAIN contents :
          /\ contents[f].value = fact.value
          /\ \/ plan.facts[f].key = fact.key
             \/ <<fact.key, plan.facts[f].key>> \in Compatible
    BY DEF ToldIn
  <2>2. fit.facts[f].key = plan.facts[f].key
    BY <1>2, <1>3
  <2>. QED BY <2>1, <2>2 DEF ToldIn
<1>7. TurnInv'
  BY <1>1, <1>5, <1>6 DEF TurnInv, InTransaction
<1>8. RefsInv'
  BY <1>1, <1>2 DEF RefsInv, InTransaction
<1>9. WriteTypeOK' /\ NothingDangles' /\ FactsSurvive'
  BY <1>1 DEF WriteInv, WriteTypeOK, NothingDangles, FactsSurvive
<1>10. GraphInv'
  BY <1>1 DEF WriteInv, GraphInv
<1>. QED BY <1>7, <1>8, <1>9, <1>10 DEF WriteInv

LEMMA CaptureOnlyWrite ==
  ASSUME WriteInv, phase = "idle", UNCHANGED <<graph, saved, refs, heard>>,
         NEW contents, NEW bulk, CaptureOnly(contents, bulk), ContentsFit(contents)
  PROVE  WriteInv'
<1>1. /\ phase' = "fallback"
      /\ turn' = [contents |-> contents, said |-> Listed(contents), bulk |-> bulk,
                  plan |-> NoPlan, todo |-> DOMAIN contents]
  BY DEF CaptureOnly
<1>2. Listed(contents) \subseteq Content
  BY DEF Listed, ContentsFit
<1>3. TurnInv'
  BY <1>1, <1>2 DEF TurnInv, InTransaction
<1>4. RefsInv'
  BY <1>1 DEF RefsInv, InTransaction
<1>5. WriteTypeOK' /\ NothingDangles' /\ FactsSurvive'
  BY <1>1 DEF WriteInv, WriteTypeOK, NothingDangles, FactsSurvive
<1>6. GraphInv'
  BY <1>1 DEF WriteInv, GraphInv
<1>. QED BY <1>3, <1>4, <1>5, <1>6 DEF WriteInv

LEMMA BeginWrite == ASSUME WriteInv, NEW t \in Turns, Begin(t) PROVE WriteInv'
<1>1. phase = "idle" /\ UNCHANGED <<graph, saved, refs, heard>>
  BY DEF Begin, Ready
<1>2. CASE OneMappingPerFact(t.reply, t.contents)
  <2>1. Organise(t.contents, Listed(t.contents), Plan(t.reply, t.contents), FALSE)
    BY <1>2 DEF Begin
  <2>. QED BY <1>1, <1>2, <2>1, TurnPlanFits, OrganiseWrite
<1>3. CASE ~OneMappingPerFact(t.reply, t.contents)
  <2>1. CaptureOnly(t.contents, FALSE) /\ ContentsFit(t.contents)
    BY <1>3, TurnsAreRead DEF Begin, ContentsFit
  <2>. QED BY <1>1, <2>1, CaptureOnlyWrite
<1>. QED BY <1>2, <1>3

LEMMA BeginBatchWrite == ASSUME WriteInv, NEW b \in Batches, BeginBatch(b) PROVE WriteInv'
<1>1. phase = "idle" /\ UNCHANGED <<graph, saved, refs, heard>>
  BY DEF BeginBatch, Ready
<1>2. ContentsFit(BatchContents(b))
  BY BatchContentsFit
<1>3. CASE MappingsUsable(b)
  <2>1. Organise(BatchContents(b), SaidIn(b), BatchPlan(b), TRUE)
    BY <1>3 DEF BeginBatch
  <2>. QED BY <1>1, <1>2, <1>3, <2>1, BatchPlanFits, OrganiseWrite
<1>4. CASE ~MappingsUsable(b)
  <2>1. CaptureOnly(BatchContents(b), TRUE)
    BY <1>4 DEF BeginBatch
  <2>. QED BY <1>1, <1>2, <2>1, CaptureOnlyWrite
<1>. QED BY <1>3, <1>4

\* Whatever restores memory from the file leaves a graph in order.
LEMMA Restored ==
  ASSUME WriteInv, graph' = saved, UNCHANGED <<saved, heard>>, refs' = NoRefs,
         phase' \in {"idle", "fallback"}
  PROVE  WriteTypeOK' /\ NothingDangles' /\ FactsSurvive' /\ GraphInv'
<1>1. DOMAIN NoRefs = {}
  BY DEF NoRefs
<1>2. WriteTypeOK'
  BY <1>1 DEF WriteInv, WriteTypeOK
<1>3. NothingDangles' /\ FactsSurvive'
  BY DEF WriteInv, NothingDangles, FactsSurvive
<1>4. GraphInv'
  BY DEF WriteInv, GraphInv
<1>. QED BY <1>2, <1>3, <1>4

LEMMA IdleTurn ==
  ASSUME phase' = "idle", turn' = NoTurn
  PROVE  TurnInv' /\ RefsInv'
<1>1. DOMAIN NoTurn.contents = {} /\ NoTurn.said = {}
  BY DEF NoTurn
<1>. QED BY <1>1 DEF TurnInv, NoTurn, ContentsFit, InTransaction, RefsInv

LEMMA AbortWrite == ASSUME WriteInv, Abort PROVE WriteInv'
<1>1. graph' = saved /\ UNCHANGED <<saved, heard>> /\ refs' = NoRefs /\ InTransaction
  BY DEF Abort, Undone
<1>2. CASE turn.bulk
  <2>1. phase' = "idle" /\ turn' = NoTurn
    BY <1>2 DEF Abort, Undone
  <2>. QED BY <1>1, <2>1, Restored, IdleTurn DEF WriteInv
<1>3. CASE ~turn.bulk
  <2>1. phase' = "fallback" /\ turn' = [turn EXCEPT !.todo = DOMAIN turn.contents]
    BY <1>3 DEF Abort, Undone
  <2>2. /\ turn'.contents = turn.contents /\ turn'.said = turn.said
        /\ turn'.todo = DOMAIN turn.contents /\ DOMAIN turn' = DOMAIN turn
    BY <2>1 DEF WriteInv, TurnInv
  <2>3. TurnInv'
    BY <1>1, <1>3, <2>1, <2>2 DEF WriteInv, TurnInv, InTransaction
  <2>4. RefsInv'
    BY <2>1, <2>2 DEF RefsInv, InTransaction
  <2>. QED BY <1>1, <2>1, <2>3, <2>4, Restored DEF WriteInv
<1>. QED BY <1>2, <1>3

LEMMA CrashWrite == ASSUME WriteInv, Crash PROVE WriteInv'
BY Restored, IdleTurn DEF Crash, WriteInv

-----------------------------------------------------------------------------
(* The loops of the transaction                                            *)

Within == {"entities", "facts", "promote", "relate", "infer", "commit"}

\* A step that only adds to memory leaves the file, and what was said, alone.
LEMMA Grown ==
  ASSUME WriteInv, UNCHANGED <<saved, heard>>, phase' \in Within,
         graph' \in Graph, Joined(graph)', Ungoverned(graph)', Keeps(graph, graph'),
         Accepted(graph) \subseteq Accepted(graph'),
         \A r \in DOMAIN refs' : refs'[r] \in Existing(graph') \cup Recorded(graph')
  PROVE  /\ WriteTypeOK' /\ NothingDangles' /\ FactsSurvive'
         /\ phase' # "relate" /\ TrustBacked(graph)' => GraphInv'
<1>1. WriteTypeOK'
  BY DEF WriteInv, WriteTypeOK, Within
<1>2. NothingDangles' /\ FactsSurvive'
  BY DEF WriteInv, NothingDangles, FactsSurvive
<1>3. phase' # "relate" /\ TrustBacked(graph)' => GraphInv'
  BY DEF WriteInv, GraphInv, Keeps, Within
<1>. QED BY <1>1, <1>2, <1>3

\* What is left of a turn when one of the things to do is done.
LEMMA OneDone ==
  ASSUME TurnInv, phase \in Within \cup {"fallback"}, phase' = phase, NEW done,
         turn' = [turn EXCEPT !.todo = @ \ {done}]
  PROVE  /\ TurnInv'
         /\ turn'.plan = turn.plan /\ turn'.contents = turn.contents
         /\ turn'.said = turn.said /\ turn'.bulk = turn.bulk
         /\ turn'.todo = turn.todo \ {done}
<1>1. /\ turn'.plan = turn.plan /\ turn'.contents = turn.contents
      /\ turn'.said = turn.said /\ turn'.bulk = turn.bulk
      /\ turn'.todo = turn.todo \ {done} /\ DOMAIN turn' = DOMAIN turn
  BY DEF TurnInv
<1>2. TurnInv'
  BY <1>1 DEF TurnInv, InTransaction
<1>. QED BY <1>1, <1>2

LEMMA FindEntityWrite ==
  ASSUME WriteInv, NEW draft, FindEntity(draft) PROVE WriteInv'
<1> DEFINE fresh == <<draft.scope, draft.name>>
           created == [graph EXCEPT !.entity[fresh] = "tentative", !.label[fresh] = draft.label]
<1>1. /\ phase = "entities" /\ phase' = phase /\ draft \in turn.todo /\ draft.name # NoName
      /\ turn' = [turn EXCEPT !.todo = @ \ {draft}]
      /\ UNCHANGED <<saved, heard>>
  BY DEF FindEntity
<1>2. /\ TurnInv'
      /\ turn'.plan = turn.plan /\ turn'.contents = turn.contents
      /\ turn'.todo = turn.todo \ {draft}
  BY <1>1, OneDone DEF WriteInv, Within
<1>3. draft \in Draft
  BY <1>1 DEF WriteInv, RefsInv, TurnInv, InTransaction, PlanFits
<1>4. graph \in Graph /\ Joined(graph) /\ Ungoverned(graph) /\ TrustBacked(graph)
  BY <1>1 DEF WriteInv, WriteTypeOK, NothingDangles, GraphInv
<1>5. \A id : Bind(draft.ref, id) =>
        /\ DOMAIN refs' = DOMAIN refs \cup {draft.ref}
        /\ \A r \in DOMAIN refs' : refs'[r] = id \/ (r \in DOMAIN refs /\ refs'[r] = refs[r])
  BY DEF Bind
<1>6. DOMAIN refs' = DOMAIN refs \cup {draft.ref}
  BY <1>5 DEF FindEntity
<1>7. RefsInv'
  BY <1>1, <1>2, <1>6 DEF WriteInv, RefsInv, InTransaction
<1>8. CASE (\E e \in SameAs(graph, draft) : Bind(draft.ref, e)) /\ graph' = graph
  <2>1. SameAs(graph, draft) \subseteq Existing(graph)
    BY DEF SameAs
  <2>2. \A r \in DOMAIN refs' : refs'[r] \in Existing(graph) \cup Recorded(graph)
    BY <1>5, <1>8, <2>1 DEF WriteInv, WriteTypeOK
  <2>3. Keeps(graph, graph)
    BY DEF Keeps
  <2>. QED BY <1>1, <1>2, <1>4, <1>7, <1>8, <2>2, <2>3, Grown DEF WriteInv, Within
<1>9. CASE SameAs(graph, draft) = {} /\ Bind(draft.ref, fresh) /\ graph' = created
  <2>1. fresh \in Entities /\ draft.label \in Names
    BY <1>1, <1>3 DEF Draft, Entities, Scopes
  <2>2. fresh \notin Existing(graph)
    BY <1>9 DEF SameAs
  <2>3. /\ created \in Graph
        /\ created.dimension = graph.dimension /\ created.claim = graph.claim
        /\ created.relation = graph.relation /\ created.contradicts = graph.contradicts
        /\ created.entity = [graph.entity EXCEPT ![fresh] = "tentative"]
    BY <1>4, <2>1 DEF Graph
  <2>4. graph.entity \in [Entities -> {"absent", "tentative", "accepted"}]
    BY <1>4 DEF Graph
  <2> HIDE DEF created, fresh
  <2>5. Existing(created) = Existing(graph) \cup {fresh}
    BY <2>1, <2>3, <2>4 DEF Existing
  <2>6. Recorded(created) = Recorded(graph) /\ Believed(created) = Believed(graph)
        /\ Accepted(created) = Accepted(graph)
    BY <2>3 DEF Recorded, Believed, Accepted
  <2>7. Joined(created)
    BY <1>4, <2>3, <2>5, <2>6 DEF Joined
  <2>8. Ungoverned(created) /\ Keeps(graph, created)
    BY <1>4, <2>3, <2>5, <2>6 DEF Ungoverned, Keeps
  <2>9. TrustBacked(created)
    <3>1. ASSUME NEW e \in Entities, created.entity[e] = "accepted"
          PROVE  graph.entity[e] = "accepted"
      BY <2>1, <2>3, <2>4, <3>1
    <3>. QED BY <1>4, <2>8, <3>1, BackedStays DEF TrustBacked
  <2>10. \A r \in DOMAIN refs' : refs'[r] \in Existing(created) \cup Recorded(created)
    BY <1>5, <1>9, <2>5, <2>6 DEF WriteInv, WriteTypeOK
  <2>. QED BY <1>1, <1>2, <1>7, <1>9, <2>3, <2>6, <2>7, <2>8, <2>9, <2>10, Grown DEF WriteInv, Within
<1>. QED BY <1>8, <1>9 DEF FindEntity

LEMMA CaptureFactWrite ==
  ASSUME WriteInv, NEW f \in DOMAIN turn.contents, CaptureFact(f) PROVE WriteInv'
<1> DEFINE planned == turn.plan.facts[f]
           fact == [planned EXCEPT !.subject = SubjectOf(planned)]
           c == <<<<fact.subject, fact.key>>, fact.value>>
<1>1. /\ phase = "facts" /\ phase' = phase /\ f \in turn.todo
      /\ fact.subject \in Existing(graph) \cup {Owner}
      /\ graph' = Capture(graph, fact) /\ Bind(f, c)
      /\ turn' = [turn EXCEPT !.todo = @ \ {f}]
      /\ UNCHANGED <<saved, heard>>
  BY DEF CaptureFact
<1>2. /\ TurnInv'
      /\ turn'.plan = turn.plan /\ turn'.contents = turn.contents
      /\ turn'.todo = turn.todo \ {f}
  BY <1>1, OneDone DEF WriteInv, Within
<1>3. /\ DOMAIN planned = {"key", "value", "said", "subject"}
      /\ planned.key \in Keys /\ planned.value = turn.contents[f].value
  BY <1>1 DEF WriteInv, TurnInv, InTransaction, PlanFits
<1>4. fact.key = planned.key /\ fact.value = planned.value
  <2> HIDE DEF planned
  <2>. QED BY <1>3
<1>5. fact.key \in Keys /\ fact.value \in Values
  BY <1>3, <1>4 DEF WriteInv, TurnInv, ContentsFit, Content
<1>6. graph \in Graph /\ Joined(graph) /\ Ungoverned(graph) /\ TrustBacked(graph)
  BY <1>1 DEF WriteInv, WriteTypeOK, NothingDangles, GraphInv
<1>7. fact.subject \in Entities \cup {Owner}
  BY <1>1 DEF Existing
<1> HIDE DEF fact
<1>8. /\ graph' \in Graph /\ c \in Recorded(graph') /\ Keeps(graph, graph')
      /\ Accepted(graph) \subseteq Accepted(graph')
      /\ graph'.entity = graph.entity /\ graph'.relation = graph.relation
      /\ Joined(graph')
  BY <1>1, <1>5, <1>6, <1>7, CaptureKeeps
<1>9. Ungoverned(graph') /\ TrustBacked(graph')
  BY <1>6, <1>8, BackedStays DEF Ungoverned, TrustBacked
<1>10. /\ DOMAIN refs' = DOMAIN refs \cup {f} /\ refs'[f] = c
       /\ \A r \in DOMAIN refs : r # f => refs'[r] = refs[r]
  BY <1>1 DEF Bind
<1>11. \A r \in DOMAIN refs' : refs'[r] \in Existing(graph') \cup Recorded(graph')
  BY <1>8, <1>10 DEF WriteInv, WriteTypeOK, Keeps
<1>12. SlotOf(c)[2] = planned.key /\ ValueOf(c) = planned.value
  BY <1>4 DEF SlotOf, ValueOf
<1> HIDE DEF c
<1>13. ASSUME NEW g \in DOMAIN turn'.contents \ turn'.todo PROVE FactBound(g)'
  <2>1. CASE g = f
    BY <2>1, <1>2, <1>8, <1>10, <1>12 DEF FactBound
  <2>2. CASE g # f
    <3>1. FactBound(g)
      BY <2>2, <1>1, <1>2, <1>13 DEF WriteInv, RefsInv
    <3>. QED BY <3>1, <2>2, <1>2, <1>8, <1>10 DEF FactBound, Keeps
  <2>. QED BY <2>1, <2>2
<1>14. RefsInv'
  BY <1>1, <1>2, <1>10, <1>13 DEF WriteInv, RefsInv, InTransaction
<1>. QED BY <1>1, <1>2, <1>8, <1>9, <1>11, <1>14, Grown DEF WriteInv, Within

LEMMA LoopWrite == ASSUME WriteInv, Loop PROVE WriteInv'
<1>1. turn.todo = {} /\ UNCHANGED <<graph, saved, refs, heard>>
  BY DEF Loop
<1>2. CASE phase = "entities" /\ phase' = "facts" /\ turn' = [turn EXCEPT !.todo = DOMAIN turn.contents]
  <2>1. /\ turn'.plan = turn.plan /\ turn'.contents = turn.contents
        /\ turn'.said = turn.said /\ turn'.bulk = turn.bulk
        /\ turn'.todo = DOMAIN turn.contents /\ DOMAIN turn' = DOMAIN turn
    BY <1>2 DEF WriteInv, TurnInv
  <2>2. TurnInv'
    BY <1>2, <2>1 DEF WriteInv, TurnInv, InTransaction
  <2>3. RefsInv'
    BY <1>1, <1>2, <2>1 DEF WriteInv, RefsInv, InTransaction, RefsOf
  <2>4. WriteTypeOK' /\ NothingDangles' /\ FactsSurvive' /\ GraphInv'
    BY <1>1, <1>2 DEF WriteInv, WriteTypeOK, NothingDangles, FactsSurvive, GraphInv
  <2>. QED BY <2>2, <2>3, <2>4 DEF WriteInv
<1>3. CASE phase = "facts" /\ phase' = "promote" /\ turn' = turn
  <2>1. TurnInv'
    BY <1>3 DEF WriteInv, TurnInv, InTransaction
  <2>2. \A f \in DOMAIN turn.contents : FactBound(f)'
    BY <1>1, <1>3 DEF WriteInv, RefsInv, FactBound
  <2>3. RefsInv'
    BY <1>1, <1>3, <2>2 DEF WriteInv, RefsInv, InTransaction
  <2>4. WriteTypeOK' /\ NothingDangles' /\ FactsSurvive' /\ GraphInv'
    BY <1>1, <1>3 DEF WriteInv, WriteTypeOK, NothingDangles, FactsSurvive, GraphInv
  <2>. QED BY <2>1, <2>3, <2>4 DEF WriteInv
<1>. QED BY <1>2, <1>3 DEF Loop

\* Between the loops nothing is bound, so what is bound stays so.
LEMMA StillBound ==
  ASSUME WriteInv, phase \in {"promote", "relate", "infer"},
         phase' \in {"relate", "infer", "commit"},
         UNCHANGED <<turn, refs>>, Recorded(graph) \subseteq Recorded(graph')
  PROVE  TurnInv' /\ RefsInv'
<1>1. TurnInv'
  BY DEF WriteInv, TurnInv, InTransaction
<1>2. ASSUME NEW f \in DOMAIN turn.contents PROVE FactBound(f)'
  BY DEF WriteInv, RefsInv, FactBound
<1>3. RefsInv'
  BY <1>2 DEF WriteInv, RefsInv, InTransaction
<1>. QED BY <1>1, <1>3

LEMMA PromoteWrite == ASSUME WriteInv, Promote PROVE WriteInv'
<1> DEFINE trusted == {refs[d.ref] : d \in {d \in turn.plan.entities : Supported(d)}}
           entities == [e \in Entities |-> IF e \in trusted THEN "accepted" ELSE graph.entity[e]]
<1>1. /\ phase = "promote" /\ phase' = "relate" /\ UNCHANGED <<saved, turn, refs, heard>>
      /\ graph' = [graph EXCEPT !.entity = entities]
  BY DEF Promote
<1>2. graph \in Graph /\ Joined(graph) /\ Ungoverned(graph) /\ TrustBacked(graph)
  BY <1>1 DEF WriteInv, WriteTypeOK, NothingDangles, GraphInv
<1>3. graph.entity \in [Entities -> {"absent", "tentative", "accepted"}]
  BY <1>2 DEF Graph
<1>4. entities \in [Entities -> {"absent", "tentative", "accepted"}]
  BY <1>3
<1>5. \A e \in Entities : entities[e] = "accepted" => graph.entity[e] = "accepted" \/ e \in trusted
  OBVIOUS
<1>6. \A e \in Entities : graph.entity[e] # "absent" => entities[e] # "absent"
  OBVIOUS
<1> HIDE DEF entities
<1>7. /\ graph'.dimension = graph.dimension /\ graph'.claim = graph.claim
      /\ graph'.relation = graph.relation /\ graph'.contradicts = graph.contradicts
      /\ graph'.entity = entities /\ graph' \in Graph
  BY <1>1, <1>2, <1>4 DEF Graph
<1>8. /\ Existing(graph) \subseteq Existing(graph')
      /\ Recorded(graph') = Recorded(graph) /\ Believed(graph') = Believed(graph)
      /\ Accepted(graph') = Accepted(graph)
  BY <1>6, <1>7 DEF Existing, Recorded, Believed, Accepted
<1>9. Joined(graph')
  BY <1>2, <1>7, <1>8 DEF Joined
<1>10. Ungoverned(graph') /\ Keeps(graph, graph')
  BY <1>2, <1>7, <1>8 DEF Ungoverned, Keeps
<1>11. \A r \in DOMAIN refs' : refs'[r] \in Existing(graph') \cup Recorded(graph')
  BY <1>1, <1>8 DEF WriteInv, WriteTypeOK
<1>12. WriteTypeOK' /\ NothingDangles' /\ FactsSurvive'
  BY <1>1, <1>7, <1>8, <1>9, <1>10, <1>11, Grown DEF Within
<1>13. TurnInv' /\ RefsInv'
  BY <1>1, <1>8, StillBound
<1>14. ASSUME NEW e \in Entities, graph'.entity[e] = "accepted"
       PROVE  \/ Backed(graph', e)
              \/ \E d \in turn'.plan.entities : refs'[d.ref] = e /\ Supported(d)'
  <2>1. CASE graph.entity[e] = "accepted"
    BY <2>1, <1>2, <1>10, BackedStays DEF TrustBacked
  <2>2. CASE e \in trusted
    <3>1. PICK d \in turn.plan.entities : Supported(d) /\ refs[d.ref] = e
      BY <2>2
    <3>2. Supported(d)'
      BY <3>1, <1>1, <1>7 DEF Supported
    <3>. QED BY <3>1, <3>2, <1>1
  <2>. QED BY <2>1, <2>2, <1>5, <1>7, <1>14
<1>15. GraphInv'
  <2>1. /\ Ungoverned(saved)' /\ TrustBacked(saved)'
        /\ Recorded(saved') \subseteq Recorded(graph')
        /\ Accepted(saved') \subseteq Accepted(graph')
    BY <1>1, <1>8 DEF WriteInv, GraphInv
  <2>. QED BY <1>1, <1>10, <1>14, <2>1 DEF GraphInv
<1>. QED BY <1>12, <1>13, <1>15 DEF WriteInv

LEMMA RelateWrite == ASSUME WriteInv, Relate PROVE WriteInv'
<1> DEFINE E(r) == <<r.type, refs[r.from], refs[r.to]>>
           edges == {E(r) : r \in turn.plan.relations}
<1>1. /\ phase = "relate" /\ phase' = "infer" /\ UNCHANGED <<saved, turn, refs, heard>>
      /\ graph' = [graph EXCEPT !.relation = @ \cup edges]
  BY DEF Relate
<1>2. graph \in Graph /\ Joined(graph) /\ Ungoverned(graph)
  BY <1>1 DEF WriteInv, WriteTypeOK, NothingDangles, GraphInv
<1>3. \A r \in turn.plan.relations :
        /\ r.type \in RelationTypes \ Governed
        /\ r.from \in DOMAIN turn.contents
        /\ r.to \in DOMAIN turn.contents \cup RefsOf(turn.plan)
  BY <1>1 DEF WriteInv, TurnInv, InTransaction, PlanFits
<1>4. \A f \in DOMAIN turn.contents : f \in DOMAIN refs /\ refs[f] \in Recorded(graph)
  BY <1>1 DEF WriteInv, RefsInv, FactBound
<1>5. RefsOf(turn.plan) \subseteq DOMAIN refs
  BY <1>1 DEF WriteInv, RefsInv, InTransaction
<1>6. \A r \in turn.plan.relations :
        /\ E(r) \in RelationTypes \X Claims \X (Claims \cup Entities)
        /\ E(r)[1] \notin Governed
        /\ E(r)[2] \in Recorded(graph)
        /\ E(r)[3] \in Recorded(graph) \cup Existing(graph)
  BY <1>3, <1>4, <1>5 DEF WriteInv, WriteTypeOK, Recorded, Existing
<1>7. \A x \in edges :
        /\ x \in RelationTypes \X Claims \X (Claims \cup Entities)
        /\ x[1] \notin Governed
        /\ {x[2], x[3]} \subseteq Recorded(graph) \cup Existing(graph)
  <2> HIDE DEF E
  <2>. QED BY <1>6
<1> HIDE DEF edges
<1>8. /\ graph'.dimension = graph.dimension /\ graph'.claim = graph.claim
      /\ graph'.contradicts = graph.contradicts /\ graph'.entity = graph.entity
      /\ graph'.relation = graph.relation \cup edges /\ graph' \in Graph
  <2>1. graph.relation \cup edges \subseteq RelationTypes \X Claims \X (Claims \cup Entities)
    BY <1>2, <1>7 DEF Graph
  <2>. QED BY <1>1, <1>2, <2>1 DEF Graph
<1>9. /\ Existing(graph') = Existing(graph) /\ Recorded(graph') = Recorded(graph)
      /\ Believed(graph') = Believed(graph) /\ Accepted(graph') = Accepted(graph)
  BY <1>8 DEF Existing, Recorded, Believed, Accepted
<1>10. Joined(graph') /\ Ungoverned(graph') /\ Keeps(graph, graph')
  <2>1. Joined(graph')
    BY <1>2, <1>7, <1>8, <1>9 DEF Joined
  <2>. QED BY <2>1, <1>2, <1>7, <1>8, <1>9 DEF Ungoverned, Keeps
<1>11. ASSUME NEW e \in Entities, graph'.entity[e] = "accepted" PROVE Backed(graph', e)
  <2>1. CASE Backed(graph, e)
    BY <2>1, <1>10, BackedStays
  <2>2. CASE \E d \in turn.plan.entities : refs[d.ref] = e /\ Supported(d)
    <3>1. PICK d \in turn.plan.entities : refs[d.ref] = e /\ Supported(d)
      BY <2>2
    <3>2. PICK r \in turn.plan.relations :
            /\ r.to = d.ref /\ r.from \in DOMAIN turn.contents
            /\ graph.claim[refs[r.from]] = "accepted"
      BY <3>1 DEF Supported
    <3>3. E(r) \in graph'.relation /\ E(r)[3] = e /\ E(r)[2] = refs[r.from]
      BY <3>1, <3>2, <1>8 DEF edges
    <3>4. refs[r.from] \in Believed(graph')
      BY <3>2, <1>4, <1>9 DEF Believed, Recorded
    <3>. QED BY <3>3, <3>4 DEF Backed
  <2>3. graph.entity[e] = "accepted"
    BY <1>8, <1>11
  <2>. QED BY <2>1, <2>2, <2>3, <1>1 DEF WriteInv, GraphInv
<1>12. TrustBacked(graph')
  BY <1>11 DEF TrustBacked
<1>13. \A r \in DOMAIN refs' : refs'[r] \in Existing(graph') \cup Recorded(graph')
  BY <1>1, <1>9 DEF WriteInv, WriteTypeOK
<1>14. TurnInv' /\ RefsInv'
  BY <1>1, <1>9, StillBound
<1>. QED BY <1>1, <1>8, <1>9, <1>10, <1>12, <1>13, <1>14, Grown DEF WriteInv, Within

LEMMA InferWrite == ASSUME WriteInv, Infer PROVE WriteInv'
<1> DEFINE edges == UNION {Inferred(f) : f \in DOMAIN turn.contents}
<1>1. /\ phase = "infer" /\ phase' = "commit" /\ UNCHANGED <<saved, turn, refs, heard>>
      /\ graph' = [graph EXCEPT !.relation = @ \cup edges]
  BY DEF Infer
<1>2. graph \in Graph /\ Joined(graph) /\ Ungoverned(graph) /\ TrustBacked(graph)
  BY <1>1 DEF WriteInv, WriteTypeOK, NothingDangles, GraphInv
<1>3. \A f \in DOMAIN turn.contents : refs[f] \in Recorded(graph)
  BY <1>1 DEF WriteInv, RefsInv, FactBound
<1>4. \A f \in DOMAIN turn.contents : \A x \in Inferred(f) :
        \E e \in Existing(graph) : x = <<"about", refs[f], e>>
  BY DEF Inferred
<1>5. \A x \in edges : \E f \in DOMAIN turn.contents : x \in Inferred(f)
  OBVIOUS
<1> HIDE DEF edges
<1>6. "about" \in RelationTypes \ Governed
  BY DEF RelationTypes, Governed
<1>7. \A x \in edges :
        /\ x \in RelationTypes \X Claims \X (Claims \cup Entities)
        /\ x[1] \notin Governed
        /\ {x[2], x[3]} \subseteq Recorded(graph) \cup Existing(graph)
  BY <1>3, <1>4, <1>5, <1>6 DEF Recorded, Existing
<1>8. /\ graph'.dimension = graph.dimension /\ graph'.claim = graph.claim
      /\ graph'.contradicts = graph.contradicts /\ graph'.entity = graph.entity
      /\ graph'.relation = graph.relation \cup edges /\ graph' \in Graph
  <2>1. graph.relation \cup edges \subseteq RelationTypes \X Claims \X (Claims \cup Entities)
    BY <1>2, <1>7 DEF Graph
  <2>. QED BY <1>1, <1>2, <2>1 DEF Graph
<1>9. /\ Existing(graph') = Existing(graph) /\ Recorded(graph') = Recorded(graph)
      /\ Believed(graph') = Believed(graph) /\ Accepted(graph') = Accepted(graph)
  BY <1>8 DEF Existing, Recorded, Believed, Accepted
<1>10. Joined(graph') /\ Ungoverned(graph') /\ Keeps(graph, graph')
  <2>1. Joined(graph')
    BY <1>2, <1>7, <1>8, <1>9 DEF Joined
  <2>. QED BY <2>1, <1>2, <1>7, <1>8, <1>9 DEF Ungoverned, Keeps
<1>11. TrustBacked(graph')
  BY <1>2, <1>8, <1>10, BackedStays DEF TrustBacked
<1>12. \A r \in DOMAIN refs' : refs'[r] \in Existing(graph') \cup Recorded(graph')
  BY <1>1, <1>9 DEF WriteInv, WriteTypeOK
<1>13. TurnInv' /\ RefsInv'
  BY <1>1, <1>9, StillBound
<1>. QED BY <1>1, <1>8, <1>9, <1>10, <1>11, <1>12, <1>13, Grown DEF WriteInv, Within

LEMMA CommitWrite == ASSUME WriteInv, Commit PROVE WriteInv'
<1>1. /\ phase = "commit" /\ phase' = "idle" /\ turn' = NoTurn /\ refs' = NoRefs
      /\ heard' = heard \cup turn.said /\ saved' = graph /\ graph' = graph
  BY DEF Commit, EndTurn
<1>2. TurnInv' /\ RefsInv'
  BY <1>1, IdleTurn
<1>3. DOMAIN refs' = {}
  BY <1>1 DEF NoRefs
<1>4. WriteTypeOK' /\ NothingDangles'
  BY <1>1, <1>3 DEF WriteInv, WriteTypeOK, NothingDangles, TurnInv
<1>5. GraphInv'
  BY <1>1 DEF WriteInv, GraphInv
<1>6. ASSUME NEW fact \in turn.said
      PROVE  \E c \in Recorded(graph) :
               /\ ValueOf(c) = fact.value
               /\ SlotOf(c)[2] = fact.key \/ <<fact.key, SlotOf(c)[2]>> \in Compatible
  <2>1. PlanFits(turn.plan, turn.contents) /\ ToldIn(fact, turn.plan, turn.contents)
    BY <1>1 DEF WriteInv, TurnInv, InTransaction
  <2>2. PICK f \in DOMAIN turn.contents :
          /\ turn.contents[f].value = fact.value
          /\ \/ turn.plan.facts[f].key = fact.key
             \/ <<fact.key, turn.plan.facts[f].key>> \in Compatible
    BY <2>1 DEF ToldIn
  <2>3. FactBound(f)
    BY <1>1 DEF WriteInv, RefsInv
  <2>4. turn.plan.facts[f].value = turn.contents[f].value
    BY <2>1 DEF PlanFits
  <2>. QED BY <2>2, <2>3, <2>4 DEF FactBound
<1>7. FactsSurvive'
  BY <1>1, <1>6 DEF WriteInv, FactsSurvive, GraphInv
<1>. QED BY <1>2, <1>4, <1>5, <1>7 DEF WriteInv

LEMMA FallbackWrite == ASSUME WriteInv, FallbackStep PROVE WriteInv'
<1>1. phase = "fallback" /\ graph = saved
  BY DEF FallbackStep, WriteInv, GraphInv
<1>2. CASE turn.todo = {} /\ EndTurn /\ UNCHANGED <<graph, saved>>
  <2>1. /\ phase' = "idle" /\ turn' = NoTurn /\ refs' = NoRefs
        /\ heard' = heard \cup turn.said
    BY <1>2 DEF EndTurn
  <2>2. TurnInv' /\ RefsInv'
    BY <2>1, IdleTurn
  <2>3. DOMAIN refs' = {}
    BY <2>1 DEF NoRefs
  <2>4. WriteTypeOK' /\ NothingDangles'
    BY <1>2, <2>1, <2>3 DEF WriteInv, WriteTypeOK, NothingDangles, TurnInv
  <2>5. GraphInv'
    BY <1>1, <1>2, <2>1 DEF WriteInv, GraphInv
  <2>6. ASSUME NEW fact \in turn.said
        PROVE  \E c \in Recorded(saved) : ValueOf(c) = fact.value /\ SlotOf(c)[2] = fact.key
    <3>1. PICK f \in DOMAIN turn.contents : fact = turn.contents[f]
      BY <1>1 DEF WriteInv, TurnInv, Listed
    <3>2. <<<<Owner, fact.key>>, fact.value>> \in Recorded(saved)
      BY <1>1, <1>2, <3>1 DEF WriteInv, RefsInv
    <3>. QED BY <3>2 DEF ValueOf, SlotOf
  <2>7. FactsSurvive'
    BY <1>2, <2>1, <2>6 DEF WriteInv, FactsSurvive
  <2>. QED BY <2>2, <2>4, <2>5, <2>7 DEF WriteInv
<1>3. ASSUME NEW f \in turn.todo,
             graph' = Capture(graph, turn.contents[f]), saved' = graph',
             turn' = [turn EXCEPT !.todo = @ \ {f}], UNCHANGED <<phase, refs, heard>>
      PROVE  WriteInv'
  <2> DEFINE fact == turn.contents[f]
             c == <<<<fact.subject, fact.key>>, fact.value>>
  <2>1. f \in DOMAIN turn.contents /\ fact \in Content /\ fact.subject = Owner
    BY <1>1, <1>3 DEF WriteInv, RefsInv, TurnInv, ContentsFit
  <2>2. fact.key \in Keys /\ fact.value \in Values
    BY <2>1 DEF Content
  <2>3. graph \in Graph /\ Joined(graph) /\ Ungoverned(graph) /\ TrustBacked(graph)
    BY <1>1 DEF WriteInv, WriteTypeOK, NothingDangles, GraphInv
  <2>4. /\ graph' \in Graph /\ c \in Recorded(graph') /\ Keeps(graph, graph')
        /\ Accepted(graph) \subseteq Accepted(graph')
        /\ graph'.entity = graph.entity /\ graph'.relation = graph.relation
        /\ Joined(graph')
    <3> HIDE DEF fact
    <3>1. graph' = Capture(graph, fact)
      BY <1>3 DEF fact
    <3>. QED BY <3>1, <2>1, <2>2, <2>3, CaptureKeeps
  <2>5. Ungoverned(graph') /\ TrustBacked(graph')
    BY <2>3, <2>4, BackedStays DEF Ungoverned, TrustBacked
  <2>6. /\ TurnInv'
        /\ turn'.contents = turn.contents /\ turn'.todo = turn.todo \ {f}
    BY <1>1, <1>3, OneDone DEF WriteInv
  <2>7. ASSUME NEW g \in DOMAIN turn'.contents \ turn'.todo
        PROVE  <<<<Owner, turn'.contents[g].key>>, turn'.contents[g].value>> \in Recorded(saved')
    <3>1. CASE g = f
      BY <3>1, <1>3, <2>1, <2>4, <2>6
    <3>2. CASE g # f
      <4>1. g \in DOMAIN turn.contents \ turn.todo
        BY <3>2, <2>6, <2>7
      <4>2. <<<<Owner, turn.contents[g].key>>, turn.contents[g].value>> \in Recorded(saved)
        BY <4>1, <1>1 DEF WriteInv, RefsInv
      <4>. QED BY <4>2, <1>1, <1>3, <2>4, <2>6 DEF Keeps
    <3>. QED BY <3>1, <3>2
  <2>8. RefsInv'
    BY <1>1, <1>3, <2>6, <2>7 DEF WriteInv, RefsInv, InTransaction
  <2>9. WriteTypeOK' /\ NothingDangles'
    BY <1>1, <1>3, <2>4 DEF WriteInv, WriteTypeOK, NothingDangles, Keeps
  <2>10. FactsSurvive'
    BY <1>1, <1>3, <2>4 DEF WriteInv, FactsSurvive, Keeps
  <2>11. GraphInv'
    BY <1>1, <1>3, <2>4, <2>5 DEF WriteInv, GraphInv
  <2>. QED BY <2>6, <2>8, <2>9, <2>10, <2>11 DEF WriteInv
<1>. QED BY <1>1, <1>2, <1>3 DEF FallbackStep

-----------------------------------------------------------------------------
(* People, between turns                                                   *)

\* A settlement that takes back nothing that was believed.
LEMMA Settled ==
  ASSUME WriteInv, phase = "idle", NEW g, Settle(g), g \in Graph,
         g.entity = graph.entity, g.relation = graph.relation, g.contradicts = graph.contradicts,
         Recorded(g) = Recorded(graph), Believed(graph) \subseteq Believed(g),
         \A slot \in Slots : g.dimension[slot] # "absent" <=> graph.dimension[slot] # "absent"
  PROVE  WriteInv'
<1>1. graph' = g /\ saved' = g /\ UNCHANGED <<phase, turn, refs, heard>> /\ graph = saved
  BY DEF Settle, WriteInv, GraphInv
<1>2. Existing(g) = Existing(graph)
  BY DEF Existing
<1>3. Joined(graph) /\ Ungoverned(graph) /\ TrustBacked(graph)
  BY DEF WriteInv, NothingDangles, GraphInv
<1>4. \A c \in Recorded(graph) : SlotOf(c) \in Slots
  BY DEF Recorded, Claims, SlotOf
<1>5. Joined(g)
  BY <1>2, <1>3, <1>4 DEF Joined
<1>6. Keeps(graph, g)
  BY <1>2 DEF Keeps
<1>7. Ungoverned(g) /\ TrustBacked(g)
  BY <1>3, <1>6, BackedStays DEF Ungoverned, TrustBacked
<1>8. WriteTypeOK' /\ NothingDangles' /\ FactsSurvive'
  BY <1>1, <1>2, <1>5 DEF WriteInv, WriteTypeOK, NothingDangles, FactsSurvive
<1>9. GraphInv'
  BY <1>1, <1>7 DEF WriteInv, GraphInv
<1>10. TurnInv' /\ RefsInv'
  BY <1>1 DEF WriteInv, TurnInv, RefsInv, InTransaction
<1>. QED BY <1>8, <1>9, <1>10 DEF WriteInv

LEMMA ConfirmWrite == ASSUME WriteInv, NEW c \in Claims, Confirm(c) PROVE WriteInv'
<1> DEFINE g == [graph EXCEPT !.claim[c] = "accepted"]
<1>1. phase = "idle" /\ graph.claim[c] = "tentative" /\ Settle(g)
  BY DEF Confirm
<1>2. graph \in Graph
  BY DEF WriteInv, WriteTypeOK
<1>3. /\ g \in Graph /\ g.claim = [graph.claim EXCEPT ![c] = "accepted"]
      /\ g.entity = graph.entity /\ g.relation = graph.relation
      /\ g.contradicts = graph.contradicts /\ g.dimension = graph.dimension
  BY <1>2 DEF Graph
<1>4. graph.claim \in [Claims -> {"absent", "tentative", "accepted", "superseded"}]
  BY <1>2 DEF Graph
<1> HIDE DEF g
<1>5. Recorded(g) = Recorded(graph) /\ Believed(graph) \subseteq Believed(g)
  BY <1>1, <1>3, <1>4 DEF Recorded, Believed
<1>. QED BY <1>1, <1>3, <1>5, Settled

LEMMA DecideWrite ==
  ASSUME WriteInv, NEW winner \in Claims, Decide(winner)
  PROVE  /\ WriteInv'
         /\ \A c \in Accepted(saved) \ Accepted(saved') : SlotOf(winner) = SlotOf(c)
<1> DEFINE slot == SlotOf(winner)
           claims == [c \in Claims |-> IF c = winner THEN "accepted"
                                       ELSE IF c \in Parties(slot) THEN "superseded"
                                       ELSE graph.claim[c]]
           g == [graph EXCEPT !.claim = claims, !.dimension[slot] = "accepted"]
<1>1. /\ phase = "idle" /\ graph.dimension[slot] = "conflict" /\ winner \in Parties(slot)
      /\ Settle(g)
  BY DEF Decide
<1>2. graph \in Graph /\ slot \in Slots
  BY DEF WriteInv, WriteTypeOK, Claims, SlotOf
<1>3. Parties(slot) \subseteq Live(graph) /\ \A c \in Parties(slot) : SlotOf(c) = slot
  BY DEF Parties
<1>4. graph.claim \in [Claims -> {"absent", "tentative", "accepted", "superseded"}]
  BY <1>2 DEF Graph
<1>5. claims \in [Claims -> {"absent", "tentative", "accepted", "superseded"}]
  BY <1>4
<1>6. \A c \in Claims :
        /\ graph.claim[c] = "absent" <=> claims[c] = "absent"
        /\ graph.claim[c] \in {"accepted", "superseded"} => claims[c] \in {"accepted", "superseded"}
        /\ claims[c] # graph.claim[c] => SlotOf(c) = slot
  BY <1>1, <1>3, <1>4 DEF Live
<1> HIDE DEF claims, slot
<1>7. /\ g \in Graph /\ g.claim = claims
      /\ g.entity = graph.entity /\ g.relation = graph.relation
      /\ g.contradicts = graph.contradicts
      /\ g.dimension = [graph.dimension EXCEPT ![slot] = "accepted"]
  BY <1>2, <1>5 DEF Graph
<1> HIDE DEF g
<1>8. Recorded(g) = Recorded(graph) /\ Believed(graph) \subseteq Believed(g)
  BY <1>6, <1>7 DEF Recorded, Believed
<1>9. \A s \in Slots : g.dimension[s] # "absent" <=> graph.dimension[s] # "absent"
  <2>1. graph.dimension \in [Slots -> {"absent", "tentative", "accepted", "conflict"}]
    BY <1>2 DEF Graph
  <2>. QED BY <2>1, <1>1, <1>2, <1>7
<1>10. WriteInv'
  BY <1>1, <1>7, <1>8, <1>9, Settled
<1>11. \A c \in Accepted(saved) \ Accepted(saved') : slot = SlotOf(c)
  <2>1. saved = graph /\ saved' = g
    BY <1>1 DEF WriteInv, GraphInv, Settle
  <2>. QED BY <2>1, <1>6, <1>7 DEF Accepted
<1>. QED BY <1>10, <1>11 DEF slot

-----------------------------------------------------------------------------
(* The theorems                                                            *)

LEMMA StutterWrite == ASSUME WriteInv, UNCHANGED vars PROVE WriteInv'
BY DEF WriteInv, WriteTypeOK, NothingDangles, FactsSurvive, GraphInv, TurnInv, RefsInv, InTransaction,
       FactBound, Supported, vars

LEMMA NextWrite == ASSUME WriteInv, [Next]_vars PROVE WriteInv'
BY BeginWrite, BeginBatchWrite, FindEntityWrite, CaptureFactWrite, LoopWrite, PromoteWrite,
   RelateWrite, InferWrite, CommitWrite, AbortWrite, FallbackWrite, CrashWrite,
   ConfirmWrite, DecideWrite, StutterWrite
DEF Next, TurnStep

\* The invariant of a turn's writing, whatever it brings.
THEOREM WriteInvariance == Spec => []WriteInv
<1>1. WriteInv /\ [Next]_vars => WriteInv'
  BY NextWrite
<1>. QED BY <1>1, InitWrite, PTL DEF Spec

\* Types, and that references of a running turn are bound to what exists.
THEOREM WriteTypes == Spec => []WriteTypeOK
BY WriteInvariance, PTL DEF WriteInv

\* Referential integrity of memory and file, in the middle of a plan as well as
\* after a refusal, a failure of the store or a crash.
THEOREM GraphNeverDangles == Spec => []NothingDangles
BY WriteInvariance, PTL DEF WriteInv

\* No entity is trusted in the file without a claim about it that is, or was,
\* believed.
THEOREM TrustIsAlwaysBacked == Spec => []TrustIsBacked
<1>1. WriteInv => TrustIsBacked
  BY DEF WriteInv, GraphInv, TrustBacked, Backed, Believed, TrustIsBacked
<1>. QED BY <1>1, WriteInvariance, PTL

\* Every fact of a turn that has ended is in the file.
THEOREM FactsAlwaysSurvive == Spec => []FactsSurvive
BY WriteInvariance, PTL DEF WriteInv

-----------------------------------------------------------------------------
(* What a step does to the file: nothing, unless it ends a transaction, is a *)
(* capture of its own, or a person's.                                      *)

LEMMA FileSteps ==
  ASSUME [Next]_vars
  PROVE  \/ saved' = saved
         \/ Commit
         \/ FallbackStep
         \/ \E c \in Claims : Confirm(c) \/ Decide(c)
BY DEF Next, TurnStep, Begin, BeginBatch, FindEntity, CaptureFact, Loop, Promote, Relate, Infer,
       Abort, Undone, Crash, vars

\* A capture of its own leaves entities and relations alone.
LEMMA FallbackAdds ==
  ASSUME WriteInv, FallbackStep
  PROVE  /\ saved'.entity = saved.entity /\ saved'.relation = saved.relation
         /\ Accepted(saved) \subseteq Accepted(saved')
<1>1. phase = "fallback" /\ graph = saved
  BY DEF FallbackStep, WriteInv, GraphInv
<1>2. ASSUME NEW f \in turn.todo, saved' = Capture(graph, turn.contents[f])
      PROVE  /\ saved'.entity = saved.entity /\ saved'.relation = saved.relation
             /\ Accepted(saved) \subseteq Accepted(saved')
  <2> DEFINE fact == turn.contents[f]
  <2>1. fact \in Content /\ fact.subject = Owner
    BY <1>1 DEF WriteInv, RefsInv, TurnInv, ContentsFit
  <2>2. fact.key \in Keys /\ fact.value \in Values /\ fact.subject \in Entities \cup {Owner}
    BY <2>1 DEF Content
  <2>3. graph \in Graph /\ saved' = Capture(graph, fact)
    BY <1>2 DEF WriteInv, WriteTypeOK
  <2> HIDE DEF fact
  <2>. QED BY <2>2, <2>3, <1>1, CaptureKeeps
<1>. QED BY <1>2 DEF FallbackStep

\* Entities and relations reach the file only together with every fact of the
\* turn that brought them.
THEOREM PlansAreWhole == Spec => OrganisedTogether
<1> DEFINE Whole ==
      saved'.entity # saved.entity \/ saved'.relation # saved.relation =>
        \A f \in DOMAIN turn.plan.facts :
          \E c \in Recorded(saved)' : ValueOf(c) = turn.contents[f].value
<1>1. ASSUME WriteInv, [Next]_vars PROVE Whole
  <2>1. CASE saved' = saved
    BY <2>1
  <2>2. CASE Commit
    <3>1. phase = "commit" /\ saved' = graph
      BY <2>2 DEF Commit
    <3>2. PlanFits(turn.plan, turn.contents) /\ \A f \in DOMAIN turn.contents : FactBound(f)
      BY <1>1, <3>1 DEF WriteInv, TurnInv, RefsInv, InTransaction
    <3>3. \A f \in DOMAIN turn.plan.facts :
            /\ refs[f] \in Recorded(graph)
            /\ ValueOf(refs[f]) = turn.contents[f].value
      BY <3>2 DEF PlanFits, FactBound
    <3>. QED BY <3>1, <3>3
  <2>3. CASE FallbackStep
    BY <1>1, <2>3, FallbackAdds
  <2>4. ASSUME NEW c \in Claims, Confirm(c) \/ Decide(c) PROVE Whole
    <3>1. graph = saved /\ graph \in Graph
      BY <1>1, <2>4 DEF Confirm, Decide, WriteInv, WriteTypeOK, GraphInv
    <3>2. saved'.entity = graph.entity /\ saved'.relation = graph.relation
      BY <2>4, <3>1 DEF Confirm, Decide, Settle, Graph
    <3>. QED BY <3>1, <3>2
  <2>. QED BY <1>1, <2>1, <2>2, <2>3, <2>4, FileSteps
<1>. QED BY <1>1, WriteInvariance, PTL DEF Spec, OrganisedTogether

\* Writing a turn leaves every believed claim believed, and records no relation
\* that is the reconciler's or a person's to decide.
THEOREM WritingDecidesNothing == Spec => TurnsDecideNothing
<1> DEFINE Nothing ==
      /\ \A c \in Claims :
           saved.claim[c] = "accepted" /\ saved'.claim[c] # "accepted" =>
             \E winner \in Claims : SlotOf(winner) = SlotOf(c) /\ Decide(winner)
      /\ \A r \in saved'.relation : r[1] \notin Governed
<1>1. ASSUME WriteInv, [Next]_vars PROVE Nothing
  <2>1. \A r \in saved'.relation : r[1] \notin Governed
    BY <1>1, NextWrite DEF WriteInv, GraphInv, Ungoverned
  <2>2. ASSUME NEW c \in Claims, saved.claim[c] = "accepted", saved'.claim[c] # "accepted"
        PROVE  \E winner \in Claims : SlotOf(winner) = SlotOf(c) /\ Decide(winner)
    <3>1. c \in Accepted(saved) \ Accepted(saved')
      BY <2>2 DEF Accepted
    <3>2. CASE saved' = saved
      BY <3>1, <3>2
    <3>3. CASE Commit
      BY <1>1, <3>1, <3>3 DEF Commit, WriteInv, GraphInv
    <3>4. CASE FallbackStep
      BY <1>1, <3>1, <3>4, FallbackAdds
    <3>5. ASSUME NEW k \in Claims, Confirm(k) PROVE FALSE
      <4>1. graph = saved /\ graph \in Graph
        BY <1>1, <3>5 DEF Confirm, WriteInv, WriteTypeOK, GraphInv
      <4>2. saved'.claim = [graph.claim EXCEPT ![k] = "accepted"]
        BY <3>5, <4>1 DEF Confirm, Settle, Graph
      <4>3. graph.claim \in [Claims -> {"absent", "tentative", "accepted", "superseded"}]
        BY <4>1 DEF Graph
      <4>. QED BY <2>2, <4>1, <4>2, <4>3
    <3>6. ASSUME NEW winner \in Claims, Decide(winner) PROVE SlotOf(winner) = SlotOf(c)
      BY <1>1, <3>1, <3>6, DecideWrite
    <3>. QED BY <1>1, <3>2, <3>3, <3>4, <3>5, <3>6, FileSteps
  <2>. QED BY <2>1, <2>2
<1>. QED BY <1>1, WriteInvariance, PTL DEF Spec, TurnsDecideNothing
=============================================================================
