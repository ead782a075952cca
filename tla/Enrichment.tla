----------------------------- MODULE Enrichment -----------------------------
(***************************************************************************)
(* What a model's reply about the organisation of extracted facts becomes: *)
(* normalizeGraphEnrichment and guardDimensionRemapping of                 *)
(* src/agent/graph-enrichment.ts, as operators.                            *)
(*                                                                         *)
(* Contents are functions from positions (naturals) to facts: a fact is    *)
(* referred to by its position, an entity by a name. The reply is what the *)
(* model wrote, in its order; only its well-typed entries are considered.  *)
(***************************************************************************)
EXTENDS Naturals, Sequences, FiniteSets

CONSTANTS
  Keys,         \* property keys
  CamelCase,    \* those in lowerCamelCase; known keys may be older than that rule
  Compatible,   \* pairs of keys that share enough words
  Names,        \* canonical names: refs, identity keys and labels of entities
  NoName,       \* what is left of a key without letters or digits
  Values,       \* values of facts; those in Names are spelled like an entity
  Owner,        \* $scopeOwner
  Context,      \* the scope of the turn
  Global        \* no scope: entities shared by all

Scopes == {Context, Global}
Speakers == {"user", "assistant"}

\* A fact, an entity as the model drafts it, and a relation between the two.
Content == [key : Keys, value : Values, said : Speakers, subject : Names \cup {Owner}]
Draft == [ref : Names, name : Names \cup {NoName}, label : Names, scope : Scopes]
RelationTypes == {"about", "other", "contradicts", "refines", "supersedes"}
Relation == [type : RelationTypes, from : Names \cup Nat, to : Names \cup Nat]

\* Epistemic relations are the reconciler's to decide, not the organiser's.
Governed == {"contradicts", "refines", "supersedes"}

ASSUME EnrichmentAssumption ==
  /\ Owner \notin Names
  /\ NoName \notin Names
  /\ CamelCase \subseteq Keys
  /\ Compatible \subseteq Keys \X Keys

-----------------------------------------------------------------------------

Listed(sequence) == {sequence[i] : i \in DOMAIN sequence}

\* The reply maps every fact once and nothing else, and to keys in lowerCamelCase,
\* also where the key is the fact's own; otherwise it is refused.
OneMappingPerFact(reply, contents) ==
  /\ \A m \in Listed(reply.mappings) : m.key \in CamelCase
  /\ Cardinality(DOMAIN reply.mappings) = Cardinality(DOMAIN contents)
  /\ {m.fact : m \in Listed(reply.mappings)} = DOMAIN contents

MappingOf(reply, fact) == CHOOSE m \in Listed(reply.mappings) : m.fact = fact

\* Of drafts with one ref, the first.
KeptEntities(reply, contents) ==
  {reply.entities[i] :
     i \in {i \in DOMAIN reply.entities :
              /\ reply.entities[i].ref \notin DOMAIN contents
              /\ \A j \in 1 .. i - 1 : reply.entities[j].ref # reply.entities[i].ref}}

KnownRefs(reply, contents) ==
  DOMAIN contents \cup {e.ref : e \in KeptEntities(reply, contents)}

\* Positions of the relations between known refs that are not governed.
\* Mutant: governed relations pass.
CandidatesUngoverned(reply, contents) ==
  {i \in DOMAIN reply.relations :
     {reply.relations[i].from, reply.relations[i].to} \subseteq KnownRefs(reply, contents)}
Candidates(reply, contents) ==
  {i \in DOMAIN reply.relations :
     /\ {reply.relations[i].from, reply.relations[i].to} \subseteq KnownRefs(reply, contents)
     /\ reply.relations[i].type \notin Governed}

\* The facts said to be about an entity; a repeated relation counts twice.
Supporters(reply, contents, entity) ==
  {i \in Candidates(reply, contents) :
     /\ reply.relations[i].type = "about"
     /\ reply.relations[i].to = entity
     /\ reply.relations[i].from \in DOMAIN contents}

\* Relations start at facts, so that their trust follows a claim. One that
\* starts at an entity is moved to the only fact about it, or dropped.
\* Mutant: it is kept as it is.
UnprojectedRelations(reply, contents) ==
  {reply.relations[i] : i \in Candidates(reply, contents)}
Relations(reply, contents) ==
  LET all   == reply.relations
      facts == {i \in Candidates(reply, contents) : all[i].from \in DOMAIN contents}
  IN {all[i] : i \in facts} \cup
     UNION {LET by == Supporters(reply, contents, all[i].from)
            IN {[all[i] EXCEPT !.from = all[j].from] : j \in {k \in by : by = {k}}}
              : i \in Candidates(reply, contents) \ facts}

-----------------------------------------------------------------------------
\* A fact moves to another property, or subject, only under a key that asks the
\* same question; otherwise the extracted fact stands, subject included.
\* Mutant: any key will do (Remapped).
Remapped(original, mapping) ==
  [original EXCEPT !.key = mapping.key, !.subject = mapping.subject]
Guarded(original, mapping) ==
  IF mapping.key = original.key \/ <<original.key, mapping.key>> \in Compatible
    THEN Remapped(original, mapping)
    ELSE original

Plan(reply, contents) ==
  [entities  |-> KeptEntities(reply, contents),
   facts     |-> [f \in DOMAIN contents |-> Guarded(contents[f], MappingOf(reply, f))],
   relations |-> Relations(reply, contents)]

=============================================================================
