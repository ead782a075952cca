----------------------------- MODULE BatchReply -----------------------------
(***************************************************************************)
(* Bulk import: one reply brings the facts, a decision on every event the  *)
(* model was asked about, and the organisation of both.                    *)
(* normalizeBatchExtractionReply of src/agent/extract.ts and               *)
(* normalizeIntegratedGraphExtractionReply of src/agent/graph-batch.ts.    *)
(*                                                                         *)
(* b.expected is the set of events asked about; b.events the decisions and *)
(* b.entries the other facts, in the order of the reply.                   *)
(***************************************************************************)
EXTENDS Enrichment

CONSTANT NoKey   \* a key neither known nor in lowerCamelCase, beyond repair

Entry == [key : Keys \cup {NoKey}, value : Values, said : Speakers,
          ref : Names \cup {NoName}, subject : Names \cup {Owner}]

WellFormed(entry) == entry.key # NoKey

\* Each event is decided once, and a kept one brings a fact; else the reply is
\* refused as a whole. Where no event was asked about, decisions are not read.
DecisionsComplete(b) ==
  b.expected = {} \/
  /\ Len(b.events) = Cardinality(b.expected)
  /\ {d.event : d \in Listed(b.events)} = b.expected
  /\ \A d \in Listed(b.events) : d.keep => WellFormed(d.entry)

KeptEvents(b) ==
  LET kept == SelectSeq(b.events, LAMBDA d : d.keep)
  IN [i \in DOMAIN kept |-> kept[i].entry]

\* Every entry of the reply that says something, events first.
Considered(b) == SelectSeq(KeptEvents(b) \o b.entries, WellFormed)

\* What makes two entries one fact: not the subject.
Identity(entry) == <<entry.key, entry.value, entry.said>>
Twins(b, f) ==
  {i \in DOMAIN Considered(b) : Identity(Considered(b)[i]) = Identity(Considered(b)[f])}

\* The facts of the reply, by their positions. Only where events were asked
\* about are repetitions left out; there is no subject yet.
Positions(b) ==
  IF b.expected = {}
    THEN {Len(SelectSeq(KeptEvents(b), WellFormed)) + i :
            i \in DOMAIN SelectSeq(b.entries, WellFormed)}
    ELSE {f \in DOMAIN Considered(b) : \A i \in Twins(b, f) : f <= i}
BatchContents(b) ==
  [f \in Positions(b) |->
     [key |-> Considered(b)[f].key, value |-> Considered(b)[f].value,
      said |-> Considered(b)[f].said, subject |-> Owner]]

FirstOf(S) == CHOOSE i \in S : \A j \in S : i <= j
LastOf(S) == CHOOSE i \in S : \A j \in S : i >= j

\* The first twin with a mapping; of several mappings of a ref, the last.
Mapped(b, f) ==
  {i \in Twins(b, f) : \E m \in Listed(b.mappings) : m.fact = Considered(b)[i].ref}
Proposed(b, f) ==
  LET ref == Considered(b)[FirstOf(Mapped(b, f))].ref
  IN b.mappings[LastOf({k \in DOMAIN b.mappings : b.mappings[k].fact = ref})]

\* A named subject is preferred to the owner, the mapping's to the entries'.
SubjectOfFact(b, f) ==
  LET said == {i \in Twins(b, f) : Considered(b)[i].subject # Owner}
  IN IF Mapped(b, f) # {} /\ Proposed(b, f).subject # Owner THEN Proposed(b, f).subject
     ELSE IF said # {} THEN Considered(b)[FirstOf(said)].subject
     ELSE Owner

\* A ref stands for the last fact that carries it.
Canonical(b, ref) ==
  LET carriers == {f \in Positions(b) : \E i \in Twins(b, f) : Considered(b)[i].ref = ref}
  IN IF ref = NoName \/ carriers = {} THEN ref ELSE LastOf(carriers)

\* The reply in the form of Enrichment: one mapping for each fact.
Integrated(b) ==
  [mappings  |-> [f \in Positions(b) |->
                    [fact |-> f, subject |-> SubjectOfFact(b, f),
                     key |-> IF Mapped(b, f) # {} THEN Proposed(b, f).key
                                                 ELSE Considered(b)[f].key]],
   entities  |-> b.entities,
   relations |-> [k \in DOMAIN b.relations |->
                    [b.relations[k] EXCEPT !.from = Canonical(b, @), !.to = Canonical(b, @)]]]

MappingsUsable(b) == \A f \in Positions(b) : Integrated(b).mappings[f].key \in CamelCase

\* Nothing guards the keys here: the mapping comes with the extraction.
BatchPlan(b) ==
  LET reply == Integrated(b)
  IN [entities  |-> KeptEntities(reply, BatchContents(b)),
      facts     |-> [f \in Positions(b) |->
                       Remapped(BatchContents(b)[f], reply.mappings[f])],
      relations |-> Relations(reply, BatchContents(b))]

=============================================================================
