---------------------------- MODULE Neighborhood ----------------------------
(***************************************************************************)
(* aboutRelatedHits: claims that share no word with the question and are   *)
(* reached from the entities it names, or from those its hits are about,   *)
(* through at most three layers of claims and entities. How well a claim   *)
(* fits the question only breaks ties here, and the widths of the search   *)
(* (six hits, four names, eight claims a layer) are not reached.           *)
(***************************************************************************)
EXTENDS Retrieval

CONSTANT ExpansionLimit

ASSUME NeighborhoodAssumption == ExpansionLimit \in Nat

\* Claims at an entity: about it, or of a slot whose subject it is.
\* Mutant: of any scope.
TouchingAny(entities) ==
  {c \in Claims : Exists(c) /\ (About[c] \cap entities # {} \/ SubjectOf[SlotOf[c]] \in entities)}
Touching(entities) ==
  {c \in Claims :
     /\ Exists(c) /\ Within(c)
     /\ IF query.states = {} THEN state[c] \notin {"superseded", "rejected"}
                             ELSE state[c] \in query.states
     /\ About[c] \cap entities # {} \/ SubjectOf[SlotOf[c]] \in entities}

\* The account's own, if there are any.
Preferred(claims) ==
  LET own == {c \in claims : Own(c)}
  IN  IF own # {} THEN own ELSE claims

\* Named entities are stronger anchors than those of the hits.
Anchors(direct) ==
  IF query.names # {} THEN query.names ELSE UNION {About[c] : c \in ToSet(direct)}

\* One layer further. Claims already seen are walked through, not added.
Further(direct, at) ==
  LET here  == Touching(at.frontier)
      new   == {c \in here : /\ c \notin at.seen
                             /\ \A h \in ToSet(direct) : SlotOf[c] # SlotOf[h]}
      layer == Preferred(new)
      past  == at.visited \cup at.frontier
  IN  [frontier |-> UNION {About[c] : c \in Preferred(here)} \ past,
       visited  |-> past,
       seen     |-> at.seen \cup layer,
       layer    |-> layer]

Walk(direct) ==
  LET one == Further(direct, [frontier |-> Anchors(direct), visited |-> {},
                              seen |-> ToSet(direct), layer |-> {}])
      two == Further(direct, one)
  IN  <<one, two, Further(direct, two)>>

\* One claim of each layer first, then the others, own ones first, up to the limit.
Related(direct) ==
  LET walk    == Walk(direct)
      reached == {d \in 1..3 : walk[d].layer # {}}
      all     == UNION {walk[d].layer : d \in reached}
      size    == IF Cardinality(all) < ExpansionLimit THEN Cardinality(all) ELSE ExpansionLimit
  IN  {claims \in SUBSET all :
         /\ Cardinality(claims) = size
         /\ \A d \in reached :
              Cardinality({e \in reached : e < d}) < ExpansionLimit => claims \cap walk[d].layer # {}
         /\ \A c \in claims, other \in all \ claims :
              Own(other) /\ ~Own(c) => \E d \in reached : claims \cap walk[d].layer = {c}}

=============================================================================
