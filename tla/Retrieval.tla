----------------------------- MODULE Retrieval ------------------------------
(***************************************************************************)
(* What a question finds: retrieveRelevant, the two routes it fuses, and   *)
(* the boundaries it keeps. Scoring texts and vectors is outside: a query  *)
(* comes with the order in which each route ranks the nodes, and a window  *)
(* of dates narrows the candidates as the acceptance states do.            *)
(*                                                                         *)
(* Two boundaries differ. Scope is an exact identity and hides everything  *)
(* else. Account, the caller's own sessions, puts what is its own first    *)
(* and leaves the others' reachable. The limits of a list (64 or 8k a      *)
(* route, 32 or 4k hits) are larger than the instances and left out.       *)
(***************************************************************************)
EXTENDS Naturals, FiniteSets, SequencesExt

CONSTANTS
  Claims, Messages, Slots, Entities, Episodes,
  SlotOf,         \* the slot of each claim
  SubjectOf,      \* the entity a slot is about, or Owner
  About,          \* the entities a claim is about
  ScopeOf,        \* of claims, messages, episodes and rules
  SourcesOf,      \* the episodes a claim or message comes from
  CreatedAt,      \* of claims
  Owner, NoScope,
  Smoothing,      \* of reciprocal rank fusion
  SemanticLimit   \* how many claims are hits

VARIABLES
  state,          \* acceptance state of each claim, "absent" if not captured yet
  query,          \* what is asked: rankings, boundaries and filters
  candidates      \* the nodes that were there when the question was asked

Nodes == Claims \cup Messages

\* scope: NoScope if none is asked for; account, states: {} if not restricted.
Query == [lexical : Seq(Nodes), vector : Seq(Nodes),
          names : SUBSET Entities,      \* the entities the question names
          matches : SUBSET Episodes,    \* the episodes whose text it matches
          dated : BOOLEAN,              \* whether it speaks of a date
          near : SUBSET Episodes,       \* the episodes of that date
          scope : {ScopeOf[x] : x \in DOMAIN ScopeOf} \cup {NoScope},
          account : SUBSET Episodes, states : SUBSET STRING]

ASSUME RetrievalAssumption ==
  /\ SlotOf \in [Claims -> Slots] /\ Claims \cap Messages = {}
  /\ SubjectOf \in [Slots -> Entities \cup {Owner}]
  /\ About \in [Claims -> SUBSET Entities]
  /\ SourcesOf \in [Nodes -> SUBSET Episodes]
  /\ CreatedAt \in [Claims -> Nat]
  /\ Nodes \cup Episodes \subseteq DOMAIN ScopeOf
  /\ Smoothing \in Nat /\ SemanticLimit \in Nat
  /\ IsFiniteSet(Claims) /\ IsFiniteSet(Messages) /\ IsFiniteSet(Episodes)

-----------------------------------------------------------------------------

Within(x) == query.scope = NoScope \/ ScopeOf[x] = query.scope
Own(n) == query.account = {} \/ SourcesOf[n] \cap query.account # {}

Exists(c) == state[c] # "absent"

\* Messages are stored as accepted.
StateOf(n) == IF n \in Messages THEN "accepted" ELSE state[n]

Candidates ==
  {n \in Nodes : /\ Within(n)
                 /\ StateOf(n) # "absent"
                 /\ query.states = {} \/ StateOf(n) \in query.states}

\* fuseRRF. A vector hit weighs 1.25 lexical ones; Scale makes the fractions whole.
Scale == LET upTo[i \in 0..Cardinality(Nodes)] ==
               IF i = 0 THEN 1 ELSE upTo[i - 1] * (Smoothing + i)
         IN  upTo[Cardinality(Nodes)]

Points(route, weight, n) ==
  IF n \in ToSet(route)
    THEN weight * (Scale \div (Smoothing + CHOOSE i \in DOMAIN route : route[i] = n))
    ELSE 0

Route(ranking) == SelectSeq(ranking, LAMBDA n : n \in candidates)
Score(n) == Points(Route(query.lexical), 4, n) + Points(Route(query.vector), 5, n)

\* Own nodes first, then by score.
Better(m, n) == IF Own(m) = Own(n) THEN Score(m) >= Score(n) ELSE Own(m)

\* The orders the hits may come in: equal scores in either order.
Hits ==
  LET found == {n \in candidates : n \in ToSet(query.lexical) \cup ToSet(query.vector)}
  IN  {order \in SetToSeqs(found) :
         \A i, j \in DOMAIN order : i < j => Better(order[i], order[j])}

Position(list, x) == CHOOSE i \in DOMAIN list : list[i] = x

\* Claims and messages are two lanes; the first few claims are hits.
DirectHits(hits) ==
  LET claims   == ToSet(hits) \cap Claims
      ahead(c) == {d \in claims : Position(hits, d) < Position(hits, c)}
  IN  {direct \in SetToSeqs({c \in claims : Cardinality(ahead(c)) < SemanticLimit}) :
         \A i, j \in DOMAIN direct :
           i < j => Position(hits, direct[i]) < Position(hits, direct[j])}

=============================================================================
