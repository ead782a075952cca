--------------------------- MODULE Context_proofs ---------------------------
(***************************************************************************)
(* The context of a question, for any memory, question and limits: whose   *)
(* and of what scope everything in it is (FoundInv, QuotesInv, BlocksInv), *)
(* that conversations take turns (TurnsInv), and its budget of lines       *)
(* (BudgetInv). How well texts fit plays no part.                          *)
(***************************************************************************)
EXTENDS Context, FiniteSetTheorems, NaturalsInduction, TLAPS

-----------------------------------------------------------------------------
(* Sequences *)

\* An ordering of a finite set is a sequence of its members, each once.
LEMMA OrderingOf ==
  ASSUME NEW S, IsFiniteSet(S), NEW o \in SetToSeqs(S)
  PROVE  /\ o \in Seq(S)
         /\ \A x \in ToSet(o) : x \in S
         /\ \A i, j \in DOMAIN o : i # j => o[i] # o[j]
<1>1. Cardinality(S) \in Nat
  BY FS_CardinalityType
<1>2. o \in [1..Cardinality(S) -> S] /\ \A i, j \in 1..Cardinality(S) : i # j => o[i] # o[j]
  BY DEF SetToSeqs
<1>. QED BY <1>1, <1>2 DEF ToSet

\* The first n members of a sequence.
LEMMA FirstOfSequence ==
  ASSUME NEW S, NEW s \in Seq(S), NEW n \in Nat
  PROVE  /\ First(s, n) \in Seq(S)
         /\ Len(First(s, n)) <= n
         /\ DOMAIN First(s, n) \subseteq DOMAIN s
         /\ \A i \in DOMAIN First(s, n) : First(s, n)[i] = s[i]
<1> DEFINE m == Least(Len(s), n)
<1>1. m \in Nat /\ m <= Len(s) /\ m <= n
  BY DEF Least
<1>2. First(s, n) = [i \in 1..m |-> s[i]]
  BY DEF First
<1> HIDE DEF m
<1>3. \A i \in 1..m : s[i] \in S
  BY <1>1
<1>4. First(s, n) \in [1..m -> S]
  BY <1>2, <1>3
<1>5. First(s, n) \in Seq(S) /\ Len(First(s, n)) = m
  BY <1>1, <1>4
<1>. QED BY <1>1, <1>2, <1>5

\* The recursive sum of characters is defined.
LEMMA CharsDefined ==
  ASSUME NEW S, NEW q \in Seq(S)
  PROVE  CharsUpTo(q) = [n \in 0..Len(q) |->
           IF n = 0 THEN 0 ELSE CharsUpTo(q)[n - 1] + SizeOf[q[n].text]]
<1> DEFINE Sums(f, m) ==
             f = [n \in 0..m |-> IF n = 0 THEN 0 ELSE f[n - 1] + SizeOf[q[n].text]]
           Missing == {m \in Nat : \A f : ~Sums(f, m)}
<1>1. Missing = {}
  <2> SUFFICES ASSUME Missing # {} PROVE FALSE
    OBVIOUS
  <2>1. Missing \in SUBSET Nat
    OBVIOUS
  <2>2. \E m \in Missing : \A k \in Missing : ~ (<<k, m>> \in OpToRel(<, Nat))
    <3> HIDE DEF Missing
    <3>. QED BY <2>1, NatLessThanWellFounded, WFMin
  <2>3. PICK m \in Missing : \A k \in Missing : ~ (<<k, m>> \in OpToRel(<, Nat))
    BY <2>2
  <2>4. m \in Nat /\ \A k \in Missing : ~ (k < m)
    BY <2>1, <2>3 DEF OpToRel
  <2>5. CASE m = 0
    <3>1. Sums([n \in 0..0 |-> 0], 0)
      OBVIOUS
    <3>. QED BY <2>3, <2>5, <3>1
  <2>6. CASE m # 0
    <3>1. m - 1 \in Nat /\ m - 1 < m
      BY <2>4, <2>6
    <3>2. PICK g : Sums(g, m - 1)
      BY <2>4, <3>1
    <3> DEFINE f == [n \in 0..m |-> IF n < m THEN g[n] ELSE g[m - 1] + SizeOf[q[m].text]]
    <3>3. \A n \in 0..m : f[n] = IF n = 0 THEN 0 ELSE f[n - 1] + SizeOf[q[n].text]
      <4> TAKE n \in 0..m
      <4>1. CASE n = m
        BY <2>4, <2>6, <4>1
      <4>2. CASE n # m
        <5>1. n \in 0..m - 1 /\ n < m
          BY <2>4, <4>2
        <5>2. g[n] = IF n = 0 THEN 0 ELSE g[n - 1] + SizeOf[q[n].text]
          BY <3>2, <5>1
        <5>3. n # 0 => n - 1 \in 0..m /\ n - 1 < m
          BY <2>4, <5>1
        <5>. QED BY <5>1, <5>2, <5>3
      <4>. QED BY <4>1, <4>2
    <3>4. Sums(f, m)
      BY <3>3
    <3> HIDE DEF f
    <3>. QED BY <2>3, <3>4
  <2>. QED BY <2>5, <2>6
<1>2. Len(q) \in Nat
  OBVIOUS
<1>3. \E f : Sums(f, Len(q))
  BY <1>1, <1>2
<1>4. CharsUpTo(q) = CHOOSE f : Sums(f, Len(q))
  BY DEF CharsUpTo
<1>5. Sums(CharsUpTo(q), Len(q))
  <2> HIDE DEF Sums
  <2>. QED BY <1>3, <1>4
<1>. QED BY <1>5

\* One quotation more adds its own characters, and changes no earlier sum.
LEMMA CharsOfOneMore ==
  ASSUME NEW S, NEW q \in Seq(S), NEW x \in S
  PROVE  /\ \A n \in 0..Len(q) : CharsUpTo(Append(q, x))[n] = CharsUpTo(q)[n]
         /\ CharsUpTo(Append(q, x))[Len(q) + 1] = CharsUpTo(q)[Len(q)] + SizeOf[x.text]
<1> DEFINE r == Append(q, x)
           f == CharsUpTo(q)
           g == CharsUpTo(r)
           Wrong == {n \in 0..Len(q) : g[n] # f[n]}
<1>1. /\ r \in Seq(S) /\ Len(r) = Len(q) + 1 /\ Len(q) \in Nat
      /\ \A n \in 1..Len(q) : r[n] = q[n]
      /\ r[Len(q) + 1] = x
  OBVIOUS
<1>2. f = [n \in 0..Len(q) |-> IF n = 0 THEN 0 ELSE f[n - 1] + SizeOf[q[n].text]]
  BY CharsDefined
<1>3. g = [n \in 0..Len(r) |-> IF n = 0 THEN 0 ELSE g[n - 1] + SizeOf[r[n].text]]
  <2> HIDE DEF r
  <2>. QED BY <1>1, CharsDefined
<1> HIDE DEF r, f, g
<1>4. Wrong = {}
  <2> SUFFICES ASSUME Wrong # {} PROVE FALSE
    OBVIOUS
  <2>1. Wrong \in SUBSET Nat
    OBVIOUS
  <2>2. \E m \in Wrong : \A k \in Wrong : ~ (<<k, m>> \in OpToRel(<, Nat))
    <3> HIDE DEF Wrong
    <3>. QED BY <2>1, NatLessThanWellFounded, WFMin
  <2>3. PICK m \in Wrong : \A k \in Wrong : ~ (<<k, m>> \in OpToRel(<, Nat))
    BY <2>2
  <2>4. m \in 0..Len(q) /\ g[m] # f[m] /\ \A k \in Wrong : ~ (k < m)
    BY <2>1, <2>3 DEF OpToRel
  <2>5. m # 0
    BY <1>1, <1>2, <1>3, <2>4
  <2>6. m - 1 \in 0..Len(q) /\ m - 1 < m /\ m \in 1..Len(q) /\ m \in 0..Len(r)
    BY <1>1, <2>4, <2>5
  <2>7. g[m - 1] = f[m - 1]
    BY <2>4, <2>6
  <2>8. f[m] = f[m - 1] + SizeOf[q[m].text]
    BY <1>2, <2>5, <2>4
  <2>9. g[m] = g[m - 1] + SizeOf[r[m].text]
    BY <1>3, <2>5, <2>6
  <2>. QED BY <1>1, <2>4, <2>6, <2>7, <2>8, <2>9
<1>5. \A n \in 0..Len(q) : g[n] = f[n]
  BY <1>4
<1>6. Len(q) + 1 \in 0..Len(r) /\ Len(q) + 1 # 0 /\ Len(q) \in 0..Len(q) /\ (Len(q) + 1) - 1 = Len(q)
  BY <1>1
<1>7. g[Len(q) + 1] = g[Len(q)] + SizeOf[r[Len(q) + 1].text]
  BY <1>3, <1>6
<1>8. g[Len(q) + 1] = f[Len(q)] + SizeOf[x.text]
  BY <1>1, <1>5, <1>6, <1>7
<1>. QED BY <1>5, <1>8 DEF r, f, g

\* With nothing quoted there are no characters.
LEMMA CharsOfNone == CharsUpTo(<<>>)[0] = 0
<1>1. <<>> \in Seq({}) /\ 0 \in 0..Len(<<>>)
  OBVIOUS
<1>. QED BY <1>1, CharsDefined

-----------------------------------------------------------------------------
(* What is found *)

\* Claims, messages and slots found are there, within the scope of the question.
FoundInv ==
  /\ query \in Query
  /\ DOMAIN state = Claims
  /\ \A n \in candidates : n \in Nodes /\ Within(n) /\ (n \in Claims => Exists(n))
  /\ direct \in Seq(Claims)
  /\ \A c \in ToSet(direct) : Exists(c) /\ Within(c)
  /\ order \in Seq(Slots)
  /\ \A s \in ToSet(order) : \E c \in Claims : Exists(c) /\ SlotOf[c] = s /\ Within(c)
  /\ messages \in Seq(Messages)
  /\ \A m \in ToSet(messages) : Within(m)
  /\ \A i, j \in DOMAIN messages : i # j => messages[i] # messages[j]

\* No claim is ever taken out of the memory, and the question stays the same.
LEMMA MemoryGrows ==
  ASSUME DOMAIN state = Claims, [Next]_vars
  PROVE  /\ DOMAIN state' = Claims /\ query' = query
         /\ \A c \in Claims : Exists(c) => Exists(c)'
<1>1. ASSUME NEW c \in Claims, Captured(c)
      PROVE  /\ DOMAIN state' = Claims /\ query' = query
             /\ \A d \in Claims : Exists(d) => Exists(d)'
  BY <1>1 DEF Captured, Exists
<1>2. ASSUME NEW c \in Claims, Decided(c)
      PROVE  /\ DOMAIN state' = Claims /\ query' = query
             /\ \A d \in Claims : Exists(d) => Exists(d)'
  BY <1>2 DEF Decided, Exists
<1>3. ASSUME UNCHANGED <<state, query>>
      PROVE  /\ DOMAIN state' = Claims /\ query' = query
             /\ \A d \in Claims : Exists(d) => Exists(d)'
  BY <1>3 DEF Exists
<1>. QED
  BY <1>1, <1>2, <1>3
     DEF Next, vars, memory, ConstraintChanges, Read, EmbeddingFails, Retrieved, GatherEvidence, Quote, Choose,
         StartMessages, QuoteMessage, StartSlots, WriteSlot, SummariseSlot, Deliver

\* Claims reached through the graph are there, and within the scope.
LEMMA RelatedWithin ==
  ASSUME NEW hits, NEW related \in Related(hits)
  PROVE  \A c \in related : c \in Claims /\ Exists(c) /\ Within(c)
<1>1. ASSUME NEW at, NEW c \in Further(hits, at).layer
      PROVE  c \in Claims /\ Exists(c) /\ Within(c)
  BY <1>1 DEF Further, Preferred, Touching
<1>2. ASSUME NEW d \in 1..3, NEW c \in Walk(hits)[d].layer
      PROVE  c \in Claims /\ Exists(c) /\ Within(c)
  BY <1>1, <1>2 DEF Walk
<1>. QED BY <1>2 DEF Related

\* The slots of claims that are there, and within the scope, are in it too.
LEMMA SlotsWithin ==
  ASSUME NEW claims \in Seq(Claims), \A c \in ToSet(claims) : Exists(c) /\ Within(c),
         NEW slots \in SlotsOf(claims)
  PROVE  /\ slots \in Seq(Slots)
         /\ \A s \in ToSet(slots) : \E c \in Claims : Exists(c) /\ SlotOf[c] = s /\ Within(c)
<1> DEFINE S == {s \in Slots : \E c \in ToSet(claims) : SlotOf[c] = s}
<1>1. slots \in SetToSeqs(S)
  BY DEF SlotsOf
<1>2. IsFiniteSet(S)
  BY ContextAssumption, FS_Subset
<1>3. \A c \in ToSet(claims) : c \in Claims
  BY DEF ToSet
<1>4. \A s \in S : s \in Slots /\ \E c \in Claims : Exists(c) /\ SlotOf[c] = s /\ Within(c)
  BY <1>3
<1>5. slots \in Seq(S) /\ \A s \in ToSet(slots) : s \in S
  <2> HIDE DEF S
  <2>. QED BY <1>1, <1>2, OrderingOf
<1>6. slots \in Seq(Slots)
  <2> HIDE DEF S
  <2>. QED BY <1>4, <1>5
<1>. QED BY <1>4, <1>5, <1>6

LEMMA RetrievedFound == FoundInv /\ Retrieved => FoundInv'
<1> SUFFICES ASSUME FoundInv, Retrieved PROVE FoundInv'
  OBVIOUS
<1>1. /\ UNCHANGED <<query, state, candidates>>
      /\ \A n \in candidates : n \in Nodes /\ Within(n) /\ (n \in Claims => Exists(n))
  BY DEF Retrieved, FoundInv, memory
<1>2. PICK hits \in Hits : \E claims \in DirectHits(hits) :
        /\ direct' = claims
        /\ messages' \in Bundles(claims, hits)
        /\ \E related \in Related(claims) : \E further \in SetToSeqs(related) :
             order' \in SlotsOf(claims \o further)
  BY DEF Retrieved
<1>3. PICK claims \in DirectHits(hits) :
        /\ direct' = claims
        /\ messages' \in Bundles(claims, hits)
        /\ \E related \in Related(claims) : \E further \in SetToSeqs(related) :
             order' \in SlotsOf(claims \o further)
  BY <1>2
<1>4. PICK related \in Related(claims) : \E further \in SetToSeqs(related) :
        order' \in SlotsOf(claims \o further)
  BY <1>3
<1>5. PICK further \in SetToSeqs(related) : order' \in SlotsOf(claims \o further)
  BY <1>4
<1>6. \A n \in ToSet(hits) : n \in candidates
  <2>1. PICK S : S \subseteq candidates /\ hits \in SetToSeqs(S)
    BY DEF Hits
  <2>2. \A i \in DOMAIN hits : hits[i] \in S
    BY <2>1 DEF SetToSeqs
  <2>. QED BY <2>1, <2>2 DEF ToSet
<1>7. claims \in Seq(Claims) /\ \A c \in ToSet(claims) : c \in Claims /\ c \in candidates
  <2>1. PICK S : S \subseteq ToSet(hits) \cap Claims /\ claims \in SetToSeqs(S)
    BY DEF DirectHits
  <2>2. IsFiniteSet(S)
    BY <2>1, RetrievalAssumption, FS_Subset
  <2>3. claims \in Seq(S) /\ \A c \in ToSet(claims) : c \in S
    BY <2>1, <2>2, OrderingOf
  <2>. QED BY <2>1, <2>3, <1>6
<1>8. \A c \in ToSet(claims) : Exists(c) /\ Within(c)
  BY <1>1, <1>7
<1>9. /\ messages' \in Seq(Messages)
      /\ \A m \in ToSet(messages') : m \in candidates
      /\ \A i, j \in DOMAIN messages' : i # j => messages'[i] # messages'[j]
  <2>1. PICK S : S \subseteq ToSet(hits) \cap Messages /\ messages' \in SetToSeqs(S)
    BY <1>3 DEF Bundles
  <2>2. IsFiniteSet(S)
    BY <2>1, RetrievalAssumption, FS_Subset
  <2>3. /\ messages' \in Seq(S) /\ \A m \in ToSet(messages') : m \in S
        /\ \A i, j \in DOMAIN messages' : i # j => messages'[i] # messages'[j]
    BY <2>1, <2>2, OrderingOf
  <2>. QED BY <2>1, <2>3, <1>6
<1>10. further \in Seq(Claims) /\ \A c \in ToSet(further) : Exists(c) /\ Within(c)
  <2>1. \A c \in related : c \in Claims /\ Exists(c) /\ Within(c)
    BY RelatedWithin
  <2>2. IsFiniteSet(related)
    BY <2>1, RetrievalAssumption, FS_Subset
  <2>3. further \in Seq(related) /\ \A c \in ToSet(further) : c \in related
    BY <2>2, OrderingOf
  <2>4. further \in Seq(Claims)
    BY <2>1, <2>3
  <2>. QED BY <2>1, <2>3, <2>4
<1>11. /\ claims \o further \in Seq(Claims)
       /\ \A c \in ToSet(claims \o further) : Exists(c) /\ Within(c)
  <2>1. \A i \in DOMAIN (claims \o further) :
          \/ (claims \o further)[i] \in ToSet(claims)
          \/ (claims \o further)[i] \in ToSet(further)
    BY <1>7, <1>10 DEF ToSet
  <2>. QED BY <1>7, <1>8, <1>10, <2>1 DEF ToSet
<1>12. /\ order' \in Seq(Slots)
       /\ \A s \in ToSet(order') : \E c \in Claims : Exists(c) /\ SlotOf[c] = s /\ Within(c)
  BY <1>5, <1>11, SlotsWithin
<1>. QED BY <1>1, <1>3, <1>7, <1>8, <1>9, <1>12 DEF FoundInv, Exists, Within

\* What was found stays within, if nothing but the memory around it changes.
LEMMA FoundStays ==
  ASSUME FoundInv, UNCHANGED <<query, direct, order>>, DOMAIN state' = Claims,
         \A c \in Claims : Exists(c) => Exists(c)',
         \A n \in candidates' : n \in Nodes /\ Within(n) /\ (n \in Claims => Exists(n)'),
         messages' \in Seq(Messages), \A m \in ToSet(messages') : m \in ToSet(messages),
         \A i, j \in DOMAIN messages' : i # j => messages'[i] # messages'[j]
  PROVE  FoundInv'
<1>1. \A c \in ToSet(direct) : c \in Claims
  BY DEF FoundInv, ToSet
<1>2. \A n : Within(n)' <=> Within(n)
  BY DEF Within
<1>. QED BY <1>1, <1>2 DEF FoundInv

LEMMA FoundStep == FoundInv /\ lines \in Nat /\ [Next]_vars => FoundInv'
<1> SUFFICES ASSUME FoundInv, lines \in Nat, [Next]_vars PROVE FoundInv'
  OBVIOUS
<1>1. /\ DOMAIN state' = Claims /\ query' = query
      /\ \A c \in Claims : Exists(c) => Exists(c)'
  BY MemoryGrows DEF FoundInv
<1>2. ASSUME UNCHANGED <<found, candidates>> PROVE FoundInv'
  BY <1>1, <1>2, FoundStays DEF found, FoundInv
<1>3. CASE Read
  <2>1. \A n \in candidates' : n \in Nodes /\ Within(n) /\ (n \in Claims => Exists(n))
    BY <1>3, RetrievalAssumption DEF Read, Candidates, StateOf, Exists, Nodes
  <2>2. \A n \in candidates' : n \in Nodes /\ Within(n) /\ (n \in Claims => Exists(n)')
    BY <1>1, <2>1
  <2>. QED BY <1>1, <1>3, <2>2, FoundStays DEF Read, found, FoundInv
<1>4. CASE Retrieved
  BY <1>4, RetrievedFound
<1>5. CASE StartMessages
  <2> DEFINE n == MaxEvidence - Least(MaxEvidence, lines)
  <2>1. n \in Nat
    BY ColdEvidenceAssumption DEF Least
  <2>2. /\ messages' = First(messages, n) /\ messages \in Seq(Messages)
        /\ UNCHANGED <<candidates, direct, order>>
        /\ \A i, j \in DOMAIN messages : i # j => messages[i] # messages[j]
    BY <1>5 DEF StartMessages, FoundInv
  <2> HIDE DEF n
  <2>3. /\ messages' \in Seq(Messages) /\ DOMAIN messages' \subseteq DOMAIN messages
        /\ \A i \in DOMAIN messages' : messages'[i] = messages[i]
    BY <2>1, <2>2, FirstOfSequence
  <2>4. \A m \in ToSet(messages') : m \in ToSet(messages)
    BY <2>3 DEF ToSet
  <2>5. \A i, j \in DOMAIN messages' : i # j => messages'[i] # messages'[j]
    BY <2>2, <2>3
  <2>. QED BY <1>1, <2>2, <2>3, <2>4, <2>5, FoundStays DEF FoundInv
<1>6. CASE QuoteMessage
  <2>1. /\ messages' = Tail(messages) /\ messages # <<>> /\ messages \in Seq(Messages)
        /\ UNCHANGED <<candidates, direct, order>>
        /\ \A i, j \in DOMAIN messages : i # j => messages[i] # messages[j]
    BY <1>6 DEF QuoteMessage, FoundInv
  <2>2. /\ messages' \in Seq(Messages)
        /\ \A i \in DOMAIN messages' : i + 1 \in DOMAIN messages /\ messages'[i] = messages[i + 1]
        /\ DOMAIN messages' \subseteq Nat
    BY <2>1
  <2>3. \A m \in ToSet(messages') : m \in ToSet(messages)
    BY <2>2 DEF ToSet
  <2>4. \A i, j \in DOMAIN messages' : i # j => messages'[i] # messages'[j]
    BY <2>1, <2>2
  <2>. QED BY <1>1, <2>1, <2>2, <2>3, <2>4, FoundStays DEF FoundInv
<1>. QED
  BY <1>2, <1>3, <1>4, <1>5, <1>6
     DEF Next, vars, EmbeddingFails, Captured, Decided, ConstraintChanges, GatherEvidence, Quote, Choose,
         StartSlots, WriteSlot, SummariseSlot, Deliver

-----------------------------------------------------------------------------
(* What is quoted *)

Quotation == [text    : Texts \cup {TextOf[m] : m \in Messages},
              from    : Episodes \cup Messages,
              foreign : BOOLEAN]

\* Another account's conversation is only a fallback.
Fallback(e) == e \notin query.account => Anchored(direct) \cap query.account = {}

\* The conversations chosen are the account's own, or a fallback, and so are those
\* quoted; every quotation is tagged by its origin, and all is within the scope.
QuotesInv ==
  /\ sources \in Seq(Episodes)
  /\ \A e \in ToSet(sources) : Within(e) /\ Fallback(e)
  /\ turn \in Nat \ {0} /\ unit \in Nat \ {0} /\ chars \in Nat
  /\ added \in BOOLEAN /\ remainder \in BOOLEAN
  /\ evidence \in Seq(Quotation)
  /\ \A i \in DOMAIN evidence :
       /\ Within(evidence[i].from)
       /\ evidence[i].foreign = Foreign(OriginOf(evidence[i].from))
       /\ evidence[i].from \in Episodes => Fallback(evidence[i].from)
  /\ phase \in {"asked", "embedding", "failed", "evidence"} => evidence = <<>> /\ sources = <<>>

\* The conversations to start from.
LEMMA GatheredSources ==
  ASSUME FoundInv, NEW ordered \in Sources(direct)
  PROVE  LET s == First(ordered, MaxSources)
         IN  /\ s \in Seq(Episodes)
             /\ \A e \in ToSet(s) : Within(e) /\ Fallback(e)
             /\ \A i, j \in DOMAIN s : i # j => s[i] # s[j]
<1> DEFINE all == Anchored(direct)
           own == all \cap query.account
           S   == IF own # {} THEN own ELSE all
           s   == First(ordered, MaxSources)
<1>1. \A e \in all : e \in Episodes /\ Within(e)
  <2>1. query \in Query /\ \A c \in ToSet(direct) : c \in Claims
    BY DEF FoundInv, ToSet
  <2>2. \A c \in Claims : SourcesOf[c] \subseteq Episodes
    BY RetrievalAssumption DEF Nodes
  <2>3. query.matches \subseteq Episodes
    BY <2>1 DEF Query
  <2>. QED BY <2>1, <2>2, <2>3 DEF Anchored
<1>2. S \subseteq all /\ \A e \in S : Fallback(e)
  BY DEF Fallback
<1>3. ordered \in SetToSeqs(S) /\ IsFiniteSet(S)
  <2>1. S \subseteq Episodes
    BY <1>1, <1>2
  <2>2. IsFiniteSet(S)
    BY <2>1, RetrievalAssumption, FS_Subset
  <2>. QED BY <2>2 DEF Sources
<1> HIDE DEF S, all
<1>4. /\ ordered \in Seq(S)
      /\ \A i, j \in DOMAIN ordered : i # j => ordered[i] # ordered[j]
  BY <1>3, OrderingOf
<1>5. /\ s \in Seq(S) /\ DOMAIN s \subseteq DOMAIN ordered
      /\ \A i \in DOMAIN s : s[i] = ordered[i]
  BY <1>4, ColdEvidenceAssumption, FirstOfSequence
<1> HIDE DEF s
<1>6. \A e \in ToSet(s) : e \in S
  BY <1>5 DEF ToSet
<1>7. s \in Seq(Episodes)
  BY <1>1, <1>2, <1>5
<1>8. \A i, j \in DOMAIN s : i # j => s[i] # s[j]
  BY <1>4, <1>5
<1>. QED BY <1>1, <1>2, <1>6, <1>7, <1>8 DEF s

\* What the turn offers is a unit of a conversation that was chosen.
LEMMA OfferedUnit ==
  ASSUME QuotesInv, turn <= Len(sources)
  PROVE  /\ turn \in DOMAIN sources /\ Source \in Episodes /\ Source \in ToSet(sources)
         /\ Units[Source] \in Seq(Texts)
         /\ Offers => Offer \in Texts /\ SizeOf[Offer] \in Nat
<1>1. turn \in DOMAIN sources
  BY DEF QuotesInv
<1>2. Source \in Episodes /\ Source \in ToSet(sources)
  BY <1>1 DEF Source, QuotesInv, ToSet
<1>3. Units[Source] \in Seq(Texts)
  BY <1>2, ColdEvidenceAssumption
<1>4. Offers => unit \in DOMAIN Units[Source]
  BY <1>3 DEF Offers, QuotesInv
<1>5. Offers => Offer \in Texts
  BY <1>3, <1>4 DEF Offer
<1>. QED BY <1>1, <1>2, <1>3, <1>5, ColdEvidenceAssumption

LEMMA AdvanceTypes ==
  ASSUME QuotesInv, turn <= Len(sources), Advance
  PROVE  turn' \in Nat \ {0} /\ unit' \in Nat \ {0}
BY DEF Advance, QuotesInv

\* One more quotation, which is a message or a unit of a chosen conversation.
LEMMA OneMoreQuotation ==
  ASSUME QuotesInv, NEW x \in Quotation, evidence' = Append(evidence, x),
         UNCHANGED <<query, sources>>, Within(x.from),
         x.foreign = Foreign(OriginOf(x.from)), x.from \in Episodes => Fallback(x.from)
  PROVE  /\ evidence' \in Seq(Quotation)
         /\ \A i \in DOMAIN evidence' :
              /\ Within(evidence'[i].from)
              /\ evidence'[i].foreign = Foreign(OriginOf(evidence'[i].from))
              /\ evidence'[i].from \in Episodes => Fallback(evidence'[i].from)
<1> DEFINE n == Len(evidence)
<1>1. /\ evidence \in Seq(Quotation) /\ n \in Nat /\ DOMAIN evidence = 1..n
      /\ evidence' \in Seq(Quotation) /\ DOMAIN evidence' = 1..n + 1
      /\ evidence'[n + 1] = x /\ \A i \in 1..n : evidence'[i] = evidence[i]
  BY DEF QuotesInv
<1> HIDE DEF n
<1>2. \A i \in 1..n :
        /\ Within(evidence[i].from)
        /\ evidence[i].foreign = Foreign(OriginOf(evidence[i].from))
        /\ evidence[i].from \in Episodes => Fallback(evidence[i].from)
  BY <1>1 DEF QuotesInv
<1>3. \A i \in 1..n + 1 : i \in 1..n \/ i = n + 1
  BY <1>1
<1>. QED BY <1>1, <1>2, <1>3

LEMMA QuotesStay ==
  ASSUME QuotesInv, UNCHANGED <<query, evidence>>,
         direct' = direct \/ phase = "embedding",
         sources' \in Seq(Episodes), \A e \in ToSet(sources') : e \in ToSet(sources),
         turn' \in Nat \ {0}, unit' \in Nat \ {0}, chars' \in Nat,
         added' \in BOOLEAN, remainder' \in BOOLEAN,
         phase' \in {"asked", "embedding", "failed", "evidence"} =>
           phase \in {"asked", "embedding", "failed", "evidence"}
  PROVE  QuotesInv'
<1>1. \A e : Within(e)' <=> Within(e)
  BY DEF Within
<1>2. phase' \in {"asked", "embedding", "failed", "evidence"} => evidence' = <<>> /\ sources' = <<>>
  <2>1. ASSUME sources = <<>> PROVE sources' = <<>>
    <3>1. ToSet(sources) = {}
      BY <2>1 DEF ToSet
    <3>2. ToSet(sources') = {}
      BY <3>1
    <3>3. DOMAIN sources' = {}
      BY <3>2 DEF ToSet
    <3>. QED BY <3>3
  <2>. QED BY <2>1 DEF QuotesInv
<1>3. \A e \in ToSet(sources') : Fallback(e)'
  <2>1. CASE direct' = direct
    BY <1>1, <2>1 DEF QuotesInv, Fallback, Anchored
  <2>2. CASE phase = "embedding"
    BY <2>2 DEF QuotesInv, ToSet
  <2>. QED BY <2>1, <2>2
<1>4. \A i \in DOMAIN evidence : evidence[i].from \in Episodes => Fallback(evidence[i].from)'
  <2>1. CASE direct' = direct
    BY <1>1, <2>1 DEF QuotesInv, Fallback, Anchored
  <2>2. CASE phase = "embedding"
    BY <2>2 DEF QuotesInv
  <2>. QED BY <2>1, <2>2
<1>5. \A i \in DOMAIN evidence : evidence[i].foreign = Foreign(OriginOf(evidence[i].from))'
  BY DEF QuotesInv, Foreign, OriginOf
<1>. QED BY <1>1, <1>2, <1>3, <1>4, <1>5 DEF QuotesInv

LEMMA QuotesStep == FoundInv /\ QuotesInv /\ [Next]_vars => QuotesInv'
<1> SUFFICES ASSUME FoundInv, QuotesInv, [Next]_vars PROVE QuotesInv'
  OBVIOUS
<1>1. query' = query
  BY MemoryGrows DEF FoundInv
<1>2. ASSUME UNCHANGED coldVars, direct' = direct \/ phase = "embedding",
             phase' \in {"asked", "embedding", "failed", "evidence"} =>
               phase \in {"asked", "embedding", "failed", "evidence"}
      PROVE  QuotesInv'
  BY <1>1, <1>2, QuotesStay DEF QuotesInv, coldVars, choosing
<1>3. CASE GatherEvidence
  <2>1. PICK ordered \in Sources(direct) : sources' = First(ordered, MaxSources)
    BY <1>3 DEF GatherEvidence, Gather
  <2>2. /\ sources' \in Seq(Episodes)
        /\ \A e \in ToSet(sources') : Within(e) /\ Fallback(e)
    BY <2>1, GatheredSources
  <2>3. /\ evidence = <<>> /\ phase' = "quotes" /\ direct' = direct
        /\ UNCHANGED <<turn, unit, added, remainder, evidence, chars>>
    BY <1>3 DEF GatherEvidence, Gather, QuotesInv, found
  <2>4. DOMAIN evidence' = {}
    BY <2>3
  <2>5. \A e : (Within(e)' <=> Within(e)) /\ (Fallback(e)' <=> Fallback(e))
    BY <1>1, <2>3 DEF Within, Fallback, Anchored
  <2>. QED BY <1>1, <2>2, <2>3, <2>4, <2>5 DEF QuotesInv
<1>4. CASE Quote
  <2> DEFINE x == [text |-> Offer, from |-> Source, foreign |-> Foreign({Source})]
  <2>1. /\ turn <= Len(sources) /\ Offers /\ Advance
        /\ evidence' = Append(evidence, x)
        /\ chars' = chars + SizeOf[Offer] /\ added' = TRUE
        /\ UNCHANGED <<sources, remainder, direct>> /\ phase' = "quotes"
    BY <1>4 DEF Quote, Take, found
  <2>2. /\ Source \in Episodes /\ Source \in ToSet(sources)
        /\ Offer \in Texts /\ SizeOf[Offer] \in Nat
    BY <2>1, OfferedUnit
  <2>3. x \in Quotation
    BY <2>2 DEF Quotation, Foreign
  <2>4. Within(x.from) /\ Fallback(x.from)
    BY <2>2 DEF QuotesInv
  <2>5. x.foreign = Foreign(OriginOf(x.from))
    BY <2>2, ContextAssumption DEF OriginOf
  <2>6. turn' \in Nat \ {0} /\ unit' \in Nat \ {0}
    BY <2>1, AdvanceTypes
  <2> HIDE DEF x
  <2>7. \A e : /\ Within(e)' <=> Within(e)
               /\ Fallback(e)' <=> Fallback(e)
               /\ Foreign(OriginOf(e))' = Foreign(OriginOf(e))
    BY <1>1, <2>1 DEF Within, Fallback, Anchored, Foreign, OriginOf
  <2>8. added' \in BOOLEAN /\ remainder' \in BOOLEAN
    BY <2>1 DEF QuotesInv
  <2>9. /\ evidence' \in Seq(Quotation)
        /\ \A i \in DOMAIN evidence' :
             /\ Within(evidence'[i].from)
             /\ evidence'[i].foreign = Foreign(OriginOf(evidence'[i].from))
             /\ evidence'[i].from \in Episodes => Fallback(evidence'[i].from)
    BY <1>1, <2>1, <2>3, <2>4, <2>5, OneMoreQuotation
  <2>10. chars' \in Nat
    BY <2>1, <2>2 DEF QuotesInv
  <2>. QED BY <1>1, <2>1, <2>6, <2>7, <2>8, <2>9, <2>10 DEF QuotesInv
<1>5. CASE Choose
  <2>1. UNCHANGED <<phase, evidence, chars, direct>>
    BY <1>5 DEF Choose, Pass, NextRound, Prioritize, found
  <2>2. CASE Pass
    BY <1>1, <2>1, <2>2, AdvanceTypes, QuotesStay DEF Pass, QuotesInv
  <2>3. CASE NextRound
    <3>1. /\ sources' = sources /\ remainder' = remainder /\ added' = FALSE
          /\ turn' = 1 /\ unit' = unit + 1
      BY <2>3 DEF NextRound
    <3>2. added' \in BOOLEAN /\ remainder' \in BOOLEAN
      BY <3>1 DEF QuotesInv
    <3>. QED BY <1>1, <2>1, <3>1, <3>2, QuotesStay DEF QuotesInv
  <2>4. CASE Prioritize
    <3>1. sources' \in SetToSeqs(ToSet(sources))
      BY <2>4 DEF Prioritize, Prioritized
    <3>2. \A e \in ToSet(sources) : e \in Episodes
      BY DEF QuotesInv, ToSet
    <3>3. IsFiniteSet(ToSet(sources))
      BY <3>2, RetrievalAssumption, FS_Subset
    <3>4. sources' \in Seq(ToSet(sources)) /\ \A e \in ToSet(sources') : e \in ToSet(sources)
      BY <3>1, <3>3, OrderingOf
    <3>5. sources' \in Seq(Episodes)
      BY <3>2, <3>4
    <3>. QED BY <1>1, <2>1, <2>4, <3>4, <3>5, QuotesStay DEF Prioritize, QuotesInv
  <2>. QED BY <1>5, <2>2, <2>3, <2>4 DEF Choose
<1>6. CASE QuoteMessage
  <2> DEFINE m == Head(messages)
             x == [text |-> TextOf[m], from |-> m, foreign |-> Foreign(SourcesOf[m])]
  <2>1. /\ messages # <<>> /\ UNCHANGED <<choosing, chars, phase, direct>> /\ phase = "messages"
        /\ \/ UNCHANGED evidence
           \/ evidence' = Append(evidence, x)
    BY <1>6 DEF QuoteMessage
  <2>2. m \in Messages /\ Within(m)
    <3>1. m = messages[1] /\ 1 \in DOMAIN messages
      BY <2>1 DEF FoundInv
    <3>. QED BY <3>1 DEF FoundInv, ToSet
  <2>3. m \notin Episodes
    BY <2>2, ContextAssumption
  <2>4. x \in Quotation
    BY <2>2 DEF Quotation, Foreign
  <2>5. x.from = m /\ x.foreign = Foreign(OriginOf(m))
    BY <2>2 DEF OriginOf
  <2> HIDE DEF x, m
  <2>6. \A e : /\ Within(e)' <=> Within(e)
               /\ Fallback(e)' <=> Fallback(e)
               /\ Foreign(OriginOf(e))' = Foreign(OriginOf(e))
    BY <1>1, <2>1 DEF Within, Fallback, Anchored, Foreign, OriginOf
  <2>7. CASE UNCHANGED evidence
    BY <1>1, <2>1, <2>7, QuotesStay DEF QuotesInv, choosing
  <2>8. CASE evidence' = Append(evidence, x)
    <3>1. UNCHANGED <<sources, turn, unit, added, remainder, chars>>
      BY <2>1 DEF choosing
    <3>2. /\ evidence' \in Seq(Quotation)
          /\ \A i \in DOMAIN evidence' :
               /\ Within(evidence'[i].from)
               /\ evidence'[i].foreign = Foreign(OriginOf(evidence'[i].from))
               /\ evidence'[i].from \in Episodes => Fallback(evidence'[i].from)
      BY <1>1, <2>2, <2>3, <2>4, <2>5, <2>8, <3>1, OneMoreQuotation
    <3>. QED BY <2>1, <2>6, <3>1, <3>2 DEF QuotesInv
  <2>. QED BY <2>1, <2>7, <2>8
<1>. QED
  BY <1>2, <1>3, <1>4, <1>5, <1>6
     DEF Next, vars, found, Read, EmbeddingFails, Retrieved, Captured, Decided, ConstraintChanges,
         StartMessages, StartSlots, WriteSlot, SummariseSlot, Deliver

-----------------------------------------------------------------------------
(* Whose turn it is *)

\* A source has had its first turn: it had nothing, was quoted, or could not be.
Served(e) ==
  \/ Units[e] = <<>>
  \/ \E k \in DOMAIN evidence : evidence[k].from = e
  \/ ~Usable(Units[e][1])

\* In the first round no source is quoted twice, and those before are served;
\* afterwards all are.
TurnsInv ==
  /\ \A i, j \in DOMAIN sources : i # j => sources[i] # sources[j]
  /\ phase \in {"asked", "embedding", "failed", "evidence"} =>
       evidence = <<>> /\ turn = 1 /\ unit = 1 /\ ~remainder /\ chars = 0
  /\ phase = "quotes" =>
       /\ chars = CharsUpTo(evidence)[Len(evidence)]
       /\ \A i \in DOMAIN evidence : evidence[i].from \in Episodes
       /\ unit = 1 /\ ~remainder =>
            /\ \A i \in DOMAIN evidence :
                 \E k \in DOMAIN sources : k < turn /\ evidence[i].from = sources[k]
            /\ \A i, j \in DOMAIN evidence : i < j => evidence[i].from # evidence[j].from
            /\ \A k \in DOMAIN sources : k < turn => Served(sources[k])
       /\ unit # 1 \/ remainder => \A e \in ToSet(sources) : Served(e)
  /\ \A i \in DOMAIN evidence, k \in DOMAIN messages : evidence[i].from # messages[k]
  /\ SourcesFirst

LEMMA StillTooLong ==
  \A a, b, size, most \in Nat : a <= b /\ b + size <= most => a + size <= most
OBVIOUS

\* What has been served stays so while quotations are added.
LEMMA ServedStays ==
  ASSUME QuotesInv, NEW e \in Episodes, Served(e),
         \/ UNCHANGED <<evidence, chars>>
         \/ \E x \in Quotation : /\ evidence' = Append(evidence, x)
                                 /\ chars' = chars + SizeOf[x.text] /\ SizeOf[x.text] \in Nat
  PROVE  Served(e)'
<1>1. CASE UNCHANGED <<evidence, chars>>
  BY <1>1 DEF Served, Usable, Quoted
<1>2. ASSUME NEW x \in Quotation, evidence' = Append(evidence, x),
             chars' = chars + SizeOf[x.text], SizeOf[x.text] \in Nat
      PROVE  Served(e)'
  <2>1. /\ DOMAIN evidence \subseteq DOMAIN evidence'
        /\ \A k \in DOMAIN evidence : evidence'[k] = evidence[k]
    BY <1>2 DEF QuotesInv
  <2>2. chars \in Nat /\ chars' \in Nat /\ chars <= chars'
    BY <1>2 DEF QuotesInv
  <2>3. Quoted(evidence) \subseteq Quoted(evidence')
    BY <2>1 DEF Quoted
  <2>4. CASE Units[e] = <<>> \/ \E k \in DOMAIN evidence : evidence[k].from = e
    BY <2>1, <2>4 DEF Served
  <2>5. CASE Units[e] # <<>> /\ ~Usable(Units[e][1])
    <3>1. Units[e] \in Seq(Texts)
      BY ColdEvidenceAssumption
    <3>2. Units[e][1] \in Texts
      BY <2>5, <3>1
    <3>3. SizeOf[Units[e][1]] \in Nat /\ MaxEvidence * MaxChars \in Nat
      BY <3>2, ColdEvidenceAssumption
    <3>4. \A size, most \in Nat : chars' + size <= most => chars + size <= most
      BY <2>2, StillTooLong
    <3>5. Usable(Units[e][1])' => Usable(Units[e][1])
      BY <2>3, <3>3, <3>4 DEF Usable
    <3>6. ~Usable(Units[e][1])'
      BY <2>5, <3>5
    <3>. QED BY <3>6 DEF Served
  <2>. QED BY <2>4, <2>5 DEF Served
<1>. QED BY <1>1, <1>2

\* A quotation that is its source's first, or comes when all have been served,
\* is no second before another's first.
LEMMA SourcesFirstKept ==
  ASSUME QuotesInv, SourcesFirst, NEW x \in Quotation, evidence' = Append(evidence, x),
         \A e \in ToSet(sources') : e \in ToSet(sources),
         \/ \A i \in DOMAIN evidence : evidence[i].from # x.from
         \/ /\ \A e \in ToSet(sources) : Served(e)
            /\ chars = CharsUpTo(evidence)[Len(evidence)]
  PROVE  SourcesFirst'
<1> DEFINE n == Len(evidence)
<1>1. /\ evidence \in Seq(Quotation) /\ n \in Nat /\ DOMAIN evidence = 1..n
      /\ DOMAIN evidence' = 1..n + 1
      /\ evidence'[n + 1] = x /\ \A i \in 1..n : evidence'[i] = evidence[i]
  BY DEF QuotesInv
<1>2. \A k \in 0..n : CharsUpTo(evidence')[k] = CharsUpTo(evidence)[k]
  BY <1>1, CharsOfOneMore
<1> HIDE DEF n
<1>4. ASSUME NEW j \in 1..n + 1, NEW t
      PROVE  UsableBefore(t, j)' <=> UsableBefore(t, j)
  <2>1. \A k \in 1..j - 1 : k \in 1..n
    BY <1>1
  <2>2. j - 1 \in 0..n
    BY <1>1
  <2>3. CharsUpTo(evidence')[j - 1] = CharsUpTo(evidence)[j - 1]
    BY <1>2, <2>2
  <2>. QED BY <1>1, <2>1, <2>3 DEF UsableBefore
<1>5. SUFFICES ASSUME NEW i \in 1..n + 1, NEW j \in 1..n + 1, i < j,
                      evidence'[i].from = evidence'[j].from, NEW e \in ToSet(sources)
               PROVE  \/ Units[e] = <<>>
                      \/ \E k \in 1..j - 1 : evidence'[k].from = e
                      \/ ~UsableBefore(Units[e][1], j)'
  BY <1>1 DEF SourcesFirst
<1>6. CASE j \in 1..n
  <2>1. i \in 1..n /\ evidence[i].from = evidence[j].from
    BY <1>1, <1>5, <1>6
  <2>2. \/ Units[e] = <<>>
        \/ \E k \in 1..j - 1 : evidence[k].from = e
        \/ ~UsableBefore(Units[e][1], j)
    BY <1>1, <1>5, <1>6, <2>1 DEF SourcesFirst
  <2>3. \A k \in 1..j - 1 : k \in 1..n
    BY <1>1, <1>6
  <2>. QED BY <1>1, <1>4, <2>2, <2>3
<1>7. CASE j = n + 1
  <2>1. i \in 1..n /\ evidence[i].from = x.from
    BY <1>1, <1>5, <1>7
  <2>2. Served(e) /\ chars = CharsUpTo(evidence)[n]
    BY <1>1, <2>1 DEF n
  <2>3. j - 1 = n /\ DOMAIN evidence = 1..j - 1
    BY <1>1, <1>7
  <2>4. UsableBefore(Units[e][1], j) => Usable(Units[e][1])
    BY <1>1, <2>2, <2>3 DEF UsableBefore, Usable, Quoted
  <2>. QED BY <1>1, <1>4, <2>2, <2>3, <2>4 DEF Served
<1>. QED BY <1>1, <1>6, <1>7

LEMMA TurnsStay ==
  ASSUME TurnsInv, UNCHANGED coldVars,
         phase' \in {"asked", "embedding", "failed", "evidence"} =>
           phase \in {"asked", "embedding", "failed", "evidence"},
         phase' = "quotes" => phase = "quotes",
         \A i \in DOMAIN evidence, k \in DOMAIN messages' : evidence[i].from # messages'[k]
  PROVE  TurnsInv'
<1>1. UNCHANGED <<sources, turn, unit, remainder, evidence, chars>>
  BY DEF coldVars, choosing
<1>2. SourcesFirst'
  BY <1>1 DEF TurnsInv, SourcesFirst, UsableBefore, CharsUpTo
<1>3. \A e : Served(e)' <=> Served(e)
  BY <1>1 DEF Served, Usable, Quoted
<1>4. CharsUpTo(evidence') = CharsUpTo(evidence)
  BY <1>1
<1>. QED BY <1>1, <1>2, <1>3, <1>4 DEF TurnsInv

LEMMA QuoteTurns ==
  ASSUME FoundInv, QuotesInv, TurnsInv, Quote
  PROVE  TurnsInv'
<1> DEFINE x == [text |-> Offer, from |-> Source, foreign |-> Foreign({Source})]
           n == Len(evidence)
<1>1. /\ turn <= Len(sources) /\ Offers /\ Advance
      /\ evidence' = Append(evidence, x) /\ chars' = chars + SizeOf[Offer]
      /\ UNCHANGED <<sources, remainder, messages>> /\ phase = "quotes" /\ phase' = "quotes"
  BY DEF Quote, Take, found
<1>2. /\ turn \in DOMAIN sources /\ Source \in Episodes /\ Source \in ToSet(sources)
      /\ Offer \in Texts /\ SizeOf[Offer] \in Nat
  BY <1>1, OfferedUnit
<1>3. x \in Quotation /\ x.text = Offer /\ x.from = Source /\ Source = sources[turn]
  BY <1>2 DEF Quotation, Foreign, Source
<1> HIDE DEF x
<1>4. /\ evidence \in Seq(Quotation) /\ n \in Nat /\ DOMAIN evidence = 1..n
      /\ Len(evidence') = n + 1 /\ DOMAIN evidence' = 1..n + 1
      /\ evidence'[n + 1] = x /\ \A i \in 1..n : evidence'[i] = evidence[i]
  BY <1>1, <1>3 DEF QuotesInv
<1> HIDE DEF n
<1>5. /\ chars = CharsUpTo(evidence)[Len(evidence)]
      /\ \A i \in DOMAIN evidence : evidence[i].from \in Episodes
  BY <1>1 DEF TurnsInv
<1>6. chars' = CharsUpTo(evidence')[Len(evidence')]
  BY <1>1, <1>3, <1>4, <1>5, CharsOfOneMore DEF n
<1>7. \A i \in DOMAIN evidence' : evidence'[i].from \in Episodes
  BY <1>2, <1>3, <1>4, <1>5
<1>8. \A e \in ToSet(sources) : e \in Episodes /\ (Served(e) => Served(e)')
  <2>1. \A e \in ToSet(sources) : e \in Episodes
    BY DEF QuotesInv, ToSet
  <2>. QED BY <1>1, <1>2, <1>3, <2>1, ServedStays
<1>9. \A e : e = x.from => Served(e)'
  BY <1>4 DEF Served
<1>10. \A i \in DOMAIN evidence', k \in DOMAIN messages' : evidence'[i].from # messages'[k]
  BY <1>1, <1>7, ContextAssumption DEF FoundInv
<1>11. CASE unit = 1 /\ ~remainder
  <2>1. turn' = turn + 1 /\ unit' = 1 /\ ~remainder' /\ turn \in Nat
    BY <1>1, <1>11 DEF Advance, QuotesInv
  <2>2. /\ \A i \in DOMAIN evidence :
             \E k \in DOMAIN sources : k < turn /\ evidence[i].from = sources[k]
        /\ \A i, j \in DOMAIN evidence : i < j => evidence[i].from # evidence[j].from
        /\ \A k \in DOMAIN sources : k < turn => Served(sources[k])
        /\ \A i, j \in DOMAIN sources : i # j => sources[i] # sources[j]
    BY <1>1, <1>11 DEF TurnsInv
  <2>3. DOMAIN sources \subseteq Nat
    BY DEF QuotesInv
  <2>4. \A i \in DOMAIN evidence : evidence[i].from # x.from
    BY <1>2, <1>3, <2>1, <2>2, <2>3
  <2>5. SourcesFirst'
    BY <1>1, <1>3, <2>4, SourcesFirstKept DEF TurnsInv
  <2>6. \A i \in DOMAIN evidence' :
          \E k \in DOMAIN sources : k < turn + 1 /\ evidence'[i].from = sources[k]
    <3>1. \A k \in DOMAIN sources : k < turn => k < turn + 1
      BY <2>1, <2>3
    <3>. QED BY <1>2, <1>3, <1>4, <2>1, <2>2, <3>1
  <2>7. \A i, j \in DOMAIN evidence' : i < j => evidence'[i].from # evidence'[j].from
    BY <1>4, <2>2, <2>4
  <2>8. \A k \in DOMAIN sources : \A e : k < turn + 1 /\ e = sources[k] => Served(e)'
    <3>1. \A k \in DOMAIN sources : k < turn + 1 => k < turn \/ k = turn
      BY <2>1, <2>3
    <3>2. \A k \in DOMAIN sources : sources[k] \in ToSet(sources)
      BY DEF ToSet
    <3>. QED BY <1>1, <1>3, <1>8, <1>9, <2>2, <3>1, <3>2
  <2>. QED BY <1>1, <1>6, <1>7, <1>10, <2>1, <2>2, <2>5, <2>6, <2>7, <2>8 DEF TurnsInv
<1>12. CASE unit # 1 \/ remainder
  <2>1. unit' # 1 \/ remainder'
    BY <1>1, <1>12 DEF Advance
  <2>2. \A e \in ToSet(sources) : Served(e)
    BY <1>1, <1>12 DEF TurnsInv
  <2>3. SourcesFirst'
    BY <1>1, <1>3, <1>5, <2>2, SourcesFirstKept DEF TurnsInv
  <2>4. \A i, j \in DOMAIN sources' : i # j => sources'[i] # sources'[j]
    BY <1>1 DEF TurnsInv
  <2>5. ToSet(sources') = ToSet(sources)
    BY <1>1
  <2>. QED BY <1>1, <1>6, <1>7, <1>8, <1>10, <2>1, <2>2, <2>3, <2>4, <2>5 DEF TurnsInv
<1>. QED BY <1>11, <1>12

LEMMA ChooseTurns ==
  ASSUME QuotesInv, TurnsInv, Choose
  PROVE  TurnsInv'
<1>1. /\ UNCHANGED <<evidence, chars, messages>> /\ phase = "quotes" /\ phase' = "quotes"
      /\ Pass \/ NextRound \/ Prioritize
  BY DEF Choose, Pass, NextRound, Prioritize, found
<1>2. /\ chars' = CharsUpTo(evidence')[Len(evidence')]
      /\ \A i \in DOMAIN evidence' : evidence'[i].from \in Episodes
      /\ \A i \in DOMAIN evidence', k \in DOMAIN messages' : evidence'[i].from # messages'[k]
  BY <1>1 DEF TurnsInv
<1>3. \A e : Served(e)' <=> Served(e)
  BY <1>1 DEF Served, Usable, Quoted
<1>4. ASSUME \A e \in ToSet(sources') : e \in ToSet(sources) PROVE SourcesFirst'
  <2>1. \A t, j : UsableBefore(t, j)' <=> UsableBefore(t, j)
    BY <1>1 DEF UsableBefore
  <2>. QED BY <1>1, <1>4, <2>1 DEF TurnsInv, SourcesFirst
<1>5. DOMAIN sources \subseteq Nat /\ \A k \in DOMAIN sources : k <= Len(sources)
  BY DEF QuotesInv
<1>6. ASSUME turn > Len(sources) PROVE \A e \in ToSet(sources) : Served(e)
  <2>1. \A k \in DOMAIN sources : k < turn
    BY <1>5, <1>6 DEF QuotesInv
  <2>. QED BY <1>1, <2>1 DEF TurnsInv, ToSet, QuotesInv
<1>7. CASE Pass
  <2>1. UNCHANGED <<sources, remainder>> /\ Advance /\ ~(Offers /\ Usable(Offer))
        /\ turn <= Len(sources)
    BY <1>7 DEF Pass
  <2>2. SourcesFirst'
    BY <1>4, <2>1
  <2>3. CASE unit = 1 /\ ~remainder
    <3>1. turn' = turn + 1 /\ unit' = 1 /\ ~remainder' /\ turn \in Nat
      BY <2>1, <2>3 DEF Advance, QuotesInv
    <3>2. Served(Source)
      <4>1. Units[Source] \in Seq(Texts)
        BY <2>1, OfferedUnit
      <4>2. ~Offers => Units[Source] = <<>>
        BY <2>3, <4>1 DEF Offers
      <4>. QED BY <2>1, <2>3, <4>2 DEF Served, Offer
    <3>3. \A k \in DOMAIN sources : k < turn + 1 => Served(sources[k])
      <4>1. \A k \in DOMAIN sources : k < turn + 1 => k < turn \/ k = turn
        BY <1>5, <3>1
      <4>. QED BY <1>1, <2>3, <3>2, <4>1 DEF TurnsInv, Source
    <3>4. \A i \in DOMAIN evidence :
            \E k \in DOMAIN sources : k < turn + 1 /\ evidence[i].from = sources[k]
      <4>1. \A k \in DOMAIN sources : k < turn => k < turn + 1
        BY <1>5, <3>1
      <4>. QED BY <1>1, <2>3, <4>1 DEF TurnsInv
    <3>. QED BY <1>1, <1>2, <1>3, <2>1, <2>2, <2>3, <3>1, <3>3, <3>4 DEF TurnsInv
  <2>4. CASE unit # 1 \/ remainder
    <3>1. unit' # 1 \/ remainder'
      BY <2>1, <2>4 DEF Advance
    <3>. QED BY <1>1, <1>2, <1>3, <2>1, <2>2, <2>4, <3>1 DEF TurnsInv
  <2>. QED BY <2>3, <2>4
<1>8. CASE NextRound
  <2>1. /\ UNCHANGED <<sources, remainder>> /\ unit' = unit + 1 /\ turn > Len(sources)
    BY <1>8 DEF NextRound
  <2>2. unit' # 1
    BY <2>1 DEF QuotesInv
  <2>. QED BY <1>1, <1>2, <1>3, <1>4, <1>6, <2>1, <2>2 DEF TurnsInv
<1>9. CASE Prioritize
  <2>1. /\ sources' \in SetToSeqs(ToSet(sources)) /\ remainder' = TRUE /\ turn > Len(sources)
    BY <1>9 DEF Prioritize, Prioritized
  <2>2. \A e \in ToSet(sources) : e \in Episodes
    BY DEF QuotesInv, ToSet
  <2>3. IsFiniteSet(ToSet(sources))
    BY <2>2, RetrievalAssumption, FS_Subset
  <2>4. /\ \A e \in ToSet(sources') : e \in ToSet(sources)
        /\ \A i, j \in DOMAIN sources' : i # j => sources'[i] # sources'[j]
    BY <2>1, <2>3, OrderingOf
  <2>. QED BY <1>1, <1>2, <1>3, <1>4, <1>6, <2>1, <2>4 DEF TurnsInv
<1>. QED BY <1>1, <1>7, <1>8, <1>9

LEMMA TurnsStep == FoundInv /\ QuotesInv /\ TurnsInv /\ lines \in Nat /\ [Next]_vars => TurnsInv'
<1> SUFFICES ASSUME FoundInv, QuotesInv, TurnsInv, lines \in Nat, [Next]_vars PROVE TurnsInv'
  OBVIOUS
<1>1. ASSUME UNCHANGED <<coldVars, messages>>,
             phase' \in {"asked", "embedding", "failed", "evidence"} =>
               phase \in {"asked", "embedding", "failed", "evidence"},
             phase' = "quotes" => phase = "quotes"
      PROVE  TurnsInv'
  BY <1>1, TurnsStay DEF TurnsInv
<1>2. CASE Retrieved
  <2>1. evidence = <<>> /\ UNCHANGED coldVars /\ phase = "embedding" /\ phase' = "evidence"
    BY <1>2 DEF Retrieved, QuotesInv
  <2>. QED BY <2>1, TurnsStay
<1>3. CASE GatherEvidence
  <2>1. PICK ordered \in Sources(direct) : sources' = First(ordered, MaxSources)
    BY <1>3 DEF GatherEvidence, Gather
  <2>2. \A i, j \in DOMAIN sources' : i # j => sources'[i] # sources'[j]
    BY <2>1, GatheredSources
  <2>3. /\ evidence' = <<>> /\ phase' = "quotes" /\ turn' = 1 /\ unit' = 1 /\ ~remainder' /\ chars' = 0
    BY <1>3 DEF GatherEvidence, Gather, TurnsInv
  <2>4. DOMAIN evidence' = {} /\ Len(evidence') = 0
    BY <2>3
  <2>5. chars' = CharsUpTo(evidence')[Len(evidence')]
    BY <2>3, <2>4, CharsOfNone
  <2>6. sources' \in Seq(Episodes)
    BY <2>1, GatheredSources
  <2>7. \A k \in DOMAIN sources' : ~(k < 1)
    BY <2>6
  <2>8. SourcesFirst'
    BY <2>4 DEF SourcesFirst
  <2>. QED BY <2>2, <2>3, <2>4, <2>5, <2>7, <2>8 DEF TurnsInv
<1>4. CASE Quote
  BY <1>4, QuoteTurns
<1>5. CASE Choose
  BY <1>5, ChooseTurns
<1>6. CASE StartMessages
  <2> DEFINE n == MaxEvidence - Least(MaxEvidence, lines)
  <2>1. n \in Nat
    BY ColdEvidenceAssumption DEF Least
  <2>2. /\ messages' = First(messages, n) /\ messages \in Seq(Messages)
        /\ UNCHANGED coldVars /\ phase' = "messages"
    BY <1>6 DEF StartMessages, FoundInv
  <2> HIDE DEF n
  <2>3. \A k \in DOMAIN messages' : k \in DOMAIN messages /\ messages'[k] = messages[k]
    BY <2>1, <2>2, FirstOfSequence
  <2>. QED BY <2>2, <2>3, TurnsStay DEF TurnsInv
<1>7. CASE QuoteMessage
  <2> DEFINE m == Head(messages)
             x == [text |-> TextOf[m], from |-> m, foreign |-> Foreign(SourcesOf[m])]
  <2>1. /\ messages # <<>> /\ messages' = Tail(messages) /\ UNCHANGED <<choosing, chars, phase>>
        /\ phase = "messages"
        /\ \/ UNCHANGED evidence
           \/ evidence' = Append(evidence, x)
    BY <1>7 DEF QuoteMessage
  <2>2. /\ messages \in Seq(Messages) /\ m = messages[1] /\ 1 \in DOMAIN messages
        /\ \A k \in DOMAIN messages' : k + 1 \in DOMAIN messages /\ messages'[k] = messages[k + 1]
        /\ \A k \in DOMAIN messages' : k + 1 # 1
    BY <2>1 DEF FoundInv
  <2>3. /\ \A i \in DOMAIN evidence, k \in DOMAIN messages' : evidence[i].from # messages'[k]
        /\ \A k \in DOMAIN messages' : m # messages'[k]
        /\ \A i \in DOMAIN evidence : evidence[i].from # m
    BY <2>2 DEF TurnsInv, FoundInv
  <2>4. CASE UNCHANGED evidence
    BY <2>1, <2>3, <2>4, TurnsStay DEF coldVars
  <2>5. CASE evidence' = Append(evidence, x)
    <3>1. x \in Quotation /\ x.from = m
      BY <2>2 DEF Quotation, Foreign
    <3> HIDE DEF x
    <3>2. sources' = sources
      BY <2>1 DEF choosing
    <3>3. SourcesFirst'
      BY <2>3, <2>5, <3>1, <3>2, SourcesFirstKept DEF TurnsInv
    <3>4. \A i \in DOMAIN evidence' : evidence'[i].from = m \/ \E j \in DOMAIN evidence : evidence'[i] = evidence[j]
      BY <2>5, <3>1 DEF QuotesInv
    <3>5. \A i \in DOMAIN evidence', k \in DOMAIN messages' : evidence'[i].from # messages'[k]
      BY <2>3, <3>4
    <3>. QED BY <2>1, <3>2, <3>3, <3>5 DEF TurnsInv
  <2>. QED BY <2>1, <2>4, <2>5
<1>. QED
  BY <1>1, <1>2, <1>3, <1>4, <1>5, <1>6, <1>7
     DEF Next, vars, found, Read, EmbeddingFails, Captured, Decided, ConstraintChanges, StartSlots, WriteSlot,
         SummariseSlot, Deliver

-----------------------------------------------------------------------------
(* What the blocks show *)

Written == [slot : Slots, count : Nat, shown : Seq(Claims), rules : SUBSET Rules,
            foreign : BOOLEAN]

\* A block of the account's has only its claims; another is of a slot without any,
\* and empty if a scope was asked for.
Apart(b) ==
  query.account # {} =>
    IF b.foreign
      THEN OwnMembers(b.slot) = {} /\ (Shows(b) # {} => query.scope = NoScope)
      ELSE \A c \in Shows(b) : Own(c)

\* Claims and rules within the scope, the account's claims and the others' apart.
BlocksInv ==
  /\ active \subseteq Rules
  /\ phase \notin {"slots", "done"} => blocks = <<>>
  /\ blocks \in Seq(Written)
  /\ \A i \in DOMAIN blocks :
       /\ \A c \in Shows(blocks[i]) : Within(c)
       /\ \A r \in blocks[i].rules : Within(r)
       /\ Apart(blocks[i])

\* The members of a slot are a finite set of claims.
LEMMA MembersFinite ==
  ASSUME NEW s
  PROVE  /\ IsFiniteSet(Members(s)) /\ Cardinality(Members(s)) \in Nat
         /\ \A c \in Members(s) : c \in Claims /\ Within(c)
<1>1. Members(s) \subseteq Claims
  BY DEF Members, OwnMembers
<1>2. IsFiniteSet(Members(s))
  BY <1>1, RetrievalAssumption, FS_Subset
<1>. QED BY <1>2, FS_CardinalityType DEF Members, OwnMembers

\* What is shown of a slot are members of it.
LEMMA ShownMembers ==
  ASSUME NEW s, NEW all \in Chronological(Members(s)), NEW shown \in Shown(s, all)
  PROVE  shown \in Seq(Claims) /\ \A c \in ToSet(shown) : c \in Members(s)
<1>1. /\ all \in Seq(Members(s)) /\ \A c \in ToSet(all) : c \in Members(s)
  BY MembersFinite, OrderingOf DEF Chronological
<1>2. Selected(all) \subseteq Members(s)
  BY <1>1 DEF Selected, ToSet
<1>3. IsFiniteSet(Selected(all))
  BY <1>2, MembersFinite, FS_Subset
<1>4. shown \in Seq(Selected(all)) /\ \A c \in ToSet(shown) : c \in Selected(all)
  BY <1>3, OrderingOf DEF Shown
<1>5. \A c \in Selected(all) : c \in Claims
  BY <1>2, MembersFinite
<1>. QED BY <1>2, <1>4, <1>5

LEMMA OneMoreBlock ==
  ASSUME BlocksInv, NEW s \in Slots, NEW shown \in Seq(Claims),
         \A c \in ToSet(shown) : c \in Members(s),
         NEW rules, rules \subseteq RulesOn(s), phase' = "slots",
         blocks' = Append(blocks, Block(s, shown, rules)), UNCHANGED <<state, active, query>>
  PROVE  BlocksInv'
<1> DEFINE b == Block(s, shown, rules)
           n == Len(blocks)
<1>1. /\ b \in Written /\ b.shown = shown /\ b.rules = rules /\ b.slot = s
      /\ b.foreign <=> query.account # {} /\ OwnMembers(s) = {}
  BY MembersFinite DEF Block, Written, RulesOn, BlocksInv
<1> HIDE DEF b
<1>2. \A c \in Shows(b) : c \in Members(s) /\ Within(c)
  BY <1>1, MembersFinite DEF Shows
<1>3. \A r \in b.rules : Within(r)
  BY <1>1 DEF RulesOn
<1>4. Apart(b)
  <2>1. ASSUME query.account # {}, OwnMembers(s) # {}
        PROVE  \A c \in Members(s) : Own(c)
    BY <2>1 DEF Members, OwnMembers
  <2>2. ASSUME query.account # {}, OwnMembers(s) = {}, query.scope # NoScope
        PROVE  Members(s) = {}
    BY <2>2 DEF Members
  <2>. QED BY <1>1, <1>2, <2>1, <2>2 DEF Apart
<1>5. /\ n \in Nat /\ DOMAIN blocks = 1..n /\ DOMAIN blocks' = 1..n + 1
      /\ blocks' \in Seq(Written) /\ blocks'[n + 1] = b
      /\ \A i \in 1..n : blocks'[i] = blocks[i]
  BY <1>1 DEF BlocksInv, b
<1> HIDE DEF n
<1>6. \A i \in 1..n + 1 : i \in 1..n \/ i = n + 1
  BY <1>5
<1>7. \A i \in DOMAIN blocks' :
        /\ \A c \in Shows(blocks'[i]) : Within(c)
        /\ \A r \in blocks'[i].rules : Within(r)
        /\ Apart(blocks'[i])
  BY <1>2, <1>3, <1>4, <1>5, <1>6 DEF BlocksInv
<1>8. \A x : (Within(x)' <=> Within(x)) /\ (Own(x)' <=> Own(x)) /\ OwnMembers(x)' = OwnMembers(x)
  BY DEF Within, Own, OwnMembers, Exists
<1>9. \A i \in DOMAIN blocks' : Apart(blocks[i])' <=> Apart(blocks'[i])
  BY <1>8 DEF Apart, Shows
<1>. QED BY <1>5, <1>7, <1>8, <1>9 DEF BlocksInv, Shows

\* While nothing is written the memory may change, and afterwards it stays.
LEMMA BlocksStay ==
  ASSUME BlocksInv, UNCHANGED <<blocks, query>>, active' \subseteq Rules,
         phase' \notin {"slots", "done"} => blocks = <<>>,
         UNCHANGED state \/ blocks = <<>>
  PROVE  BlocksInv'
<1>1. CASE blocks = <<>>
  BY <1>1 DEF BlocksInv
<1>2. CASE UNCHANGED state
  <2>1. \A x : (Within(x)' <=> Within(x)) /\ (Own(x)' <=> Own(x)) /\ OwnMembers(x)' = OwnMembers(x)
    BY <1>2 DEF Within, Own, OwnMembers, Exists
  <2>2. \A i \in DOMAIN blocks : Apart(blocks[i])' <=> Apart(blocks[i])
    BY <2>1 DEF Apart, Shows
  <2>. QED BY <2>1, <2>2 DEF BlocksInv, Shows
<1>. QED BY <1>1, <1>2

LEMMA BlocksStep == FoundInv /\ BlocksInv /\ dimIndex \in Nat /\ [Next]_vars => BlocksInv'
<1> SUFFICES ASSUME FoundInv, BlocksInv, dimIndex \in Nat, [Next]_vars PROVE BlocksInv'
  OBVIOUS
<1>1. query' = query
  BY MemoryGrows DEF FoundInv
<1>2. ASSUME UNCHANGED <<blocks, state, active>>,
             phase' \notin {"slots", "done"} => phase \notin {"slots", "done"}
      PROVE  BlocksInv'
  BY <1>1, <1>2, BlocksStay DEF BlocksInv
<1>3. ASSUME dimIndex < Len(order) PROVE NextSlot \in Slots
  BY <1>3 DEF NextSlot, FoundInv
<1>4. CASE WriteSlot
  <2>1. PICK all \in Chronological(Members(NextSlot)) : \E shown \in Shown(NextSlot, all) :
          blocks' = Append(blocks, Block(NextSlot, shown, RulesOn(NextSlot)))
    BY <1>4 DEF WriteSlot
  <2>2. PICK shown \in Shown(NextSlot, all) :
          blocks' = Append(blocks, Block(NextSlot, shown, RulesOn(NextSlot)))
    BY <2>1
  <2>3. NextSlot \in Slots /\ phase' = "slots" /\ UNCHANGED <<state, active>>
    BY <1>3, <1>4 DEF WriteSlot, memory
  <2>. QED BY <1>1, <2>1, <2>2, <2>3, ShownMembers, OneMoreBlock
<1>5. CASE SummariseSlot
  <2>1. /\ NextSlot \in Slots /\ phase' = "slots" /\ UNCHANGED <<state, active>>
        /\ blocks' = Append(blocks, Block(NextSlot, <<>>, {}))
    BY <1>3, <1>5 DEF SummariseSlot, memory
  <2>2. <<>> \in Seq(Claims) /\ ToSet(<<>>) = {}
    BY DEF ToSet
  <2>3. {} \subseteq RulesOn(NextSlot)
    OBVIOUS
  <2>. QED BY <1>1, <2>1, <2>2, <2>3, OneMoreBlock
<1>6. ASSUME phase = "embedding", phase' = "embedding", UNCHANGED writing, active' \subseteq Rules
      PROVE  BlocksInv'
  BY <1>1, <1>6, BlocksStay DEF writing, BlocksInv
<1>7. ASSUME NEW c \in Claims, Captured(c) \/ Decided(c) PROVE BlocksInv'
  BY <1>6, <1>7 DEF Captured, Decided, BlocksInv
<1>8. ASSUME NEW r \in Rules, ConstraintChanges(r) PROVE BlocksInv'
  BY <1>6, <1>8 DEF ConstraintChanges, BlocksInv
<1>. QED
  BY <1>2, <1>4, <1>5, <1>7, <1>8
     DEF Next, vars, memory, writing, Read, EmbeddingFails, Retrieved, GatherEvidence,
         Quote, Choose, StartMessages, QuoteMessage, StartSlots, Deliver

-----------------------------------------------------------------------------
(* The budget of lines *)

\* In which phase what has been counted: one line a quotation, until blocks come.
Counted ==
  /\ phase \in {"asked", "embedding", "failed", "evidence"} => lines = 0
  /\ phase \in {"quotes", "messages"} => lines = Len(evidence)
  /\ phase \in {"asked", "embedding", "failed", "evidence", "quotes", "messages"} =>
       dimIndex = 0 /\ ruleLines = 0
  /\ phase = "messages" => lines + Len(messages) <= MaxEvidence
  /\ Len(evidence) <= MaxEvidence

\* A line for every slot that is left, except for what rules took and for what
\* slots and quotations are too many in the first place.
Room ==
  \/ lines + Lost <= MaxLines + ruleLines
  \/ lines + Lost <= Len(evidence) + Len(order) + ruleLines

BudgetInv ==
  /\ lines \in Nat /\ ruleLines \in Nat /\ dimIndex \in Nat
  /\ Counted /\ Room
  /\ phase = "done" => dimIndex = Len(order) \/ lines >= MaxLines
  /\ dimIndex <= Len(order)
  /\ lines <= MaxLines + Cardinality(RulesOfLast)

\* A block takes a natural number of lines.
LEMMA ShownLinesNat == \A s : ShownLines(s) \in Nat
  BY MembersFinite, ContextAssumption DEF ShownLines

\* Of rules there are finitely many.
LEMMA RulesCount ==
  ASSUME BlocksInv
  PROVE  /\ \A s : Cardinality(RulesOn(s)) \in Nat
         /\ Cardinality(RulesOfLast) \in Nat
<1>1. \A rules \in SUBSET Rules : Cardinality(rules) \in Nat
  BY ContextAssumption, FS_Subset, FS_CardinalityType
<1>2. \A s : RulesOn(s) \subseteq Rules
  BY DEF RulesOn, BlocksInv
<1>3. RulesOfLast \subseteq Rules
  <2>1. ASSUME blocks # <<>> PROVE blocks[Len(blocks)] \in Written
    BY <2>1 DEF BlocksInv
  <2>. QED BY <2>1 DEF RulesOfLast, Written
<1>. QED BY <1>1, <1>2, <1>3

LEMMA BudgetStep == FoundInv /\ QuotesInv /\ BlocksInv /\ BudgetInv /\ [Next]_vars => BudgetInv'
<1> SUFFICES ASSUME FoundInv, QuotesInv, BlocksInv, BudgetInv, [Next]_vars PROVE BudgetInv'
  OBVIOUS
<1> USE ContextAssumption, ColdEvidenceAssumption
<1>1. order \in Seq(Slots) /\ evidence \in Seq(Quotation) /\ messages \in Seq(Messages)
  BY DEF FoundInv, QuotesInv
<1>2. Len(order) \in Nat /\ Len(evidence) \in Nat /\ Len(messages) \in Nat
  BY <1>1
<1>0. /\ Cardinality(RulesOfLast) \in Nat
      /\ UNCHANGED blocks => Cardinality(RulesOfLast)' = Cardinality(RulesOfLast)
  BY RulesCount DEF RulesOfLast
<1>3. ASSUME UNCHANGED <<order, evidence, lines, writing>>,
             \/ phase' = phase /\ (phase = "messages" => messages' = messages)
             \/ phase = "asked" /\ phase' = "embedding"
             \/ phase = "embedding" /\ phase' = "failed"
             \/ phase = "messages" /\ phase' = "slots"
      PROVE  BudgetInv'
  BY <1>0, <1>2, <1>3 DEF BudgetInv, Counted, Room, Lost, writing
<1>4. CASE Retrieved
  <2>1. FoundInv'
    BY <1>4, RetrievedFound
  <2>2. Len(order') \in Nat
    BY <2>1 DEF FoundInv
  <2>3. /\ phase = "embedding" /\ phase' = "evidence"
        /\ UNCHANGED <<lines, ruleLines, dimIndex, evidence, blocks>>
    BY <1>4 DEF Retrieved, coldVars, writing
  <2>. QED BY <1>0, <1>2, <2>2, <2>3 DEF BudgetInv, Counted, Room, Lost
<1>5. CASE GatherEvidence
  <2>1. /\ phase = "evidence" /\ phase' = "quotes"
        /\ UNCHANGED <<order, lines, ruleLines, dimIndex, evidence, blocks>>
    BY <1>5 DEF GatherEvidence, Gather, found, writing
  <2>2. evidence = <<>>
    BY <2>1 DEF QuotesInv
  <2>3. Len(evidence) = 0
    BY <2>2
  <2>. QED BY <1>0, <1>2, <2>1, <2>3 DEF BudgetInv, Counted, Room, Lost
<1>6. CASE Quote
  <2>1. /\ phase = "quotes" /\ phase' = "quotes" /\ lines' = lines + 1
        /\ Len(evidence') = Len(evidence) + 1 /\ Len(evidence) < MaxEvidence
        /\ UNCHANGED <<order, ruleLines, dimIndex, blocks>>
    BY <1>1, <1>2, <1>6 DEF Quote, Take, Full, found, writing
  <2>. QED BY <1>0, <1>2, <2>1 DEF BudgetInv, Counted, Room, Lost
<1>7. CASE StartMessages
  <2> DEFINE n == MaxEvidence - Least(MaxEvidence, lines)
  <2>1. /\ phase = "quotes" /\ phase' = "messages" /\ messages' = First(messages, n)
        /\ UNCHANGED <<order, lines, ruleLines, dimIndex, evidence, blocks>>
    BY <1>7 DEF StartMessages, coldVars, writing
  <2>2. n \in Nat /\ lines + n <= MaxEvidence
    BY <1>2, <2>1 DEF BudgetInv, Counted, Least
  <2> HIDE DEF n
  <2>3. messages' \in Seq(Messages) /\ Len(messages') <= n
    BY <1>1, <2>1, <2>2, FirstOfSequence
  <2>4. Len(messages') \in Nat
    BY <2>3
  <2>. QED BY <1>0, <1>2, <2>1, <2>2, <2>3, <2>4 DEF BudgetInv, Counted, Room, Lost
<1>8. CASE QuoteMessage
  <2>1. /\ phase = "messages" /\ phase' = "messages"
        /\ Len(messages') = Len(messages) - 1 /\ Len(messages) >= 1
        /\ UNCHANGED <<order, ruleLines, dimIndex, blocks>>
        /\ \/ UNCHANGED <<evidence, lines>>
           \/ Len(evidence') = Len(evidence) + 1 /\ lines' = lines + 1
    BY <1>1, <1>2, <1>8 DEF QuoteMessage, writing
  <2>. QED BY <1>0, <1>2, <2>1 DEF BudgetInv, Counted, Room, Lost
<1>8a. ASSUME NEW s, NEW shown, NEW rules, blocks' = Append(blocks, Block(s, shown, rules))
       PROVE  RulesOfLast' = rules
  <2> DEFINE b == Block(s, shown, rules)
  <2>1. b.rules = rules
    BY DEF Block
  <2> HIDE DEF b
  <2>2. blocks' = Append(blocks, b) /\ blocks \in Seq(Written)
    BY <1>8a DEF b, BlocksInv
  <2>3. blocks' # <<>> /\ blocks'[Len(blocks')] = b
    BY <2>2
  <2>. QED BY <2>1, <2>3 DEF RulesOfLast
<1>9. CASE WriteSlot
  <2> DEFINE taken == ShownLines(NextSlot)
             rules == Cardinality(RulesOn(NextSlot))
  <2>1. taken \in Nat /\ rules \in Nat
    BY ShownLinesNat, RulesCount
  <2>2. /\ lines' = lines + 1 + taken + rules
        /\ ruleLines' = ruleLines + rules
        /\ dimIndex' = dimIndex + 1
        /\ UNCHANGED <<order, evidence>> /\ phase' = "slots"
        /\ dimIndex < Len(order) /\ phase = "slots"
        /\ lines + taken + 1 + (Len(order) - dimIndex - 1) <= MaxLines
    BY <1>9 DEF WriteSlot, Fits, found, coldVars
  <2>3. Cardinality(RulesOfLast)' = rules
    <3>1. PICK all \in Chronological(Members(NextSlot)) : \E shown \in Shown(NextSlot, all) :
            blocks' = Append(blocks, Block(NextSlot, shown, RulesOn(NextSlot)))
      BY <1>9 DEF WriteSlot
    <3>2. PICK shown : blocks' = Append(blocks, Block(NextSlot, shown, RulesOn(NextSlot)))
      BY <3>1
    <3>. QED BY <1>8a, <3>2
  <2> HIDE DEF taken, rules
  <2>4. lines' + Lost' <= MaxLines + ruleLines' /\ lines' <= MaxLines + rules
    BY <1>2, <2>1, <2>2 DEF BudgetInv, Lost
  <2>. QED BY <1>2, <2>1, <2>2, <2>3, <2>4 DEF BudgetInv, Counted, Room
<1>10. CASE SummariseSlot
  <2>1. RulesOfLast' = {}
    BY <1>8a, <1>10 DEF SummariseSlot
  <2>2. Cardinality(RulesOfLast)' = 0
    BY <2>1, FS_EmptySet
  <2>. QED BY <1>2, <1>10, <2>2 DEF SummariseSlot, found, coldVars, BudgetInv, Counted, Room, Lost
<1>11. CASE Deliver
  BY <1>0, <1>2, <1>11 DEF Deliver, found, coldVars, writing, BudgetInv, Counted, Room, Lost
<1>. QED
  BY <1>3, <1>4, <1>5, <1>6, <1>7, <1>8, <1>9, <1>10, <1>11
     DEF Next, vars, found, coldVars, writing, Read, EmbeddingFails, Captured, Decided, ConstraintChanges, Choose,
         Pass, NextRound, Prioritize, StartSlots

-----------------------------------------------------------------------------

IInv == FoundInv /\ QuotesInv /\ TurnsInv /\ BlocksInv /\ BudgetInv

LEMMA InitContext == Init => IInv
<1> SUFFICES ASSUME Init PROVE IInv
  OBVIOUS
<1>1. /\ query \in Query /\ DOMAIN state = Claims /\ candidates = {} /\ phase = "asked"
      /\ direct = <<>> /\ messages = <<>> /\ order = <<>> /\ sources = <<>> /\ evidence = <<>>
      /\ blocks = <<>> /\ turn = 1 /\ unit = 1 /\ added = FALSE /\ remainder = FALSE
      /\ chars = 0 /\ lines = 0 /\ ruleLines = 0 /\ dimIndex = 0 /\ active \subseteq Rules
  BY ContextAssumption DEF Init, ColdInit
<1>2. \A S : <<>> \in Seq(S) /\ DOMAIN <<>> = {} /\ Len(<<>>) = 0 /\ ToSet(<<>>) = {}
  BY DEF ToSet
<1>3. FoundInv
  BY <1>1, <1>2 DEF FoundInv
<1>4. QuotesInv
  <2>2. \A e \in ToSet(sources) : FALSE
    BY <1>1, <1>2
  <2>3. added \in BOOLEAN /\ remainder \in BOOLEAN
    BY <1>1
  <2>4. sources \in Seq(Episodes) /\ evidence \in Seq(Quotation) /\ DOMAIN evidence = {}
    BY <1>1, <1>2
  <2>. QED BY <1>1, <2>2, <2>3, <2>4 DEF QuotesInv
<1>5. TurnsInv
  BY <1>1, <1>2 DEF TurnsInv, SourcesFirst
<1>6. BlocksInv
  BY <1>1, <1>2 DEF BlocksInv
<1>7. BudgetInv
  <2>1. RulesOfLast = {} /\ Cardinality(RulesOfLast) = 0
    BY <1>1, FS_EmptySet DEF RulesOfLast
  <2>. QED BY <1>1, <1>2, <2>1, ContextAssumption, ColdEvidenceAssumption
           DEF BudgetInv, Counted, Room, Lost
<1>. QED BY <1>3, <1>4, <1>5, <1>6, <1>7 DEF IInv

\* What retrievalContext has found, chosen and written up to any of its steps.
THEOREM ContextInvariance == Spec => []IInv
<1>1. Init => IInv
  BY InitContext
<1>2. IInv /\ [Next]_vars => IInv'
  BY FoundStep, QuotesStep, TurnsStep, BlocksStep, BudgetStep DEF IInv, BudgetInv
<1>. QED BY <1>1, <1>2, PTL DEF Spec

\* Neither the graph nor the sources of a claim lead retrievalContext out of the
\* scope the question asks for, whatever is captured or decided in the meantime.
THEOREM ScopeHidesTheRest == Spec => []ContextIsolated
<1>1. IInv => ContextIsolated
  <2> SUFFICES ASSUME IInv, query.scope # NoScope PROVE ContextIsolated
    BY DEF ContextIsolated
  <2>1. \A i \in DOMAIN evidence : ScopeOf[evidence[i].from] = query.scope
    BY DEF IInv, QuotesInv, Within
  <2>2. \A i \in DOMAIN blocks :
          /\ \A c \in Shows(blocks[i]) : ScopeOf[c] = query.scope
          /\ \A r \in blocks[i].rules : ScopeOf[r] = query.scope
    BY DEF IInv, BlocksInv, Within
  <2>3. \A s \in ToSet(order) : \E c \in Claims : /\ Exists(c) /\ SlotOf[c] = s
                                                 /\ ScopeOf[c] = query.scope
    BY DEF IInv, FoundInv, Within
  <2>. QED BY <2>1, <2>2, <2>3 DEF ContextIsolated
<1>. QED BY <1>1, ContextInvariance, PTL

\* What retrievalContext takes from other accounts is tagged, and taken only where
\* the account has nothing, for any conversations, claims and accounts.
THEOREM OthersAreToldApart == Spec => []OthersAsFallback
<1>1. IInv => OthersAsFallback
  <2> SUFFICES ASSUME IInv, query.account # {} PROVE OthersAsFallback
    BY DEF OthersAsFallback
  <2>1. \A i \in DOMAIN blocks :
          IF blocks[i].foreign
            THEN /\ OwnMembers(blocks[i].slot) = {}
                 /\ Shows(blocks[i]) # {} => query.scope = NoScope
            ELSE \A c \in Shows(blocks[i]) : Own(c)
    BY DEF IInv, BlocksInv, Apart
  <2>2. \A i \in DOMAIN evidence :
          evidence[i].foreign <=> OriginOf(evidence[i].from) \cap query.account = {}
    BY DEF IInv, QuotesInv, Foreign
  <2>3. \A i \in Conversational : evidence[i].foreign => Anchored(direct) \cap query.account = {}
    <3> SUFFICES ASSUME NEW i \in Conversational, evidence[i].foreign
                 PROVE  Anchored(direct) \cap query.account = {}
      OBVIOUS
    <3>1. i \in DOMAIN evidence /\ evidence[i].from \in Episodes
      BY DEF Conversational
    <3>2. OriginOf(evidence[i].from) = {evidence[i].from}
      BY <3>1, ContextAssumption DEF OriginOf
    <3>3. evidence[i].from \notin query.account
      BY <2>2, <3>1, <3>2
    <3>. QED BY <3>1, <3>3 DEF IInv, QuotesInv, Fallback
  <2>. QED BY <2>1, <2>2, <2>3 DEF OthersAsFallback
<1>. QED BY <1>1, ContextInvariance, PTL

\* coldEpisodeEvidence lets every conversation speak before it hears one again,
\* however many units they have and however often two say the same.
THEOREM EveryConversationFirst == Spec => []SourcesFirst
<1>1. IInv => SourcesFirst
  BY DEF IInv, TurnsInv
<1>. QED BY <1>1, ContextInvariance, PTL

\* However many claims, slots, rules and quotations there are, only the rule lines
\* of one slot exceed the budget of retrievalContext, and the slots that vanish are
\* no more than the rule lines and what slots and quotations are too many.
THEOREM BudgetIsKept == Spec => []BudgetKept
<1>1. IInv => BudgetKept
  <2> SUFFICES ASSUME IInv PROVE BudgetKept
    OBVIOUS
  <2>1. Len(order) \in Nat /\ Len(evidence) \in Nat /\ Cardinality(RulesOfLast) \in Nat
    BY RulesCount DEF IInv, FoundInv, QuotesInv
  <2>. QED BY <2>1, ContextAssumption DEF IInv, BudgetInv, Room, Lost, BudgetKept
<1>. QED BY <1>1, ContextInvariance, PTL

=============================================================================
