------------------------------ MODULE Context -------------------------------
(***************************************************************************)
(* retrievalContext: what a model is given to answer from. The question is *)
(* ranked, which waits for the embedding of its text while the memory may  *)
(* change; then, without a pause, quotations of conversations are chosen   *)
(* and every slot found is written as a block that says how many claims it *)
(* holds. All of it shares one budget of lines.                            *)
(***************************************************************************)
EXTENDS Neighborhood, ColdEvidence

CONSTANTS
  Queries,          \* what may be asked
  FirstState,       \* the state of each claim when the question arrives
  Assistants,       \* the claims the assistant made
  TextOf,           \* the text of a message
  Rules,            \* constraints of the graph
  BoundTo,          \* the slots each binds or names as participant
  FirstActive,      \* those active when the question arrives
  PerSource, MaxMessages,   \* messages taken of each source, and in all
  MaxEntries, MaxLines

ASSUME ContextAssumption ==
  /\ IsFiniteSet(Slots) /\ IsFiniteSet(Rules)
  /\ BoundTo \in [Rules -> SUBSET Slots]
  /\ FirstActive \subseteq Rules /\ Rules \subseteq DOMAIN ScopeOf
  /\ Messages \cap Episodes = {}
  /\ Queries \subseteq Query
  /\ MaxEntries \in Nat /\ MaxLines \in Nat
  /\ MaxEvidence <= MaxLines
  /\ DOMAIN FirstState = Claims /\ Assistants \subseteq Claims
  /\ PerSource \in Nat /\ MaxMessages \in Nat \ {0}

VARIABLES
  flagged,        \* slots in conflict
  active,         \* active constraints
  phase,
  direct, messages, order,    \* what is found: claims, messages, their slots
  blocks,         \* the slots written
  dimIndex,       \* how many slots are behind
  ruleLines, lines            \* lines of rules, and all

memory  == <<state, flagged, active>>
found   == <<direct, messages, order>>
writing == <<blocks, dimIndex, ruleLines>>
vars    == <<memory, query, candidates, phase, found, coldVars, writing, lines>>

-----------------------------------------------------------------------------

\* Messages of the sources the best claims come from, a few of each source.
Rank(hits, m) ==
  LET ranks == {i \in DOMAIN hits : SourcesOf[hits[i]] \cap SourcesOf[m] # {}}
  IN  IF ranks = {} THEN Len(hits) + 1 ELSE CHOOSE i \in ranks : \A j \in ranks : i <= j

Bundles(claims, hits) ==
  LET ranked   == ToSet(hits) \cap Messages
      ahead(m) == {n \in ranked : /\ Rank(claims, n) = Rank(claims, m)
                                  /\ Position(hits, n) < Position(hits, m)}
      few      == {m \in ranked : Cardinality(ahead(m)) < PerSource}
      taken    == {m \in few :
                     Cardinality({n \in few : Rank(claims, n) < Rank(claims, m)}) < MaxMessages}
  IN  {bundle \in SetToSeqs(taken) :
         \A i, j \in DOMAIN bundle :
           i < j => \/ Rank(claims, bundle[i]) < Rank(claims, bundle[j])
                    \/ bundle[i] \in ahead(bundle[j])}

\* The slots of claims, in the order they come in.
SlotsOf(claims) ==
  LET first(s) == CHOOSE i \in DOMAIN claims :
                    SlotOf[claims[i]] = s /\ \A j \in 1..i - 1 : SlotOf[claims[j]] # s
  IN  {slots \in SetToSeqs({s \in Slots : \E c \in ToSet(claims) : SlotOf[c] = s}) :
         \A i, j \in DOMAIN slots : i < j => first(slots[i]) < first(slots[j])}

\* The account's own claims of a slot; the others' only if no scope is asked for
\* and it has none.
OwnMembers(s) ==
  {c \in Claims : Exists(c) /\ SlotOf[c] = s /\ Within(c) /\ query.account # {} /\ Own(c)}
Members(s) ==
  IF OwnMembers(s) # {} \/ (query.scope # NoScope /\ query.account # {})
    THEN OwnMembers(s)
    ELSE {c \in Claims : Exists(c) /\ SlotOf[c] = s /\ Within(c)}

Chronological(claims) ==
  {all \in SetToSeqs(claims) :
     \A i, j \in DOMAIN all : i < j => CreatedAt[all[i]] <= CreatedAt[all[j]]}

\* The oldest and the newest, if there are too many.
Selected(all) ==
  LET head == (MaxEntries + 1) \div 2
      tail == MaxEntries - head
  IN  {all[i] : i \in {j \in DOMAIN all : \/ Len(all) <= MaxEntries
                                          \/ j <= head \/ j > Len(all) - tail}}
Overfull(s) == Cardinality(Members(s)) > MaxEntries
ShownLines(s) == IF Overfull(s) THEN MaxEntries + 1 ELSE Cardinality(Members(s))

\* In a slot in conflict the user's latest live claim comes first, then the
\* newest, if that claim is shown at all.
InConflict(s) == s \in flagged \/ \E c \in Members(s) : state[c] = "conflict"
UserLive(c) == c \notin Assistants /\ state[c] \notin {"superseded", "rejected"}
LatestOfUser(all) ==
  {all[i] : i \in {j \in DOMAIN all :
                     /\ UserLive(all[j])
                     /\ \A k \in DOMAIN all : k > j => ~UserLive(all[k])}}

Shown(s, all) ==
  LET latest == LatestOfUser(all) \cap Selected(all)
      older(c, d) == Position(all, c) < Position(all, d)
      newer(c, d) == CreatedAt[c] > CreatedAt[d] \/ (CreatedAt[c] = CreatedAt[d] /\ older(c, d))
  IN  {shown \in SetToSeqs(Selected(all)) :
         \A i, j \in DOMAIN shown :
           i < j => IF InConflict(s) /\ latest # {}
                      THEN \/ shown[i] \in latest
                           \/ shown[j] \notin latest /\ newer(shown[i], shown[j])
                      ELSE older(shown[i], shown[j])}

NextSlot == order[dimIndex + 1]

\* Room for the block, and for one line for each slot after it.
\* Mutant: the slots after it are forgotten.
FitsAlone(s) == lines + ShownLines(s) + 1 <= MaxLines
Fits(s) == lines + ShownLines(s) + 1 + (Len(order) - dimIndex - 1) <= MaxLines

\* The constraints that give a slot a line each.
RulesOn(s) == {r \in active : Within(r) /\ s \in BoundTo[r]}

Block(s, shown, rules) ==
  [slot    |-> s, count |-> Cardinality(Members(s)), shown |-> shown, rules |-> rules,
   foreign |-> query.account # {} /\ OwnMembers(s) = {}]

-----------------------------------------------------------------------------

Init ==
  /\ state = FirstState
  /\ flagged = {} /\ active = FirstActive
  /\ query \in Queries
  /\ candidates = {} /\ phase = "asked"
  /\ direct = <<>> /\ messages = <<>> /\ order = <<>>
  /\ ColdInit
  /\ blocks = <<>> /\ dimIndex = 0 /\ ruleLines = 0 /\ lines = 0

\* The nodes are read and ranked by their text; the embedding is asked for.
Read ==
  /\ phase = "asked"
  /\ phase' = "embedding"
  /\ candidates' = Candidates
  /\ UNCHANGED <<memory, query, found, coldVars, writing, lines>>

EmbeddingFails ==
  /\ phase = "embedding" /\ query.vector # <<>>
  /\ phase' = "failed"
  /\ UNCHANGED <<memory, query, candidates, found, coldVars, writing, lines>>

\* Meanwhile another turn captures a claim, which conflicts with an accepted one
\* of its slot: the slots here hold a single value.
Captured(c) ==
  LET rivals == {d \in Claims : SlotOf[d] = SlotOf[c] /\ state[d] = "accepted"}
  IN  /\ phase = "embedding" /\ ~Exists(c)
      /\ state' = [state EXCEPT ![c] = IF rivals = {} THEN "accepted" ELSE "tentative"]
      /\ flagged' = IF rivals = {} THEN flagged ELSE flagged \cup {SlotOf[c]}
      /\ UNCHANGED <<active, query, candidates, phase, found, coldVars, writing, lines>>

\* Or a conflict is resolved.
Decided(c) ==
  LET s == SlotOf[c]
  IN  /\ phase = "embedding" /\ s \in flagged
      /\ state[c] \in {"accepted", "tentative"}
      /\ state' = [d \in Claims |->
                     IF d = c THEN "accepted"
                     ELSE IF SlotOf[d] = s /\ Exists(d) THEN "superseded"
                     ELSE state[d]]
      /\ flagged' = flagged \ {s}
      /\ UNCHANGED <<active, query, candidates, phase, found, coldVars, writing, lines>>

\* Or a constraint is activated or withdrawn.
ConstraintChanges(r) ==
  /\ phase = "embedding"
  /\ active' = IF r \in active THEN active \ {r} ELSE active \cup {r}
  /\ UNCHANGED <<state, flagged, query, candidates, phase, found, coldVars, writing, lines>>

\* The hits, the claims around them, and the slots of both.
Retrieved ==
  /\ phase = "embedding"
  /\ phase' = "evidence"
  /\ \E hits \in Hits : \E claims \in DirectHits(hits) :
       /\ direct' = claims
       /\ messages' \in Bundles(claims, hits)
       /\ \E related \in Related(claims) : \E further \in SetToSeqs(related) :
            order' \in SlotsOf(claims \o further)
  /\ UNCHANGED <<memory, query, candidates, coldVars, writing, lines>>

GatherEvidence ==
  /\ phase = "evidence"
  /\ phase' = "quotes"
  /\ Gather(direct)
  /\ UNCHANGED <<memory, query, candidates, found, writing, lines>>

\* One quotation is one line.
Quote ==
  /\ phase = "quotes"
  /\ Take
  /\ lines' = lines + 1
  /\ UNCHANGED <<memory, query, candidates, phase, found, writing>>

Choose ==
  /\ phase = "quotes"
  /\ Pass \/ NextRound \/ Prioritize
  /\ UNCHANGED <<memory, query, candidates, phase, found, writing, lines>>

\* Messages take what the quotations left.
StartMessages ==
  /\ phase = "quotes" /\ Exhausted
  /\ phase' = "messages"
  /\ messages' = First(messages, MaxEvidence - Least(MaxEvidence, lines))
  /\ UNCHANGED <<memory, query, candidates, direct, order, coldVars, writing, lines>>

Conversational == {i \in DOMAIN evidence : evidence[i].from \in Episodes}

\* The next of them, unless it repeats a quotation.
QuoteMessage ==
  /\ phase = "messages" /\ messages # <<>>
  /\ messages' = Tail(messages)
  /\ LET m == Head(messages)
     IN  IF \E i \in Conversational : evidence[i].text = TextOf[m]
           THEN UNCHANGED <<evidence, lines>>
           ELSE /\ evidence' = Append(evidence, [text    |-> TextOf[m],
                                                 from    |-> m,
                                                 foreign |-> Foreign(SourcesOf[m])])
                /\ lines' = lines + 1
  /\ UNCHANGED <<memory, query, candidates, phase, direct, order, choosing, chars, writing>>

StartSlots ==
  /\ phase = "messages" /\ messages = <<>>
  /\ phase' = "slots"
  /\ UNCHANGED <<memory, query, candidates, found, coldVars, writing, lines>>

\* In full. What the rules take was not counted when there was room.
WriteSlot ==
  /\ phase = "slots" /\ dimIndex < Len(order) /\ lines < MaxLines
  /\ Fits(NextSlot)
  /\ dimIndex' = dimIndex + 1
  /\ \E all \in Chronological(Members(NextSlot)) : \E shown \in Shown(NextSlot, all) :
       blocks' = Append(blocks, Block(NextSlot, shown, RulesOn(NextSlot)))
  /\ lines' = lines + 1 + ShownLines(NextSlot) + Cardinality(RulesOn(NextSlot))
  /\ ruleLines' = ruleLines + Cardinality(RulesOn(NextSlot))
  /\ UNCHANGED <<memory, query, candidates, phase, found, coldVars>>

\* Only the count is left of a slot that does not fit.
SummariseSlot ==
  /\ phase = "slots" /\ dimIndex < Len(order) /\ lines < MaxLines
  /\ ~Fits(NextSlot)
  /\ dimIndex' = dimIndex + 1
  /\ blocks' = Append(blocks, Block(NextSlot, <<>>, {}))
  /\ lines' = lines + 1
  /\ UNCHANGED <<memory, query, candidates, phase, found, coldVars, ruleLines>>

Deliver ==
  /\ phase = "slots" /\ (dimIndex >= Len(order) \/ lines >= MaxLines)
  /\ phase' = "done"
  /\ UNCHANGED <<memory, query, candidates, found, coldVars, writing, lines>>

Next ==
  \/ Read \/ EmbeddingFails \/ Retrieved \/ GatherEvidence
  \/ Quote \/ Choose \/ StartMessages \/ QuoteMessage \/ StartSlots
  \/ WriteSlot \/ SummariseSlot \/ Deliver
  \/ \E c \in Claims : Captured(c) \/ Decided(c)
  \/ \E r \in Rules : ConstraintChanges(r)

Spec == Init /\ [][Next]_vars

-----------------------------------------------------------------------------

Shows(block) == ToSet(block.shown)

\* Whatever is written into the context has the scope that was asked for, also
\* where a claim's provenance or the graph led to it: a quotation, a claim, the
\* name of a rule, and a slot only if a claim of that scope is in it.
ContextIsolated ==
  query.scope # NoScope =>
    /\ \A i \in DOMAIN evidence : ScopeOf[evidence[i].from] = query.scope
    /\ \A i \in DOMAIN blocks :
         /\ \A c \in Shows(blocks[i]) : ScopeOf[c] = query.scope
         /\ \A r \in blocks[i].rules : ScopeOf[r] = query.scope
    /\ \A s \in ToSet(order) : \E c \in Claims : /\ Exists(c) /\ SlotOf[c] = s
                                               /\ ScopeOf[c] = query.scope

\* Other accounts are a fallback and told apart. A block that is not tagged shows
\* the account's claims only; one that is belongs to a slot where the account has
\* none, and shows claims only if no scope was asked for. A quotation is tagged
\* exactly if no source of it is the account's, and a conversation of others is
\* quoted only if the hits and the question led to none of the account's.
OriginOf(x) == IF x \in Messages THEN SourcesOf[x] ELSE {x}
OthersAsFallback ==
  query.account # {} =>
    /\ \A i \in DOMAIN blocks :
         IF blocks[i].foreign
           THEN /\ OwnMembers(blocks[i].slot) = {}
                /\ Shows(blocks[i]) # {} => query.scope = NoScope
           ELSE \A c \in Shows(blocks[i]) : Own(c)
    /\ \A i \in DOMAIN evidence :
         evidence[i].foreign <=> OriginOf(evidence[i].from) \cap query.account = {}
    /\ \A i \in Conversational :
         evidence[i].foreign => Anchored(direct) \cap query.account = {}

\* runtime.ts, scopeSessionIds: group members are filtered so that a retrieved
\* dimension never renders another tenant's statements. Not so: see above.
OnlyOwnClaims ==
  query.account # {} => \A i \in DOMAIN blocks : \A c \in Shows(blocks[i]) : Own(c)

\* Two ways over the budget, and no other. The rule lines of the last slot
\* written in full may exceed it. And slots that were found disappear without a
\* count: no more than there are rule lines, unless slots and quotations are
\* more than the lines from the start, and then no more than both together.
Lost == Len(order) - dimIndex
RulesOfLast == IF blocks = <<>> THEN {} ELSE blocks[Len(blocks)].rules
BudgetKept ==
  /\ lines <= MaxLines + Cardinality(RulesOfLast)
  /\ phase = "done" =>
       \/ Lost <= ruleLines
       \/ Lost <= ruleLines + (Len(evidence) + Len(order) - MaxLines)

\* runtime.ts, maxContextLines: a hard line budget for the assembled context.
BudgetHard == lines <= MaxLines

\* No conversation is quoted twice before every other one chosen was quoted once,
\* unless the best of that one repeats a quotation or is too long for what is left.
CharsUpTo(quotes) ==
  LET sum[n \in 0..Len(quotes)] == IF n = 0 THEN 0 ELSE sum[n - 1] + SizeOf[quotes[n].text]
  IN  sum
UsableBefore(text, n) ==
  /\ \A k \in 1..n - 1 : evidence[k].text # text
  /\ CharsUpTo(evidence)[n - 1] + SizeOf[text] <= MaxEvidence * MaxChars
SourcesFirst ==
  \A i, j \in DOMAIN evidence :
    i < j /\ evidence[i].from = evidence[j].from =>
      \A e \in ToSet(sources) :
        \/ Units[e] = <<>>
        \/ \E k \in 1..j - 1 : evidence[k].from = e
        \/ ~UsableBefore(Units[e][1], j)

=============================================================================
