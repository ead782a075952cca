---------------------------- MODULE ColdEvidence ----------------------------
(***************************************************************************)
(* coldEpisodeEvidence: from the claims found back to the conversations    *)
(* they came from, and to conversations that match the question although   *)
(* no claim was ever extracted there. Each is cut into units, ranked by    *)
(* how well they fit. The conversations take turns, unit by unit; for a    *)
(* question about a date they do so once, and then those of that date      *)
(* come first with all they have.                                          *)
(***************************************************************************)
EXTENDS Retrieval

CONSTANTS
  Units,              \* the units of each episode, the best first
  SizeOf,             \* characters of a unit
  MaxSources, MaxEvidence, MaxChars

Texts == UNION {ToSet(Units[e]) : e \in Episodes}

ASSUME ColdEvidenceAssumption ==
  /\ Units \in [Episodes -> Seq(Texts)]
  /\ SizeOf \in [Texts -> Nat]
  /\ MaxSources \in Nat /\ MaxEvidence \in Nat /\ MaxChars \in Nat

VARIABLES
  sources,        \* the conversations to quote, in the order of their turns
  turn, unit,     \* whose turn it is, and with which of its units
  added,          \* whether this round has quoted anything
  remainder,      \* whether the turns are over, and each source goes to its end
  evidence,       \* the quotations, each with its source and tag
  chars           \* how many characters they have

choosing == <<sources, turn, unit, added, remainder>>
coldVars == <<choosing, evidence, chars>>

Least(m, n) == IF m < n THEN m ELSE n
First(s, n) == [i \in 1..Least(Len(s), n) |-> s[i]]

\* Episodes of the hits, and those the question itself matches.
Anchored(direct) ==
  LET fallback == IF query.account = {} THEN query.matches
                  ELSE query.matches \cap query.account
  IN  {e \in fallback \cup UNION {SourcesOf[c] : c \in ToSet(direct)} : Within(e)}

\* Another account's episodes only where this one has none.
\* Mutant: both.
BothSources(direct) == SetToSeqs(Anchored(direct))
Sources(direct) ==
  LET all == Anchored(direct)
      own == all \cap query.account
  IN  SetToSeqs(IF own # {} THEN own ELSE all)

\* Another account's conversations carry a tag.
Foreign(ownSources) == query.account # {} /\ ownSources \cap query.account = {}

\* A unit is quoted unless it repeats one, or would exceed the characters.
Quoted(quotes) == {quotes[i].text : i \in DOMAIN quotes}
Usable(text) ==
  /\ text \notin Quoted(evidence)
  /\ chars + SizeOf[text] <= MaxEvidence * MaxChars

-----------------------------------------------------------------------------

ColdInit ==
  /\ sources = <<>> /\ turn = 1 /\ unit = 1
  /\ added = FALSE /\ remainder = FALSE
  /\ evidence = <<>> /\ chars = 0

Gather(direct) ==
  /\ \E ordered \in Sources(direct) : sources' = First(ordered, MaxSources)
  /\ UNCHANGED <<turn, unit, added, remainder, evidence, chars>>

Full == Len(evidence) >= MaxEvidence

\* The unit whose turn it is, if the source has so many.
Source == sources[turn]
Offers == unit <= Len(Units[Source])
Offer  == Units[Source][unit]

\* In a round the next source is next, in the remainder the next unit.
\* Mutant: a source goes on while it has units.
AdvanceAlone ==
  IF unit < Len(Units[Source])
    THEN turn' = turn /\ unit' = unit + 1
    ELSE turn' = turn + 1 /\ unit' = 1
Advance ==
  IF remainder /\ unit < Len(Units[Source])
    THEN turn' = turn /\ unit' = unit + 1
    ELSE turn' = turn + 1 /\ unit' = IF remainder THEN 2 ELSE unit

Take ==
  /\ ~Full /\ turn <= Len(sources)
  /\ Offers /\ Usable(Offer)
  /\ evidence' = Append(evidence, [text    |-> Offer,
                                   from    |-> Source,
                                   foreign |-> Foreign({Source})])
  /\ chars' = chars + SizeOf[Offer]
  /\ added' = TRUE
  /\ Advance
  /\ UNCHANGED <<sources, remainder>>

Pass ==
  /\ ~Full /\ turn <= Len(sources)
  /\ ~(Offers /\ Usable(Offer))
  /\ Advance
  /\ UNCHANGED <<sources, added, remainder, evidence, chars>>

\* Round by round, until a round adds nothing.
NextRound ==
  /\ ~Full /\ turn > Len(sources) /\ ~remainder
  /\ ~query.dated /\ added
  /\ turn' = 1 /\ unit' = unit + 1 /\ added' = FALSE
  /\ UNCHANGED <<sources, remainder, evidence, chars>>

\* A question about a date: the sources of that date first, otherwise as before.
Prioritized ==
  {order \in SetToSeqs(ToSet(sources)) :
     \A i, j \in DOMAIN order :
       i < j => IF order[i] \in query.near <=> order[j] \in query.near
                  THEN Position(sources, order[i]) < Position(sources, order[j])
                  ELSE order[i] \in query.near}

Prioritize ==
  /\ ~Full /\ turn > Len(sources) /\ ~remainder
  /\ query.dated
  /\ sources' \in Prioritized
  /\ remainder' = TRUE /\ turn' = 1 /\ unit' = 2
  /\ UNCHANGED <<added, evidence, chars>>

Exhausted ==
  \/ Full
  \/ turn > Len(sources) /\ (remainder \/ (~query.dated /\ ~added))

=============================================================================
