---------------------------- MODULE MCGraphWrite ----------------------------
(***************************************************************************)
(* Turns of one or two facts and the replies that organise them.           *)
(***************************************************************************)
EXTENDS GraphWrite

CONSTANTS city, trip, alias, colour, hue, size, legacy, red

MCCompatible == {<<colour, hue>>}
MCAcronyms == {<<alias, city>>}

Fact(k, v, said) == [key |-> k, value |-> v, said |-> said, subject |-> Owner]
Map(f, subject, k) == [fact |-> f, subject |-> subject, key |-> k]
Entity(ref, name, label, scope) == [ref |-> ref, name |-> name, label |-> label, scope |-> scope]
Link(type, from, to) == [type |-> type, from |-> from, to |-> to]

Reply(m, e, r) == [mappings |-> m, entities |-> e, relations |-> r]

\* One fact, organised in every way a small reply can.
OneFact ==
  {[contents |-> <<Fact(colour, city, said)>>,
    reply |-> Reply(<<Map(1, subject, k)>>, e, r)] :
     said \in Speakers, subject \in {Owner, alias}, k \in {hue, size},
     e \in {<<Entity(city, city, city, Context)>>,
            <<Entity(trip, trip, alias, Context), Entity(trip, city, city, Global)>>},
     r \in {<<Link("about", 1, city), Link("supersedes", 1, city)>>,
            <<Link("about", 1, trip), Link("other", trip, 1)>>}}

\* Two facts, one of them unmapped, mapped twice, or about a common entity.
TwoFacts ==
  {[contents |-> <<Fact(colour, red, "user"), Fact(colour, city, "user")>>,
    reply |-> Reply(m, <<Entity(trip, trip, trip, Context), Entity(city, NoName, city, Context)>>, r)] :
     m \in {<<Map(1, trip, hue), Map(2, trip, hue)>>, <<Map(1, trip, hue)>>,
            <<Map(1, trip, hue), Map(1, Owner, hue), Map(2, Owner, hue)>>},
     r \in {<<>>, <<Link("about", 1, trip), Link("about", 2, trip), Link("other", trip, city)>>}}
  \cup
  {[contents |-> <<Fact(colour, red, "user"), Fact(colour, city, "assistant")>>,
    reply |-> Reply(<<Map(1, Owner, hue), Map(2, trip, hue)>>,
                    <<Entity(trip, trip, trip, Context), Entity(alias, alias, city, Context)>>,
                    <<Link("about", 2, trip), Link("other", trip, alias)>>)]}

\* One under a key that was known before keys had to be in lowerCamelCase.
OldKey ==
  {[contents |-> <<Fact(legacy, red, "user")>>,
    reply |-> Reply(<<Map(1, Owner, k)>>, <<>>, <<>>)] : k \in {legacy, hue, NoKey}}

MCTurns == OneFact \cup TwoFacts \cup OldKey

Item(k, v, ref, subject) ==
  [key |-> k, value |-> v, said |-> "user", ref |-> ref, subject |-> subject]
Asked(event, keep, entry) == [event |-> event, keep |-> keep, entry |-> entry]

\* Imports: an event kept or dropped, repeated entries, mappings by any ref.
MCBatches ==
  {[expected |-> {"E1"}, events |-> <<Asked("E1", keep, Item(colour, red, city, Owner))>>,
    entries |-> <<Item(colour, red, trip, trip), Item(key, city, alias, Owner)>>,
    mappings |-> m,
    entities |-> <<Entity(trip, trip, trip, Context)>>,
    relations |-> <<Link("about", city, trip), Link("refines", alias, trip)>>] :
     keep \in BOOLEAN, key \in {colour, legacy, NoKey},
     m \in {<<>>, <<Map(trip, Owner, hue), Map(alias, alias, size)>>, <<Map(trip, Owner, NoKey)>>}}

\* One colour of two things.
Twice(expected, events) ==
  [expected |-> expected, events |-> events,
   entries |-> <<Item(colour, red, city, city), Item(colour, red, trip, trip)>>,
   mappings |-> <<>>, relations |-> <<>>,
   entities |-> <<Entity(city, city, city, Context), Entity(trip, trip, trip, Context)>>]
MCTwoSubjects == {Twice({}, <<>>), Twice({"E1"}, <<Asked("E1", FALSE, Item(NoKey, red, NoName, Owner))>>)}
NoTurns == {}
=============================================================================
