----------------------------- MODULE MCContext ------------------------------
(* Two people's conversations in one memory, a third in another scope. "home"  *)
(* is told three times; a dog that both scopes know links the other slots.     *)
EXTENDS Context

MCClaims   == {"home1", "home2", "home3", "job", "breed", "toy", "vet"}
MCMessages == {"said", "asked"}
MCSlots    == {"home", "job", "breed", "toy", "vet"}
MCSlotOf == [c \in MCClaims |-> IF c \in {"home1", "home2", "home3"} THEN "home" ELSE c]
MCSubjectOf == [s \in MCSlots |-> IF s \in {"breed", "vet"} THEN "dog" ELSE "owner"]
MCRules   == {"commute", "shots"}
MCBoundTo == [r \in MCRules |-> IF r = "commute" THEN {"home", "job"} ELSE {"home", "vet"}]
MCAbout  == [c \in MCClaims |-> IF c \in {"job", "toy"} THEN {"dog"} ELSE {}]
MCScopeOf ==
  [x \in MCClaims \cup MCMessages \cup {"e1", "e2", "e3"} \cup MCRules |->
     IF x \in {"vet", "e3", "shots"} THEN "work" ELSE "private"]
MCSourcesOf ==
  [n \in MCClaims \cup MCMessages |->
     CASE n \in {"home1", "job", "said"} -> {"e1"}
       [] n \in {"home2", "breed", "toy", "asked"} -> {"e2"}
       [] n = "home3" -> {"e1", "e2"}
       [] n = "vet" -> {"e3"}]
MCCreatedAt ==
  [c \in MCClaims |-> CASE c = "home1" -> 1 [] c = "home2" -> 2 [] c = "home3" -> 3 [] OTHER -> 4]

MCFirstState ==
  [c \in MCClaims |-> CASE c = "home1" -> "superseded" [] c = "home3" -> "absent" [] OTHER -> "accepted"]

MCUnits  == [e \in {"e1", "e2", "e3"} |->
               CASE e = "e1" -> <<"moved", "works">>
                 [] e = "e2" -> <<"moved", "dog", "toy">>
                 [] e = "e3" -> <<"vet">>]
MCSizeOf == [u \in {"moved", "works", "dog", "toy", "vet"} |-> IF u = "toy" THEN 3 ELSE 1]
MCTextOf == [m \in MCMessages |-> IF m = "said" THEN "works" ELSE "where"]

\* No date, one of which there is no conversation, and that of e2; without a
\* filter of states, only what is believed, or only what no longer is.
Filters ==
  {[dated |-> FALSE, near |-> {}, states |-> states] : states \in {{}, {"accepted"}, {"superseded"}}}
  \cup {[dated |-> TRUE, near |-> near, states |-> {}] : near \in {{}, {"e2"}}}

MCQueries ==
  {[lexical |-> lexical, vector |-> vector, names |-> names, matches |-> matches,
    dated |-> filter.dated, near |-> filter.near, states |-> filter.states,
    scope |-> scope, account |-> account] :
     lexical \in {<<"home1", "said", "job", "vet">>, <<"toy", "asked", "home2">>, <<"home2">>,
                  <<"said", "asked">>},
     vector  \in {<<>>, <<"home2", "job", "said">>},
     names   \in {{}, {"dog"}}, matches \in {{}, {"e2", "e3"}}, filter \in Filters,
     scope   \in {"none", "private"}, account \in {{}, {"e1"}, {"e1", "e2"}}}

\* The bound of the run: the constraints change once while the embedding is awaited.
OneChange ==
  \A r, s \in Rules : (r \in active) # (r \in FirstActive) /\ (s \in active) # (s \in FirstActive)
                     => r = s

=============================================================================
