-------------------------- MODULE Relations_proofs --------------------------
(***************************************************************************)
(* Proofs about Relations: what of a slot's correctness survives relations *)
(* that a human approves, for every set of statements, values and actors.  *)
(***************************************************************************)
EXTENDS Relations, TLAPS

\* The inductive invariant. The flag of a slot is raised while it has an open
\* contradiction, and otherwise only where no contradiction was ever recorded.
FlagInv ==
  /\ LiveContradictions # {} => dimension = "conflict"
  /\ dimension = "conflict" =>
       \/ LiveContradictions # {}
       \/ contradicts = {} /\ \E a, b \in LiveIds : a # b

RInv == RelationsTypeOK /\ FlagInv

\* What one step does to the history: edges stay, and what it retires is
\* superseded by what it accepts, or from outside.
HistoryStep ==
  /\ supersedes \subseteq supersedes'
  /\ outside \subseteq outside'
  /\ \A x \in StatementIds :
       state'[x] = "superseded" /\ state[x] # "superseded" =>
         \/ x \in outside'
         \/ \E w \in StatementIds, by \in Actors :
              state'[w] = "accepted" /\ <<w, x, by>> \in supersedes'
  /\ \A x \in StatementIds :
       state[x] = "accepted" => state'[x] \in {"accepted", "superseded"}

-----------------------------------------------------------------------------
(* Two kinds of steps                                                      *)

\* Live states, among those a statement can be in.
LEMMA LiveMeans ==
  ASSUME TypeOK, NEW s \in StatementIds
  PROVE  Live(s) <=> state[s] \in {"tentative", "accepted"}
BY DEF TypeOK, Live, LiveState, FactNodeState, Terminal

LEMMA LiveMeansNext ==
  ASSUME TypeOK', NEW s \in StatementIds
  PROVE  Live(s)' <=> state'[s] \in {"tentative", "accepted"}
BY DEF TypeOK, Live, LiveState, FactNodeState, Terminal

\* A docket is never empty in a flagged slot of the invariant.
LEMMA FlagMeansDocket ==
  ASSUME FlagInv PROVE FlagMatchesDocket
BY DEF FlagInv, FlagMatchesDocket, Docket, Cases, LegacyCases, LiveContradictions

\* No step that leaves edges and live statements alone disturbs the flag.
LEMMA FlagKept ==
  ASSUME FlagInv, TypeOK, TypeOK',
         contradicts' = contradicts,
         \A x \in StatementIds : Live(x) => Live(x)',
         \A e \in contradicts : Live(e[1])' => Live(e[1]),
         \A e \in contradicts : Live(e[2])' => Live(e[2]),
         (dimension' = "conflict") <=> (dimension = "conflict")
  PROVE  FlagInv'
<1>1. LiveContradictions' = LiveContradictions
  BY DEF LiveContradictions, TypeOK
<1>2. LiveIds \subseteq LiveIds'
  BY DEF LiveIds
<1>. QED BY <1>1, <1>2 DEF FlagInv

\* Nor does one that retires statements and then looks at what is left open.
LEMMA FlagRestored ==
  ASSUME FlagInv, TypeOK, TypeOK',
         contradicts' = contradicts,
         \A x \in StatementIds : Live(x)' => Live(x),
         dimension' = Restored
  PROVE  FlagInv'
<1>1. LiveContradictions' \subseteq LiveContradictions
  BY DEF LiveContradictions, TypeOK
<1>. QED BY <1>1 DEF FlagInv, Restored

\* A contradiction between live statements raises the flag.
LEMMA FlagRaised ==
  ASSUME TypeOK', NEW s \in StatementIds, NEW o \in StatementIds,
         <<s, o>> \in contradicts', Live(s)', Live(o)', dimension' = "conflict"
  PROVE  FlagInv'
<1>1. <<s, o>> \in LiveContradictions'
  BY DEF LiveContradictions
<1>. QED BY <1>1 DEF FlagInv

\* Types where only states change, and no statement appears or disappears.
LEMMA StatesTyped ==
  ASSUME TypeOK, UNCHANGED <<cardinality, claim>>,
         state' \in [StatementIds -> {"absent", "tentative", "accepted", "superseded"}],
         \A x \in StatementIds : Exists(x)' <=> Exists(x),
         contradicts' \subseteq contradicts \cup {p \in StatementIds \X StatementIds : Exists(p[1]) /\ Exists(p[2])},
         supersedes' \in SUBSET (StatementIds \X StatementIds \X Actors),
         dimension' \in {"absent", "tentative", "accepted", "conflict"},
         dimension' = "absent" => dimension = "absent"
  PROVE  TypeOK'
<1>1. /\ contradicts' \in SUBSET (StatementIds \X StatementIds)
      /\ \A e \in contradicts' : Exists(e[1])' /\ Exists(e[2])'
  BY DEF TypeOK
<1>2. \A s \in StatementIds : claim'[s] = NoClaim <=> ~Exists(s)'
  BY DEF TypeOK
<1>. QED BY <1>1, <1>2 DEF TypeOK

-----------------------------------------------------------------------------
(* Every action                                                            *)

LEMMA InitRInv == RelationsInit => RInv
<1> SUFFICES ASSUME RelationsInit PROVE RInv
  OBVIOUS
<1>1. outside = {} /\ contradicts = {} /\ supersedes = {} /\ LiveContradictions = {}
  BY DEF RelationsInit, Init, LiveContradictions
<1>2. CASE FreshSlot
  <2>1. TypeOK
    BY <1>1, <1>2, ConstantsAssumption DEF FreshSlot, TypeOK, Cardinalities, Exists
  <2>. QED BY <1>1, <1>2, <2>1 DEF RInv, RelationsTypeOK, FlagInv, FreshSlot
<1>3. CASE LegacyConflict
  <2>1. PICK a, b \in StatementIds, ca, cb \in Claim :
          /\ a # b
          /\ state = [s \in StatementIds |->
                        IF s = a THEN "accepted" ELSE IF s = b THEN "tentative" ELSE "absent"]
          /\ claim = [s \in StatementIds |->
                        IF s = a THEN ca ELSE IF s = b THEN cb ELSE NoClaim]
    BY <1>3 DEF LegacyConflict
  <2>2. dimension = "conflict" /\ cardinality = "single"
    BY <1>3 DEF LegacyConflict
  <2>3. \A s \in StatementIds :
          /\ state[s] \in {"absent", "tentative", "accepted", "superseded"}
          /\ claim[s] \in Claim \cup {NoClaim}
          /\ claim[s] = NoClaim <=> ~Exists(s)
    BY <2>1, ConstantsAssumption DEF Exists
  <2>4. TypeOK
    BY <1>1, <2>1, <2>2, <2>3 DEF TypeOK, Cardinalities
  <2>5. a \in LiveIds /\ b \in LiveIds
    BY <2>1, <2>4, LiveMeans DEF LiveIds
  <2>. QED BY <1>1, <2>1, <2>2, <2>4, <2>5 DEF RInv, RelationsTypeOK, FlagInv
<1>. QED BY <1>2, <1>3 DEF RelationsInit, Init

LEMMA CaptureNewRInv ==
  ASSUME RInv, UNCHANGED outside,
         NEW s \in StatementIds, NEW c \in Claim, NEW card \in Cardinalities,
         CaptureNew(s, c, card)
  PROVE  RInv' /\ HistoryStep
<1> DEFINE kind == IF dimension = "absent" THEN card ELSE cardinality
           clash == kind = "single" /\ Rivals(c.value) # {}
           byUser == c.channel \notin AssistantChannels
           new == IF clash \/ ~byUser THEN "tentative" ELSE "accepted"
<1>1. /\ state[s] = "absent"
      /\ cardinality' = kind
      /\ state' = [state EXCEPT ![s] = new]
      /\ claim' = [claim EXCEPT ![s] = c]
      /\ supersedes' = supersedes
  BY DEF CaptureNew, Exists
<1>2. /\ state'[s] = new
      /\ claim'[s] = c
      /\ \A x \in StatementIds \ {s} : state'[x] = state[x] /\ claim'[x] = claim[x]
  BY <1>1 DEF RInv, RelationsTypeOK, TypeOK
<1>3. \/ /\ clash /\ byUser /\ dimension' = "conflict"
         /\ \E r \in Rivals(c.value) : contradicts' = contradicts \cup {<<s, r>>}
      \/ /\ contradicts' = contradicts
         /\ dimension' = IF dimension = "absent" THEN "tentative" ELSE dimension
  BY DEF CaptureNew
<1>4. \A r \in Rivals(c.value) : r \in StatementIds /\ state[r] = "accepted" /\ r # s
  BY <1>1 DEF Rivals, Accepted
<1>5. TypeOK'
  <2>1. c # NoClaim
    BY ConstantsAssumption
  <2>2. /\ dimension' \in {"absent", "tentative", "accepted", "conflict"}
        /\ cardinality' \in Cardinalities
        /\ supersedes' \in SUBSET (StatementIds \X StatementIds \X Actors)
        /\ dimension' # "absent"
    BY <1>1, <1>3 DEF RInv, RelationsTypeOK, TypeOK
  <2>3. /\ state' \in [StatementIds -> {"absent", "tentative", "accepted", "superseded"}]
        /\ claim' \in [StatementIds -> Claim \cup {NoClaim}]
    BY <1>1 DEF RInv, RelationsTypeOK, TypeOK
  <2>4. \A x \in StatementIds : claim'[x] = NoClaim <=> ~Exists(x)'
    BY <1>1, <1>2, <2>1 DEF RInv, RelationsTypeOK, TypeOK, Exists
  <2>5. /\ contradicts' \in SUBSET (StatementIds \X StatementIds)
        /\ \A e \in contradicts' : Exists(e[1])' /\ Exists(e[2])'
    BY <1>1, <1>2, <1>3, <1>4 DEF RInv, RelationsTypeOK, TypeOK, Exists
  <2>. QED BY <2>2, <2>3, <2>4, <2>5 DEF TypeOK
<1>6. RelationsTypeOK'
  BY <1>1, <1>2, <1>5 DEF RInv, RelationsTypeOK
<1>7. FlagInv'
  <2>1. CASE clash /\ byUser /\ dimension' = "conflict" /\ \E r \in Rivals(c.value) : contradicts' = contradicts \cup {<<s, r>>}
    <3>1. PICK r \in Rivals(c.value) : contradicts' = contradicts \cup {<<s, r>>}
      BY <2>1
    <3>2. Live(s)' /\ Live(r)'
      BY <1>2, <1>4, <1>5, LiveMeansNext
    <3>. QED BY <1>4, <1>5, <2>1, <3>1, <3>2, FlagRaised
  <2>2. CASE contradicts' = contradicts /\ dimension' = IF dimension = "absent" THEN "tentative" ELSE dimension
    <3>1. \A x \in StatementIds : Live(x) => Live(x)'
      BY <1>1, <1>2, <1>5, LiveMeans, LiveMeansNext DEF RInv, RelationsTypeOK
    <3>2. \A e \in contradicts : e[1] \in StatementIds \ {s} /\ e[2] \in StatementIds \ {s}
      BY <1>1 DEF RInv, RelationsTypeOK, TypeOK, Exists
    <3>3. \A e \in contradicts : (Live(e[1])' => Live(e[1])) /\ (Live(e[2])' => Live(e[2]))
      BY <1>2, <3>2 DEF Live
    <3>. QED BY <1>5, <2>2, <3>1, <3>3, FlagKept DEF RInv, RelationsTypeOK
  <2>. QED BY <1>3, <2>1, <2>2
<1>8. HistoryStep
  BY <1>1, <1>2 DEF HistoryStep
<1>. QED BY <1>6, <1>7, <1>8 DEF RInv

LEMMA RestateRInv ==
  ASSUME RInv, UNCHANGED outside, NEW s \in StatementIds, RestateAgainstRival(s)
  PROVE  RInv' /\ HistoryStep
<1>1. PICK r \in Rivals(claim[s].value) : contradicts' = contradicts \cup {<<s, r>>}
  BY DEF RestateAgainstRival
<1>2. /\ UNCHANGED <<cardinality, state, claim, supersedes>>
      /\ dimension' = "conflict"
      /\ state[s] = "tentative"
  BY DEF RestateAgainstRival
<1>3. r \in StatementIds /\ state[r] = "accepted"
  BY DEF Rivals, Accepted
<1>4. TypeOK'
  BY <1>1, <1>2, <1>3, StatesTyped DEF RInv, RelationsTypeOK, TypeOK, Exists
<1>5. Live(s)' /\ Live(r)'
  BY <1>2, <1>3, <1>4, LiveMeansNext
<1>6. FlagInv'
  BY <1>1, <1>2, <1>3, <1>4, <1>5, FlagRaised
<1>. QED BY <1>2, <1>4, <1>6 DEF RInv, RelationsTypeOK, HistoryStep

\* Confirmation, uncontested restatement, and a supersession of a statement
\* elsewhere: a live statement is accepted, and nothing else changes but that
\* a flag without a contradiction may be lowered.
LEMMA PromoteRInv ==
  ASSUME RInv, NEW s \in StatementIds, Live(s),
         state' = [state EXCEPT ![s] = "accepted"],
         UNCHANGED <<cardinality, claim, contradicts, supersedes, outside>>,
         dimension' = dimension \/ dimension' = Restored
  PROVE  RInv' /\ HistoryStep
<1>1. state[s] \in {"tentative", "accepted"} /\ dimension # "absent"
  BY LiveMeans DEF RInv, RelationsTypeOK, TypeOK, Exists
<1>2. /\ state'[s] = "accepted"
      /\ \A x \in StatementIds \ {s} : state'[x] = state[x]
  BY DEF RInv, RelationsTypeOK, TypeOK
<1>3. TypeOK'
  <2>1. \A x \in StatementIds : Exists(x)' <=> Exists(x)
    BY <1>1, <1>2 DEF Exists
  <2>2. dimension' \in {"tentative", "accepted", "conflict"}
    BY <1>1 DEF Restored, RInv, RelationsTypeOK, TypeOK
  <2>. QED BY <2>1, <2>2, StatesTyped DEF RInv, RelationsTypeOK, TypeOK
<1>4. \A x \in StatementIds : Live(x)' <=> Live(x)
  BY <1>1, <1>2, <1>3, LiveMeans, LiveMeansNext DEF RInv, RelationsTypeOK
<1>5. FlagInv'
  <2>1. CASE dimension' = dimension
    BY <1>3, <1>4, <2>1, FlagKept DEF RInv, RelationsTypeOK, TypeOK
  <2>2. CASE dimension' = Restored
    BY <1>3, <1>4, <2>2, FlagRestored DEF RInv, RelationsTypeOK
  <2>. QED BY <2>1, <2>2
<1>. QED BY <1>1, <1>2, <1>3, <1>5 DEF RInv, RelationsTypeOK, HistoryStep

LEMMA ResolveRInv ==
  ASSUME RInv, UNCHANGED outside, NEW case \in Docket, NEW winner \in case, NEW by \in Actors,
         Resolve(case, winner, by)
  PROVE  RInv' /\ HistoryStep
<1>1. case \subseteq LiveIds
  BY DEF Docket, Cases, LegacyCases, Component
<1>2. /\ state' = [s \in StatementIds |->
                    IF s = winner THEN "accepted"
                    ELSE IF s \in case THEN "superseded" ELSE state[s]]
      /\ supersedes' = supersedes \cup AuditEdges(winner, case \ {winner}, by)
      /\ UNCHANGED <<cardinality, claim, contradicts>>
      /\ dimension' = IF Cases' # {} THEN "conflict" ELSE "accepted"
  BY DEF Resolve
<1>3. \A x \in case : x \in StatementIds /\ state[x] \in {"tentative", "accepted"}
  BY <1>1, LiveMeans DEF LiveIds, RInv, RelationsTypeOK
<1>4. TypeOK'
  <2>1. state' \in [StatementIds -> {"absent", "tentative", "accepted", "superseded"}]
    BY <1>2 DEF RInv, RelationsTypeOK, TypeOK
  <2>2. \A x \in StatementIds : Exists(x)' <=> Exists(x)
    BY <1>2, <1>3 DEF Exists
  <2>3. supersedes' \in SUBSET (StatementIds \X StatementIds \X Actors)
    BY <1>2, <1>3 DEF AuditEdges, RInv, RelationsTypeOK, TypeOK
  <2>. QED BY <1>2, <2>1, <2>2, <2>3, StatesTyped DEF RInv, RelationsTypeOK
<1>5. FlagInv'
  <2>1. (dimension' = "conflict") <=> (Cases' # {})
    BY <1>2
  <2>2. CASE contradicts' = {}
    <3>1. Cases' # {} <=> (\E a, b \in LiveIds' : a # b)
      BY <2>2 DEF Cases, LegacyCases
    <3>2. LiveContradictions' = {}
      BY <2>2 DEF LiveContradictions
    <3>. QED BY <2>1, <2>2, <3>1, <3>2 DEF FlagInv
  <2>3. CASE contradicts' # {}
    <3>1. Cases' # {} <=> LiveContradictions' # {}
      BY <2>3 DEF Cases
    <3>. QED BY <2>1, <2>3, <3>1 DEF FlagInv
  <2>. QED BY <2>2, <2>3
<1>6. HistoryStep
  <2>1. state'[winner] = "accepted" /\ winner \in StatementIds
    BY <1>2, <1>3
  <2>2. \A x \in case \ {winner} : <<winner, x, by>> \in supersedes'
    BY <1>2 DEF AuditEdges
  <2>3. \A x \in StatementIds \ case : state'[x] = state[x]
    BY <1>2
  <2>4. \A x \in case : state'[x] \in {"accepted", "superseded"}
    BY <1>2, <1>3
  <2>. QED BY <1>2, <2>1, <2>2, <2>3, <2>4 DEF HistoryStep
<1>7. \A x \in StatementIds : state[x] = "superseded" => state'[x] = "superseded"
  BY <1>2, <1>3
<1>. QED BY <1>4, <1>5, <1>6, <1>7 DEF RInv, RelationsTypeOK

\* An agent's supersession and a human's: one live statement is accepted,
\* another retired, with an edge between them.
LEMMA SupersedeRInv ==
  ASSUME RInv, UNCHANGED outside,
         NEW s \in StatementIds, NEW o \in StatementIds, NEW by \in Actors,
         Proposable(s, o),
         state' = [state EXCEPT ![s] = "accepted", ![o] = "superseded"],
         supersedes' = supersedes \cup AuditEdges(s, {o}, by),
         UNCHANGED <<cardinality, claim, contradicts>>,
         dimension' = Restored
  PROVE  RInv' /\ HistoryStep
<1>1. /\ s # o
      /\ state[s] \in {"tentative", "accepted"}
      /\ state[o] \in {"tentative", "accepted"}
      /\ dimension # "absent"
  BY LiveMeans DEF Proposable, RInv, RelationsTypeOK, TypeOK, Exists
<1>2. /\ state'[s] = "accepted"
      /\ state'[o] = "superseded"
      /\ \A x \in StatementIds \ {s, o} : state'[x] = state[x]
  BY <1>1 DEF RInv, RelationsTypeOK, TypeOK
<1>3. <<s, o, by>> \in supersedes'
  BY DEF AuditEdges
<1>4. TypeOK'
  <2>1. state' \in [StatementIds -> {"absent", "tentative", "accepted", "superseded"}]
    BY DEF RInv, RelationsTypeOK, TypeOK
  <2>2. \A x \in StatementIds : Exists(x)' <=> Exists(x)
    BY <1>1, <1>2 DEF Exists
  <2>3. supersedes' \in SUBSET (StatementIds \X StatementIds \X Actors)
    BY DEF AuditEdges, RInv, RelationsTypeOK, TypeOK
  <2>4. dimension' \in {"tentative", "accepted", "conflict"}
    BY <1>1 DEF Restored, RInv, RelationsTypeOK, TypeOK
  <2>. QED BY <2>1, <2>2, <2>3, <2>4, StatesTyped DEF RInv, RelationsTypeOK
<1>5. \A x \in StatementIds : Live(x)' => Live(x)
  BY <1>1, <1>2, <1>4, LiveMeans, LiveMeansNext DEF RInv, RelationsTypeOK
<1>6. FlagInv'
  BY <1>4, <1>5, FlagRestored DEF RInv, RelationsTypeOK
<1>7. HistoryStep
  BY <1>1, <1>2, <1>3 DEF HistoryStep
<1>. QED BY <1>1, <1>2, <1>4, <1>6, <1>7 DEF RInv, RelationsTypeOK

LEMMA ContradictRInv ==
  ASSUME RInv, NEW s \in StatementIds, NEW o \in StatementIds, NEW by \in Actors,
         ApplyContradicts(s, o, by)
  PROVE  RInv' /\ HistoryStep
<1>1. /\ Live(s) /\ Live(o)
      /\ contradicts' = contradicts \cup {<<s, o>>}
      /\ dimension' = "conflict"
      /\ UNCHANGED <<cardinality, state, claim, supersedes, outside>>
  BY DEF ApplyContradicts, Proposable
<1>2. Exists(s) /\ Exists(o)
  BY <1>1, LiveMeans DEF RInv, RelationsTypeOK, Exists
<1>3. TypeOK'
  BY <1>1, <1>2, StatesTyped DEF RInv, RelationsTypeOK, TypeOK, Exists
<1>4. Live(s)' /\ Live(o)'
  BY <1>1 DEF Live
<1>5. FlagInv'
  BY <1>1, <1>3, <1>4, FlagRaised
<1>. QED BY <1>1, <1>3, <1>5 DEF RInv, RelationsTypeOK, HistoryStep

LEMMA OvertakenRInv ==
  ASSUME RInv, NEW o \in StatementIds, NEW by \in Actors, OvertakenFromOutside(o, by)
  PROVE  RInv' /\ HistoryStep
<1>1. /\ Live(o)
      /\ state' = [state EXCEPT ![o] = "superseded"]
      /\ outside' = outside \cup {o}
      /\ UNCHANGED <<cardinality, claim, contradicts, supersedes>>
      /\ dimension' = Restored
  BY DEF OvertakenFromOutside
<1>2. state[o] \in {"tentative", "accepted"} /\ dimension # "absent"
  BY <1>1, LiveMeans DEF RInv, RelationsTypeOK, TypeOK, Exists
<1>3. /\ state'[o] = "superseded"
      /\ \A x \in StatementIds \ {o} : state'[x] = state[x]
  BY <1>1 DEF RInv, RelationsTypeOK, TypeOK
<1>4. TypeOK'
  <2>1. state' \in [StatementIds -> {"absent", "tentative", "accepted", "superseded"}]
    BY <1>1 DEF RInv, RelationsTypeOK, TypeOK
  <2>2. \A x \in StatementIds : Exists(x)' <=> Exists(x)
    BY <1>2, <1>3 DEF Exists
  <2>3. dimension' \in {"tentative", "accepted", "conflict"}
    BY <1>1, <1>2 DEF Restored, RInv, RelationsTypeOK, TypeOK
  <2>. QED BY <1>1, <2>1, <2>2, <2>3, StatesTyped DEF RInv, RelationsTypeOK, TypeOK
<1>5. \A x \in StatementIds : Live(x)' => Live(x)
  BY <1>2, <1>3, <1>4, LiveMeans, LiveMeansNext DEF RInv, RelationsTypeOK
<1>6. FlagInv'
  BY <1>1, <1>4, <1>5, FlagRestored DEF RInv, RelationsTypeOK
<1>. QED BY <1>1, <1>2, <1>3, <1>4, <1>6 DEF RInv, RelationsTypeOK, HistoryStep

-----------------------------------------------------------------------------
(* Theorems *)

LEMMA StepRInv ==
  ASSUME RInv, RelationsNext PROVE RInv' /\ HistoryStep
<1>1. ASSUME NEW s \in StatementIds, NEW by \in Actors, NEW o \in StatementIds,
             ApplyContradicts(s, o, by) \/ ApplySupersedes(s, o, by)
      PROVE  RInv' /\ HistoryStep
  BY <1>1, ContradictRInv, SupersedeRInv DEF ApplySupersedes
<1>2. ASSUME NEW s \in StatementIds, NEW by \in Actors,
             OvertakenFromOutside(s, by) \/ OvertakesOutside(s, by)
      PROVE  RInv' /\ HistoryStep
  BY <1>2, OvertakenRInv, PromoteRInv DEF OvertakesOutside
<1>3. ASSUME UNCHANGED outside, Transactional
      PROVE  RInv' /\ HistoryStep
  <2>1. PICK s \in StatementIds, o \in StatementIds, by \in Actors : AgentSupersede(s, o, by)
    BY <1>3 DEF Transactional
  <2>2. Proposable(s, o)
    BY <2>1, LiveMeans DEF AgentSupersede, Proposable, RInv, RelationsTypeOK
  <2>3. dimension' = Restored
    BY <2>1 DEF AgentSupersede, Restored
  <2>. QED BY <1>3, <2>1, <2>2, <2>3, SupersedeRInv DEF AgentSupersede
<1>4. ASSUME UNCHANGED outside, NEW s \in StatementIds,
             RestateToConfirm(s) \/ \E by \in Actors : Confirm(s, by)
      PROVE  RInv' /\ HistoryStep
  <2>1. state[s] = "tentative" /\ Live(s)
    BY <1>4, LiveMeans DEF RestateToConfirm, Confirm, RInv, RelationsTypeOK
  <2>. QED BY <1>4, <2>1, PromoteRInv DEF RestateToConfirm, Confirm
<1>5. ASSUME UNCHANGED outside, NEW case \in Docket, NEW rule \in Rules, AutoResolve(case, rule)
      PROVE  RInv' /\ HistoryStep
  <2>1. PICK winner \in case : Resolve(case, winner, rule.approver)
    BY <1>5 DEF AutoResolve
  <2>2. rule.approver \in Actors
    BY ConstantsAssumption DEF Rule
  <2>. QED BY <1>5, <2>1, <2>2, ResolveRInv
<1>6. ASSUME UNCHANGED outside, Autocommitted
      PROVE  RInv' /\ HistoryStep
  BY <1>4, <1>5, <1>6, CaptureNewRInv, RestateRInv, ResolveRInv DEF Autocommitted
<1>. QED BY <1>1, <1>2, <1>3, <1>6 DEF RelationsNext, RelationStep, Next

LEMMA StutterRInv ==
  ASSUME RInv, UNCHANGED allVars PROVE RInv'
<1>1. UNCHANGED <<dimension, cardinality, state, claim, contradicts, supersedes, outside>>
  BY DEF allVars, vars
<1>2. LiveContradictions' = LiveContradictions /\ LiveIds' = LiveIds
  BY <1>1 DEF LiveContradictions, LiveIds, Live
<1>. QED BY <1>1, <1>2 DEF RInv, RelationsTypeOK, TypeOK, FlagInv, Exists

\* The inductive invariant of captures, decisions and approved relations on a
\* slot (capture.ts, conflicts.ts, fact-reconciler.ts).
THEOREM RelationsInvariance == RelationsSpec => []RInv
<1>1. RInv /\ [RelationsNext]_allVars => RInv'
  BY StepRInv, StutterRInv
<1>. QED BY <1>1, InitRInv, PTL DEF RelationsSpec

\* Type correctness with relations among the operations.
THEOREM RelationsTypes == RelationsSpec => []RelationsTypeOK
BY RelationsInvariance, PTL DEF RInv

\* With approved relations too, a flagged slot has a case to resolve and no
\* open contradiction is behind an unflagged one (listConflicts,
\* restoreDimensionIfSettled).
THEOREM RelationsKeepDocket == RelationsSpec => []FlagMatchesDocket
<1>1. RInv => FlagMatchesDocket
  BY FlagMeansDocket DEF RInv
<1>. QED BY <1>1, RelationsInvariance, PTL

\* The audit trail leads on: superseded statements lead to an accepted one, or
\* out of the slot.
THEOREM HistoryLeadsOn == RelationsSpec => []AuditLeadsOn
<1>1. RelationsInit => AuditLeadsOn
  BY DEF RelationsInit, Init, FreshSlot, LegacyConflict, AuditLeadsOn
<1>2. ASSUME AuditLeadsOn, HistoryStep, RInv PROVE AuditLeadsOn'
  <2> SUFFICES ASSUME NEW s \in StatementIds, state'[s] = "superseded",
                      NEW S \in SUBSET StatementIds, s \in S, SuccessorClosed(S)'
               PROVE  S \cap (Accepted' \cup outside') # {}
    BY DEF AuditLeadsOn
  <2>1. ASSUME NEW x \in S, state'[x] = "superseded", state[x] # "superseded"
        PROVE  S \cap (Accepted' \cup outside') # {}
    <3>1. CASE x \in outside'
      BY <3>1
    <3>2. ASSUME NEW w \in StatementIds, NEW by \in Actors,
                 state'[w] = "accepted", <<w, x, by>> \in supersedes'
          PROVE  S \cap (Accepted' \cup outside') # {}
      <4>1. w \in S
        BY <3>2 DEF SuccessorClosed
      <4>2. w \in Accepted'
        BY <3>2 DEF Accepted
      <4>. QED BY <4>1, <4>2
    <3>. QED BY <1>2, <2>1, <3>1, <3>2 DEF HistoryStep
  <2>2. CASE state[s] = "superseded"
    <3>1. SuccessorClosed(S)
      BY <1>2 DEF SuccessorClosed, HistoryStep
    <3>2. PICK x \in S : x \in Accepted \cup outside
      BY <1>2, <2>2, <3>1 DEF AuditLeadsOn
    <3>3. CASE x \in outside
      BY <1>2, <3>2, <3>3 DEF HistoryStep
    <3>4. CASE x \in Accepted
      <4>1. state[x] = "accepted" /\ state'[x] \in {"accepted", "superseded"}
        BY <1>2, <3>4 DEF Accepted, HistoryStep
      <4>. QED BY <2>1, <4>1 DEF Accepted
    <3>. QED BY <3>2, <3>3, <3>4
  <2>. QED BY <2>1, <2>2
<1>3. AuditLeadsOn /\ RInv /\ [RelationsNext]_allVars => AuditLeadsOn'
  <2>1. ASSUME AuditLeadsOn, UNCHANGED allVars PROVE AuditLeadsOn'
    BY <2>1 DEF AuditLeadsOn, SuccessorClosed, Accepted, allVars, vars
  <2>. QED BY <1>2, <2>1, StepRInv
<1>. QED BY <1>1, <1>3, RelationsInvariance, PTL DEF RelationsSpec

\* A current value is only lost to another slot.
THEOREM AnswersLeaveOnlyAcross == RelationsSpec => AnswerLeavesOnlyAcross
<1>1. ASSUME RInv, HistoryStep, Accepted # {}, Accepted' = {} PROVE outside' # outside
  <2>1. PICK x \in StatementIds : state[x] = "accepted"
    BY <1>1 DEF Accepted
  <2>2. state'[x] = "superseded"
    BY <1>1, <2>1 DEF HistoryStep, Accepted
  <2>3. ~ \E w \in StatementIds : state'[w] = "accepted"
    BY <1>1 DEF Accepted
  <2>4. x \in outside'
    BY <1>1, <2>1, <2>2, <2>3 DEF HistoryStep
  <2>5. x \notin outside
    BY <1>1, <2>1 DEF RInv, RelationsTypeOK
  <2>. QED BY <2>4, <2>5
<1>2. RInv /\ [RelationsNext]_allVars
        => [Accepted # {} /\ Accepted' = {} => outside' # outside]_allVars
  BY <1>1, StepRInv
<1>. QED BY <1>2, RelationsInvariance, PTL DEF RelationsSpec, AnswerLeavesOnlyAcross

=============================================================================
