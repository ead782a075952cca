------------------------ MODULE Adjudication_proofs -------------------------
(***************************************************************************)
(* Proofs about Adjudication, for every set of statements, values, times,  *)
(* channels, principals and rules.                                         *)
(***************************************************************************)
EXTENDS SlotContract, TLAPS

\* The inductive invariant. SingleAccepted alone is not inductive: that a
\* resolution leaves one accepted value needs the incumbent to be in the case
\* (ChallengersFaceIncumbent), to be the only accepted statement
\* (OneStatementPerValue), and the flag to tell when a tentative statement can
\* be promoted outside the docket (FlagMatchesDocket).
IInv ==
  /\ TypeOK
  /\ SingleAccepted
  /\ OneStatementPerValue
  /\ ChallengersFaceIncumbent
  /\ FlagMatchesDocket

-----------------------------------------------------------------------------
(* Facts about the docket *)

\* In a single slot the accepted statements are one and the same.
LEMMA AcceptedUnique ==
  ASSUME SingleAccepted, OneStatementPerValue, cardinality = "single",
         NEW a \in Accepted, NEW b \in Accepted
  PROVE  a = b
BY DEF SingleAccepted, OneStatementPerValue, Accepted, Exists

\* A case consists of live statements and, in a slot of the invariant,
\* contains every accepted statement and both ends of every open
\* contradiction.
LEMMA CaseCoversConflict ==
  ASSUME IInv, NEW case \in Docket
  PROVE  /\ case \subseteq LiveIds
         /\ cardinality = "single" => Accepted \subseteq case
         /\ \A e \in LiveContradictions : e[1] \in case /\ e[2] \in case
<1>1. Accepted \subseteq LiveIds
  BY DEF Accepted, LiveIds, Live, LiveState, FactNodeState, Terminal
<1>2. \A e \in LiveContradictions : e[1] \in LiveIds /\ e[2] \in LiveIds
  BY DEF IInv, TypeOK, LiveContradictions, LiveIds
<1>3. CASE contradicts = {}
  BY <1>1, <1>2, <1>3 DEF Docket, Cases, LegacyCases, LiveContradictions
<1>4. CASE contradicts # {}
  <2>1. PICK d \in LiveContradictions : case = Component(d[1])
    BY <1>4 DEF Docket, Cases
  <2>2. case \subseteq LiveIds
    BY <2>1 DEF Component
  <2>3. cardinality = "single" /\ d[2] \in Accepted /\ d[2] \in LiveIds
    BY <1>2, <2>1 DEF IInv, ChallengersFaceIncumbent, FlagMatchesDocket, Accepted, LiveIds
  <2>4. d[2] \in case
    BY <2>1, <2>3 DEF Component, EdgeClosed
  <2>5. \A x \in Accepted : x \in case
    BY <2>3, <2>4, AcceptedUnique DEF IInv
  <2>6. ASSUME NEW e \in LiveContradictions
        PROVE  e[1] \in case /\ e[2] \in case
    <3>1. e[2] \in Accepted
      BY <1>2 DEF IInv, ChallengersFaceIncumbent, Accepted, LiveIds
    <3>2. e[2] \in case
      BY <3>1, <2>5
    <3>3. e[1] \in LiveIds
      BY <1>2
    <3>4. e[1] \in case
      BY <2>1, <3>2, <3>3 DEF Component, EdgeClosed
    <3>. QED BY <3>2, <3>4
  <2>. QED BY <2>2, <2>5, <2>6
<1>. QED BY <1>3, <1>4

\* A resolution closes the whole docket of a slot of the invariant.
LEMMA ResolveCloses ==
  ASSUME IInv, NEW case \in Docket, NEW winner \in case, NEW by \in Actors,
         Resolve(case, winner, by)
  PROVE  /\ LiveContradictions' = {}
         /\ dimension' = "accepted"
<1>1. /\ case \subseteq LiveIds
      /\ \A e \in LiveContradictions : e[1] \in case /\ e[2] \in case
  BY CaseCoversConflict
<1>2. \A s \in StatementIds : Live(s)' => Live(s)
  BY <1>1 DEF Resolve, Live, LiveIds, LiveState, FactNodeState, Terminal
<1>3. \A s \in case \ {winner} : ~Live(s)'
  BY <1>1 DEF Resolve, Live, LiveIds, LiveState, Terminal
<1>4. ASSUME NEW e \in LiveContradictions'
      PROVE  FALSE
  <2>1. e \in contradicts /\ e[1] \in StatementIds /\ e[2] \in StatementIds
    BY DEF LiveContradictions, Resolve, IInv, TypeOK
  <2>2. Live(e[1])' /\ Live(e[2])'
    BY DEF LiveContradictions
  <2>3. e \in LiveContradictions
    BY <1>2, <2>1, <2>2 DEF LiveContradictions
  <2>4. e[1] = winner /\ e[2] = winner
    BY <1>1, <1>3, <2>2, <2>3
  <2>. QED BY <2>3, <2>4 DEF IInv, ChallengersFaceIncumbent
<1>5. Cases' = {}
  <2>1. CASE contradicts = {}
    <3>1. case = LiveIds
      BY <2>1 DEF Docket, Cases, LegacyCases
    <3>2. LiveIds' \subseteq {winner}
      BY <1>2, <1>3, <3>1 DEF LiveIds
    <3>. QED BY <2>1, <3>2 DEF Cases, LegacyCases, Resolve
  <2>2. CASE contradicts # {}
    BY <1>4, <2>2 DEF Cases, Resolve
  <2>. QED BY <2>1, <2>2
<1>. QED BY <1>4, <1>5 DEF Resolve

-----------------------------------------------------------------------------
(* The initial states *)

\* A fresh slot and a legacy conflict satisfy the invariant.
LEMMA InitIInv == Init => IInv
<1> SUFFICES ASSUME Init PROVE IInv
  OBVIOUS
<1> USE ConstantsAssumption DEF Init, Exists, Cardinalities, Claim
<1>1. CASE FreshSlot
  <2>1. Accepted = {} /\ LiveContradictions = {}
    BY <1>1 DEF FreshSlot, Accepted, LiveContradictions
  <2>2. TypeOK
    BY <1>1 DEF TypeOK, FreshSlot
  <2>3. OneStatementPerValue /\ FlagMatchesDocket /\ ChallengersFaceIncumbent
    BY <1>1, <2>1
    DEF OneStatementPerValue, FlagMatchesDocket, ChallengersFaceIncumbent, FreshSlot
  <2>. QED BY <2>1, <2>2, <2>3 DEF IInv, SingleAccepted
<1>2. CASE LegacyConflict
  <2>1. PICK a, b \in StatementIds, ca, cb \in Claim :
          /\ a # b
          /\ ca.value # cb.value
          /\ state = [s \in StatementIds |->
                        IF s = a THEN "accepted" ELSE IF s = b THEN "tentative" ELSE "absent"]
          /\ claim = [s \in StatementIds |->
                        IF s = a THEN ca ELSE IF s = b THEN cb ELSE NoClaim]
    BY <1>2 DEF LegacyConflict
  <2>2. LiveContradictions = {}
    BY DEF LiveContradictions
  <2>3. TypeOK
    BY <1>2, <2>1 DEF TypeOK, LegacyConflict
  <2>4. SingleAccepted /\ OneStatementPerValue /\ ChallengersFaceIncumbent
    BY <1>2, <2>1, <2>2
    DEF SingleAccepted, OneStatementPerValue, ChallengersFaceIncumbent, Accepted,
        LegacyConflict
  <2>5. FlagMatchesDocket
    <3>1. a \in LiveIds /\ b \in LiveIds
      BY <2>1 DEF LiveIds, Live, LiveState, FactNodeState, Terminal
    <3>. QED
      BY <2>1, <2>2, <3>1 DEF FlagMatchesDocket, Docket, Cases, LegacyCases
  <2>. QED BY <2>3, <2>4, <2>5 DEF IInv
<1>. QED BY <1>1, <1>2

-----------------------------------------------------------------------------
(* Each operation preserves the invariant *)

\* Adding live statements and contradictions, and promoting statements, never
\* empties the docket of a dimension in conflict.
LEMMA DocketGrows ==
  ASSUME IInv,
         \A s \in StatementIds : Live(s) => Live(s)',
         contradicts \subseteq contradicts',
         LiveContradictions' = {} => contradicts' = {},
         dimension = "conflict"
  PROVE  Cases' # {}
<1>1. Cases # {}
  BY DEF IInv, FlagMatchesDocket, Docket
<1>2. CASE contradicts' = {}
  <2>1. PICK a, b \in LiveIds : a # b
    BY <1>1, <1>2 DEF Cases, LegacyCases
  <2>2. a \in LiveIds' /\ b \in LiveIds'
    BY DEF LiveIds
  <2>. QED BY <1>2, <2>1, <2>2 DEF Cases, LegacyCases
<1>3. CASE contradicts' # {}
  BY <1>3 DEF Cases
<1>. QED BY <1>2, <1>3

\* capture of a new value keeps it.
LEMMA CaptureNewIInv ==
  ASSUME IInv, NEW s \in StatementIds, NEW c \in Claim, NEW card \in Cardinalities,
         CaptureNew(s, c, card)
  PROVE  IInv'
<1> DEFINE kind == IF dimension = "absent" THEN card ELSE cardinality
           clash == kind = "single" /\ Rivals(c.value) # {}
           byUser == c.channel \notin AssistantChannels
           new == IF clash \/ ~byUser THEN "tentative" ELSE "accepted"
<1>1. /\ ~Exists(s)
      /\ \A x \in StatementIds : Exists(x) => claim[x].value # c.value
      /\ cardinality' = kind
      /\ state' = [state EXCEPT ![s] = new]
      /\ claim' = [claim EXCEPT ![s] = c]
      /\ supersedes' = supersedes
  BY DEF CaptureNew, Held
<1>2. /\ new \in {"tentative", "accepted"}
      /\ kind \in Cardinalities
  BY DEF IInv, TypeOK
<1>3. /\ state'[s] = new
      /\ claim'[s] = c
      /\ \A x \in StatementIds \ {s} : state'[x] = state[x] /\ claim'[x] = claim[x]
  BY <1>1 DEF IInv, TypeOK
<1>4. Accepted' = Accepted \cup (IF new = "accepted" THEN {s} ELSE {})
  BY <1>1, <1>3 DEF Accepted, Exists
<1>5. dimension = "absent" => Accepted = {} /\ contradicts = {}
  BY DEF IInv, TypeOK, Accepted, Exists
<1>6. \A x \in StatementIds : Live(x) => Live(x)'
  BY <1>1, <1>3 DEF Live, LiveState, FactNodeState, Terminal, Exists
<1>7. \A e \in contradicts : e[1] \in StatementIds \ {s} /\ e[2] \in StatementIds \ {s}
  BY <1>1 DEF IInv, TypeOK
<1>8. SingleAccepted' /\ OneStatementPerValue'
  <2>1. OneStatementPerValue'
    BY <1>1, <1>3 DEF IInv, OneStatementPerValue, Exists
  <2>2. CASE new = "accepted" /\ kind = "single"
    <3>1. Rivals(c.value) = {}
      BY <2>2
    <3>2. Accepted = {}
      BY <1>1, <3>1 DEF Rivals, Accepted, Exists
    <3>. QED BY <1>4, <2>1, <3>2 DEF SingleAccepted
  <2>3. CASE new # "accepted" /\ kind = "single"
    <3>1. \A a, b \in Accepted : claim[a].value = claim[b].value
      BY <1>5, <2>3 DEF IInv, SingleAccepted
    <3>2. Accepted' = Accepted /\ s \notin Accepted
      BY <1>1, <1>4, <2>3 DEF Accepted, Exists
    <3>3. \A a \in Accepted : claim'[a] = claim[a]
      BY <1>3, <3>2 DEF Accepted
    <3>. QED BY <2>1, <3>1, <3>2, <3>3 DEF SingleAccepted
  <2>4. CASE kind # "single"
    BY <1>1, <2>1, <2>4 DEF SingleAccepted
  <2>. QED BY <2>2, <2>3, <2>4
<1>9. CASE clash /\ byUser
  <2>1. PICK r \in Rivals(c.value) : contradicts' = contradicts \cup {<<s, r>>}
    BY <1>9 DEF CaptureNew
  <2>2. dimension' = "conflict"
    BY <1>9 DEF CaptureNew
  <2>3. r \in Accepted /\ r \in StatementIds /\ state[r] = "accepted" /\ r # s
    BY <1>1 DEF Rivals, Accepted, Exists
  <2>4. new = "tentative" /\ kind = "single"
    BY <1>9
  <2>5. Live(s)' /\ Live(r)'
    BY <1>3, <2>3, <2>4 DEF Live, LiveState, FactNodeState, Terminal
  <2>6. <<s, r>> \in LiveContradictions'
    <3>1. <<s, r>> \in contradicts'
      BY <2>1
    <3>2. Live(<<s, r>>[1])' /\ Live(<<s, r>>[2])'
      BY <2>5 DEF Live
    <3>. QED BY <3>1, <3>2 DEF LiveContradictions
  <2>7. TypeOK'
    BY <1>1, <1>2, <1>3, <2>1, <2>2, <2>3, ConstantsAssumption DEF IInv, TypeOK, Exists
  <2>8. ChallengersFaceIncumbent'
    <3>1. SUFFICES ASSUME NEW e \in LiveContradictions'
                   PROVE  state'[e[1]] = "tentative" /\ state'[e[2]] = "accepted"
      BY <1>1, <2>4 DEF ChallengersFaceIncumbent
    <3>2. CASE e = <<s, r>>
      BY <1>3, <2>3, <2>4, <3>2
    <3>3. CASE e \in contradicts
      <4>1. state'[e[1]] = state[e[1]] /\ state'[e[2]] = state[e[2]]
        BY <1>3, <1>7, <3>3
      <4>2. e \in LiveContradictions
        BY <3>3, <4>1 DEF LiveContradictions, Live
      <4>. QED BY <4>1, <4>2 DEF IInv, ChallengersFaceIncumbent
    <3>. QED BY <2>1, <3>2, <3>3 DEF LiveContradictions
  <2>9. FlagMatchesDocket'
    BY <2>2, <2>6 DEF FlagMatchesDocket, Docket, Cases, LiveContradictions
  <2>. QED BY <1>8, <2>7, <2>8, <2>9 DEF IInv
<1>10. CASE ~(clash /\ byUser)
  <2>1. /\ contradicts' = contradicts
        /\ dimension' = IF dimension = "absent" THEN "tentative" ELSE dimension
    BY <1>10 DEF CaptureNew
  <2>2. LiveContradictions' = LiveContradictions
    BY <1>3, <1>7, <2>1 DEF LiveContradictions, Live
  <2>3. TypeOK'
    BY <1>1, <1>2, <1>3, <2>1, ConstantsAssumption DEF IInv, TypeOK, Exists
  <2>4. ChallengersFaceIncumbent'
    <3>1. dimension' = "conflict" => cardinality' = "single"
      BY <1>1, <2>1 DEF IInv, ChallengersFaceIncumbent
    <3>2. ASSUME NEW e \in LiveContradictions
          PROVE  state'[e[1]] = "tentative" /\ state'[e[2]] = "accepted"
      BY <1>3, <1>7 DEF IInv, ChallengersFaceIncumbent, LiveContradictions
    <3>. QED BY <2>2, <3>1, <3>2 DEF ChallengersFaceIncumbent
  <2>5. FlagMatchesDocket'
    <3>1. LiveContradictions # {} => dimension = "conflict"
      BY DEF IInv, FlagMatchesDocket
    <3>2. dimension = "conflict" => Cases' # {}
      <4>1. SUFFICES ASSUME dimension = "conflict" PROVE Cases' # {}
        OBVIOUS
      <4>2. LiveContradictions = {} => contradicts = {}
        BY <4>1 DEF IInv, FlagMatchesDocket, Docket, Cases
      <4>. QED BY <1>6, <2>1, <2>2, <4>1, <4>2, DocketGrows
    <3>. QED BY <2>1, <2>2, <3>1, <3>2 DEF FlagMatchesDocket, Docket
  <2>. QED BY <1>8, <2>3, <2>4, <2>5 DEF IInv
<1>. QED BY <1>9, <1>10

\* A restatement that opens a conflict keeps it.
LEMMA RestateAgainstRivalIInv ==
  ASSUME IInv, NEW s \in StatementIds, RestateAgainstRival(s)
  PROVE  IInv'
<1>1. PICK r \in Rivals(claim[s].value) : contradicts' = contradicts \cup {<<s, r>>}
  BY DEF RestateAgainstRival
<1>2. /\ state[s] = "tentative" /\ cardinality = "single"
      /\ dimension' = "conflict"
      /\ UNCHANGED <<cardinality, state, claim, supersedes>>
  BY DEF RestateAgainstRival
<1>3. r \in StatementIds /\ state[r] = "accepted"
  BY DEF Rivals, Accepted
<1>4. <<s, r>> \in LiveContradictions'
  <2>1. Live(s)' /\ Live(r)'
    BY <1>2, <1>3 DEF Live, LiveState, FactNodeState, Terminal
  <2>. QED BY <1>1, <2>1 DEF LiveContradictions, Live
<1>5. TypeOK'
  BY <1>1, <1>2, <1>3 DEF IInv, TypeOK, Exists
<1>6. SingleAccepted' /\ OneStatementPerValue'
  BY <1>2 DEF IInv, SingleAccepted, OneStatementPerValue, Accepted, Exists
<1>7. ChallengersFaceIncumbent'
  <2>1. \A e \in LiveContradictions' : e \in LiveContradictions \/ e = <<s, r>>
    BY <1>1, <1>2 DEF LiveContradictions, Live
  <2>. QED BY <1>2, <1>3, <2>1 DEF IInv, ChallengersFaceIncumbent
<1>8. FlagMatchesDocket'
  BY <1>2, <1>4 DEF FlagMatchesDocket, Docket, Cases, LiveContradictions
<1>. QED BY <1>5, <1>6, <1>7, <1>8 DEF IInv

\* What confirmStatement and a plain restatement share.
LEMMA PromoteIInv ==
  ASSUME IInv, NEW s \in StatementIds,
         state[s] = "tentative",
         cardinality = "single" => Rivals(claim[s].value) = {},
         state' = [state EXCEPT ![s] = "accepted"],
         UNCHANGED <<dimension, cardinality, claim, contradicts, supersedes>>
  PROVE  IInv'
<1>1. /\ state'[s] = "accepted"
      /\ \A x \in StatementIds \ {s} : state'[x] = state[x]
  BY DEF IInv, TypeOK
<1>2. Accepted' = Accepted \cup {s}
  BY <1>1 DEF Accepted
<1>3. \A x \in StatementIds : Live(x)' <=> Live(x)
  BY <1>1 DEF Live, LiveState, FactNodeState, Terminal
<1>4. LiveContradictions' = LiveContradictions
  BY <1>3 DEF LiveContradictions, IInv, TypeOK
<1>5. TypeOK'
  BY <1>1 DEF IInv, TypeOK, Exists
<1>6. OneStatementPerValue'
  BY <1>1 DEF IInv, OneStatementPerValue, Exists
<1>7. SingleAccepted'
  BY <1>2 DEF IInv, SingleAccepted, Rivals
<1>8. ChallengersFaceIncumbent'
  <2>1. SUFFICES ASSUME NEW e \in LiveContradictions
                 PROVE  e[1] # s /\ e[2] # s
    BY <1>1, <1>4 DEF IInv, ChallengersFaceIncumbent, TypeOK, LiveContradictions
  <2>2. /\ cardinality = "single" /\ state[e[1]] = "tentative"
        /\ state[e[2]] = "accepted" /\ e[2] \in StatementIds
    BY DEF IInv, ChallengersFaceIncumbent, FlagMatchesDocket, TypeOK, LiveContradictions
  <2>3. e[2] # s
    BY <2>2
  <2>4. claim[e[2]].value # claim[s].value
    BY <2>2, <2>3 DEF IInv, OneStatementPerValue, Exists
  <2>5. e[2] \in Rivals(claim[s].value)
    BY <2>2, <2>4 DEF Rivals, Accepted
  <2>. QED BY <2>2, <2>5
<1>9. FlagMatchesDocket'
  <2>1. LiveIds' = LiveIds
    BY <1>3 DEF LiveIds
  <2>2. dimension = "conflict" => Cases' # {}
    <3>1. SUFFICES ASSUME dimension = "conflict" PROVE Cases' # {}
      OBVIOUS
    <3>2. LiveContradictions = {} => contradicts = {}
      BY <3>1 DEF IInv, FlagMatchesDocket, Docket, Cases
    <3>. QED BY <1>3, <1>4, <3>1, <3>2, DocketGrows
  <2>. QED BY <1>4, <2>2 DEF IInv, FlagMatchesDocket, Docket
<1>. QED BY <1>5, <1>6, <1>7, <1>8, <1>9 DEF IInv

\* resolveConflict keeps it, whoever decides.
LEMMA ResolveIInv ==
  ASSUME IInv, NEW case \in Docket, NEW winner \in case, NEW by \in Actors,
         Resolve(case, winner, by)
  PROVE  IInv'
<1>1. LiveContradictions' = {} /\ dimension' = "accepted"
  BY ResolveCloses
<1>2. /\ case \subseteq LiveIds
      /\ cardinality = "single" => Accepted \subseteq case
  BY CaseCoversConflict
<1>3. /\ state' = [s \in StatementIds |->
                     IF s = winner THEN "accepted"
                     ELSE IF s \in case THEN "superseded" ELSE state[s]]
      /\ supersedes' = supersedes \cup {<<winner, s, by>> : s \in case \ {winner}}
      /\ UNCHANGED <<cardinality, claim, contradicts>>
  BY DEF Resolve, AuditEdges
<1>4. case \subseteq StatementIds /\ \A s \in case : Exists(s)
  BY <1>2 DEF LiveIds, Live, LiveState, FactNodeState, Exists
<1>5. \A s \in StatementIds : Exists(s)' <=> Exists(s)
  BY <1>3, <1>4 DEF Exists
<1>6. TypeOK'
  <2>1. supersedes' \in SUBSET (StatementIds \X StatementIds \X Actors)
    BY <1>3, <1>4 DEF IInv, TypeOK
  <2>2. state' \in [StatementIds -> {"absent", "tentative", "accepted", "superseded"}]
    BY <1>3 DEF IInv, TypeOK
  <2>. QED BY <1>1, <1>3, <1>5, <2>1, <2>2 DEF IInv, TypeOK
<1>7. OneStatementPerValue'
  BY <1>3, <1>5 DEF IInv, OneStatementPerValue
<1>8. SingleAccepted'
  <2>1. SUFFICES ASSUME cardinality = "single" PROVE Accepted' \subseteq {winner}
    BY <1>3 DEF SingleAccepted
  <2>. QED BY <1>2, <1>3, <2>1 DEF Accepted
<1>9. ChallengersFaceIncumbent' /\ FlagMatchesDocket'
  BY <1>1 DEF ChallengersFaceIncumbent, FlagMatchesDocket
<1>. QED BY <1>6, <1>7, <1>8, <1>9 DEF IInv

\* An agent supersession keeps it, and closes every open contradiction.
LEMMA AgentSupersedeIInv ==
  ASSUME IInv, NEW newer \in StatementIds, NEW older \in StatementIds, NEW by \in Actors,
         AgentSupersede(newer, older, by)
  PROVE  IInv' /\ LiveContradictions' = {} /\ Accepted' = {newer}
<1>1. /\ cardinality = "single" /\ state[newer] = "tentative" /\ state[older] = "accepted"
      /\ state' = [state EXCEPT ![newer] = "accepted", ![older] = "superseded"]
      /\ supersedes' = supersedes \cup {<<newer, older, by>>}
      /\ UNCHANGED <<cardinality, claim, contradicts>>
      /\ dimension' = IF dimension = "conflict" /\ LiveContradictions' = {}
                        THEN "accepted" ELSE dimension
  BY DEF AgentSupersede, AuditEdges
<1>2. /\ state'[newer] = "accepted" /\ state'[older] = "superseded"
      /\ \A x \in StatementIds \ {newer, older} : state'[x] = state[x]
  BY <1>1 DEF IInv, TypeOK
<1>3. Accepted = {older}
  BY <1>1, AcceptedUnique DEF IInv, Accepted
<1>4. Accepted' = {newer}
  BY <1>1, <1>2, <1>3 DEF Accepted
<1>5. \A x \in StatementIds : Live(x)' => Live(x)
  BY <1>1, <1>2 DEF Live, LiveState, FactNodeState, Terminal
<1>6. LiveContradictions' = {}
  <2>1. SUFFICES ASSUME NEW e \in LiveContradictions' PROVE FALSE
    OBVIOUS
  <2>2. e \in LiveContradictions /\ e[2] \in StatementIds /\ Live(e[2])'
    BY <1>1, <1>5 DEF LiveContradictions, IInv, TypeOK
  <2>3. e[2] = older
    BY <1>3, <2>2 DEF IInv, ChallengersFaceIncumbent, Accepted
  <2>. QED BY <1>2, <2>2, <2>3 DEF Live, LiveState, Terminal
<1>7. \A s \in StatementIds : Exists(s)' <=> Exists(s)
  BY <1>1, <1>2 DEF Exists
<1>8. TypeOK'
  <2>1. state' \in [StatementIds -> {"absent", "tentative", "accepted", "superseded"}]
    BY <1>1 DEF IInv, TypeOK
  <2>2. dimension' \in {"absent", "tentative", "accepted", "conflict"}
    BY <1>1 DEF IInv, TypeOK
  <2>3. dimension' = "absent" => dimension = "absent"
    BY <1>1
  <2>. QED BY <1>1, <1>7, <2>1, <2>2, <2>3 DEF IInv, TypeOK
<1>9. OneStatementPerValue'
  BY <1>1, <1>7 DEF IInv, OneStatementPerValue
<1>10. SingleAccepted' /\ ChallengersFaceIncumbent' /\ FlagMatchesDocket'
  BY <1>1, <1>4, <1>6 DEF SingleAccepted, ChallengersFaceIncumbent, FlagMatchesDocket
<1>. QED BY <1>4, <1>6, <1>8, <1>9, <1>10 DEF IInv

\* Every operation keeps it.
LEMMA NextIInv == ASSUME IInv, [Next]_vars PROVE IInv'
<1>1. CASE UNCHANGED vars
  <2>1. UNCHANGED <<dimension, cardinality, state, claim, contradicts, supersedes>>
    BY <1>1 DEF vars
  <2>2. TypeOK'
    BY <2>1 DEF IInv, TypeOK, Exists
  <2>3. SingleAccepted' /\ OneStatementPerValue'
    BY <2>1 DEF IInv, SingleAccepted, OneStatementPerValue, Accepted, Exists
  <2>4. LiveContradictions' = LiveContradictions /\ LiveIds' = LiveIds
    BY <2>1 DEF LiveContradictions, LiveIds, Live
  <2>5. ChallengersFaceIncumbent'
    BY <2>1, <2>4 DEF IInv, ChallengersFaceIncumbent
  <2>6. Docket # {} <=> Docket' # {}
    BY <2>1, <2>4 DEF Docket, Cases, LegacyCases
  <2>7. FlagMatchesDocket'
    BY <2>1, <2>4, <2>6 DEF IInv, FlagMatchesDocket
  <2>. QED BY <2>2, <2>3, <2>5, <2>7 DEF IInv
<1>2. ASSUME NEW s \in StatementIds, NEW c \in Claim, NEW card \in Cardinalities,
             CaptureNew(s, c, card)
      PROVE  IInv'
  BY <1>2, CaptureNewIInv
<1>3. ASSUME NEW s \in StatementIds, RestateAgainstRival(s)
      PROVE  IInv'
  BY <1>3, RestateAgainstRivalIInv
<1>4. ASSUME NEW s \in StatementIds, RestateToConfirm(s)
      PROVE  IInv'
  BY <1>4, PromoteIInv DEF RestateToConfirm
<1>5. ASSUME NEW s \in StatementIds, NEW by \in Actors, Confirm(s, by)
      PROVE  IInv'
  BY <1>5, PromoteIInv DEF Confirm
<1>6. ASSUME NEW case \in Docket, NEW winner \in case, NEW by \in Actors,
             Resolve(case, winner, by)
      PROVE  IInv'
  BY <1>6, ResolveIInv
<1>7. ASSUME NEW case \in Docket, NEW rule \in Rules, AutoResolve(case, rule)
      PROVE  IInv'
  <2>1. PICK winner \in case : Resolve(case, winner, rule.approver)
    BY <1>7 DEF AutoResolve
  <2>2. rule.approver \in Actors
    BY ConstantsAssumption DEF Rule
  <2>. QED BY <2>1, <2>2, ResolveIInv
<1>8. ASSUME NEW newer \in StatementIds, NEW older \in StatementIds, NEW by \in Actors,
             AgentSupersede(newer, older, by)
      PROVE  IInv'
  BY <1>8, AgentSupersedeIInv
<1>. QED
  BY <1>1, <1>2, <1>3, <1>4, <1>5, <1>6, <1>7, <1>8 DEF Next, Autocommitted, Transactional

-----------------------------------------------------------------------------
(* Theorems *)

\* The inductive invariant holds of every behaviour of capture, confirm,
\* resolve, autoresolve and agent supersession (capture.ts, conflicts.ts,
\* fact-reconciler.ts) on a slot.
THEOREM Invariance == Spec => []IInv
BY InitIInv, NextIInv, PTL DEF Spec

\* Every reachable slot is well formed: statements have their dimension, used
\* identities their claims, and edges join used identities.
THEOREM TypeCorrect == Spec => []TypeOK
BY Invariance, PTL DEF IInv

\* A single slot never holds two accepted values (the promise on cardinality
\* in model/types.ts).
THEOREM OneCurrentValue == Spec => []SingleAccepted
BY Invariance, PTL DEF IInv

\* capture's dedupe keeps values and statements of a slot in bijection.
THEOREM Deduplicated == Spec => []OneStatementPerValue
BY Invariance, PTL DEF IInv

\* listConflicts always finds a case for a dimension in conflict, and no open
\* contradiction hides behind an unflagged dimension.
THEOREM NothingStuckNothingHidden == Spec => []FlagMatchesDocket
BY Invariance, PTL DEF IInv

\* Every open contradiction has the accepted value on its incumbent side.
THEOREM EveryCaseHasIncumbent == Spec => []ChallengersFaceIncumbent
BY Invariance, PTL DEF IInv

\* What every operation does to a statement's acceptance state: it creates an
\* absent one, accepts a tentative one, supersedes a live one, or keeps it.
LEMMA StateSteps ==
  ASSUME IInv, Next, NEW s \in StatementIds
  PROVE  \/ state'[s] = state[s]
         \/ state[s] = "absent"
         \/ Live(s) /\ state'[s] \in {"accepted", "superseded"}
<1> USE DEF Live, LiveState, FactNodeState, Terminal
<1>1. ASSUME NEW x \in StatementIds, NEW c \in Claim, NEW card \in Cardinalities,
             CaptureNew(x, c, card)
      PROVE  state'[s] = state[s] \/ state[s] = "absent"
  BY <1>1 DEF CaptureNew, Exists, IInv, TypeOK
<1>2. ASSUME NEW case \in Docket, NEW winner \in case, NEW by \in Actors,
             Resolve(case, winner, by)
      PROVE  \/ state'[s] = state[s]
             \/ Live(s) /\ state'[s] \in {"accepted", "superseded"}
  <2>1. case \subseteq LiveIds
    BY CaseCoversConflict
  <2>. QED BY <1>2, <2>1 DEF Resolve, LiveIds
<1>3. ASSUME NEW case \in Docket, NEW rule \in Rules, AutoResolve(case, rule)
      PROVE  \/ state'[s] = state[s]
             \/ Live(s) /\ state'[s] \in {"accepted", "superseded"}
  BY <1>2, <1>3, ConstantsAssumption DEF AutoResolve, Rule
<1>4. ASSUME NEW x \in StatementIds, RestateAgainstRival(x) \/ RestateToConfirm(x)
      PROVE  \/ state'[s] = state[s]
             \/ Live(s) /\ state'[s] = "accepted"
  BY <1>4 DEF RestateAgainstRival, RestateToConfirm, IInv, TypeOK
<1>5. ASSUME NEW x \in StatementIds, NEW by \in Actors, Confirm(x, by)
      PROVE  \/ state'[s] = state[s]
             \/ Live(s) /\ state'[s] = "accepted"
  BY <1>5 DEF Confirm, IInv, TypeOK
<1>6. ASSUME NEW newer \in StatementIds, NEW older \in StatementIds, NEW by \in Actors,
             AgentSupersede(newer, older, by)
      PROVE  \/ state'[s] = state[s]
             \/ Live(s) /\ state'[s] \in {"accepted", "superseded"}
  BY <1>6 DEF AgentSupersede, IInv, TypeOK
<1>. QED
  BY <1>1, <1>2, <1>3, <1>4, <1>5, <1>6 DEF Next, Autocommitted, Transactional

\* What every operation does to the dimension: it is created tentative or in
\* conflict, flagged, released, or kept; it never becomes absent again.
LEMMA DimensionSteps ==
  ASSUME IInv, Next
  PROVE  /\ dimension' \in {dimension, "tentative", "conflict", "accepted"}
         /\ dimension' = "tentative" => dimension \in {"absent", "tentative"}
<1>1. ASSUME NEW x \in StatementIds, NEW c \in Claim, NEW card \in Cardinalities,
             CaptureNew(x, c, card)
      PROVE  \/ dimension' \in {dimension, "conflict"}
             \/ dimension = "absent" /\ dimension' = "tentative"
  BY <1>1 DEF CaptureNew
<1>2. ASSUME NEW case \in Docket, NEW winner \in case, NEW by \in Actors,
             Resolve(case, winner, by)
      PROVE  dimension' = "accepted"
  BY <1>2, ResolveCloses
<1>3. ASSUME NEW case \in Docket, NEW rule \in Rules, AutoResolve(case, rule)
      PROVE  dimension' = "accepted"
  BY <1>2, <1>3, ConstantsAssumption DEF AutoResolve, Rule
<1>4. ASSUME NEW x \in StatementIds, RestateAgainstRival(x) \/ RestateToConfirm(x)
      PROVE  dimension' \in {dimension, "conflict"}
  BY <1>4 DEF RestateAgainstRival, RestateToConfirm
<1>5. ASSUME NEW x \in StatementIds, NEW by \in Actors, Confirm(x, by)
      PROVE  dimension' = dimension
  BY <1>5 DEF Confirm
<1>6. ASSUME NEW newer \in StatementIds, NEW older \in StatementIds, NEW by \in Actors,
             AgentSupersede(newer, older, by)
      PROVE  dimension' \in {dimension, "accepted"}
  BY <1>6 DEF AgentSupersede
<1>. QED
  BY <1>1, <1>2, <1>3, <1>4, <1>5, <1>6 DEF Next, Autocommitted, Transactional

\* No operation ever requests a state change that transitionNodeState's table
\* refuses; in particular a superseded claim is never revived.
THEOREM OnlyLegalTransitions == Spec => LegalTransitions
<1> DEFINE Legal == /\ \A s \in StatementIds :
                         Exists(s) => CanTransitionFact(state[s], state'[s])
                    /\ dimension # "absent" => CanTransitionFact(dimension, dimension')
<1>1. ASSUME IInv, Next PROVE Legal
  <2>1. ASSUME NEW s \in StatementIds, Exists(s)
        PROVE  CanTransitionFact(state[s], state'[s])
    <3>1. state[s] \in {"tentative", "accepted", "superseded"}
      BY <1>1, <2>1 DEF IInv, TypeOK, Exists
    <3>. QED
      BY <1>1, <2>1, <3>1, StateSteps
      DEF Exists, Live, LiveState, Terminal, CanTransitionFact, FactTransitions, FactNodeState
  <2>2. dimension # "absent" => CanTransitionFact(dimension, dimension')
    <3>1. dimension \in {"absent", "tentative", "accepted", "conflict"}
      BY <1>1 DEF IInv, TypeOK
    <3>. QED
      BY <1>1, <3>1, DimensionSteps DEF CanTransitionFact, FactTransitions, FactNodeState
  <2>. QED BY <2>1, <2>2
<1>2. IInv /\ [Next]_vars => [Legal]_vars
  BY <1>1
<1>. QED BY <1>2, Invariance, PTL DEF Spec, LegalTransitions

\* A slot that has a current value has one after every operation: resolution
\* and agent supersession retire it only in favour of another.
THEOREM AlwaysAnAnswer == Spec => AnswerNeverLost
<1>1. ASSUME IInv, Next, Accepted # {} PROVE Accepted' # {}
  <2>1. PICK x \in StatementIds : state[x] = "accepted"
    BY <1>1 DEF Accepted
  <2>2. ASSUME NEW s \in StatementIds, NEW c \in Claim, NEW card \in Cardinalities,
               CaptureNew(s, c, card)
        PROVE  state'[x] = "accepted"
    BY <1>1, <2>1, <2>2 DEF CaptureNew, Exists, IInv, TypeOK
  <2>3. ASSUME NEW case \in Docket, NEW winner \in case, NEW by \in Actors,
               Resolve(case, winner, by)
        PROVE  winner \in Accepted'
    <3>1. winner \in StatementIds
      BY <1>1, <2>3, CaseCoversConflict DEF LiveIds
    <3>. QED BY <2>3, <3>1 DEF Resolve, Accepted
  <2>4. ASSUME NEW case \in Docket, NEW rule \in Rules, AutoResolve(case, rule)
        PROVE  Accepted' # {}
    BY <2>3, <2>4, ConstantsAssumption DEF AutoResolve, Rule
  <2>5. ASSUME NEW s \in StatementIds, RestateAgainstRival(s) \/ RestateToConfirm(s)
        PROVE  state'[x] = "accepted"
    BY <1>1, <2>1, <2>5 DEF RestateAgainstRival, RestateToConfirm, IInv, TypeOK
  <2>6. ASSUME NEW s \in StatementIds, NEW by \in Actors, Confirm(s, by)
        PROVE  state'[x] = "accepted"
    BY <1>1, <2>1, <2>6 DEF Confirm, IInv, TypeOK
  <2>7. ASSUME NEW newer \in StatementIds, NEW older \in StatementIds, NEW by \in Actors,
               AgentSupersede(newer, older, by)
        PROVE  state'[newer] = "accepted"
    BY <1>1, <2>7 DEF AgentSupersede, IInv, TypeOK
  <2>. QED
    BY <1>1, <2>1, <2>2, <2>3, <2>4, <2>5, <2>6, <2>7 DEF Next, Autocommitted, Transactional, Accepted
<1>2. IInv /\ [Next]_vars => [Accepted # {} => Accepted' # {}]_vars
  BY <1>1
<1>. QED BY <1>2, Invariance, PTL DEF Spec, AnswerNeverLost

-----------------------------------------------------------------------------
(* What takes a flagged claim off the docket *)

\* A flagged claim that is still tentative faces a claim that is still
\* accepted, which with IInv puts it on the docket, or one an agent retired.
Faced ==
  \A e \in contradicts :
    state[e[1]] = "tentative" => state[e[2]] = "accepted" \/ RetiredByAgent(e[2])

\* The audit of an agent's decision is never erased.
LEMMA AuditGrows ==
  ASSUME supersedes \subseteq supersedes', NEW s, RetiredByAgent(s)
  PROVE  RetiredByAgent(s)'
BY DEF RetiredByAgent

\* Operations other than agent supersession keep Faced.
LEMMA AutocommittedFaced ==
  ASSUME IInv, Faced, Autocommitted
  PROVE  Faced'
<1>1. ASSUME NEW s \in StatementIds, NEW c \in Claim, NEW card \in Cardinalities,
             CaptureNew(s, c, card)
      PROVE  Faced'
  <2>1. /\ \A x \in StatementIds \ {s} : state'[x] = state[x]
        /\ ~Exists(s)
    BY <1>1 DEF CaptureNew, IInv, TypeOK
  <2>2. /\ contradicts' \subseteq contradicts \cup {<<s, r>> : r \in Rivals(c.value)}
        /\ Rivals(c.value) \subseteq Accepted
    BY <1>1 DEF CaptureNew, Rivals
  <2>3. \A e \in contradicts : e[1] \in StatementIds \ {s} /\ e[2] \in StatementIds \ {s}
    BY <2>1 DEF IInv, TypeOK
  <2>4. \A r \in Accepted : state'[r] = "accepted"
    BY <2>1 DEF Accepted, Exists
  <2>5. \A r \in Rivals(c.value) : <<s, r>>[2] = r
    OBVIOUS
  <2>6. supersedes' = supersedes
    BY <1>1 DEF CaptureNew
  <2>. QED BY <2>1, <2>2, <2>3, <2>4, <2>5, <2>6, AuditGrows DEF Faced, Accepted
<1>2. ASSUME NEW s \in StatementIds, RestateAgainstRival(s)
      PROVE  Faced'
  <2>1. PICK r \in Rivals(claim[s].value) : contradicts' = contradicts \cup {<<s, r>>}
    BY <1>2 DEF RestateAgainstRival
  <2>2. state[r] = "accepted" /\ <<s, r>>[2] = r /\ state' = state
    BY <1>2, <2>1 DEF RestateAgainstRival, Rivals, Accepted
  <2>3. supersedes' = supersedes
    BY <1>2 DEF RestateAgainstRival
  <2>. QED BY <2>1, <2>2, <2>3, AuditGrows DEF Faced
<1>3. ASSUME NEW s \in StatementIds,
             state[s] = "tentative",
             state' = [state EXCEPT ![s] = "accepted"],
             contradicts' = contradicts,
             supersedes' = supersedes
      PROVE  Faced'
  <2>1. \A x \in StatementIds :
          \/ state'[x] = state[x]
          \/ state'[x] = "accepted"
    BY <1>3 DEF IInv, TypeOK
  <2>2. \A e \in contradicts : e[1] \in StatementIds /\ e[2] \in StatementIds
    BY DEF IInv, TypeOK
  <2>. QED BY <1>3, <2>1, <2>2, AuditGrows DEF Faced
<1>4. ASSUME NEW case \in Docket, NEW winner \in case, NEW by \in Actors,
             Resolve(case, winner, by)
      PROVE  Faced'
  <2>1. /\ state' = [s \in StatementIds |->
                       IF s = winner THEN "accepted"
                       ELSE IF s \in case THEN "superseded" ELSE state[s]]
        /\ contradicts' = contradicts
        /\ supersedes \subseteq supersedes'
    BY <1>4 DEF Resolve
  <2>2. SUFFICES ASSUME NEW e \in contradicts, state'[e[1]] = "tentative",
                        ~RetiredByAgent(e[2])'
                 PROVE  FALSE
    BY <2>1 DEF Faced
  <2>3. e[1] \in StatementIds /\ e[1] \notin case /\ state[e[1]] = "tentative"
    BY <2>1, <2>2 DEF IInv, TypeOK
  <2>4. e \in LiveContradictions
    BY <2>1, <2>2, <2>3, AuditGrows DEF Faced, LiveContradictions, Live, LiveState, FactNodeState, Terminal
  <2>. QED BY <2>3, <2>4, CaseCoversConflict
<1>5. ASSUME NEW case \in Docket, NEW rule \in Rules, AutoResolve(case, rule)
      PROVE  Faced'
  <2>1. PICK winner \in case : Resolve(case, winner, rule.approver)
    BY <1>5 DEF AutoResolve
  <2>2. rule.approver \in Actors
    BY ConstantsAssumption DEF Rule
  <2>. QED BY <2>1, <2>2, <1>4
<1>6. ASSUME NEW s \in StatementIds, RestateToConfirm(s)
      PROVE  Faced'
  BY <1>6, <1>3 DEF RestateToConfirm
<1>7. ASSUME NEW s \in StatementIds, NEW by \in Actors, Confirm(s, by)
      PROVE  Faced'
  BY <1>7, <1>3 DEF Confirm
<1>. QED BY <1>1, <1>2, <1>4, <1>5, <1>6, <1>7 DEF Autocommitted

\* An agent supersession keeps it: what it retires, it signs.
LEMMA AgentFaced ==
  ASSUME IInv, Faced,
         NEW newer \in StatementIds, NEW older \in StatementIds, NEW by \in Actors,
         AgentSupersede(newer, older, by)
  PROVE  Faced'
<1>1. /\ state[newer] = "tentative" /\ state[older] = "accepted" /\ by \in Agents
      /\ state' = [state EXCEPT ![newer] = "accepted", ![older] = "superseded"]
      /\ supersedes' = supersedes \cup {<<newer, older, by>>}
      /\ contradicts' = contradicts
  BY DEF AgentSupersede, AuditEdges
<1>2. RetiredByAgent(older)'
  BY <1>1 DEF RetiredByAgent
<1>3. SUFFICES ASSUME NEW e \in contradicts, state'[e[1]] = "tentative"
               PROVE  state'[e[2]] = "accepted" \/ RetiredByAgent(e[2])'
  BY <1>1 DEF Faced
<1>4. e[1] \in StatementIds /\ e[2] \in StatementIds
  BY DEF IInv, TypeOK
<1>5. state[e[1]] = "tentative"
  BY <1>1, <1>3, <1>4 DEF IInv, TypeOK
<1>6. CASE RetiredByAgent(e[2])
  BY <1>1, <1>6, AuditGrows
<1>7. CASE state[e[2]] = "accepted" /\ e[2] # older
  BY <1>1, <1>4, <1>7 DEF IInv, TypeOK
<1>. QED BY <1>2, <1>5, <1>6, <1>7 DEF Faced

\* A challenger that faces an accepted claim is in a case of the docket.
LEMMA FacedIsOnDocket ==
  ASSUME IInv, Faced
  PROVE  OnlyAgentsDropClaims
<1> SUFFICES ASSUME NEW e \in contradicts, state[e[1]] = "tentative", ~RetiredByAgent(e[2])
             PROVE  OnDocket(e[1])
  BY DEF OnlyAgentsDropClaims
<1>1. e \in LiveContradictions /\ e[1] \in LiveIds
  BY DEF Faced, LiveContradictions, LiveIds, Live, LiveState, FactNodeState, Terminal,
         IInv, TypeOK
<1>2. dimension = "conflict"
  BY <1>1 DEF IInv, FlagMatchesDocket
<1>3. Component(e[1]) \in Docket
  BY <1>1, <1>2 DEF Docket, Cases
<1>4. e[1] \in Component(e[1])
  BY <1>1 DEF Component
<1>. QED BY <1>3, <1>4 DEF OnDocket

\* A clash once flagged by a user stays on the docket until it is decided: no
\* capture, restatement, confirmation or resolution of another claim drops it,
\* only an agent that retires the claim it faces.
THEOREM ClaimsLeaveByDecision == Spec => []OnlyAgentsDropClaims
<1>1. Init => Faced
  BY DEF Init, Faced
<1>2. IInv /\ Faced /\ [Next]_vars => Faced'
  <2>1. CASE UNCHANGED vars
    BY <2>1 DEF vars, Faced, RetiredByAgent
  <2>. QED BY <2>1, AutocommittedFaced, AgentFaced DEF Next, Transactional
<1>3. IInv /\ Faced => OnlyAgentsDropClaims
  BY FacedIsOnDocket
<1>. QED BY <1>1, <1>2, <1>3, Invariance, PTL DEF Spec

\* So in a slot that only humans and their rules adjudicate, it always stays.
COROLLARY HumanDocketComplete ==
  Agents = {} => (Spec => []FlaggedStaysOnDocket)
<1> SUFFICES ASSUME Agents = {} PROVE Spec => []FlaggedStaysOnDocket
  OBVIOUS
<1>1. OnlyAgentsDropClaims => FlaggedStaysOnDocket
  BY DEF OnlyAgentsDropClaims, FlaggedStaysOnDocket, RetiredByAgent
<1>. QED BY <1>1, ClaimsLeaveByDecision, PTL

-----------------------------------------------------------------------------
(* Where the audit trail leads *)

\* Audit edges stay; what a step retires gets an edge from what it accepts.
HistoryStep ==
  /\ supersedes \subseteq supersedes'
  /\ \A x \in StatementIds :
       state'[x] = "superseded" /\ state[x] # "superseded" =>
         \E w \in StatementIds, by \in Actors :
           state'[w] = "accepted" /\ <<w, x, by>> \in supersedes'

LEMMA ResolveRecords ==
  ASSUME IInv, NEW case \in Docket, NEW winner \in case, NEW by \in Actors,
         Resolve(case, winner, by)
  PROVE  HistoryStep
<1>1. winner \in StatementIds
  BY CaseCoversConflict DEF LiveIds
<1>2. /\ supersedes' = supersedes \cup AuditEdges(winner, case \ {winner}, by)
      /\ state' = [s \in StatementIds |->
                     IF s = winner THEN "accepted"
                     ELSE IF s \in case THEN "superseded" ELSE state[s]]
  BY DEF Resolve
<1>3. state'[winner] = "accepted"
  BY <1>1, <1>2
<1>4. ASSUME NEW x \in StatementIds, state'[x] = "superseded", state[x] # "superseded"
      PROVE  <<winner, x, by>> \in supersedes'
  BY <1>2, <1>4 DEF AuditEdges
<1>. QED BY <1>1, <1>2, <1>3, <1>4 DEF HistoryStep

LEMMA NextRecords == ASSUME IInv, Next PROVE HistoryStep
<1>1. ASSUME NEW s \in StatementIds, NEW c \in Claim, NEW card \in Cardinalities,
             CaptureNew(s, c, card)
      PROVE  HistoryStep
  BY <1>1 DEF CaptureNew, HistoryStep, IInv, TypeOK
<1>2. ASSUME NEW case \in Docket, NEW rule \in Rules, AutoResolve(case, rule)
      PROVE  HistoryStep
  BY <1>2, ResolveRecords, ConstantsAssumption DEF AutoResolve, Rule
<1>3. ASSUME NEW s \in StatementIds, RestateAgainstRival(s) \/ RestateToConfirm(s)
      PROVE  HistoryStep
  BY <1>3 DEF RestateAgainstRival, RestateToConfirm, HistoryStep, IInv, TypeOK
<1>4. ASSUME NEW s \in StatementIds, NEW by \in Actors, Confirm(s, by)
      PROVE  HistoryStep
  BY <1>4 DEF Confirm, HistoryStep, IInv, TypeOK
<1>5. ASSUME NEW newer \in StatementIds, NEW older \in StatementIds, NEW by \in Actors,
             AgentSupersede(newer, older, by)
      PROVE  HistoryStep
  <2>1. /\ state'[newer] = "accepted"
        /\ <<newer, older, by>> \in supersedes'
        /\ supersedes \subseteq supersedes'
        /\ \A x \in StatementIds \ {newer, older} : state'[x] = state[x]
    BY <1>5 DEF AgentSupersede, AuditEdges, IInv, TypeOK
  <2>. QED BY <2>1 DEF HistoryStep
<1>. QED
  BY <1>1, <1>2, <1>3, <1>4, <1>5, ResolveRecords DEF Next, Autocommitted, Transactional

\* From every superseded claim the audit edges of resolveConflict and the fact
\* reconciler lead to a claim that is accepted now.
THEOREM AuditReachesCurrent == Spec => []HistoryReachesCurrent
<1>1. Init => HistoryReachesCurrent
  BY DEF Init, FreshSlot, LegacyConflict, HistoryReachesCurrent
<1>2. ASSUME HistoryReachesCurrent, HistoryStep, IInv, Next PROVE HistoryReachesCurrent'
  <2> SUFFICES ASSUME NEW s \in StatementIds, state'[s] = "superseded",
                      NEW S \in SUBSET StatementIds, s \in S, SuccessorClosed(S)'
               PROVE  S \cap Accepted' # {}
    BY DEF HistoryReachesCurrent
  <2>1. ASSUME NEW x \in S, state'[x] = "superseded", state[x] # "superseded"
        PROVE  S \cap Accepted' # {}
    <3>1. PICK w \in StatementIds, by \in Actors :
            state'[w] = "accepted" /\ <<w, x, by>> \in supersedes'
      BY <1>2, <2>1 DEF HistoryStep
    <3>2. w \in S
      BY <3>1 DEF SuccessorClosed
    <3>. QED BY <3>1, <3>2 DEF Accepted
  <2>2. CASE state[s] = "superseded"
    <3>1. SuccessorClosed(S)
      BY <1>2 DEF SuccessorClosed, HistoryStep
    <3>2. PICK x \in S : x \in Accepted
      BY <1>2, <2>2, <3>1 DEF HistoryReachesCurrent
    <3>3. state'[x] \in {"accepted", "superseded"} /\ state[x] = "accepted"
      BY <1>2, <3>2, StateSteps DEF Accepted
    <3>. QED BY <2>1, <3>3 DEF Accepted
  <2>. QED BY <2>1, <2>2
<1>3. HistoryReachesCurrent /\ IInv /\ [Next]_vars => HistoryReachesCurrent'
  <2>1. ASSUME HistoryReachesCurrent, UNCHANGED vars PROVE HistoryReachesCurrent'
    BY <2>1 DEF HistoryReachesCurrent, SuccessorClosed, Accepted, vars
  <2>. QED BY <1>2, <2>1, NextRecords
<1>. QED BY <1>1, <1>3, Invariance, PTL DEF Spec

-----------------------------------------------------------------------------
(* The contract: Adjudication implements GovernedSlot *)

Kind == IF dimension = "absent" THEN "unset" ELSE cardinality
Belief == ValuesIn("accepted")
Retired == ValuesIn("superseded")
Disputed == dimension = "conflict"

-----------------------------------------------------------------------------
(* The values of statements *)

\* The believed values are those of the accepted statements.
LEMMA BeliefIsAccepted ==
  Belief = {claim[s].value : s \in Accepted}
BY DEF Belief, ValuesIn, Accepted

\* A used identity has a claim.
LEMMA ClaimType ==
  ASSUME IInv, NEW s \in StatementIds, Exists(s)
  PROVE  claim[s] \in Claim /\ claim[s].value \in Values
BY DEF IInv, TypeOK, Claim

\* A statement that is not superseded carries no retired value.
LEMMA NotRetired ==
  ASSUME IInv, NEW s \in StatementIds, Exists(s), state[s] # "superseded"
  PROVE  claim[s].value \notin Retired
BY DEF IInv, OneStatementPerValue, Retired, ValuesIn, Exists

\* Initial slots are initial slots of the contract.
LEMMA InitRefines == Init => Slot!Init
<1> SUFFICES ASSUME Init PROVE Slot!Init
  OBVIOUS
<1>1. CASE FreshSlot
  BY <1>1 DEF Init, FreshSlot, Slot!Init, ValuesIn
<1>2. CASE LegacyConflict
  <2>1. PICK a, b \in StatementIds, ca, cb \in Claim :
          /\ a # b
          /\ state = [s \in StatementIds |->
                        IF s = a THEN "accepted" ELSE IF s = b THEN "tentative" ELSE "absent"]
          /\ claim = [s \in StatementIds |->
                        IF s = a THEN ca ELSE IF s = b THEN cb ELSE NoClaim]
    BY <1>2 DEF LegacyConflict
  <2>2. ValuesIn("accepted") = {ca.value} /\ ValuesIn("superseded") = {}
    BY <2>1 DEF ValuesIn
  <2>3. ca.value \in Values
    BY DEF Claim
  <2>. QED BY <1>2, <2>2, <2>3 DEF LegacyConflict, Slot!Init
<1>. QED BY <1>1, <1>2 DEF Init

-----------------------------------------------------------------------------
(* Each operation is a step of the contract or invisible to it *)

\* When one value joins the belief, the contract learns it.
LEMMA LearnIsAStep ==
  ASSUME NEW v, dimension # "absent", cardinality \in Cardinalities,
         v \notin Retired,
         cardinality = "single" => Belief \subseteq {v},
         Belief' = Belief \cup {v},
         Retired' = Retired,
         UNCHANGED <<dimension, cardinality>>
  PROVE  Slot!Learn(v)
<1> DEFINE kind == IF dimension = "absent" THEN "unset" ELSE cardinality
<1>1. kind = cardinality /\ kind' = kind /\ kind # "unset"
  BY DEF Cardinalities
<1>2. (dimension = "conflict")' = (dimension = "conflict")
  OBVIOUS
<1> HIDE DEF kind
<1>3. /\ kind # "unset"
      /\ v \notin ValuesIn("superseded")
      /\ kind = "single" => ValuesIn("accepted") \subseteq {v}
      /\ ValuesIn("accepted")' = ValuesIn("accepted") \cup {v}
      /\ kind' = kind
      /\ ValuesIn("superseded")' = ValuesIn("superseded")
      /\ (dimension = "conflict")' = (dimension = "conflict")
  BY <1>1, <1>2 DEF Belief, Retired
<1>. QED BY <1>3 DEF Slot!Learn, kind

\* capture of a new value opens, learns, disputes or stutters.
LEMMA CaptureNewRefines ==
  ASSUME IInv, NEW s \in StatementIds, NEW c \in Claim, NEW card \in Cardinalities,
         CaptureNew(s, c, card)
  PROVE  [Slot!Next]_(Slot!slotVars)
<1> DEFINE kind == IF dimension = "absent" THEN card ELSE cardinality
           clash == kind = "single" /\ Rivals(c.value) # {}
           byUser == c.channel \notin AssistantChannels
           new == IF clash \/ ~byUser THEN "tentative" ELSE "accepted"
<1>1. /\ ~Exists(s)
      /\ \A x \in StatementIds : Exists(x) => claim[x].value # c.value
      /\ cardinality' = kind
      /\ state' = [state EXCEPT ![s] = new]
      /\ claim' = [claim EXCEPT ![s] = c]
      /\ dimension' \in {"tentative", "conflict", dimension}
      /\ dimension' # "absent"
      /\ clash /\ byUser => dimension' = "conflict"
      /\ ~(clash /\ byUser) =>
           dimension' = IF dimension = "absent" THEN "tentative" ELSE dimension
  BY DEF CaptureNew, Held
<1>2. c.value \in Values /\ kind \in {"single", "multi"}
  BY DEF Claim, Cardinalities, IInv, TypeOK
<1>3. /\ state'[s] = new /\ claim'[s] = c
      /\ state[s] = "absent"
      /\ \A x \in StatementIds \ {s} : state'[x] = state[x] /\ claim'[x] = claim[x]
  BY <1>1 DEF IInv, TypeOK, Exists
<1>4. Retired' = Retired
  BY <1>3 DEF Retired, ValuesIn
<1>5. Belief' = Belief \cup (IF new = "accepted" THEN {c.value} ELSE {})
  BY <1>3 DEF Belief, ValuesIn
<1>6. c.value \notin Retired
  BY <1>1 DEF Retired, ValuesIn, Exists
<1>7. CASE dimension = "absent"
  <2>1. Belief = {} /\ Rivals(c.value) = {}
    BY <1>7 DEF IInv, TypeOK, Belief, ValuesIn, Rivals, Accepted, Exists
  <2>2. Belief' = {c.value} \/ Belief' = Belief
    BY <1>5, <2>1
  <2>3. Slot!Open(card)
    BY <1>1, <1>2, <1>4, <1>7, <2>1, <2>2 DEF Slot!Open, Belief, Retired
  <2>. QED BY <2>3 DEF Slot!Next, Cardinalities
<1>8. CASE dimension # "absent" /\ new = "accepted"
  <2>1. kind = "single" => Belief = {}
    BY <1>1, <1>8 DEF Belief, ValuesIn, Rivals, Accepted, Exists
  <2>2. cardinality' = cardinality /\ kind = cardinality
    BY <1>1, <1>8
  <2>3. cardinality = "single" => Belief \subseteq {c.value}
    BY <2>1, <2>2
  <2>4. dimension' = dimension /\ dimension # "absent"
    BY <1>1, <1>8
  <2>5. Belief' = Belief \cup {c.value}
    BY <1>5, <1>8
  <2>6. Slot!Learn(c.value)
    BY <1>4, <1>6, <2>2, <2>3, <2>4, <2>5, LearnIsAStep DEF IInv, TypeOK
  <2>. QED BY <1>2, <2>6 DEF Slot!Next
<1>9. CASE dimension # "absent" /\ clash /\ byUser
  <2>1. Belief # {} /\ Belief' = Belief
    BY <1>5, <1>9 DEF Belief, ValuesIn, Rivals, Accepted
  <2>2. Slot!Dispute
    BY <1>1, <1>4, <1>9, <2>1 DEF Slot!Dispute, Belief, Retired
  <2>. QED BY <2>2 DEF Slot!Next
<1>10. CASE dimension # "absent" /\ new # "accepted" /\ ~(clash /\ byUser)
  <2>1. UNCHANGED Slot!slotVars
    BY <1>1, <1>4, <1>5, <1>10 DEF Slot!slotVars, Belief, Retired
  <2>. QED BY <2>1
<1>. QED BY <1>7, <1>8, <1>9, <1>10

\* A restatement against the accepted value disputes.
LEMMA RestateAgainstRivalRefines ==
  ASSUME IInv, NEW s \in StatementIds, RestateAgainstRival(s)
  PROVE  Slot!Next
<1>1. PICK r \in Rivals(claim[s].value) : TRUE
  BY DEF RestateAgainstRival
<1>2. Belief # {}
  BY <1>1 DEF Belief, ValuesIn, Rivals, Accepted
<1>3. dimension # "absent"
  BY DEF RestateAgainstRival, IInv, TypeOK, Exists
<1>4. Slot!Dispute
  BY <1>2, <1>3 DEF RestateAgainstRival, Slot!Dispute, Belief, ValuesIn
<1>. QED BY <1>4 DEF Slot!Next

\* A promotion of a tentative claim learns its value.
LEMMA PromoteRefines ==
  ASSUME IInv, NEW s \in StatementIds,
         state[s] = "tentative",
         cardinality = "single" => Rivals(claim[s].value) = {},
         state' = [state EXCEPT ![s] = "accepted"],
         UNCHANGED <<dimension, cardinality, claim, contradicts, supersedes>>
  PROVE  Slot!Next
<1>1. claim[s].value \in Values /\ claim[s].value \notin Retired
  BY ClaimType, NotRetired DEF Exists
<1>2. /\ state'[s] = "accepted"
      /\ \A x \in StatementIds \ {s} : state'[x] = state[x]
  BY DEF IInv, TypeOK
<1>3. Belief' = Belief \cup {claim[s].value} /\ Retired' = Retired
  BY <1>2 DEF Belief, Retired, ValuesIn
<1>4. cardinality = "single" => Belief \subseteq {claim[s].value}
  BY DEF Belief, ValuesIn, Rivals, Accepted
<1>5. dimension # "absent"
  BY DEF IInv, TypeOK, Exists
<1>6. Slot!Learn(claim[s].value)
  BY <1>1, <1>3, <1>4, <1>5, LearnIsAStep DEF IInv, TypeOK
<1>. QED BY <1>1, <1>6 DEF Slot!Next

\* resolveConflict decides.
LEMMA ResolveRefines ==
  ASSUME IInv, NEW case \in Docket, NEW winner \in case, NEW by \in Actors,
         Resolve(case, winner, by)
  PROVE  Slot!Next
<1> DEFINE v == claim[winner].value
           losers == {claim[s].value : s \in case \ {winner}}
<1>1. /\ case \subseteq LiveIds
      /\ cardinality = "single" => Accepted \subseteq case
  BY CaseCoversConflict
<1>2. dimension = "conflict" /\ cardinality = "single"
  BY DEF Docket, IInv, ChallengersFaceIncumbent
<1>3. \A s \in case : s \in StatementIds /\ Exists(s) /\ state[s] # "superseded"
  BY <1>1 DEF LiveIds, Live, LiveState, FactNodeState, Terminal, Exists
<1>4. v \in Values /\ v \notin Retired
  BY <1>3, ClaimType, NotRetired
<1>5. losers \in SUBSET (Values \ {v})
  <2>1. ASSUME NEW s \in case \ {winner}
        PROVE  claim[s].value \in Values /\ claim[s].value # v
    BY <1>3, ClaimType DEF IInv, OneStatementPerValue
  <2>. QED BY <2>1
<1>6. /\ state' = [s \in StatementIds |->
                     IF s = winner THEN "accepted"
                     ELSE IF s \in case THEN "superseded" ELSE state[s]]
      /\ UNCHANGED <<cardinality, claim>>
  BY DEF Resolve
<1>7. Belief' = {v}
  BY <1>1, <1>2, <1>3, <1>6 DEF Belief, ValuesIn, Accepted
<1>8. Belief \ {v} \subseteq losers
  BY <1>1, <1>2 DEF Belief, ValuesIn, Accepted
<1>9. Retired' = Retired \cup losers
  BY <1>3, <1>6 DEF Retired, ValuesIn
<1>10. dimension' = "accepted"
  BY ResolveCloses
<1>11. Slot!Decide(v)
  BY <1>2, <1>4, <1>5, <1>6, <1>7, <1>8, <1>9, <1>10 DEF Slot!Decide, Belief, Retired
<1>. QED BY <1>4, <1>11 DEF Slot!Next

\* An agent supersession decides.
LEMMA AgentSupersedeRefines ==
  ASSUME IInv, NEW newer \in StatementIds, NEW older \in StatementIds, NEW by \in Actors,
         AgentSupersede(newer, older, by)
  PROVE  Slot!Next
<1> DEFINE v == claim[newer].value
           u == claim[older].value
<1>1. /\ cardinality = "single" /\ state[newer] = "tentative" /\ state[older] = "accepted"
      /\ state' = [state EXCEPT ![newer] = "accepted", ![older] = "superseded"]
      /\ UNCHANGED <<cardinality, claim>>
      /\ dimension' \in {dimension, "accepted"}
      /\ dimension' = "conflict" => dimension = "conflict"
  BY DEF AgentSupersede
<1>2. /\ state'[newer] = "accepted" /\ state'[older] = "superseded"
      /\ \A x \in StatementIds \ {newer, older} : state'[x] = state[x]
  BY <1>1 DEF IInv, TypeOK
<1>3. \A x \in StatementIds : state[x] = "accepted" => x = older
  BY <1>1, AcceptedUnique DEF IInv, Accepted
<1>4. /\ v \in Values /\ v \notin Retired
      /\ u \in Values /\ u # v
  BY <1>1, ClaimType, NotRetired DEF IInv, OneStatementPerValue, Exists
<1>5. Belief = {u} /\ Belief' = {v}
  BY <1>1, <1>2, <1>3 DEF Belief, ValuesIn
<1>6. Retired' = Retired \cup {u}
  BY <1>1, <1>2 DEF Retired, ValuesIn
<1>7. dimension # "absent" /\ dimension' # "absent"
  BY <1>1 DEF IInv, TypeOK, Exists
<1>8. {u} \in SUBSET (Values \ {v}) /\ Belief \ {v} \subseteq {u}
  BY <1>4, <1>5
<1>9. (dimension' = "conflict") \in {dimension = "conflict", FALSE}
  BY <1>1
<1>10. Slot!Decide(v)
  BY <1>1, <1>4, <1>5, <1>6, <1>7, <1>8, <1>9 DEF Slot!Decide, Belief, Retired
<1>. QED BY <1>4, <1>10 DEF Slot!Next

\* Every step is one of the contract, or stutters.
LEMMA StepRefines == ASSUME IInv, [Next]_vars PROVE [Slot!Next]_(Slot!slotVars)
<1>1. CASE UNCHANGED vars
  BY <1>1 DEF vars, Slot!slotVars, ValuesIn
<1>2. ASSUME NEW s \in StatementIds, RestateToConfirm(s)
      PROVE  Slot!Next
  BY <1>2, PromoteRefines DEF RestateToConfirm
<1>3. ASSUME NEW s \in StatementIds, NEW by \in Actors, Confirm(s, by)
      PROVE  Slot!Next
  BY <1>3, PromoteRefines DEF Confirm
<1>4. ASSUME NEW case \in Docket, NEW rule \in Rules, AutoResolve(case, rule)
      PROVE  Slot!Next
  <2>1. PICK winner \in case : Resolve(case, winner, rule.approver)
    BY <1>4 DEF AutoResolve
  <2>2. rule.approver \in Actors
    BY ConstantsAssumption DEF Rule
  <2>. QED BY <2>1, <2>2, ResolveRefines
<1>. QED
  BY <1>1, <1>2, <1>3, <1>4, CaptureNewRefines, RestateAgainstRivalRefines, ResolveRefines,
     AgentSupersedeRefines
  DEF Next, Autocommitted, Transactional

\* The operations of capture.ts, conflicts.ts and fact-reconciler.ts on a slot
\* implement the contract its readers rely on: clashes are flagged and never
\* overwrite, a single slot believes one value, and no retired value returns.
THEOREM Refinement == Spec => ImplementsGovernedSlot
BY InitRefines, StepRefines, Invariance, PTL
DEF Spec, ImplementsGovernedSlot, Slot!Spec

=============================================================================
