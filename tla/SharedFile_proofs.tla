------------------------- MODULE SharedFile_proofs --------------------------
(***************************************************************************)
(* What the file of a slot holds at every instant a crash may freeze it,   *)
(* and what it holds when no operation is under way, for every set of      *)
(* statements, values, channels, principals and rules.                     *)
(***************************************************************************)
EXTENDS SharedFile, Adjudication_proofs

-----------------------------------------------------------------------------
(* What an operation may do to a graph, also to one a crash has torn: none *)
(* of this needs more than the types.                                      *)

\* The changes of a statement's state, the first on the file, the second in memory.
Moves(from, to) ==
  \/ from = "absent" /\ to \in {"tentative", "accepted"}
  \/ from = "tentative" /\ to \in {"accepted", "superseded"}
  \/ from = "accepted" /\ to = "superseded"

\* Statements move on, nothing else of them changes; edges are only added; what
\* is retired is retired for a statement that is accepted, and so it is recorded.
OperationStep ==
  /\ TypeOK'
  /\ \A s \in StatementIds :
       IF state'[s] = state[s] THEN claim'[s] = claim[s] ELSE Moves(state[s], state'[s])
  /\ dimension' = dimension => cardinality' = cardinality
  /\ contradicts \subseteq contradicts' /\ supersedes \subseteq supersedes'
  /\ (\E s \in StatementIds : state[s] # "superseded" /\ state'[s] = "superseded")
       => Accepted' # {}
  /\ \A e \in supersedes' \ supersedes :
       state'[e[1]] = "accepted" /\ state'[e[2]] = "superseded"

LEMMA CaptureStep ==
  ASSUME TypeOK, NEW s \in StatementIds, NEW c \in Claim, NEW card \in Cardinalities,
         CaptureNew(s, c, card)
  PROVE  OperationStep
<1> DEFINE new == state'[s]
<1>1. /\ state[s] = "absent"
      /\ state' = [state EXCEPT ![s] = new] /\ new \in {"tentative", "accepted"}
      /\ claim' = [claim EXCEPT ![s] = c]
      /\ supersedes' = supersedes
  BY DEF CaptureNew, Exists, TypeOK
<1>2. \A x \in StatementIds \ {s} : state'[x] = state[x] /\ claim'[x] = claim[x]
  BY <1>1 DEF TypeOK
<1>3. /\ dimension' \in {"tentative", "accepted", "conflict"}
      /\ cardinality' \in Cardinalities
      /\ dimension' = dimension => cardinality' = cardinality
  BY DEF CaptureNew, TypeOK
<1>4. /\ contradicts \subseteq contradicts'
      /\ contradicts' \in SUBSET (StatementIds \X StatementIds)
      /\ \A e \in contradicts' \ contradicts : e[1] = s /\ state[e[2]] = "accepted"
  BY DEF CaptureNew, Rivals, Accepted, TypeOK
<1>5. claim'[s] = c /\ c # NoClaim /\ state'[s] # "absent"
  BY <1>1, ConstantsAssumption DEF TypeOK
<1>6. TypeOK'
  <2>1. /\ state' \in [StatementIds -> {"absent", "tentative", "accepted", "superseded"}]
        /\ claim' \in [StatementIds -> Claim \cup {NoClaim}]
    BY <1>1 DEF TypeOK
  <2>2. \A x \in StatementIds : claim'[x] = NoClaim <=> ~Exists(x)'
    BY <1>2, <1>5 DEF TypeOK, Exists
  <2>3. \A e \in contradicts' : Exists(e[1])' /\ Exists(e[2])'
    BY <1>2, <1>4, <1>5 DEF TypeOK, Exists
  <2>. QED BY <1>1, <1>3, <1>4, <2>1, <2>2, <2>3 DEF TypeOK
<1>7. \A x \in StatementIds :
        IF state'[x] = state[x] THEN claim'[x] = claim[x] ELSE Moves(state[x], state'[x])
  BY <1>1, <1>2 DEF Moves
<1>8. ~ \E x \in StatementIds : state[x] # "superseded" /\ state'[x] = "superseded"
  BY <1>1, <1>2
<1>. QED BY <1>1, <1>3, <1>4, <1>6, <1>7, <1>8 DEF OperationStep

LEMMA RestateStep ==
  ASSUME TypeOK, NEW s \in StatementIds, RestateAgainstRival(s)
  PROVE  OperationStep
<1>1. PICK r \in Rivals(claim[s].value) : contradicts' = contradicts \cup {<<s, r>>}
  BY DEF RestateAgainstRival
<1>2. /\ state[s] = "tentative" /\ dimension' = "conflict"
      /\ UNCHANGED <<cardinality, state, claim, supersedes>>
  BY DEF RestateAgainstRival
<1>3. r \in StatementIds /\ state[r] = "accepted"
  BY DEF Rivals, Accepted
<1>4. TypeOK'
  BY <1>1, <1>2, <1>3 DEF TypeOK, Exists
<1>. QED BY <1>1, <1>2, <1>4 DEF OperationStep

LEMMA PromoteStep ==
  ASSUME TypeOK, NEW s \in StatementIds, state[s] = "tentative",
         state' = [state EXCEPT ![s] = "accepted"],
         UNCHANGED <<dimension, cardinality, claim, contradicts, supersedes>>
  PROVE  OperationStep
<1>1. state'[s] = "accepted" /\ \A x \in StatementIds \ {s} : state'[x] = state[x]
  BY DEF TypeOK
<1>2. TypeOK'
  <2>1. state' \in [StatementIds -> {"absent", "tentative", "accepted", "superseded"}]
    BY DEF TypeOK
  <2>2. \A x \in StatementIds : Exists(x)' <=> Exists(x)
    BY <1>1 DEF Exists
  <2>. QED BY <2>1, <2>2 DEF TypeOK
<1>. QED BY <1>1, <1>2 DEF OperationStep, Moves

\* The cases of the docket are sets of live statements.
LEMMA CasesAreLive ==
  ASSUME NEW case \in Docket
  PROVE  case \subseteq LiveIds
BY DEF Docket, Cases, LegacyCases, Component

LEMMA ResolveStep ==
  ASSUME TypeOK, NEW case \in Docket, NEW winner \in case, NEW by \in Actors,
         Resolve(case, winner, by)
  PROVE  OperationStep
<1>1. \A s \in case : s \in StatementIds /\ state[s] \in {"tentative", "accepted"}
  BY CasesAreLive DEF LiveIds, Live, LiveState, FactNodeState, Terminal, TypeOK
<1>2. /\ state' = [s \in StatementIds |->
                     IF s = winner THEN "accepted"
                     ELSE IF s \in case THEN "superseded" ELSE state[s]]
      /\ supersedes' = supersedes \cup {<<winner, s, by>> : s \in case \ {winner}}
      /\ UNCHANGED <<cardinality, claim, contradicts>>
      /\ dimension' \in {"conflict", "accepted"}
  BY DEF Resolve, AuditEdges
<1>3. \A s \in StatementIds : Exists(s)' <=> Exists(s)
  BY <1>1, <1>2 DEF Exists
<1>4. TypeOK'
  <2>1. supersedes' \in SUBSET (StatementIds \X StatementIds \X Actors)
    BY <1>1, <1>2 DEF TypeOK
  <2>2. state' \in [StatementIds -> {"absent", "tentative", "accepted", "superseded"}]
    BY <1>2 DEF TypeOK
  <2>. QED BY <1>2, <1>3, <2>1, <2>2 DEF TypeOK
<1>5. winner \in Accepted'
  BY <1>1, <1>2 DEF Accepted
<1>6. \A s \in StatementIds :
        IF state'[s] = state[s] THEN claim'[s] = claim[s] ELSE Moves(state[s], state'[s])
  BY <1>1, <1>2 DEF Moves
<1>7. \A e \in supersedes' \ supersedes :
        state'[e[1]] = "accepted" /\ state'[e[2]] = "superseded"
  BY <1>1, <1>2
<1>. QED BY <1>2, <1>4, <1>5, <1>6, <1>7 DEF OperationStep

LEMMA AgentStep ==
  ASSUME TypeOK, NEW newer \in StatementIds, NEW older \in StatementIds, NEW by \in Actors,
         AgentSupersede(newer, older, by)
  PROVE  OperationStep
<1>1. /\ state[newer] = "tentative" /\ state[older] = "accepted"
      /\ state' = [state EXCEPT ![newer] = "accepted", ![older] = "superseded"]
      /\ supersedes' = supersedes \cup {<<newer, older, by>>}
      /\ UNCHANGED <<cardinality, claim, contradicts>>
      /\ dimension' \in {dimension, "accepted"}
      /\ dimension = "absent" => dimension' = dimension
  BY DEF AgentSupersede, AuditEdges
<1>2. /\ state'[newer] = "accepted" /\ state'[older] = "superseded"
      /\ \A x \in StatementIds \ {newer, older} : state'[x] = state[x]
  BY <1>1 DEF TypeOK
<1>3. \A s \in StatementIds : Exists(s)' <=> Exists(s)
  BY <1>1, <1>2 DEF Exists
<1>4. TypeOK'
  <2>1. /\ state' \in [StatementIds -> {"absent", "tentative", "accepted", "superseded"}]
        /\ dimension' \in {"absent", "tentative", "accepted", "conflict"}
        /\ dimension' = "absent" => dimension = "absent"
    BY <1>1 DEF TypeOK
  <2>. QED BY <1>1, <1>3, <2>1 DEF TypeOK
<1>5. newer \in Accepted'
  BY <1>2 DEF Accepted
<1>6. \A s \in StatementIds :
        IF state'[s] = state[s] THEN claim'[s] = claim[s] ELSE Moves(state[s], state'[s])
  BY <1>1, <1>2 DEF Moves
<1>7. \A e \in supersedes' \ supersedes :
        state'[e[1]] = "accepted" /\ state'[e[2]] = "superseded"
  BY <1>1, <1>2
<1>. QED BY <1>1, <1>4, <1>5, <1>6, <1>7 DEF OperationStep

\* Every operation, those of a transaction included.
LEMMA NextStep == ASSUME TypeOK, Next PROVE OperationStep
<1>1. ASSUME NEW s \in StatementIds, NEW c \in Claim, NEW card \in Cardinalities,
             CaptureNew(s, c, card)
      PROVE  OperationStep
  BY <1>1, CaptureStep
<1>2. ASSUME NEW s \in StatementIds, RestateAgainstRival(s) PROVE OperationStep
  BY <1>2, RestateStep
<1>3. ASSUME NEW s \in StatementIds, RestateToConfirm(s) PROVE OperationStep
  BY <1>3, PromoteStep DEF RestateToConfirm
<1>4. ASSUME NEW s \in StatementIds, NEW by \in Actors, Confirm(s, by) PROVE OperationStep
  BY <1>4, PromoteStep DEF Confirm
<1>5. ASSUME NEW case \in Docket, NEW winner \in case, NEW by \in Actors,
             Resolve(case, winner, by)
      PROVE  OperationStep
  BY <1>5, ResolveStep
<1>6. ASSUME NEW case \in Docket, NEW rule \in Rules, AutoResolve(case, rule)
      PROVE  OperationStep
  <2>1. PICK winner \in case : Resolve(case, winner, rule.approver)
    BY <1>6 DEF AutoResolve
  <2>2. rule.approver \in Actors
    BY ConstantsAssumption DEF Rule
  <2>. QED BY <2>1, <2>2, ResolveStep
<1>7. ASSUME NEW newer \in StatementIds, NEW older \in StatementIds, NEW by \in Actors,
             AgentSupersede(newer, older, by)
      PROVE  OperationStep
  BY <1>7, AgentStep
<1>. QED BY <1>1, <1>2, <1>3, <1>4, <1>5, <1>6, <1>7 DEF Next, Autocommitted, Transactional

-----------------------------------------------------------------------------
(* Memory and file while an operation is written row by row *)

Edges == {"contradicts", "supersedes"}

\* What is left to write: rows of objects memory has, each of which is on the
\* file as memory has it once its row is no longer left.
Pending ==
  /\ \A w \in todo :
       \/ w = DimensionRow
       \/ \E s \in StatementIds : w = StatementRow(s)
       \/ \E e \in contradicts : w = EdgeRow("contradicts", e)
       \/ \E e \in supersedes : w = EdgeRow("supersedes", e)
  /\ DimensionRow \notin todo => dDimension = dimension /\ dCardinality = cardinality
  /\ \A s \in StatementIds :
       IF StatementRow(s) \in todo THEN Moves(dState[s], state[s])
                                  ELSE dState[s] = state[s] /\ dClaim[s] = claim[s]
  /\ dContradicts \subseteq contradicts /\ dSupersedes \subseteq supersedes
  /\ \A e \in contradicts \ dContradicts : EdgeRow("contradicts", e) \in todo
  /\ \A e \in supersedes \ dSupersedes : EdgeRow("supersedes", e) \in todo

\* Whoever is retired is retired for somebody accepted, and the record of it is
\* true in memory; it says so on the file once the loser's row is written.
Retiring ==
  /\ (\E s \in StatementIds : StatementRow(s) \in todo /\ state[s] = "superseded")
       => Accepted # {}
  /\ \A e \in supersedes :
       state[e[2]] = "superseded" /\ state[e[1]] \in {"accepted", "superseded"}
  /\ \A e \in supersedes \ dSupersedes : state[e[1]] = "accepted"

FileInv ==
  /\ TypeOK /\ DurableIntegrity /\ DurableAudit
  /\ resident = File
  /\ Pending /\ Retiring

\* The rows of different objects are different.
LEMMA RowsDiffer ==
  /\ \A s : DimensionRow # StatementRow(s)
  /\ \A type \in Edges : \A e : EdgeRow(type, e) # DimensionRow
  /\ \A type \in Edges : \A e, s : EdgeRow(type, e) # StatementRow(s)
  /\ \A s, x : StatementRow(s) = StatementRow(x) => s = x
  /\ \A t, u \in Edges : \A e, f : EdgeRow(t, e) = EdgeRow(u, f) => t = u /\ e = f
<1>1. /\ DimensionRow.table = "dimension"
      /\ \A s : StatementRow(s).table = "state" /\ StatementRow(s).id = s
      /\ \A t, e : EdgeRow(t, e).table = t /\ EdgeRow(t, e).edge = e
  BY DEF DimensionRow, StatementRow, EdgeRow
<1>. QED BY <1>1 DEF Edges

\* The stages of rows.
LEMMA StageOf ==
  /\ Stage(DimensionRow) = IF resident.dimension = "absent" THEN 0 ELSE 4
  /\ \A s : Stage(StatementRow(s)) = IF state[s] = "superseded" THEN 3 ELSE 1
  /\ \A e : Stage(EdgeRow("contradicts", e)) = 2 /\ Stage(EdgeRow("supersedes", e)) = 3
BY DEF Stage, DimensionRow, StatementRow, EdgeRow

\* What a write does to the file, and that the resident graph follows it.
LEMMA WriteEffect ==
  ASSUME NEW w, resident = File, Write(w)
  PROVE  /\ UNCHANGED <<dimension, cardinality, state, claim, contradicts, supersedes>>
         /\ todo' = todo \ {w} /\ w \in todo
         /\ dDimension' = IF DimensionRow = w THEN dimension ELSE dDimension
         /\ dCardinality' = IF DimensionRow = w THEN cardinality ELSE dCardinality
         /\ dState' = [s \in StatementIds |->
                         IF StatementRow(s) = w THEN state[s] ELSE dState[s]]
         /\ dClaim' = [s \in StatementIds |->
                         IF StatementRow(s) = w THEN claim[s] ELSE dClaim[s]]
         /\ dContradicts' =
              dContradicts \cup {e \in contradicts : EdgeRow("contradicts", e) = w}
         /\ dSupersedes' = dSupersedes \cup {e \in supersedes : EdgeRow("supersedes", e) = w}
         /\ resident' = File'
<1>1. /\ UNCHANGED vars /\ todo' = todo \ {w} /\ w \in todo
      /\ resident' = Put(File, Memory, {w})
      /\ FileBecomes(Put(File, Memory, {w}))
  BY DEF Write, Due
<1>2. FileBecomes(Put(File, Memory, {w})) => File' = Put(File, Memory, {w})
  BY DEF FileBecomes, File, Graph, Put
<1>. QED BY <1>1, <1>2 DEF vars, FileBecomes, Put, File, Memory, Graph

\* A row that is due is due for a reason.
LEMMA DueFacts ==
  ASSUME FileInv, NEW w, Due(w)
  PROVE  /\ \A s \in StatementIds :
              w = StatementRow(s) => DimensionRow \notin todo \/ dDimension # "absent"
         /\ \A s \in StatementIds :
              w = StatementRow(s) /\ state[s] = "superseded" =>
                \A x \in Accepted : StatementRow(x) \notin todo
         /\ \A e, s : w \in {EdgeRow("contradicts", e), EdgeRow("supersedes", e)} /\ s \in StatementIds =>
              StatementRow(s) \notin todo \/ state[s] = "superseded"
         /\ \A e \in supersedes : w = EdgeRow("supersedes", e) => StatementRow(e[2]) \notin todo
<1>1. resident.dimension = dDimension
  BY DEF FileInv, File, Graph
<1>2. \A x \in todo : Stage(w) <= Stage(x)
  BY DEF Due
<1>3. \A e : w = EdgeRow("supersedes", e) => StatementRow(e[2]) \notin todo
  BY DEF Due, EdgeRow
<1>4. \A s \in StatementIds :
        w = StatementRow(s) => DimensionRow \notin todo \/ dDimension # "absent"
  BY <1>1, <1>2, StageOf
<1>5. \A s \in StatementIds :
        w = StatementRow(s) /\ state[s] = "superseded" =>
          \A x \in Accepted : StatementRow(x) \notin todo
  BY <1>2, StageOf DEF Accepted
<1>6. \A e, s : w \in {EdgeRow("contradicts", e), EdgeRow("supersedes", e)} /\ s \in StatementIds =>
        StatementRow(s) \notin todo \/ state[s] = "superseded"
  BY <1>2, StageOf
<1>. QED BY <1>3, <1>4, <1>5, <1>6

\* A row keeps the invariant, and never takes the last answer from the file.
LEMMA WriteFileInv ==
  ASSUME FileInv, NEW w, Write(w)
  PROVE  FileInv' /\ (Disk!Accepted # {} => Disk!Accepted' # {})
<1> USE DEF FileInv
<1>1. Due(w)
  BY DEF Write
<1>2. /\ UNCHANGED <<dimension, cardinality, state, claim, contradicts, supersedes>>
      /\ todo' = todo \ {w} /\ w \in todo
      /\ dDimension' = IF DimensionRow = w THEN dimension ELSE dDimension
      /\ dCardinality' = IF DimensionRow = w THEN cardinality ELSE dCardinality
      /\ dState' = [s \in StatementIds |->
                      IF StatementRow(s) = w THEN state[s] ELSE dState[s]]
      /\ dClaim' = [s \in StatementIds |->
                      IF StatementRow(s) = w THEN claim[s] ELSE dClaim[s]]
      /\ dContradicts' =
           dContradicts \cup {e \in contradicts : EdgeRow("contradicts", e) = w}
      /\ dSupersedes' = dSupersedes \cup {e \in supersedes : EdgeRow("supersedes", e) = w}
      /\ resident' = File'
  BY WriteEffect
<1>3. TypeOK'
  BY <1>2 DEF TypeOK, Exists
<1>4. \A s \in StatementIds :
        /\ dState'[s] = IF StatementRow(s) = w THEN state[s] ELSE dState[s]
        /\ dClaim'[s] = IF StatementRow(s) = w THEN claim[s] ELSE dClaim[s]
        /\ dState'[s] # dState[s] => StatementRow(s) = w /\ Moves(dState[s], dState'[s])
  BY <1>2 DEF Pending
<1>5. Pending'
  <2>1. \A x \in todo' :
          \/ x = DimensionRow
          \/ \E s \in StatementIds : x = StatementRow(s)
          \/ \E e \in contradicts : x = EdgeRow("contradicts", e)
          \/ \E e \in supersedes : x = EdgeRow("supersedes", e)
    BY <1>2 DEF Pending
  <2>2. DimensionRow \notin todo' => dDimension' = dimension /\ dCardinality' = cardinality
    BY <1>2 DEF Pending
  <2>3. \A s \in StatementIds :
          IF StatementRow(s) \in todo' THEN Moves(dState'[s], state[s])
                                      ELSE dState'[s] = state[s] /\ dClaim'[s] = claim[s]
    BY <1>2, <1>4 DEF Pending
  <2>4. dContradicts' \subseteq contradicts /\ dSupersedes' \subseteq supersedes
    BY <1>2 DEF Pending
  <2>5. /\ \A e \in contradicts \ dContradicts' : EdgeRow("contradicts", e) \in todo'
        /\ \A e \in supersedes \ dSupersedes' : EdgeRow("supersedes", e) \in todo'
    BY <1>2 DEF Pending
  <2>. QED BY <1>2, <2>1, <2>2, <2>3, <2>4, <2>5 DEF Pending
<1>6. Retiring'
  BY <1>2 DEF Retiring, Accepted
<1>7. \A s \in StatementIds : dState[s] # "absent" => dState'[s] # "absent"
  BY <1>4 DEF Moves
<1>8. \A s \in StatementIds : StatementRow(s) \in todo => dState[s] # "absent" \/ state[s] # "superseded"
  BY DEF Pending, Moves
<1>9. DurableIntegrity'
  <2>1. /\ dDimension' \in {"absent", "tentative", "accepted", "conflict"}
        /\ dCardinality' \in Cardinalities
    BY <1>2 DEF DurableIntegrity, Disk!TypeOK, Disk!Cardinalities, Cardinalities, TypeOK
  <2>2. /\ dState' \in [StatementIds -> {"absent", "tentative", "accepted", "superseded"}]
        /\ dClaim' \in [StatementIds -> Claim \cup {NoClaim}]
    BY <1>2 DEF DurableIntegrity, Disk!TypeOK, Disk!Claim, Claim, TypeOK
  <2>3. \A s \in StatementIds : dClaim'[s] = NoClaim <=> dState'[s] = "absent"
    BY <1>4 DEF DurableIntegrity, Disk!TypeOK, Disk!Exists, TypeOK, Exists
  <2>4. ASSUME dDimension' = "absent", NEW s \in StatementIds PROVE dState'[s] = "absent"
    <3>1. CASE w = StatementRow(s)
      <4>1. dDimension = "absent"
        BY <1>2, <2>4, <3>1, RowsDiffer
      <4>2. DimensionRow \notin todo
        BY <1>1, <3>1, <4>1, DueFacts
      <4>3. dimension = "absent"
        BY <4>1, <4>2 DEF Pending
      <4>. QED BY <1>4, <3>1, <4>3 DEF TypeOK, Exists
    <3>2. CASE w # StatementRow(s)
      <4>1. CASE dDimension = "absent"
        BY <1>4, <3>2, <4>1 DEF DurableIntegrity, Disk!TypeOK, Disk!Exists
      <4>2. CASE dDimension # "absent"
        <5>1. w = DimensionRow /\ dimension = "absent"
          BY <1>2, <2>4, <4>2
        <5>2. state[s] = "absent"
          BY <5>1 DEF TypeOK, Exists
        <5>. QED BY <1>4, <3>2, <5>2 DEF Pending, Moves
      <4>. QED BY <4>1, <4>2
    <3>. QED BY <3>1, <3>2
  <2>5. dContradicts' \in SUBSET (StatementIds \X StatementIds)
    BY <1>2 DEF DurableIntegrity, Disk!TypeOK, TypeOK
  <2>6. ASSUME NEW e \in dContradicts' PROVE dState'[e[1]] # "absent" /\ dState'[e[2]] # "absent"
    <3>1. e[1] \in StatementIds /\ e[2] \in StatementIds
      BY <2>5
    <3>2. CASE e \in dContradicts
      BY <1>7, <3>1, <3>2 DEF DurableIntegrity, Disk!TypeOK, Disk!Exists
    <3>3. CASE e \in contradicts /\ w = EdgeRow("contradicts", e)
      <4>1. state[e[1]] # "absent" /\ state[e[2]] # "absent"
        BY <3>3 DEF TypeOK, Exists
      <4>2. \A s \in StatementIds : StatementRow(s) \notin todo \/ state[s] = "superseded"
        BY <1>1, <3>3, DueFacts
      <4>3. \A s \in {e[1], e[2]} : dState[s] # "absent"
        BY <1>8, <3>1, <4>1, <4>2 DEF Pending
      <4>. QED BY <1>7, <3>1, <4>3
    <3>. QED BY <1>2, <3>2, <3>3
  <2>7. dSupersedes' \in SUBSET (StatementIds \X StatementIds \X Actors)
    BY <1>2 DEF DurableIntegrity, Disk!TypeOK, Disk!Actors, Actors, TypeOK
  <2>. QED BY <2>1, <2>2, <2>3, <2>4, <2>5, <2>6, <2>7
       DEF DurableIntegrity, Disk!TypeOK, Disk!Exists, Disk!Actors, Actors,
           Disk!Cardinalities, Cardinalities, Disk!Claim, Claim
<1>10. DurableAudit'
  <2> SUFFICES ASSUME NEW e \in dSupersedes'
               PROVE  dState'[e[2]] = "superseded" /\ dState'[e[1]] \in {"accepted", "superseded"}
    BY DEF DurableAudit
  <2>1. e \in supersedes /\ e[1] \in StatementIds /\ e[2] \in StatementIds
    BY <1>2 DEF Pending, TypeOK
  <2>2. CASE e \in dSupersedes
    BY <1>4, <2>1, <2>2 DEF DurableAudit, Moves
  <2>3. CASE e \notin dSupersedes
    <3>1. w = EdgeRow("supersedes", e)
      BY <1>2, <2>3
    <3>2. state[e[1]] = "accepted" /\ state[e[2]] = "superseded"
      BY <2>1, <2>3 DEF Retiring
    <3>3. StatementRow(e[1]) \notin todo /\ StatementRow(e[2]) \notin todo
      BY <1>1, <2>1, <3>1, <3>2, DueFacts
    <3>. QED BY <1>4, <2>1, <3>2, <3>3 DEF Pending
  <2>. QED BY <2>2, <2>3
<1>11. ASSUME Disk!Accepted # {} PROVE Disk!Accepted' # {}
  <2>1. PICK a \in StatementIds : dState[a] = "accepted"
    BY <1>11 DEF Disk!Accepted
  <2>2. CASE dState'[a] = "accepted"
    BY <2>2 DEF Disk!Accepted
  <2>3. CASE dState'[a] # "accepted"
    <3>1. w = StatementRow(a) /\ state[a] = "superseded"
      BY <1>4, <2>1, <2>3 DEF Moves
    <3>2. PICK b \in Accepted : TRUE
      BY <1>2, <3>1 DEF Retiring
    <3>3. b \in StatementIds /\ state[b] = "accepted" /\ StatementRow(b) \notin todo
      BY <1>1, <3>1, <3>2, DueFacts DEF Accepted
    <3>4. dState'[b] = "accepted"
      BY <1>2, <1>4, <3>3 DEF Pending
    <3>. QED BY <3>3, <3>4 DEF Disk!Accepted
  <2>. QED BY <2>2, <2>3
<1>. QED BY <1>2, <1>3, <1>5, <1>6, <1>9, <1>10, <1>11

-----------------------------------------------------------------------------
(* Between operations *)

\* What an operation is to write: the rows of what it has changed.
LEMMA RowsOf ==
  ASSUME NEW g, NEW n
  PROVE  /\ DimensionRow \in Rows(g, n) <=> RewritesDimension(g, n)
         /\ \A s \in StatementIds : StatementRow(s) \in Rows(g, n) <=> g.state[s] # n.state[s]
         /\ \A e : EdgeRow("contradicts", e) \in Rows(g, n) <=> e \in n.contradicts \ g.contradicts
         /\ \A e : EdgeRow("supersedes", e) \in Rows(g, n) <=> e \in n.supersedes \ g.supersedes
BY RowsDiffer DEF Rows, Edges

\* With nothing left to write, memory and file are the same graph.
LEMMA NothingLeft ==
  ASSUME FileInv, todo = {}
  PROVE  /\ dDimension = dimension /\ dCardinality = cardinality
         /\ dState = state /\ dClaim = claim
         /\ dContradicts = contradicts /\ dSupersedes = supersedes
         /\ Memory = File
<1>1. /\ dDimension = dimension /\ dCardinality = cardinality
      /\ \A s \in StatementIds : dState[s] = state[s] /\ dClaim[s] = claim[s]
      /\ dContradicts = contradicts /\ dSupersedes = supersedes
  BY DEF FileInv, Pending
<1>2. dState = state /\ dClaim = claim
  BY <1>1 DEF FileInv, TypeOK, DurableIntegrity, Disk!TypeOK
<1>. QED BY <1>1, <1>2 DEF Memory, File

\* The same graph has the same types.
LEMMA SameTypes ==
  ASSUME dDimension = dimension, dCardinality = cardinality, dState = state, dClaim = claim,
         dContradicts = contradicts, dSupersedes = supersedes
  PROVE  TypeOK <=> DurableIntegrity
BY DEF TypeOK, DurableIntegrity, Disk!TypeOK, Exists, Disk!Exists, Cardinalities,
       Disk!Cardinalities, Claim, Disk!Claim, Actors, Disk!Actors

\* After any operation the audit record in memory is still true.
LEMMA AuditStep ==
  ASSUME FileInv, OperationStep
  PROVE  \A e \in supersedes' :
           state'[e[2]] = "superseded" /\ state'[e[1]] \in {"accepted", "superseded"}
<1> TAKE e \in supersedes'
<1>1. CASE e \in supersedes' \ supersedes
  BY <1>1 DEF OperationStep
<1>2. CASE e \in supersedes
  <2>1. e[1] \in StatementIds /\ e[2] \in StatementIds
    BY <1>2 DEF FileInv, TypeOK
  <2>. QED BY <1>2, <2>1 DEF FileInv, Retiring, OperationStep, Moves
<1>. QED BY <1>1, <1>2

LEMMA BeginFileInv ==
  ASSUME FileInv, Begin
  PROVE  FileInv'
<1>1. /\ todo = {} /\ todo' = Rows(Memory, Memory')
      /\ UNCHANGED <<dDimension, dCardinality, dState, dClaim, dContradicts, dSupersedes>>
      /\ UNCHANGED resident
  BY DEF Begin, diskVars
<1>2. OperationStep
  BY NextStep DEF FileInv, Begin, Next
<1>3. /\ dDimension = dimension /\ dCardinality = cardinality
      /\ dState = state /\ dClaim = claim
      /\ dContradicts = contradicts /\ dSupersedes = supersedes
  BY <1>1, NothingLeft
<1>4. /\ DimensionRow \notin todo' => dimension' = dimension
      /\ \A s \in StatementIds : StatementRow(s) \in todo' <=> state[s] # state'[s]
      /\ \A e : EdgeRow("contradicts", e) \in todo' <=> e \in contradicts' \ contradicts
      /\ \A e : EdgeRow("supersedes", e) \in todo' <=> e \in supersedes' \ supersedes
  BY <1>1, RowsOf DEF RewritesDimension, Memory, Graph
<1>5. \A w \in todo' :
        \/ w = DimensionRow
        \/ \E s \in StatementIds : w = StatementRow(s)
        \/ \E e \in contradicts' : w = EdgeRow("contradicts", e)
        \/ \E e \in supersedes' : w = EdgeRow("supersedes", e)
  BY <1>1 DEF Rows, Memory, Graph
<1>6. Pending'
  BY <1>1, <1>2, <1>3, <1>4, <1>5 DEF Pending, OperationStep
<1>7. Retiring'
  <2>1. (\E s \in StatementIds : StatementRow(s) \in todo' /\ state'[s] = "superseded")
          => Accepted' # {}
    BY <1>2, <1>4 DEF OperationStep
  <2>2. \A e \in supersedes' \ dSupersedes' : state'[e[1]] = "accepted"
    BY <1>1, <1>2, <1>3 DEF OperationStep
  <2>. QED BY <1>2, <2>1, <2>2, AuditStep DEF Retiring
<1>8. DurableIntegrity' /\ DurableAudit' /\ resident' = File'
  BY <1>1 DEF FileInv, DurableIntegrity, DurableAudit, File, Disk!TypeOK, Disk!Exists
<1>. QED BY <1>2, <1>6, <1>7, <1>8 DEF FileInv, OperationStep

LEMMA TransactFileInv ==
  ASSUME FileInv, Transact
  PROVE  FileInv' /\ (Disk!Accepted # {} => Disk!Accepted' # {})
<1>1. /\ todo = {} /\ todo' = {} /\ Transactional
      /\ FileBecomes(Put(File, Memory', Rows(Memory, Memory')))
      /\ resident' = Memory'
  BY DEF Transact
<1>2. OperationStep
  BY <1>1, NextStep DEF FileInv, Next
<1>3. /\ dDimension = dimension /\ dCardinality = cardinality
      /\ dState = state /\ dClaim = claim
      /\ dContradicts = contradicts /\ dSupersedes = supersedes
  BY <1>1, NothingLeft
<1>4. /\ DimensionRow \notin Rows(Memory, Memory') => dimension' = dimension
      /\ \A s \in StatementIds : StatementRow(s) \in Rows(Memory, Memory') <=> state[s] # state'[s]
      /\ \A e : EdgeRow("contradicts", e) \in Rows(Memory, Memory') <=> e \in contradicts' \ contradicts
      /\ \A e : EdgeRow("supersedes", e) \in Rows(Memory, Memory') <=> e \in supersedes' \ supersedes
  BY RowsOf DEF RewritesDimension, Memory, Graph
<1>5. dDimension' = dimension' /\ dCardinality' = cardinality'
  BY <1>1, <1>2, <1>3, <1>4 DEF FileBecomes, Put, File, Memory, Graph, OperationStep
<1>6. dState' = state'
  <2>1. dState' = [s \in StatementIds |->
                    IF StatementRow(s) \in Rows(Memory, Memory') THEN state'[s] ELSE dState[s]]
    BY <1>1 DEF FileBecomes, Put, File, Memory, Graph
  <2>. QED BY <1>2, <1>3, <1>4, <2>1 DEF OperationStep, TypeOK
<1>7. dClaim' = claim'
  <2>1. dClaim' = [s \in StatementIds |->
                    IF StatementRow(s) \in Rows(Memory, Memory') THEN claim'[s] ELSE dClaim[s]]
    BY <1>1 DEF FileBecomes, Put, File, Memory, Graph
  <2>. QED BY <1>2, <1>3, <1>4, <2>1 DEF OperationStep, TypeOK
<1>8. dContradicts' = contradicts' /\ dSupersedes' = supersedes'
  <2>1. /\ dContradicts' = dContradicts
             \cup {e \in contradicts' : EdgeRow("contradicts", e) \in Rows(Memory, Memory')}
        /\ dSupersedes' = dSupersedes
             \cup {e \in supersedes' : EdgeRow("supersedes", e) \in Rows(Memory, Memory')}
    BY <1>1 DEF FileBecomes, Put, File, Memory, Graph
  <2>. QED BY <1>2, <1>3, <1>4, <2>1 DEF OperationStep
<1>9. DurableIntegrity' /\ resident' = File'
  <2>1. (TypeOK <=> DurableIntegrity)'
    BY <1>5, <1>6, <1>7, <1>8
       DEF TypeOK, DurableIntegrity, Disk!TypeOK, Exists, Disk!Exists, Cardinalities,
           Disk!Cardinalities, Claim, Disk!Claim, Actors, Disk!Actors
  <2>2. File' = Memory'
    BY <1>5, <1>6, <1>7, <1>8 DEF File, Memory
  <2>. QED BY <1>1, <1>2, <2>1, <2>2 DEF OperationStep
<1>10. Pending'
  BY <1>1, <1>5, <1>6, <1>7, <1>8 DEF Pending
<1>11. Retiring'
  BY <1>1, <1>2, <1>8, AuditStep DEF Retiring
<1>12. DurableAudit'
  BY <1>2, <1>6, <1>8, AuditStep DEF DurableAudit
<1>13. ASSUME Disk!Accepted # {} PROVE Disk!Accepted' # {}
  <2>1. PICK a \in StatementIds : state[a] = "accepted"
    BY <1>3, <1>13 DEF Disk!Accepted
  <2>2. CASE state'[a] = "accepted"
    BY <1>6, <2>2 DEF Disk!Accepted
  <2>3. CASE state'[a] # "accepted"
    BY <1>2, <1>6, <2>1, <2>3 DEF OperationStep, Moves, Accepted, Disk!Accepted
  <2>. QED BY <2>2, <2>3
<1>. QED BY <1>2, <1>9, <1>10, <1>11, <1>12, <1>13 DEF FileInv, OperationStep

LEMMA ReopenFileInv ==
  ASSUME FileInv, Reopen
  PROVE  FileInv'
<1>1. /\ UNCHANGED <<dDimension, dCardinality, dState, dClaim, dContradicts, dSupersedes>>
      /\ resident' = File /\ todo' = {}
      /\ dimension' = dDimension /\ cardinality' = dCardinality
      /\ state' = dState /\ claim' = dClaim
      /\ contradicts' = dContradicts /\ supersedes' = dSupersedes
  BY DEF Reopen, diskVars, MemoryBecomes, File, Graph
<1>2. DurableIntegrity' /\ DurableAudit' /\ resident' = File'
  BY <1>1 DEF FileInv, DurableIntegrity, DurableAudit, File, Disk!TypeOK, Disk!Exists
<1>3. TypeOK'
  BY <1>1 DEF FileInv, TypeOK, DurableIntegrity, Disk!TypeOK, Exists, Disk!Exists, Cardinalities,
              Disk!Cardinalities, Claim, Disk!Claim, Actors, Disk!Actors
<1>4. Pending' /\ Retiring'
  BY <1>1, <1>2 DEF Pending, Retiring, DurableAudit
<1>. QED BY <1>2, <1>3, <1>4 DEF FileInv

LEMMA InitFileInv == FileInit => FileInv
<1> SUFFICES ASSUME FileInit PROVE FileInv
  OBVIOUS
<1>1. TypeOK /\ todo = {} /\ supersedes = {}
  BY InitIInv DEF FileInit, IInv, Init
<1>2. /\ dDimension = dimension /\ dCardinality = cardinality /\ dState = state
      /\ dClaim = claim /\ dContradicts = contradicts /\ dSupersedes = supersedes
      /\ resident = Memory
  BY DEF FileInit
<1>3. DurableIntegrity /\ resident = File
  BY <1>1, <1>2, SameTypes DEF File, Memory
<1>. QED BY <1>1, <1>2, <1>3 DEF FileInv, Pending, Retiring, DurableAudit

\* Every step keeps the invariant.
LEMMA FileStep == ASSUME FileInv, [CrashNext]_fileVars PROVE FileInv'
<1>1. CASE UNCHANGED fileVars
  <2>1. /\ UNCHANGED <<dimension, cardinality, state, claim, contradicts, supersedes>>
        /\ UNCHANGED <<dDimension, dCardinality, dState, dClaim, dContradicts, dSupersedes>>
        /\ UNCHANGED <<resident, todo>>
    BY <1>1 DEF fileVars, vars, diskVars
  <2>2. TypeOK' /\ DurableIntegrity' /\ DurableAudit' /\ resident' = File'
    BY <2>1 DEF FileInv, TypeOK, Exists, DurableIntegrity, Disk!TypeOK, Disk!Exists,
                DurableAudit, File
  <2>3. Pending' /\ Retiring'
    BY <2>1 DEF FileInv, Pending, Retiring, Accepted
  <2>. QED BY <2>2, <2>3 DEF FileInv
<1>. QED BY <1>1, BeginFileInv, WriteFileInv, TransactFileInv, ReopenFileInv DEF CrashNext, Working

\* The invariant of a slot in its file, crashes included.
THEOREM FileInvariance == CrashSpec => []FileInv
BY InitFileInv, FileStep, PTL DEF CrashSpec

\* Whenever the process dies, loadAll finds a graph with the types of one: no
\* statement without its dimension, no contradiction without both its ends.
THEOREM FileKeepsIntegrity == CrashSpec => []DurableIntegrity
<1>1. FileInv => DurableIntegrity
  BY DEF FileInv
<1>. QED BY <1>1, FileInvariance, PTL

\* The write-through of SqliteGraph loses nothing and invents nothing: between
\* operations, and so for whoever was told that one is done, memory is the file.
THEOREM AcknowledgedIsStored == CrashSpec => []WriteThrough
<1>1. FileInv => WriteThrough
  BY NothingLeft DEF WriteThrough, FileInv
<1>. QED BY <1>1, FileInvariance, PTL

\* No audit edge of resolveConflict reaches the file before the decision it records.
THEOREM FileAuditIsTrue == CrashSpec => []DurableAudit
<1>1. FileInv => DurableAudit
  BY DEF FileInv
<1>. QED BY <1>1, FileInvariance, PTL

\* The order in which resolveConflict writes its rows: the file has an accepted
\* statement from the first on, after whichever of them the process dies.
THEOREM FileKeepsAnAnswer == CrashSpec => DurableAnswer
<1>1. ASSUME FileInv, [CrashNext]_fileVars
      PROVE  [Disk!Accepted # {} => Disk!Accepted' # {}]_(Disk!vars)
  <2>1. ASSUME UNCHANGED diskVars PROVE UNCHANGED Disk!vars
    BY <2>1 DEF diskVars, Disk!vars
  <2>2. CASE UNCHANGED fileVars
    BY <2>1, <2>2 DEF fileVars
  <2>3. CASE Begin \/ Reopen
    BY <2>1, <2>3 DEF Begin, Reopen, diskVars
  <2>. QED BY <1>1, <2>2, <2>3, WriteFileInv, TransactFileInv DEF CrashNext, Working
<1>. QED BY <1>1, FileInvariance, PTL DEF CrashSpec, DurableAnswer, Disk!AnswerNeverLost

\* The invariant holds of processes that end between operations too.
LEMMA CleanInvariance == CleanSpec => []FileInv
<1>1. CleanNext => CrashNext
  BY DEF CleanNext, CrashNext
<1>2. FileInv /\ [CleanNext]_fileVars => FileInv'
  BY <1>1, FileStep
<1>. QED BY <1>2, InitFileInv, PTL DEF CleanSpec

\* Commands of the CLI, each a process that opens the file, runs one operation
\* and ends, act on the slot like one process that never ends: every theorem
\* about Adjudication holds of them.
THEOREM CleanRestartsAreInvisible == CleanSpec => ImplementsAdjudication
<1>1. FileInit => Init
  BY DEF FileInit
<1>2. ASSUME FileInv, [CleanNext]_fileVars PROVE [Next]_vars
  <2>1. CASE UNCHANGED fileVars
    BY <2>1 DEF fileVars
  <2>2. CASE Begin \/ Transact
    BY <2>2 DEF Begin, Transact, Next
  <2>3. ASSUME NEW w \in todo, Write(w) PROVE UNCHANGED vars
    BY <2>3 DEF Write
  <2>4. CASE todo = {} /\ Reopen
    <3>1. MemoryBecomes(File) /\ Memory = File
      BY <1>2, <2>4, NothingLeft DEF Reopen
    <3>. QED BY <1>2, <2>4, <3>1, NothingLeft DEF MemoryBecomes, File, Graph, vars
  <2>. QED BY <1>2, <2>1, <2>2, <2>3, <2>4 DEF CleanNext, Working
<1>. QED BY <1>1, <1>2, CleanInvariance, PTL DEF CleanSpec, ImplementsAdjudication, Spec

\* So the file of a single slot, whenever no operation is under way, has one
\* accepted value; the crash that leaves two of them comes within resolveConflict.
THEOREM FileAtRestHasOneValue == CleanSpec => []DurableSingle
<1>1. ASSUME FileInv, SingleAccepted PROVE DurableSingle
  BY <1>1, NothingLeft
     DEF DurableSingle, SingleAccepted, Disk!SingleAccepted, Accepted, Disk!Accepted
<1>. QED
  BY <1>1, CleanInvariance, CleanRestartsAreInvisible, OneCurrentValue, PTL
     DEF ImplementsAdjudication

\* So processes that end between operations keep the contract of a slot, and
\* the answer survives every restart of this kind.
THEOREM CleanRestartsKeepTheContract ==
  CleanSpec => ImplementsGovernedSlot /\ AnswerNeverLost
BY CleanRestartsAreInvisible, Refinement, AlwaysAnAnswer, PTL DEF ImplementsAdjudication

=============================================================================
