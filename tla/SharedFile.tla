----------------------------- MODULE SharedFile -----------------------------
(***************************************************************************)
(* A slot in its SQLite file. SqliteGraph loads the file once, answers     *)
(* every read from memory, and writes each changed row through on its own: *)
(* memory first, then one autocommitted INSERT OR REPLACE. So an operation *)
(* that is one step of Adjudication in memory is several on the file, and  *)
(* a crash or a failed write can come between them.                        *)
(* Only agent supersession runs inside SqliteGraph.transaction.            *)
(*                                                                         *)
(* The variables of Adjudication are the graph as the running operation    *)
(* will leave it; `resident` is the graph it has built so far.             *)
(***************************************************************************)
EXTENDS Adjudication

VARIABLES
  dDimension, dCardinality, dState, dClaim, dContradicts, dSupersedes, \* the file
  resident,   \* the process's graph, write by write
  todo        \* rows the running operation still has to write

diskVars == <<dDimension, dCardinality, dState, dClaim, dContradicts, dSupersedes>>
fileVars == <<vars, diskVars, resident, todo>>

Disk == INSTANCE Adjudication WITH
  dimension <- dDimension, cardinality <- dCardinality, state <- dState,
  claim <- dClaim, contradicts <- dContradicts, supersedes <- dSupersedes

Graph(d, k, st, cl, con, sup) ==
  [dimension |-> d, cardinality |-> k, state |-> st, claim |-> cl,
   contradicts |-> con, supersedes |-> sup]

Memory == Graph(dimension, cardinality, state, claim, contradicts, supersedes)
File == Graph(dDimension, dCardinality, dState, dClaim, dContradicts, dSupersedes)

MemoryBecomes(g) ==
  /\ dimension' = g.dimension /\ cardinality' = g.cardinality
  /\ state' = g.state /\ claim' = g.claim
  /\ contradicts' = g.contradicts /\ supersedes' = g.supersedes

FileBecomes(g) ==
  /\ dDimension' = g.dimension /\ dCardinality' = g.cardinality
  /\ dState' = g.state /\ dClaim' = g.claim
  /\ dContradicts' = g.contradicts /\ dSupersedes' = g.supersedes

-----------------------------------------------------------------------------
(* Rows. A node row is written whole, an edge row only ever inserted; what *)
(* is written is what the operation has made of the object.                *)

DimensionRow == [table |-> "dimension"]
StatementRow(s) == [table |-> "state", id |-> s]
EdgeRow(type, e) == [table |-> type, edge |-> e]

\* The graph g after these rows of n have been written over it.
\* Mutant: an update that leaves a column of the row out.
PutStateOnly(g, n, rows) ==
  [dimension   |-> IF DimensionRow \in rows THEN n.dimension ELSE g.dimension,
   cardinality |-> IF DimensionRow \in rows THEN n.cardinality ELSE g.cardinality,
   state |-> [s \in StatementIds |-> IF StatementRow(s) \in rows THEN n.state[s] ELSE g.state[s]],
   claim |-> g.claim,
   contradicts |-> g.contradicts \cup {e \in n.contradicts : EdgeRow("contradicts", e) \in rows},
   supersedes  |-> g.supersedes \cup {e \in n.supersedes : EdgeRow("supersedes", e) \in rows}]
Put(g, n, rows) ==
  [dimension   |-> IF DimensionRow \in rows THEN n.dimension ELSE g.dimension,
   cardinality |-> IF DimensionRow \in rows THEN n.cardinality ELSE g.cardinality,
   state |-> [s \in StatementIds |-> IF StatementRow(s) \in rows THEN n.state[s] ELSE g.state[s]],
   claim |-> [s \in StatementIds |-> IF StatementRow(s) \in rows THEN n.claim[s] ELSE g.claim[s]],
   contradicts |-> g.contradicts \cup {e \in n.contradicts : EdgeRow("contradicts", e) \in rows},
   supersedes  |-> g.supersedes \cup {e \in n.supersedes : EdgeRow("supersedes", e) \in rows}]

\* A fresh clash rewrites the dimension even when it is in conflict already.
RewritesDimension(g, n) ==
  \/ n.dimension # g.dimension
  \/ \E e \in n.contradicts \ g.contradicts : g.state[e[1]] = "absent"

\* What an operation that turns g into n writes.
Rows(g, n) ==
  (IF RewritesDimension(g, n) THEN {DimensionRow} ELSE {})
    \cup {StatementRow(s) : s \in {x \in StatementIds : g.state[x] # n.state[x]}}
    \cup {EdgeRow("contradicts", e) : e \in n.contradicts \ g.contradicts}
    \cup {EdgeRow("supersedes", e) : e \in n.supersedes \ g.supersedes}

\* Their order: the dimension if it is created, the statement that is added or
\* accepted, the contradiction, the losers, the new state of the dimension.
\* Mutant: the losers are retired before the winner is accepted.
StageLosersFirst(w) ==
  CASE w.table = "dimension"   -> IF resident.dimension = "absent" THEN 0 ELSE 4
    [] w.table = "state"       -> IF state[w.id] = "superseded" THEN 0 ELSE 1
    [] w.table = "contradicts" -> 2
    [] w.table = "supersedes"  -> 0
Stage(w) ==
  CASE w.table = "dimension"   -> IF resident.dimension = "absent" THEN 0 ELSE 4
    [] w.table = "state"       -> IF state[w.id] = "superseded" THEN 3 ELSE 1
    [] w.table = "contradicts" -> 2
    [] w.table = "supersedes"  -> 3

\* A row that may be next. The losers are retired one after the other, in any
\* order, each followed by its audit edge.
\* Mutant: the edges may come before what they record.
DueByStage(w) == w \in todo /\ \A x \in todo : Stage(w) <= Stage(x)
Due(w) ==
  /\ w \in todo
  /\ \A x \in todo : Stage(w) <= Stage(x)
  /\ w.table = "supersedes" => StatementRow(w.edge[2]) \notin todo
  /\ w.table = "state" =>
       \A x \in todo : x.table = "supersedes" => StatementRow(x.edge[2]) \in todo

-----------------------------------------------------------------------------
(* Steps of the process *)

\* New identities are UUIDs: never one the file already holds.
FreshIds == \A s \in StatementIds : ~Exists(s) /\ Exists(s)' => dState[s] = "absent"

\* An operation on the resident graph begins; nothing else of this process
\* runs until its writes are done.
Begin ==
  /\ todo = {}
  /\ Autocommitted
  /\ FreshIds
  /\ todo' = Rows(Memory, Memory')
  /\ UNCHANGED <<diskVars, resident>>

\* One row: the resident graph, then the file.
\* Mutant: edges are not written through.
WriteNodesOnly(w) ==
  /\ Due(w)
  /\ resident' = Put(resident, Memory, {w})
  /\ FileBecomes(IF "edge" \in DOMAIN w THEN File ELSE Put(File, Memory, {w}))
  /\ todo' = todo \ {w}
  /\ UNCHANGED vars
Write(w) ==
  /\ Due(w)
  /\ resident' = Put(resident, Memory, {w})
  /\ FileBecomes(Put(File, Memory, {w}))
  /\ todo' = todo \ {w}
  /\ UNCHANGED vars

\* The database refuses the row (the file is locked, the disk is full): the
\* operation throws, and its last change stays in memory only.
WriteFails(w) ==
  /\ Due(w)
  /\ resident' = Put(resident, Memory, {w})
  /\ MemoryBecomes(resident')
  /\ todo' = {}
  /\ UNCHANGED diskVars

\* An operation inside SqliteGraph.transaction: every row or none.
Transact ==
  /\ todo = {}
  /\ Transactional
  /\ FileBecomes(Put(File, Memory', Rows(Memory, Memory')))
  /\ resident' = Memory'
  /\ UNCHANGED todo

\* The process ends, between operations (as every command of the CLI does) or
\* in the middle of one, and a new one loads the file.
Reopen ==
  /\ MemoryBecomes(File)
  /\ resident' = File
  /\ todo' = {}
  /\ UNCHANGED diskVars

-----------------------------------------------------------------------------
(* Specifications *)

FileInit ==
  /\ Init
  /\ dDimension = dimension /\ dCardinality = cardinality /\ dState = state
  /\ dClaim = claim /\ dContradicts = contradicts /\ dSupersedes = supersedes
  /\ resident = Memory
  /\ todo = {}

\* One process, which may crash and be restarted at any point.
Working == Begin \/ (\E w \in todo : Write(w)) \/ Transact
CrashNext == Working \/ Reopen
CrashSpec == FileInit /\ [][CrashNext]_fileVars

\* One process after another, each of which ends between operations.
CleanNext == Working \/ (todo = {} /\ Reopen)
CleanSpec == FileInit /\ [][CleanNext]_fileVars

\* One process on a file that may refuse a write.
FaultNext == Working \/ \E w \in todo : WriteFails(w)
FaultSpec == FileInit /\ [][FaultNext]_fileVars

-----------------------------------------------------------------------------
(* Correctness *)

\* Integrity of the file at every instant a crash may freeze it: a statement
\* never without its dimension and claim, an edge never without both ends.
DurableIntegrity == Disk!TypeOK

\* Between operations the resident graph is the file: what was acknowledged
\* survives, and what is read is what is stored.
WriteThrough == todo = {} => Memory = File /\ resident = File

\* On the file too a slot with a current value always has one, whichever write
\* of a resolution is the last before a crash.
DurableAnswer == Disk!AnswerNeverLost

\* agent/conflicts.ts: the audit record of a resolution. The file never holds
\* the record of a decision it does not show: the loser is retired there, and
\* the winner is current, or was until it lost in its turn.
DurableAudit ==
  \A e \in dSupersedes :
    dState[e[2]] = "superseded" /\ dState[e[1]] \in {"accepted", "superseded"}

\* Ending a process between two operations and starting another changes nothing:
\* what they do to the slot one after the other, one process might have done.
ImplementsAdjudication == Spec

\* model/types.ts: a single dimension holds at most one accepted value, here on
\* the file of a process that is between operations.
DurableSingle == todo = {} => Disk!SingleAccepted

=============================================================================
