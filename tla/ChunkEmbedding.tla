---------------------------- MODULE ChunkEmbedding ----------------------------
(***************************************************************************)
(* The chunks of one paper in one topic, from text to vector: the PDF job  *)
(* that replaces them, the embedding jobs, the abstract index of ranking,  *)
(* the check that skips a paper already indexed, and the cleanup tasks     *)
(* that remove the points of replaced text.                                *)
(*                                                                         *)
(* PostgreSQL and Qdrant are written by separate calls, jobs of an earlier *)
(* process are still delivered to the next one, and every worker may be at *)
(* any of these operations: a step is one transaction or one call.         *)
(*                                                                         *)
(* A point's identifier is computed from topic, paper, chunk type, index,  *)
(* content hash and embedding identity; with all but slot and content      *)
(* fixed, a point is a pair <<slot, content>>.  A row is found by its own  *)
(* identifier, which survives a change of content.                         *)
(***************************************************************************)
EXTENDS Integers, FiniteSets

CONSTANTS
  Workers,     \* goroutines: the pool's, and the run that ranks and indexes
  Contents,    \* texts, seen as their content hashes
  Documents,   \* what a PDF can be parsed into: a content, or None, per PDF slot
  Abstracts,   \* abstracts the paper may have
  None,        \* no value
  MaxStarts,   \* bound on operations started
  MaxFaults,   \* bound on calls that fail, whether or not they took effect
  MaxCrashes   \* bound on crashes

PdfSlots == UNION {DOMAIN d : d \in Documents}
Abstract == 0
Slots    == PdfSlots \cup {Abstract}

ASSUME SlotsAssumption == /\ Documents \subseteq [PdfSlots -> Contents \cup {None}]
                          /\ PdfSlots \subseteq Nat \ {Abstract}
                          /\ Abstracts \subseteq Contents /\ None \notin Contents
ASSUME LimitsAssumption == {MaxStarts, MaxFaults, MaxCrashes} \subseteq Nat

VARIABLES
  row,        \* paper_chunks: the row of each slot
  points,     \* the points in the Qdrant collection
  task,       \* embedding_cleanup_tasks: the status for each point
  jobs,       \* embedding jobs in the queue, by the number of the PDF job they are from
  work,       \* what each worker is doing
  booting,    \* the process starts: its cleanup comes before every other work
  serial,     \* row identifiers handed out
  starts, faults, crashes,   \* counters for the bounds
  outOfOrder  \* history: slots that saw late work or returning content

database == <<row, task, serial>>
bounds   == <<starts, faults, crashes>>
vars     == <<row, points, task, jobs, work, booting, serial, starts, faults, crashes,
              outOfOrder>>

-------------------------------------------------------------------------------
(* Rows, points and statements *)

Points == Slots \X Contents
Row    == [id : Nat, content : Contents \cup {None},
           status : {"none", "pending", "indexing", "completed", "failed"},
           point : Contents \cup {None}]
NoRow  == [id |-> 0, content |-> None, status |-> "none", point |-> None]

\* A chunk as an embedding job carries it.
Target == [slot : Slots, id : Nat, content : Contents]
TargetOf(s, r) == [slot |-> s, id |-> r.id, content |-> r.content]
PointOf(t) == <<t.slot, t.content>>
Found(t)   == row[t.slot] # NoRow /\ row[t.slot].id = t.id

\* Faulty UpsertPaperChunk: the state of the old content is kept.
UpsertKeepingState(r, id, c) ==
  IF r = NoRow THEN [id |-> id, content |-> c, status |-> "pending", point |-> None]
               ELSE [r EXCEPT !.content = c]

\* A row keeps its identifier; other content takes its embedding state away.
\* embedded_content_hash is left out: it equals content_hash wherever the status
\* is completed.
UpsertPaperChunk(r, id, c) ==
  CASE r = NoRow       -> [id |-> id, content |-> c, status |-> "pending", point |-> None]
    [] r.content = c   -> r
    [] OTHER           -> [r EXCEPT !.content = c, !.status = "pending", !.point = None]

\* A completed task stays completed when its point becomes obsolete again.
CreateEmbeddingCleanupTask(status) == IF status = "completed" THEN "completed" ELSE "pending"

ListPendingEmbeddingCleanupTasks == {p \in Points : task[p] \in {"pending", "failed"}}

\* Written for the row's identifier only: the content may be another by now.
MarkPaperChunkEmbeddingIndexing(r, t) == [r EXCEPT !.status = "indexing", !.point = t.content]

\* The WHERE clause: the row is there and names the job's point.
CompletePaperChunkEmbedding(t) == Found(t) /\ row[t.slot].point = t.content

UpdatePaperChunkEmbeddingStatus(r, status) == [r EXCEPT !.status = status]

\* currentChunkEmbedding, currentEmbedding: nothing is left to embed.
Current(r) == r.status = "completed" /\ r.point # None

-------------------------------------------------------------------------------
(* Workers *)

\* pc: the next call.  seen: the rows read at the beginning.  want: the content
\* wanted in each slot.  todo: the chunks to embed.  list: the points to look
\* after, to clean up or to reset.  job: the PDF job whose embeddings these are.
Idle == [op |-> "none", pc |-> "idle", seen |-> [s \in Slots |-> NoRow],
         want |-> [s \in Slots |-> None], todo |-> {}, list |-> {}, job |-> 0]

Do(w, r) == work' = [work EXCEPT ![w] = r]
Goto(w, pc) == Do(w, [work[w] EXCEPT !.pc = pc])

Fault == faults < MaxFaults /\ faults' = faults + 1

\* Others embed slot s and have marked its row: their point is still to come.
InFlight(w, s) == \E v \in Workers \ {w} :
                    work[v].pc \in {"store", "complete"} /\ \E t \in work[v].todo : t.slot = s

\* An operation begins when the server has started.
Begin(w, op, pc, want) ==
  /\ work[w].pc = "idle" /\ ~booting
  /\ starts < MaxStarts /\ starts' = starts + 1
  /\ Do(w, [Idle EXCEPT !.op = op, !.pc = pc, !.seen = row, !.want = want, !.job = starts + 1])
  /\ UNCHANGED <<database, points, jobs, booting, faults, crashes, outOfOrder>>

Init ==
  /\ row = [s \in Slots |-> NoRow]
  /\ points = {}
  /\ task = [p \in Points |-> "none"]
  /\ jobs = [n \in 1 .. MaxStarts |-> {}]
  /\ work = [w \in Workers |-> Idle]
  /\ booting = FALSE
  /\ serial = 0
  /\ starts = 0 /\ faults = 0 /\ crashes = 0
  /\ outOfOrder = {}

-------------------------------------------------------------------------------
(* handlePDFDownload *)

\* Download, parse, record the document, read the chunks there are.
StartPDF(w) ==
  \E d \in Documents :
    Begin(w, "pdf", "persist", [s \in Slots |-> IF s \in PdfSlots THEN d[s] ELSE None])

\* Faulty Obsolete: a chunk that disappears with a shorter document is forgotten.
ObsoleteIfReplaced(k) ==
  {s \in PdfSlots : k.want[s] # None /\ k.seen[s].point # None /\ k.want[s] # k.seen[s].content}

\* Slots whose point, as read before the transaction, is to be cleaned up.
Obsolete(k) == {s \in PdfSlots : k.seen[s].point # None /\ k.want[s] # k.seen[s].content}

\* Slots whose stored content the transaction changes.
Changed(k) == {s \in PdfSlots : row[s] # NoRow /\ k.want[s] # row[s].content}

\* The transaction: tasks for obsolete points, upserts, deletions.
Replace(w) ==
  LET k == work[w] IN
  /\ task' = [p \in Points |->
       IF \E s \in Obsolete(k) : p = <<s, k.seen[s].point>>
         THEN CreateEmbeddingCleanupTask(task[p]) ELSE task[p]]
  /\ row' = [s \in Slots |-> IF s \notin PdfSlots THEN row[s]
                            ELSE IF k.want[s] = None THEN NoRow
                            ELSE UpsertPaperChunk(row[s], serial + 1, k.want[s])]
  /\ serial' = IF \E s \in PdfSlots : row[s] = NoRow /\ k.want[s] # None THEN serial + 1 ELSE serial
  /\ outOfOrder' = outOfOrder
       \cup {s \in Changed(k) : k.seen[s] # row[s] \/ InFlight(w, s)}
       \cup {s \in PdfSlots : /\ k.want[s] # None /\ k.want[s] # row[s].content
                              /\ task[<<s, k.want[s]>>] # "none"}

\* handlePDFDownload goes on with the rows the transaction returned.
PersistChunks(w) ==
  LET k == work[w] IN
  /\ k.op = "pdf" /\ k.pc = "persist"
  /\ Replace(w)
  /\ LET todo == {TargetOf(s, row'[s]) : s \in {q \in PdfSlots : row'[q] # NoRow /\ ~Current(row'[q])}}
     IN \/ Do(w, IF todo = {} THEN Idle
                                       ELSE [Idle EXCEPT !.op = "pdf", !.pc = "submit",
                                                         !.todo = todo, !.job = k.job])
           /\ UNCHANGED faults
        \/ Fault /\ Do(w, Idle)
  /\ UNCHANGED <<points, jobs, booting, starts, crashes>>

\* SubmitEmbeddings, with all chunks in one batch.  It fails when the indexing
\* batch is gone, as after a restart.
SubmitEmbeddings(w) ==
  /\ work[w].pc = "submit"
  /\ jobs' \in {jobs, [jobs EXCEPT ![work[w].job] = work[w].todo]}
  /\ Do(w, Idle)
  /\ UNCHANGED <<database, points, booting, bounds, outOfOrder>>

-------------------------------------------------------------------------------
(* embedChunks, as a job and inside Ensure *)

TakeJob(w) ==
  /\ work[w].pc = "idle" /\ ~booting
  /\ \E n \in 1 .. MaxStarts :
       /\ jobs[n] # {} /\ \A v \in Workers : work[v].op = "job" => work[v].job # n
       /\ Do(w, [Idle EXCEPT !.op = "job", !.pc = "mark", !.todo = jobs[n], !.job = n])
  /\ UNCHANGED <<database, points, jobs, booting, bounds, outOfOrder>>

\* The first transaction names the point in every row, or fails as a whole.
Mark(w) ==
  LET k == work[w] IN
  /\ k.pc = "mark" /\ \A t \in k.todo : Found(t)
  /\ row' = [s \in Slots |->
       IF \E t \in k.todo : t.slot = s
         THEN MarkPaperChunkEmbeddingIndexing(row[s], CHOOSE t \in k.todo : t.slot = s)
         ELSE row[s]]
  /\ outOfOrder' = outOfOrder \cup {t.slot : t \in {u \in k.todo : row[u.slot].content # u.content}}
  /\ Goto(w, "store")
  /\ UNCHANGED <<points, task, serial, jobs, booting, bounds>>

\* Faulty Store: the upsert is not waited for, and is lost.
StoreUnapplied(w) ==
  /\ work[w].pc = "store"
  /\ Goto(w, "complete")
  /\ UNCHANGED <<database, points, jobs, booting, bounds, outOfOrder>>

\* StoreEmbeddings, with Wait.
Store(w) ==
  /\ work[w].pc = "store"
  /\ points' = points \cup {PointOf(t) : t \in work[w].todo}
  /\ Goto(w, "complete")
  /\ UNCHANGED <<database, jobs, booting, bounds, outOfOrder>>

\* The second transaction.
Complete(w) ==
  LET k == work[w] IN
  /\ k.pc = "complete" /\ \A t \in k.todo : CompletePaperChunkEmbedding(t)
  /\ row' = [s \in Slots |-> IF \E t \in k.todo : t.slot = s
                               THEN UpdatePaperChunkEmbeddingStatus(row[s], "completed")
                               ELSE row[s]]
  /\ Goto(w, "list")
  /\ UNCHANGED <<points, task, serial, jobs, booting, bounds, outOfOrder>>

\* What the last failure of a job leaves: the rows it carried are failed,
\* whatever they hold now, unless that cannot be recorded either.
RecordFailure(todo) ==
  row' = [s \in Slots |-> IF \E t \in todo : t.slot = s /\ Found(t)
                            THEN UpdatePaperChunkEmbeddingStatus(row[s], "failed")
                            ELSE row[s]]

\* An attempt ends with an error: the job is retried, or was at its last attempt.
Abandon(w) ==
  LET k == work[w] IN
  \/ Do(w, Idle) /\ UNCHANGED <<row, jobs>>
  \/ /\ k.op = "job" /\ Do(w, Idle)
     /\ jobs' = [jobs EXCEPT ![k.job] = {}]
     /\ RecordFailure(k.todo)

\* A row is gone, or names another point: the statement returns no row.
NoRows(w) ==
  LET k == work[w] IN
  /\ \/ k.pc = "mark" /\ \E t \in k.todo : ~Found(t)
     \/ k.pc = "complete" /\ \E t \in k.todo : ~CompletePaperChunkEmbedding(t)
  /\ Abandon(w)
  /\ UNCHANGED <<points, task, serial, booting, bounds, outOfOrder>>

\* A call fails, or its answer is lost; a timeout is one of these.
CallFails(w) ==
  LET k == work[w] IN
  /\ k.pc \in {"persist", "submit", "verify", "reset", "mark", "store", "complete"}
  /\ Fault
  /\ Abandon(w)
  /\ IF k.pc = "store" THEN points' \in {points, points \cup {PointOf(t) : t \in k.todo}}
                       ELSE UNCHANGED points
  /\ UNCHANGED <<task, serial, booting, starts, crashes, outOfOrder>>

-------------------------------------------------------------------------------
(* reconcileCleanupTasks *)

ListTasks(w) ==
  /\ work[w].pc = "list"
  /\ Do(w, [work[w] EXCEPT !.pc = "delete", !.list = ListPendingEmbeddingCleanupTasks])
  /\ UNCHANGED <<database, points, jobs, booting, bounds, outOfOrder>>

\* DeletePoint, and when it fails FailEmbeddingCleanupTask.  "record" remembers
\* the point in todo's place.
DeletePoint(w) ==
  LET k == work[w] IN
  /\ k.pc = "delete"
  /\ \E p \in k.list :
       \/ /\ points' = points \ {p}
          /\ Do(w, [k EXCEPT !.pc = "record", !.todo = {p}])
          /\ UNCHANGED <<task, faults>>
       \/ /\ Fault
          /\ points' \in {points, points \ {p}}
          /\ task' = [task EXCEPT ![p] = "failed"]
          /\ Do(w, [k EXCEPT !.list = k.list \ {p}])
  /\ UNCHANGED <<row, serial, jobs, booting, starts, crashes, outOfOrder>>

\* CompleteEmbeddingCleanupTask; its error leaves the task as it was.
RecordCleanup(w) ==
  LET k == work[w] IN
  /\ k.pc = "record"
  /\ \/ task' = [p \in Points |-> IF p \in k.todo THEN "completed" ELSE task[p]]
        /\ UNCHANGED faults
     \/ Fault /\ UNCHANGED task
  /\ Do(w, [k EXCEPT !.pc = "delete", !.list = k.list \ k.todo, !.todo = {}])
  /\ UNCHANGED <<row, serial, points, jobs, booting, starts, crashes, outOfOrder>>

\* The operation returns: a job leaves the queue, the server goes on starting.
Return(w) ==
  LET k == work[w] IN
  /\ k.pc = "delete" /\ k.list = {}
  /\ Do(w, Idle)
  /\ jobs' = IF k.op = "job" THEN [jobs EXCEPT ![k.job] = {}] ELSE jobs
  /\ booting' = IF k.op = "boot" THEN FALSE ELSE booting
  /\ UNCHANGED <<database, points, bounds, outOfOrder>>

\* The cleanup of initializeServices.
Boot(w) ==
  /\ booting /\ \A v \in Workers : work[v].pc = "idle"
  /\ Do(w, [Idle EXCEPT !.op = "boot", !.pc = "list"])
  /\ UNCHANGED <<database, points, jobs, booting, bounds, outOfOrder>>

-------------------------------------------------------------------------------
(* Ensure and isFullyIndexed *)

\* Ensure reads the chunks of a paper with abstract c.
StartEnsure(w) ==
  \E c \in Abstracts :
    Begin(w, "ensure", "persist", [s \in Slots |-> IF s = Abstract THEN c ELSE None])

\* Its transaction replaces the abstract only.
PersistAbstract(w) ==
  LET k == work[w]
      old == k.seen[Abstract]
      c   == k.want[Abstract]
      p   == <<Abstract, old.point>>
  IN
  /\ k.op = "ensure" /\ k.pc = "persist"
  /\ row' = [row EXCEPT ![Abstract] = UpsertPaperChunk(row[Abstract], serial + 1, c)]
  /\ serial' = IF row[Abstract] = NoRow THEN serial + 1 ELSE serial
  /\ task' = IF old.point # None /\ old.content # c
               THEN [task EXCEPT ![p] = CreateEmbeddingCleanupTask(@)] ELSE task
  /\ outOfOrder' = IF /\ row[Abstract].content # c
                      /\ \/ old # row[Abstract] \/ InFlight(w, Abstract)
                         \/ task[<<Abstract, c>>] # "none"
                     THEN outOfOrder \cup {Abstract} ELSE outOfOrder
  /\ \/ Do(w, [k EXCEPT !.pc = IF Current(row'[Abstract]) THEN "verify" ELSE "mark",
                        !.seen = [Idle.seen EXCEPT ![Abstract] = row'[Abstract]],
                        !.todo = {TargetOf(Abstract, row'[Abstract])}])
        /\ UNCHANGED faults
     \/ Fault /\ Do(w, Idle)
  /\ UNCHANGED <<points, jobs, booting, starts, crashes>>

\* isFullyIndexed reads the chunks and goes on when all are embedded.
StartCheck(w) ==
  /\ \E s \in Slots : row[s] # NoRow
  /\ \A s \in Slots : row[s] # NoRow => Current(row[s])
  /\ Begin(w, "check", "verify", [s \in Slots |-> None])

\* ExistingPoints: which of the points that the rows name are missing.
Verify(w) ==
  LET k == work[w]
      slots == IF k.op = "ensure" THEN {Abstract} ELSE Slots
      missing == {s \in slots : k.seen[s].point # None /\ <<s, k.seen[s].point>> \notin points}
  IN
  /\ k.pc = "verify"
  /\ Do(w, IF missing # {} THEN [k EXCEPT !.pc = "reset", !.list = missing]
           ELSE IF k.op = "ensure" THEN [k EXCEPT !.pc = "list", !.todo = {}] ELSE Idle)
  /\ UNCHANGED <<database, points, jobs, booting, bounds, outOfOrder>>

\* The row of a missing point is pending again.  Ensure embeds it itself, after
\* isFullyIndexed a PDF job does.
Reset(w) ==
  LET k == work[w] IN
  /\ k.pc = "reset"
  /\ \E s \in k.list :
       /\ row[s].id = k.seen[s].id
       /\ row' = [row EXCEPT ![s] = UpdatePaperChunkEmbeddingStatus(@, "pending")]
       /\ Do(w, IF k.op = "ensure" THEN [k EXCEPT !.pc = "mark", !.list = {}]
                ELSE IF k.list # {s} THEN [k EXCEPT !.list = @ \ {s}] ELSE Idle)
  /\ UNCHANGED <<points, task, serial, jobs, booting, bounds, outOfOrder>>

\* The row to reset is gone: isFullyIndexed returns the error.
ResetMisses(w) ==
  /\ work[w].pc = "reset"
  /\ \E s \in work[w].list : row[s].id # work[w].seen[s].id
  /\ Do(w, Idle)
  /\ UNCHANGED <<database, points, jobs, booting, bounds, outOfOrder>>

-------------------------------------------------------------------------------
Crash ==
  /\ crashes < MaxCrashes /\ crashes' = crashes + 1
  /\ work' = [w \in Workers |-> Idle]
  /\ booting' = TRUE
  /\ UNCHANGED <<database, points, jobs, starts, faults, outOfOrder>>

Embed(w) == Mark(w) \/ Store(w) \/ Complete(w) \/ NoRows(w) \/ CallFails(w)
Clean(w) == ListTasks(w) \/ DeletePoint(w) \/ RecordCleanup(w) \/ Return(w) \/ Boot(w)
Index(w) == StartPDF(w) \/ PersistChunks(w) \/ SubmitEmbeddings(w) \/ TakeJob(w)
Check(w) == StartEnsure(w) \/ PersistAbstract(w) \/ StartCheck(w) \/ Verify(w) \/ Reset(w)
              \/ ResetMisses(w)

Next == Crash \/ \E w \in Workers : Embed(w) \/ Clean(w) \/ Index(w) \/ Check(w)

Spec == Init /\ [][Next]_vars

-------------------------------------------------------------------------------
(* Properties *)

TypeOK ==
  /\ row \in [Slots -> Row]
  /\ points \subseteq Points
  /\ task \in [Points -> {"none", "pending", "failed", "completed"}]
  /\ \A n \in 1 .. MaxStarts : jobs[n] \subseteq Target
  /\ \A w \in Workers : work[w].pc \in {"idle", "persist", "submit", "verify", "reset", "mark",
                                        "store", "complete", "list", "delete", "record"}
  /\ booting \in BOOLEAN
  /\ outOfOrder \subseteq Slots

\* A row that says "completed" names a point that was stored before it said so:
\* through crashes, lost answers, retries, late jobs and replaced text, that
\* point can be missing only because a cleanup task was created for it
\* (embedChunks, Ensure).  The rows are consistent (TypeOK).
CompletedWasStored ==
  /\ TypeOK
  /\ \A s \in Slots : row[s].status = "completed" =>
       /\ row[s].point # None
       /\ <<s, row[s].point>> \in points \/ task[<<s, row[s].point>>] # "none"

\* Unless a job came late or a text came back, a completed row has the point of
\* its own text, and no cleanup has removed it, whatever crashed or failed
\* (UpsertPaperChunk, CompletePaperChunkEmbedding, reconcileCleanupTasks).
CompletedHasOwnPoint ==
  \A s \in Slots \ outOfOrder : row[s].status = "completed" =>
    row[s].point = row[s].content /\ <<s, row[s].content>> \in points

\* Unless a job came late or a text came back, every point is named by its row
\* or has a cleanup task that is still to run: a crash, a lost answer or a
\* shorter document leaves no vector that searches would return for ever.
NoOrphan ==
  \A p \in Points : p \in points /\ p[1] \notin outOfOrder =>
    row[p[1]].point = p[2] \/ task[p] \in {"pending", "failed"}

\* abstractindex/service.go:39 "Ensure makes every abstract-bearing paper
\* queryable in the active embedding collection": when it returns, the
\* abstract's point is there.
EnsureMakesQueryable ==
  \A w \in Workers :
    work[w].op = "ensure" /\ work[w].pc = "delete" /\ work[w].list = {} =>
      <<Abstract, work[w].want[Abstract]>> \in points
===============================================================================
