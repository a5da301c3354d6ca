------------------------- MODULE ChunkEmbeddingProofs -------------------------
(***************************************************************************)
(* Proofs about ChunkEmbedding for any workers, texts, documents, failures *)
(* and crashes: a completed row's point was stored, and, unless a job came *)
(* late or a text came back, it is the point of the row's own text and no  *)
(* other point is left without a cleanup task that is still to run.        *)
(*                                                                         *)
(* The argument: a point is deleted only for a task, and a task never goes *)
(* away; so what a worker has stored is there, or has a task, when it      *)
(* writes "completed".  While a slot is in order, its row's text has no    *)
(* task and is the text of every worker that has marked the row.           *)
(***************************************************************************)
EXTENDS ChunkEmbedding, TLAPS

-------------------------------------------------------------------------------
(* The invariant *)

Stored == [id : Nat \ {0}, content : Contents,
           status : {"pending", "indexing", "completed", "failed"},
           point : Contents \cup {None}]
Rows   == Stored \cup {NoRow}

PCs  == {"idle", "persist", "submit", "verify", "reset", "mark", "store", "complete", "list",
         "delete", "record"}
Work == [op : {"none", "pdf", "job", "ensure", "check", "boot"}, pc : PCs,
         seen : [Slots -> Rows], want : [Slots -> Contents \cup {None}],
         todo : SUBSET (Target \cup Points), list : SUBSET (Points \cup Slots), job : Nat]

Types ==
  /\ row \in [Slots -> Rows]
  /\ points \subseteq Points
  /\ task \in [Points -> {"none", "pending", "failed", "completed"}]
  /\ jobs \in [1 .. MaxStarts -> SUBSET Target]
  /\ work \in [Workers -> Work]
  /\ booting \in BOOLEAN /\ serial \in Nat /\ starts \in Nat /\ outOfOrder \subseteq Slots

\* Where todo holds chunks, and where list holds points.
TargetPCs == {"submit", "verify", "reset", "mark", "store", "complete"}
ListPCs   == {"delete", "record"}

\* What is stored stays, or a task says that it went.
Kept(p) == p \in points \/ task[p] # "none"

\* What a worker may rely on where it stands.
Fits(k) ==
  /\ k.pc \in TargetPCs => k.todo \subseteq Target
  /\ k.pc = "complete" => \A t \in k.todo : Kept(PointOf(t))
  /\ k.pc \in ListPCs => k.list \subseteq {p \in Points : task[p] # "none"}
  /\ k.pc = "record" => k.todo \subseteq k.list
  /\ k.pc = "reset" => k.list \subseteq Slots /\ \A s \in k.list : k.seen[s].id # 0
  /\ k.pc = "persist" /\ k.op = "ensure" => k.want[Abstract] \in Contents

CompletedKept ==
  \A s \in Slots : row[s].status = "completed" => row[s].point # None /\ Kept(<<s, row[s].point>>)

ChunkInv == Types /\ CompletedKept /\ \A w \in Workers : Fits(work[w])

-------------------------------------------------------------------------------
(* The invariant of slots in order *)

RowInOrder(s) ==
  /\ row[s].point \in {None, row[s].content}
  /\ row[s] # NoRow => task[<<s, row[s].content>>] = "none"
  /\ \A c \in Contents :
       <<s, c>> \in points => row[s].point = c \/ task[<<s, c>>] \in {"pending", "failed"}

\* The rows a transaction is computed from, the chunks marked, the points deleted.
WorkInOrder(k, s) ==
  /\ k.pc = "persist" => k.seen[s].point \in {None, k.seen[s].content}
  /\ k.pc \in {"store", "complete"} =>
       \A t \in k.todo : t.slot = s => row[s].content = t.content /\ row[s].point = t.content
  /\ k.pc = "record" => \A c \in Contents : <<s, c>> \in k.todo => <<s, c>> \notin points

OrderInv ==
  \A s \in Slots \ outOfOrder : RowInOrder(s) /\ \A w \in Workers : WorkInOrder(work[w], s)

-------------------------------------------------------------------------------
(* Rows and workers *)

LEMMA SlotFacts ==
  /\ Abstract \in Slots /\ PdfSlots \subseteq Slots /\ Abstract \notin PdfSlots
  /\ Abstracts \subseteq Contents /\ None \notin Contents
  /\ \A d \in Documents, s \in PdfSlots : d[s] \in Contents \cup {None}
  /\ \A s \in Slots : s \in Nat /\ (s \notin PdfSlots => s = Abstract)
  BY SlotsAssumption DEF Slots, Abstract

LEMMA RowParts ==
  ASSUME NEW r \in Rows
  PROVE  /\ r.id \in Nat /\ r.content \in Contents \cup {None} /\ r.point \in Contents \cup {None}
         /\ r # NoRow => r \in Stored /\ r.content \in Contents /\ r.id # 0
         /\ r.id # 0 => r # NoRow
         /\ r.point # None => r # NoRow
         /\ r.status = "completed" => r # NoRow
         /\ r.content # None => r # NoRow
<1>1. CASE r = NoRow
  BY <1>1 DEF NoRow
<1>2. CASE r \in Stored
  BY <1>2, SlotFacts DEF Stored, NoRow
<1> QED
  BY <1>1, <1>2 DEF Rows

LEMMA UpsertRows ==
  ASSUME NEW r \in Rows, NEW id \in Nat \ {0}, NEW c \in Contents
  PROVE  /\ UpsertPaperChunk(r, id, c) \in Stored
         /\ UpsertPaperChunk(r, id, c) # NoRow
         /\ UpsertPaperChunk(r, id, c).content = c
         /\ r.content = c => UpsertPaperChunk(r, id, c) = r
         /\ r.content # c => /\ UpsertPaperChunk(r, id, c).point = None
                             /\ UpsertPaperChunk(r, id, c).status = "pending"
<1> DEFINE u == UpsertPaperChunk(r, id, c)
<1>1. CASE r = NoRow
  BY <1>1, SlotFacts DEF UpsertPaperChunk, NoRow, Stored
<1>2. CASE r # NoRow /\ r.content = c
  BY <1>2, RowParts DEF UpsertPaperChunk
<1>3. CASE r # NoRow /\ r.content # c
  <2>1. r \in Stored
    BY <1>3, RowParts
  <2>2. u = [r EXCEPT !.content = c, !.status = "pending", !.point = None]
    BY <1>3 DEF UpsertPaperChunk
  <2>3. u \in Stored /\ u.content = c /\ u.point = None /\ u.status = "pending"
    BY <2>1, <2>2 DEF Stored
  <2>4. u # NoRow
    BY <2>3, SlotFacts DEF NoRow
  <2> QED
    BY <1>3, <2>3, <2>4
<1> QED
  BY <1>1, <1>2, <1>3

LEMMA StatusRows ==
  ASSUME NEW r \in Rows, r # NoRow, NEW status \in {"pending", "indexing", "completed", "failed"}
  PROVE  LET u == UpdatePaperChunkEmbeddingStatus(r, status) IN
         u \in Rows /\ u # NoRow /\ u.content = r.content /\ u.point = r.point /\ u.status = status
<1>1. r \in Stored
  BY RowParts
<1> DEFINE u == UpdatePaperChunkEmbeddingStatus(r, status)
<1>2. u \in Stored /\ u.content = r.content /\ u.point = r.point /\ u.status = status
  BY <1>1 DEF Stored, UpdatePaperChunkEmbeddingStatus
<1>3. u # NoRow
  BY <1>2 DEF NoRow
<1> QED
  BY <1>2, <1>3 DEF Rows

LEMMA MarkRows ==
  ASSUME NEW r \in Rows, r # NoRow, NEW t \in Target
  PROVE  LET u == MarkPaperChunkEmbeddingIndexing(r, t) IN
         /\ u \in Rows /\ u # NoRow /\ u.content = r.content
         /\ u.point = t.content /\ u.status = "indexing"
<1>1. r \in Stored
  BY RowParts
<1> DEFINE u == MarkPaperChunkEmbeddingIndexing(r, t)
<1>2. u \in Stored /\ u.content = r.content /\ u.point = t.content /\ u.status = "indexing"
  BY <1>1 DEF Stored, MarkPaperChunkEmbeddingIndexing, Target
<1>3. u # NoRow
  BY <1>2 DEF NoRow
<1> QED
  BY <1>2, <1>3 DEF Rows

LEMMA TargetRows ==
  ASSUME NEW s \in Slots, NEW r \in Rows, r # NoRow
  PROVE  TargetOf(s, r) \in Target
  BY RowParts DEF TargetOf, Target

LEMMA TargetParts ==
  ASSUME NEW t \in Target
  PROVE  t.slot \in Slots /\ t.content \in Contents /\ PointOf(t) \in Points
         /\ PointOf(t) = <<t.slot, t.content>>
  BY DEF Target, PointOf, Points

LEMMA IdleWork == Idle \in Work /\ Idle.pc = "idle" /\ Idle.todo = {} /\ Idle.list = {}
<1>1. "idle" \in PCs /\ NoRow \in Rows
  BY DEF PCs, Rows
<1> QED
  BY <1>1 DEF Idle, Work

LEMMA WorkParts ==
  ASSUME NEW k \in Work
  PROVE  /\ k.pc \in PCs /\ k.seen \in [Slots -> Rows] /\ k.want \in [Slots -> Contents \cup {None}]
         /\ k.todo \subseteq Target \cup Points /\ k.list \subseteq Points \cup Slots /\ k.job \in Nat
  BY DEF Work

\* The worker that moves, and the others.
LEMMA Moved ==
  ASSUME Types, NEW w \in Workers, NEW k \in Work, Do(w, k)
  PROVE  work' \in [Workers -> Work] /\ work'[w] = k /\ \A v \in Workers \ {w} : work'[v] = work[v]
  BY DEF Types, Do

-------------------------------------------------------------------------------
(* What a step keeps *)

KeptStep == \A p \in Points : (Kept(p) => Kept(p)') /\ (task[p] # "none" => task'[p] # "none")

LEMMA FitsKept ==
  ASSUME NEW k \in Work, Fits(k), KeptStep
  PROVE  Fits(k)'
<1>1. k.pc = "complete" => \A t \in k.todo : Kept(PointOf(t))'
  BY TargetParts DEF Fits, KeptStep, TargetPCs
<1>2. k.pc \in ListPCs => k.list \subseteq {p \in Points : task'[p] # "none"}
  BY DEF Fits, KeptStep
<1> QED
  BY <1>1, <1>2 DEF Fits

LEMMA AllFit ==
  ASSUME ChunkInv, NEW w \in Workers, NEW k \in Work, Do(w, k), Fits(k)', KeptStep
  PROVE  \A v \in Workers : Fits(work[v])'
<1> TAKE v \in Workers
<1>1. CASE v = w
  <2>1. work'[v] = k
    BY <1>1, Moved DEF ChunkInv
  <2> QED
    BY <2>1 DEF Fits
<1>2. CASE v # w
  <2>1. work'[v] = work[v]
    BY <1>2, Moved DEF ChunkInv
  <2>2. PICK m \in Work : m = work[v]
    BY DEF ChunkInv, Types
  <2>3. Fits(m)
    BY <2>2 DEF ChunkInv
  <2>4. Fits(m)'
    BY <2>3, FitsKept
  <2> QED
    BY <2>1, <2>2, <2>4 DEF Fits
<1> QED
  BY <1>1, <1>2

\* Rows that keep text and point.
TextStep ==
  /\ row' \in [Slots -> Rows]
  /\ \A s \in Slots : /\ row'[s].content = row[s].content /\ row'[s].point = row[s].point
                      /\ row'[s] = NoRow <=> row[s] = NoRow

LEMMA NothingCompleted ==
  ASSUME ChunkInv, KeptStep,
         \A s \in Slots : row'[s].status = "completed" =>
                          row[s].status = "completed" /\ row'[s].point = row[s].point
  PROVE  CompletedKept'
<1> SUFFICES ASSUME NEW s \in Slots, row'[s].status = "completed"
             PROVE  row'[s].point # None /\ (<<s, row'[s].point>> \in points' \/ task'[<<s, row'[s].point>>] # "none")
  BY DEF CompletedKept, Kept
<1>1. row[s].point # None /\ Kept(<<s, row[s].point>>) /\ row'[s].point = row[s].point
  BY DEF ChunkInv, CompletedKept
<1>2. PICK p \in Points : p = <<s, row[s].point>>
  BY <1>1, RowParts DEF ChunkInv, Types, Points
<1>3. Kept(p)'
  BY <1>1, <1>2 DEF KeptStep
<1> QED
  BY <1>1, <1>2, <1>3 DEF Kept

LEMMA CompletedKeptStays ==
  ASSUME ChunkInv, KeptStep, TextStep,
         \A s \in Slots : row'[s].status = "completed" => row[s].status = "completed"
  PROVE  CompletedKept'
  BY NothingCompleted DEF TextStep

-------------------------------------------------------------------------------
(* Steps that move one worker only *)

\* Where a worker has neither read rows, nor marked them, nor deleted a point.
CalmPCs == {"idle", "submit", "verify", "reset", "mark", "list", "delete"}

LEMMA IdleFits == Fits(Idle) /\ Fits(Idle)'
  BY IdleWork DEF Fits, TargetPCs, ListPCs

LEMMA BeginMoves ==
  ASSUME ChunkInv, NEW w \in Workers,
         NEW op \in {"pdf", "ensure", "check"}, NEW pc \in {"persist", "verify"},
         NEW want \in [Slots -> Contents \cup {None}], op = "ensure" => want[Abstract] \in Contents,
         Begin(w, op, pc, want)
  PROVE  \E k \in Work : Do(w, k) /\ Fits(k) /\ k.pc = pc /\ k.seen = row
<1> DEFINE k == [Idle EXCEPT !.op = op, !.pc = pc, !.seen = row, !.want = want, !.job = starts + 1]
<1>1. starts + 1 \in Nat /\ row \in [Slots -> Rows]
  BY DEF ChunkInv, Types
<1>2. pc \in PCs /\ op \in {"none", "pdf", "job", "ensure", "check", "boot"}
  BY DEF PCs
<1>3. k \in Work /\ k.pc = pc /\ k.op = op /\ k.seen = row /\ k.want = want /\ k.todo = {} /\ k.list = {}
  BY <1>1, <1>2, IdleWork DEF Work
<1>4. Do(w, k)
  BY DEF Begin
<1> HIDE DEF k
<1>5. Fits(k)
  BY <1>3 DEF Fits, TargetPCs, ListPCs
<1> QED
  BY <1>3, <1>4, <1>5

LEMMA StartMoves ==
  ASSUME ChunkInv, NEW w \in Workers, StartPDF(w) \/ StartEnsure(w) \/ StartCheck(w)
  PROVE  \E k \in Work : Do(w, k) /\ Fits(k) /\ k.pc \in {"persist", "verify"} /\ k.seen = row
<1>1. CASE StartPDF(w)
  <2>1. PICK d \in Documents :
          Begin(w, "pdf", "persist", [s \in Slots |-> IF s \in PdfSlots THEN d[s] ELSE None])
    BY <1>1 DEF StartPDF
  <2>2. [s \in Slots |-> IF s \in PdfSlots THEN d[s] ELSE None] \in [Slots -> Contents \cup {None}]
    BY SlotFacts
  <2> QED
    BY <2>1, <2>2, BeginMoves
<1>2. CASE StartEnsure(w)
  <2>1. PICK c \in Abstracts :
          Begin(w, "ensure", "persist", [s \in Slots |-> IF s = Abstract THEN c ELSE None])
    BY <1>2 DEF StartEnsure
  <2> DEFINE want == [s \in Slots |-> IF s = Abstract THEN c ELSE None]
  <2>2. want \in [Slots -> Contents \cup {None}] /\ want[Abstract] \in Contents
    BY SlotFacts
  <2> HIDE DEF want
  <2>3. Begin(w, "ensure", "persist", want)
    BY <2>1 DEF want
  <2> QED
    BY <2>2, <2>3, BeginMoves
<1>3. CASE StartCheck(w)
  <2> DEFINE want == [s \in Slots |-> None]
  <2>1. want \in [Slots -> Contents \cup {None}]
    OBVIOUS
  <2>2. Begin(w, "check", "verify", want)
    BY <1>3 DEF StartCheck
  <2> HIDE DEF want
  <2> QED
    BY <2>1, <2>2, BeginMoves
<1> QED
  BY <1>1, <1>2, <1>3

Quiet(w) == SubmitEmbeddings(w) \/ TakeJob(w) \/ ListTasks(w) \/ Return(w) \/ Boot(w) \/ Verify(w)
              \/ ResetMisses(w)

LEMMA TakeMoves ==
  ASSUME ChunkInv, NEW w \in Workers, TakeJob(w)
  PROVE  \E k \in Work : Do(w, k) /\ Fits(k) /\ k.pc \in CalmPCs
<1>1. PICK n \in 1 .. MaxStarts :
        Do(w, [Idle EXCEPT !.op = "job", !.pc = "mark", !.todo = jobs[n], !.job = n])
  BY DEF TakeJob
<1> DEFINE k == [Idle EXCEPT !.op = "job", !.pc = "mark", !.todo = jobs[n], !.job = n]
<1>2. jobs[n] \in SUBSET (Target \cup Points) /\ jobs[n] \subseteq Target /\ n \in Nat
  BY DEF ChunkInv, Types
<1>3. "mark" \in PCs
  BY DEF PCs
<1>4. k \in Work /\ k.pc = "mark" /\ k.todo = jobs[n]
  BY <1>2, <1>3, IdleWork DEF Work
<1> HIDE DEF k
<1>5. Fits(k) /\ k.pc \in CalmPCs
  BY <1>2, <1>4 DEF Fits, TargetPCs, ListPCs, CalmPCs
<1> QED
  BY <1>1, <1>4, <1>5 DEF k

LEMMA ListMoves ==
  ASSUME ChunkInv, NEW w \in Workers, ListTasks(w)
  PROVE  \E k \in Work : Do(w, k) /\ Fits(k) /\ k.pc \in CalmPCs
<1> DEFINE tasks == ListPendingEmbeddingCleanupTasks
           k == [work[w] EXCEPT !.pc = "delete", !.list = tasks]
<1>1. tasks \subseteq {p \in Points : task[p] # "none"}
  BY DEF ListPendingEmbeddingCleanupTasks
<1>2. tasks \in SUBSET (Points \cup Slots)
  BY <1>1
<1>3. work[w] \in Work /\ Do(w, k)
  BY DEF ChunkInv, Types, ListTasks
<1>4. "delete" \in PCs
  BY DEF PCs
<1> HIDE DEF tasks
<1>5. k \in Work /\ k.pc = "delete" /\ k.list = tasks
  BY <1>2, <1>3, <1>4 DEF Work
<1> HIDE DEF k
<1>6. Fits(k) /\ k.pc \in CalmPCs
  BY <1>1, <1>5 DEF Fits, TargetPCs, ListPCs, CalmPCs
<1> QED
  BY <1>3, <1>5, <1>6

LEMMA BootMoves ==
  ASSUME ChunkInv, NEW w \in Workers, Boot(w)
  PROVE  \E k \in Work : Do(w, k) /\ Fits(k) /\ k.pc \in CalmPCs
<1> DEFINE k == [Idle EXCEPT !.op = "boot", !.pc = "list"]
<1>1. "list" \in PCs
  BY DEF PCs
<1>2. k \in Work /\ k.pc = "list" /\ k.op = "boot" /\ Do(w, k)
  BY <1>1, IdleWork DEF Boot, Work
<1> HIDE DEF k
<1>3. Fits(k) /\ k.pc \in CalmPCs
  BY <1>2 DEF Fits, TargetPCs, ListPCs, CalmPCs
<1> QED
  BY <1>2, <1>3

LEMMA VerifyMoves ==
  ASSUME ChunkInv, NEW w \in Workers, Verify(w)
  PROVE  \E k \in Work : Do(w, k) /\ Fits(k) /\ k.pc \in CalmPCs
<1>1. PICK m \in Work : m = work[w]
  BY DEF ChunkInv, Types
<1>2. Fits(m) /\ m.todo \subseteq Target /\ m.pc = "verify"
  BY <1>1 DEF ChunkInv, Fits, TargetPCs, Verify
<1> DEFINE slots == IF m.op = "ensure" THEN {Abstract} ELSE Slots
           missing == {s \in slots : m.seen[s].point # None /\ <<s, m.seen[s].point>> \notin points}
<1>3. missing \subseteq Slots /\ \A s \in missing : m.seen[s].id # 0
  BY SlotFacts, RowParts, WorkParts
<1>4. Do(w, IF missing # {} THEN [m EXCEPT !.pc = "reset", !.list = missing]
            ELSE IF m.op = "ensure" THEN [m EXCEPT !.pc = "list", !.todo = {}] ELSE Idle)
  BY <1>1 DEF Verify
<1> HIDE DEF missing
<1>5. CASE missing # {}
  <2> DEFINE k == [m EXCEPT !.pc = "reset", !.list = missing]
  <2>1. "reset" \in PCs /\ missing \in SUBSET (Points \cup Slots)
    BY <1>3 DEF PCs
  <2>2. k \in Work /\ k.pc = "reset" /\ k.list = missing /\ k.seen = m.seen /\ k.todo = m.todo
    BY <2>1 DEF Work
  <2>3. Do(w, k)
    BY <1>4, <1>5
  <2> HIDE DEF k
  <2>4. Fits(k) /\ k.pc \in CalmPCs
    BY <1>2, <1>3, <2>2 DEF Fits, TargetPCs, ListPCs, CalmPCs
  <2> QED
    BY <2>2, <2>3, <2>4
<1>6. CASE missing = {} /\ m.op = "ensure"
  <2> DEFINE k == [m EXCEPT !.pc = "list", !.todo = {}]
  <2>1. "list" \in PCs
    BY DEF PCs
  <2>2. k \in Work /\ k.pc = "list"
    BY <2>1 DEF Work
  <2>3. Do(w, k)
    BY <1>4, <1>6
  <2> HIDE DEF k
  <2>4. Fits(k) /\ k.pc \in CalmPCs
    BY <2>2 DEF Fits, TargetPCs, ListPCs, CalmPCs
  <2> QED
    BY <2>2, <2>3, <2>4
<1>7. CASE missing = {} /\ m.op # "ensure"
  <2>1. Do(w, Idle)
    BY <1>4, <1>7
  <2> QED
    BY <2>1, IdleWork, IdleFits DEF CalmPCs
<1> QED
  BY <1>5, <1>6, <1>7

LEMMA QuietMoves ==
  ASSUME ChunkInv, NEW w \in Workers, Quiet(w)
  PROVE  \E k \in Work : Do(w, k) /\ Fits(k) /\ k.pc \in CalmPCs
<1>1. CASE SubmitEmbeddings(w) \/ Return(w) \/ ResetMisses(w)
  <2>1. Do(w, Idle)
    BY <1>1 DEF SubmitEmbeddings, Return, ResetMisses
  <2> QED
    BY <2>1, IdleWork, IdleFits DEF CalmPCs
<1> QED
  BY <1>1, TakeMoves, ListMoves, BootMoves, VerifyMoves DEF Quiet

\* The queue, the counters and the flag of such a step.
LEMMA QuietFrame ==
  ASSUME ChunkInv, NEW w \in Workers,
         Quiet(w) \/ StartPDF(w) \/ StartEnsure(w) \/ StartCheck(w)
  PROVE  /\ UNCHANGED <<row, points, task, serial, outOfOrder>>
         /\ jobs' \in [1 .. MaxStarts -> SUBSET Target] /\ booting' \in BOOLEAN /\ starts' \in Nat
<1> USE DEF database, bounds
<1>1. CASE StartPDF(w) \/ StartEnsure(w) \/ StartCheck(w)
  <2> DEFINE P == starts' = starts + 1 /\ UNCHANGED <<row, points, task, serial, jobs, booting, outOfOrder>>
  <2>1. \A op, pc, want : Begin(w, op, pc, want) => P
    BY DEF Begin
  <2> HIDE DEF P
  <2>2. P
    BY <1>1, <2>1 DEF StartPDF, StartEnsure, StartCheck
  <2> QED
    BY <2>2 DEF P, ChunkInv, Types
<1>2. CASE SubmitEmbeddings(w)
  <2>1. work[w].todo \subseteq Target
    BY <1>2 DEF ChunkInv, Fits, TargetPCs, SubmitEmbeddings
  <2> QED
    BY <1>2, <2>1 DEF SubmitEmbeddings, ChunkInv, Types
<1>3. CASE Return(w)
  BY <1>3 DEF Return, ChunkInv, Types
<1>4. CASE TakeJob(w) \/ ListTasks(w) \/ Boot(w) \/ Verify(w) \/ ResetMisses(w)
  BY <1>4 DEF TakeJob, ListTasks, Boot, Verify, ResetMisses, ChunkInv, Types
<1> QED
  BY <1>1, <1>2, <1>3, <1>4 DEF Quiet

LEMMA QuietStep ==
  ASSUME ChunkInv, NEW w \in Workers,
         Quiet(w) \/ StartPDF(w) \/ StartEnsure(w) \/ StartCheck(w)
  PROVE  ChunkInv'
<1>1. PICK k \in Work : Do(w, k) /\ Fits(k)
  BY QuietMoves, StartMoves
<1>2. KeptStep /\ TextStep
  BY QuietFrame DEF KeptStep, TextStep, Kept, ChunkInv, Types
<1>3. Fits(k)'
  BY <1>1, <1>2, FitsKept
<1>4. CompletedKept'
  BY <1>2, CompletedKeptStays, QuietFrame
<1>5. Types'
  BY <1>1, Moved, QuietFrame DEF ChunkInv, Types
<1> QED
  BY <1>1, <1>2, <1>3, <1>4, <1>5, AllFit DEF ChunkInv

-------------------------------------------------------------------------------
(* Steps that change statuses or points *)

\* An abandoned attempt leaves texts and points of rows, and completes nothing.
LEMMA AbandonLeaves ==
  ASSUME ChunkInv, NEW w \in Workers, Abandon(w)
  PROVE  /\ Do(w, Idle) /\ TextStep
         /\ jobs' \in [1 .. MaxStarts -> SUBSET Target]
         /\ \A s \in Slots : row'[s].status = "completed" => row[s].status = "completed"
<1>1. row \in [Slots -> Rows] /\ jobs \in [1 .. MaxStarts -> SUBSET Target]
  BY DEF ChunkInv, Types
<1>2. CASE UNCHANGED <<row, jobs>> /\ Do(w, Idle)
  BY <1>1, <1>2 DEF TextStep
<1>3. CASE /\ Do(w, Idle) /\ jobs' = [jobs EXCEPT ![work[w].job] = {}]
           /\ RecordFailure(work[w].todo)
  <2>1. jobs' \in [1 .. MaxStarts -> SUBSET Target]
    BY <1>1, <1>3
  <2>2. \A s \in Slots :
          row'[s] = row[s] \/ (row[s] # NoRow /\ row'[s] = UpdatePaperChunkEmbeddingStatus(row[s], "failed"))
    <3> TAKE s \in Slots
    <3>1. row'[s] = IF \E t \in work[w].todo : t.slot = s /\ Found(t)
                      THEN UpdatePaperChunkEmbeddingStatus(row[s], "failed") ELSE row[s]
      BY <1>3 DEF RecordFailure
    <3>2. \A t : t.slot = s /\ Found(t) => row[s] # NoRow
      BY DEF Found
    <3>3. CASE \E t \in work[w].todo : t.slot = s /\ Found(t)
      <4>1. row[s] # NoRow
        BY <3>2, <3>3
      <4> QED
        BY <3>1, <3>3, <4>1
    <3>4. CASE ~ \E t \in work[w].todo : t.slot = s /\ Found(t)
      BY <3>1, <3>4
    <3> QED
      BY <3>3, <3>4
  <2>3. DOMAIN row' = Slots /\ row' = [s \in Slots |-> row'[s]]
    BY <1>3 DEF RecordFailure
  <2>4. \A s \in Slots : /\ row'[s] \in Rows
                         /\ row'[s].content = row[s].content /\ row'[s].point = row[s].point
                         /\ row'[s] = NoRow <=> row[s] = NoRow
                         /\ row'[s].status = "completed" => row[s].status = "completed"
    BY <1>1, <2>2, StatusRows
  <2> QED
    BY <1>3, <2>1, <2>3, <2>4 DEF TextStep
<1> QED
  BY <1>2, <1>3 DEF Abandon

LEMMA NoRowsStep ==
  ASSUME ChunkInv, NEW w \in Workers, NoRows(w)
  PROVE  ChunkInv'
<1>1. Abandon(w) /\ UNCHANGED <<points, task, serial, booting, starts, outOfOrder>>
  BY DEF NoRows, bounds
<1>2. KeptStep
  BY <1>1 DEF KeptStep, Kept
<1>3. CompletedKept'
  BY <1>1, <1>2, AbandonLeaves, CompletedKeptStays
<1>4. Types'
  BY <1>1, AbandonLeaves, IdleWork, Moved DEF ChunkInv, Types, TextStep
<1> QED
  BY <1>1, <1>2, <1>3, <1>4, AbandonLeaves, IdleWork, IdleFits, AllFit DEF ChunkInv

LEMMA CallFailsStep ==
  ASSUME ChunkInv, NEW w \in Workers, CallFails(w)
  PROVE  ChunkInv'
<1>1. Abandon(w) /\ UNCHANGED <<task, serial, booting, starts, outOfOrder>>
  BY DEF CallFails
<1>2. points \subseteq points' /\ points' \subseteq Points
  <2>1. points \subseteq Points
    BY DEF ChunkInv, Types
  <2>2. CASE work[w].pc = "store"
    <3>1. work[w].todo \subseteq Target
      BY <2>2 DEF ChunkInv, Fits, TargetPCs
    <3>2. points' \in {points, points \cup {PointOf(t) : t \in work[w].todo}}
      BY <2>2 DEF CallFails
    <3> QED
      BY <2>1, <3>1, <3>2, TargetParts
  <2>3. CASE work[w].pc # "store"
    BY <2>1, <2>3 DEF CallFails
  <2> QED
    BY <2>2, <2>3
<1>3. KeptStep
  BY <1>1, <1>2 DEF KeptStep, Kept
<1>4. CompletedKept'
  BY <1>1, <1>3, AbandonLeaves, CompletedKeptStays
<1>5. Types'
  BY <1>1, <1>2, AbandonLeaves, IdleWork, Moved DEF ChunkInv, Types, TextStep
<1> QED
  BY <1>1, <1>3, <1>4, <1>5, AbandonLeaves, IdleWork, IdleFits, AllFit DEF ChunkInv

\* A worker that keeps what it carries, and goes to a place with the same needs.
LEMMA GotoMoves ==
  ASSUME ChunkInv, NEW w \in Workers, NEW pc \in PCs, Goto(w, pc)
  PROVE  \E k \in Work : Do(w, k) /\ k.pc = pc /\ k.todo = work[w].todo /\ k.op = work[w].op
<1> DEFINE k == [work[w] EXCEPT !.pc = pc]
<1>1. work[w] \in Work /\ Do(w, k)
  BY DEF ChunkInv, Types, Goto
<1>2. k \in Work /\ k.pc = pc /\ k.todo = work[w].todo /\ k.op = work[w].op
  BY <1>1 DEF Work
<1> QED
  BY <1>1, <1>2

LEMMA StoreStep ==
  ASSUME ChunkInv, NEW w \in Workers, Store(w)
  PROVE  ChunkInv'
<1>1. /\ work[w].pc = "store" /\ points' = points \cup {PointOf(t) : t \in work[w].todo}
      /\ UNCHANGED <<row, task, serial, jobs, booting, starts, outOfOrder>>
  BY DEF Store, database, bounds
<1>2. PICK k \in Work : Do(w, k) /\ k.pc = "complete" /\ k.todo = work[w].todo
  BY GotoMoves DEF Store, PCs
<1>3. k.todo \subseteq Target
  BY <1>1, <1>2 DEF ChunkInv, Fits, TargetPCs
<1>4. points' \subseteq Points
  BY <1>1, <1>2, <1>3, TargetParts DEF ChunkInv, Types
<1>5. KeptStep /\ TextStep
  BY <1>1 DEF KeptStep, Kept, TextStep, ChunkInv, Types
<1>6. Fits(k)'
  <2>1. \A t \in k.todo : Kept(PointOf(t))'
    BY <1>1, <1>2 DEF Kept
  <2> QED
    BY <1>2, <1>3, <2>1 DEF Fits, ListPCs
<1>7. CompletedKept'
  BY <1>1, <1>5, CompletedKeptStays
<1>8. Types'
  BY <1>1, <1>2, <1>4, Moved DEF ChunkInv, Types
<1> QED
  BY <1>2, <1>5, <1>6, <1>7, <1>8, AllFit DEF ChunkInv

\* The second transaction changes statuses only.
LEMMA CompleteText ==
  ASSUME ChunkInv, NEW w \in Workers, Complete(w)
  PROVE  /\ TextStep
         /\ \A s \in Slots : row'[s] = row[s] \/ \E t \in work[w].todo :
                                                   t.slot = s /\ row[s].point = t.content
<1>1. row \in [Slots -> Rows]
  BY DEF ChunkInv, Types
<1>2. \A s \in Slots :
        \/ row'[s] = row[s]
        \/ /\ row[s] # NoRow /\ row'[s] = UpdatePaperChunkEmbeddingStatus(row[s], "completed")
           /\ \E t \in work[w].todo : t.slot = s /\ row[s].point = t.content
  <2> TAKE s \in Slots
  <2>1. row'[s] = IF \E t \in work[w].todo : t.slot = s
                    THEN UpdatePaperChunkEmbeddingStatus(row[s], "completed") ELSE row[s]
    BY DEF Complete
  <2>2. \A t \in work[w].todo : row[t.slot] # NoRow /\ row[t.slot].point = t.content
    BY DEF Complete, CompletePaperChunkEmbedding, Found
  <2> QED
    BY <2>1, <2>2
<1>3. row' = [s \in Slots |-> row'[s]]
  BY DEF Complete
<1>4. \A s \in Slots : /\ row'[s] \in Rows
                       /\ row'[s].content = row[s].content /\ row'[s].point = row[s].point
                       /\ row'[s] = NoRow <=> row[s] = NoRow
  BY <1>1, <1>2, StatusRows
<1> QED
  BY <1>2, <1>3, <1>4 DEF TextStep

LEMMA CompleteStep ==
  ASSUME ChunkInv, NEW w \in Workers, Complete(w)
  PROVE  ChunkInv'
<1>1. work[w].pc = "complete" /\ UNCHANGED <<points, task, serial, jobs, booting, starts, outOfOrder>>
  BY DEF Complete, bounds
<1>2. PICK k \in Work : Do(w, k) /\ k.pc = "list"
  BY GotoMoves DEF Complete, PCs
<1>3. KeptStep
  BY <1>1 DEF KeptStep, Kept
<1>4. Fits(k)'
  BY <1>2 DEF Fits, TargetPCs, ListPCs
<1>5. CompletedKept'
  <2> SUFFICES ASSUME NEW s \in Slots, row'[s].status = "completed"
               PROVE  row[s].point # None /\ Kept(<<s, row[s].point>>)
    BY <1>1, CompleteText DEF CompletedKept, Kept, TextStep
  <2>1. CASE row'[s] = row[s]
    BY <2>1 DEF ChunkInv, CompletedKept
  <2>2. CASE \E t \in work[w].todo : t.slot = s /\ row[s].point = t.content
    <3>1. PICK t \in work[w].todo : t.slot = s /\ row[s].point = t.content
      BY <2>2
    <3>2. t \in Target /\ Kept(PointOf(t))
      BY <1>1 DEF ChunkInv, Fits, TargetPCs
    <3> QED
      BY <3>1, <3>2, TargetParts, SlotFacts
  <2> QED
    BY <2>1, <2>2, CompleteText
<1>6. Types'
  BY <1>1, <1>2, Moved, CompleteText DEF ChunkInv, Types, TextStep
<1> QED
  BY <1>2, <1>3, <1>4, <1>5, <1>6, AllFit DEF ChunkInv

LEMMA ResetMoves ==
  ASSUME ChunkInv, NEW w \in Workers, Reset(w)
  PROVE  /\ \E k \in Work : Do(w, k) /\ Fits(k) /\ k.pc \in CalmPCs
         /\ TextStep /\ \A s \in Slots : row'[s].status = "completed" => row[s].status = "completed"
<1>1. PICK m \in Work : m = work[w]
  BY DEF ChunkInv, Types
<1>2. Fits(m) /\ m.pc = "reset"
  BY <1>1 DEF ChunkInv, Reset
<1>3. PICK s \in m.list :
        /\ row[s].id = m.seen[s].id
        /\ row' = [row EXCEPT ![s] = UpdatePaperChunkEmbeddingStatus(row[s], "pending")]
        /\ Do(w, IF m.op = "ensure" THEN [m EXCEPT !.pc = "mark", !.list = {}]
                 ELSE IF m.list # {s} THEN [m EXCEPT !.list = m.list \ {s}] ELSE Idle)
  BY <1>1 DEF Reset
<1>4. s \in Slots /\ row[s].id # 0 /\ row \in [Slots -> Rows]
  BY <1>2, <1>3 DEF Fits, ChunkInv, Types
<1>5. row[s] \in Rows /\ row[s] # NoRow
  BY <1>4, RowParts
<1>6. TextStep /\ \A q \in Slots : row'[q].status = "completed" => row[q].status = "completed"
  <2> DEFINE u == UpdatePaperChunkEmbeddingStatus(row[s], "pending")
  <2>1. /\ u \in Rows /\ u # NoRow /\ u.content = row[s].content /\ u.point = row[s].point
        /\ u.status = "pending"
    BY <1>5, StatusRows
  <2>2. row' = [row EXCEPT ![s] = u]
    BY <1>3
  <2> HIDE DEF u
  <2>3. row' \in [Slots -> Rows] /\ \A q \in Slots : row'[q] = IF q = s THEN u ELSE row[q]
    BY <1>4, <2>1, <2>2
  <2> QED
    BY <1>5, <2>1, <2>3 DEF TextStep
<1>7. \E k \in Work : Do(w, k) /\ Fits(k) /\ k.pc \in CalmPCs
  <2>1. CASE m.op = "ensure"
    <3> DEFINE k == [m EXCEPT !.pc = "mark", !.list = {}]
    <3>1. "mark" \in PCs
      BY DEF PCs
    <3>2. k \in Work /\ k.pc = "mark" /\ k.todo = m.todo
      BY <3>1 DEF Work
    <3>3. Do(w, k)
      BY <1>3, <2>1
    <3> HIDE DEF k
    <3>4. Fits(k) /\ k.pc \in CalmPCs
      BY <1>2, <3>2 DEF Fits, TargetPCs, ListPCs, CalmPCs
    <3> QED
      BY <3>2, <3>3, <3>4
  <2>2. CASE m.op # "ensure" /\ m.list # {s}
    <3> DEFINE k == [m EXCEPT !.list = m.list \ {s}]
    <3>1. k \in Work /\ k.pc = "reset" /\ k.todo = m.todo /\ k.list = m.list \ {s} /\ k.seen = m.seen
      BY <1>2 DEF Work
    <3>2. Do(w, k)
      BY <1>3, <2>2
    <3> HIDE DEF k
    <3>3. Fits(k) /\ k.pc \in CalmPCs
      BY <1>2, <3>1 DEF Fits, TargetPCs, ListPCs, CalmPCs
    <3> QED
      BY <3>1, <3>2, <3>3
  <2>3. CASE m.op # "ensure" /\ m.list = {s}
    <3>1. Do(w, Idle)
      BY <1>3, <2>3
    <3> QED
      BY <3>1, IdleWork, IdleFits DEF CalmPCs
  <2> QED
    BY <2>1, <2>2, <2>3
<1> QED
  BY <1>6, <1>7

LEMMA ResetStep ==
  ASSUME ChunkInv, NEW w \in Workers, Reset(w)
  PROVE  ChunkInv'
<1>1. UNCHANGED <<points, task, serial, jobs, booting, starts, outOfOrder>>
  BY DEF Reset, bounds
<1>2. PICK k \in Work : Do(w, k) /\ Fits(k)
  BY ResetMoves
<1>3. KeptStep
  BY <1>1 DEF KeptStep, Kept
<1>4. Fits(k)'
  BY <1>2, <1>3, FitsKept
<1>5. CompletedKept'
  BY <1>3, ResetMoves, CompletedKeptStays
<1>6. Types'
  BY <1>1, <1>2, Moved, ResetMoves DEF ChunkInv, Types, TextStep
<1> QED
  BY <1>2, <1>3, <1>4, <1>5, <1>6, AllFit DEF ChunkInv

-------------------------------------------------------------------------------
(* Cleanup *)

LEMMA DeletePointStep ==
  ASSUME ChunkInv, NEW w \in Workers, DeletePoint(w)
  PROVE  ChunkInv'
<1>1. PICK m \in Work : m = work[w]
  BY DEF ChunkInv, Types
<1>2. Fits(m) /\ m.pc = "delete" /\ m.list \subseteq {q \in Points : task[q] # "none"}
  BY <1>1 DEF ChunkInv, DeletePoint, Fits, ListPCs
<1>3. UNCHANGED <<row, serial, jobs, booting, starts, outOfOrder>>
  BY DEF DeletePoint
<1>4. PICK p \in m.list :
        \/ /\ points' = points \ {p} /\ UNCHANGED task
           /\ Do(w, [m EXCEPT !.pc = "record", !.todo = {p}])
        \/ /\ points' \in {points, points \ {p}} /\ task' = [task EXCEPT ![p] = "failed"]
           /\ Do(w, [m EXCEPT !.list = m.list \ {p}])
  BY <1>1 DEF DeletePoint
<1>5. /\ points' \subseteq points /\ points \subseteq points' \cup {p}
      /\ p \in Points /\ task[p] # "none" /\ task'[p] # "none"
      /\ task' \in [Points -> {"none", "pending", "failed", "completed"}]
      /\ \A q \in Points \ {p} : task'[q] = task[q]
  BY <1>2, <1>4 DEF ChunkInv, Types
<1>6. KeptStep /\ TextStep
  BY <1>3, <1>5 DEF KeptStep, Kept, TextStep, ChunkInv, Types
<1>7. \E k \in Work : Do(w, k) /\ Fits(k)'
  <2>1. CASE Do(w, [m EXCEPT !.pc = "record", !.todo = {p}]) /\ UNCHANGED task
    <3> DEFINE k == [m EXCEPT !.pc = "record", !.todo = {p}]
    <3>1. "record" \in PCs /\ {p} \in SUBSET (Target \cup Points)
      BY <1>5 DEF PCs
    <3>2. k \in Work /\ k.pc = "record" /\ k.todo = {p} /\ k.list = m.list
      BY <3>1 DEF Work
    <3>3. Do(w, k)
      BY <2>1
    <3> HIDE DEF k
    <3>4. Fits(k)'
      BY <1>2, <2>1, <3>2 DEF Fits, TargetPCs, ListPCs
    <3> QED
      BY <3>2, <3>3, <3>4
  <2>2. CASE Do(w, [m EXCEPT !.list = m.list \ {p}])
    <3> DEFINE k == [m EXCEPT !.list = m.list \ {p}]
    <3>1. k \in Work /\ k.pc = "delete" /\ k.list = m.list \ {p}
      BY <1>2 DEF Work
    <3>2. Do(w, k)
      BY <2>2
    <3> HIDE DEF k
    <3>3. Fits(k)'
      BY <1>2, <1>5, <3>1 DEF Fits, TargetPCs, ListPCs
    <3> QED
      BY <3>1, <3>2, <3>3
  <2> QED
    BY <1>4, <2>1, <2>2
<1>8. PICK k \in Work : Do(w, k) /\ Fits(k)'
  BY <1>7
<1>9. CompletedKept'
  BY <1>3, <1>6, CompletedKeptStays
<1>10. Types'
  BY <1>3, <1>5, <1>8, Moved DEF ChunkInv, Types
<1> QED
  BY <1>6, <1>8, <1>9, <1>10, AllFit DEF ChunkInv

\* The task of a point that was deleted is completed, or left as it was.
LEMMA RecordMoves ==
  ASSUME ChunkInv, NEW w \in Workers, RecordCleanup(w)
  PROVE  /\ \E k \in Work : Do(w, k) /\ Fits(k)' /\ k.pc = "delete"
         /\ task' \in [Points -> {"none", "pending", "failed", "completed"}]
         /\ \A p \in Points : task'[p] = task[p] \/ (p \in work[w].todo /\ task[p] # "none" /\ task'[p] = "completed")
<1>1. PICK m \in Work : m = work[w]
  BY DEF ChunkInv, Types
<1>2. Fits(m) /\ m.pc = "record" /\ m.todo \subseteq m.list /\ m.list \subseteq {q \in Points : task[q] # "none"}
  BY <1>1 DEF ChunkInv, RecordCleanup, Fits, ListPCs
<1>3. task \in [Points -> {"none", "pending", "failed", "completed"}]
  BY DEF ChunkInv, Types
<1>4. \/ task' = [p \in Points |-> IF p \in m.todo THEN "completed" ELSE task[p]]
      \/ task' = task
  BY <1>1 DEF RecordCleanup
<1>5. task' \in [Points -> {"none", "pending", "failed", "completed"}]
  BY <1>3, <1>4
<1>6. \A p \in Points : task'[p] = task[p] \/ (p \in m.todo /\ task[p] # "none" /\ task'[p] = "completed")
  BY <1>2, <1>4
<1> DEFINE k == [m EXCEPT !.pc = "delete", !.list = m.list \ m.todo, !.todo = {}]
<1>7. "delete" \in PCs
  BY DEF PCs
<1>8. k \in Work /\ k.pc = "delete" /\ k.list = m.list \ m.todo
  BY <1>7 DEF Work
<1>9. Do(w, k)
  BY <1>1 DEF RecordCleanup
<1> HIDE DEF k
<1>10. Fits(k)'
  <2>1. \A p \in Points : task[p] # "none" => task'[p] # "none"
    BY <1>6
  <2> QED
    BY <1>2, <1>8, <2>1 DEF Fits, TargetPCs, ListPCs
<1> QED
  BY <1>1, <1>5, <1>6, <1>8, <1>9, <1>10

LEMMA RecordCleanupStep ==
  ASSUME ChunkInv, NEW w \in Workers, RecordCleanup(w)
  PROVE  ChunkInv'
<1>1. UNCHANGED <<row, serial, points, jobs, booting, starts, outOfOrder>>
  BY DEF RecordCleanup
<1>2. PICK k \in Work : Do(w, k) /\ Fits(k)'
  BY RecordMoves
<1>3. KeptStep
  BY <1>1, RecordMoves DEF KeptStep, Kept
<1>4. CompletedKept'
  BY <1>1, <1>3, NothingCompleted
<1>5. Types'
  BY <1>1, <1>2, RecordMoves, Moved DEF ChunkInv, Types
<1> QED
  BY <1>2, <1>3, <1>4, <1>5, AllFit DEF ChunkInv

-------------------------------------------------------------------------------
(* Transactions that change texts or points of rows *)

LEMMA MarkRowsStep ==
  ASSUME ChunkInv, NEW w \in Workers, Mark(w)
  PROVE  /\ row' \in [Slots -> Rows]
         /\ work[w].todo \subseteq Target
         /\ \A s \in Slots :
              \/ row'[s] = row[s] /\ ~ \E t \in work[w].todo : t.slot = s
              \/ /\ row[s] # NoRow /\ row'[s] # NoRow
                 /\ row'[s].content = row[s].content /\ row'[s].status = "indexing"
                 /\ \E t \in work[w].todo : t.slot = s /\ row'[s].point = t.content
<1>1. work[w].pc = "mark" /\ work[w].todo \subseteq Target
  BY DEF ChunkInv, Fits, TargetPCs, Mark
<1>2. row \in [Slots -> Rows]
  BY DEF ChunkInv, Types
<1>3. row' = [s \in Slots |-> row'[s]]
  BY DEF Mark
<1>4. \A s \in Slots :
        /\ row'[s] \in Rows
        /\ \/ row'[s] = row[s] /\ ~ \E t \in work[w].todo : t.slot = s
           \/ /\ row[s] # NoRow /\ row'[s] # NoRow
              /\ row'[s].content = row[s].content /\ row'[s].status = "indexing"
              /\ \E t \in work[w].todo : t.slot = s /\ row'[s].point = t.content
  <2> TAKE s \in Slots
  <2>1. row'[s] = IF \E t \in work[w].todo : t.slot = s
                    THEN MarkPaperChunkEmbeddingIndexing(row[s], CHOOSE t \in work[w].todo : t.slot = s)
                    ELSE row[s]
    BY DEF Mark
  <2>2. CASE \E t \in work[w].todo : t.slot = s
    <3>1. PICK t \in work[w].todo : t.slot = s /\ t = CHOOSE u \in work[w].todo : u.slot = s
      BY <2>2
    <3>2. row[s] # NoRow
      BY <3>1 DEF Mark, Found
    <3>3. row'[s] = MarkPaperChunkEmbeddingIndexing(row[s], t)
      BY <2>1, <2>2, <3>1
    <3>4. t \in Target /\ row[s] \in Rows
      BY <1>1, <1>2
    <3>5. /\ row'[s] \in Rows /\ row'[s] # NoRow /\ row'[s].content = row[s].content
          /\ row'[s].point = t.content /\ row'[s].status = "indexing"
      BY <3>2, <3>3, <3>4, MarkRows
    <3> QED
      BY <3>1, <3>2, <3>5
  <2>3. CASE ~ \E t \in work[w].todo : t.slot = s
    BY <1>2, <2>1, <2>3
  <2> QED
    BY <2>2, <2>3
<1>5. row' \in [Slots -> Rows]
  BY <1>3, <1>4
<1> QED
  BY <1>1, <1>4, <1>5

LEMMA MarkStep ==
  ASSUME ChunkInv, NEW w \in Workers, Mark(w)
  PROVE  ChunkInv'
<1>1. UNCHANGED <<points, task, serial, jobs, booting, starts>>
  BY DEF Mark, bounds
<1>2. PICK k \in Work : Do(w, k) /\ k.pc = "store" /\ k.todo = work[w].todo
  BY GotoMoves DEF Mark, PCs
<1>3. KeptStep
  BY <1>1 DEF KeptStep, Kept
<1>4. Fits(k)'
  BY <1>2, MarkRowsStep DEF Fits, ListPCs
<1>5. CompletedKept'
  BY <1>3, MarkRowsStep, NothingCompleted
<1>6. outOfOrder' \subseteq Slots
  BY MarkRowsStep, TargetParts DEF Mark, ChunkInv, Types
<1>7. Types'
  BY <1>1, <1>2, <1>6, Moved, MarkRowsStep DEF ChunkInv, Types
<1> QED
  BY <1>2, <1>3, <1>4, <1>5, <1>7, AllFit DEF ChunkInv

LEMMA TaskCreated ==
  ASSUME NEW status \in {"none", "pending", "failed", "completed"}
  PROVE  /\ CreateEmbeddingCleanupTask(status) \in {"pending", "completed"}
         /\ status # "completed" => CreateEmbeddingCleanupTask(status) = "pending"
  BY DEF CreateEmbeddingCleanupTask

\* What the transaction of a PDF job does to rows and tasks, slot by slot.
LEMMA ReplaceEffect ==
  ASSUME ChunkInv, NEW w \in Workers, Replace(w)
  PROVE  /\ row' \in [Slots -> Rows] /\ serial' \in Nat /\ outOfOrder' \subseteq Slots
         /\ task' \in [Points -> {"none", "pending", "failed", "completed"}]
         /\ \A p \in Points : task'[p] = task[p] \/ task'[p] = CreateEmbeddingCleanupTask(task[p])
         /\ \A s \in Slots : /\ row'[s] # row[s] => row'[s].point = None /\ row'[s].status # "completed"
                             /\ row'[s].content = row[s].content => row'[s] = row[s]
                             /\ s \in PdfSlots => row'[s].content = work[w].want[s]
                             /\ s \notin PdfSlots => row'[s] = row[s]
<1>1. PICK k \in Work : k = work[w]
  BY DEF ChunkInv, Types
<1>2. /\ row \in [Slots -> Rows] /\ serial \in Nat /\ serial + 1 \in Nat \ {0} /\ outOfOrder \subseteq Slots
      /\ task \in [Points -> {"none", "pending", "failed", "completed"}]
  BY DEF ChunkInv, Types
<1>3. row' = [s \in Slots |-> IF s \notin PdfSlots THEN row[s]
                              ELSE IF k.want[s] = None THEN NoRow
                              ELSE UpsertPaperChunk(row[s], serial + 1, k.want[s])]
  BY <1>1 DEF Replace
<1>4. \A s \in Slots : /\ row'[s] \in Rows
                       /\ row'[s] # row[s] => row'[s].point = None /\ row'[s].status # "completed"
                       /\ row'[s].content = row[s].content => row'[s] = row[s]
                       /\ s \in PdfSlots => row'[s].content = k.want[s]
                       /\ s \notin PdfSlots => row'[s] = row[s]
  <2> TAKE s \in Slots
  <2>1. row[s] \in Rows /\ k.want[s] \in Contents \cup {None}
    BY <1>2, WorkParts
  <2>2. CASE s \notin PdfSlots
    BY <1>3, <2>1, <2>2
  <2>3. CASE s \in PdfSlots /\ k.want[s] = None
    <3>1. row'[s] = NoRow
      BY <1>3, <2>3
    <3>2. row[s].content = None => row[s] = NoRow
      BY <2>1, RowParts, SlotFacts
    <3> QED
      BY <2>3, <3>1, <3>2 DEF NoRow, Rows
  <2>4. CASE s \in PdfSlots /\ k.want[s] # None
    <3>1. row'[s] = UpsertPaperChunk(row[s], serial + 1, k.want[s]) /\ k.want[s] \in Contents
      BY <1>3, <2>1, <2>4
    <3> DEFINE u == UpsertPaperChunk(row[s], serial + 1, k.want[s])
    <3>2. /\ u \in Stored /\ u.content = k.want[s]
          /\ row[s].content = k.want[s] => u = row[s]
          /\ row[s].content # k.want[s] => u.point = None /\ u.status = "pending"
      BY <1>2, <2>1, <3>1, UpsertRows
    <3> HIDE DEF u
    <3> QED
      BY <2>4, <3>1, <3>2 DEF u, Rows
  <2> QED
    BY <2>2, <2>3, <2>4
<1>5. row' \in [Slots -> Rows]
  BY <1>3, <1>4
<1>6. task' = [p \in Points |-> IF \E s \in Obsolete(k) : p = <<s, k.seen[s].point>>
                                 THEN CreateEmbeddingCleanupTask(task[p]) ELSE task[p]]
  BY <1>1 DEF Replace
<1>7. \A p \in Points : task'[p] = task[p] \/ task'[p] = CreateEmbeddingCleanupTask(task[p])
  BY <1>6
<1>8. task' \in [Points -> {"none", "pending", "failed", "completed"}]
  BY <1>2, <1>6, TaskCreated
<1>9. serial' \in Nat
  BY <1>2 DEF Replace
<1>10. outOfOrder' \subseteq Slots
  <2>1. PdfSlots \subseteq Slots /\ Changed(k) \subseteq PdfSlots
    BY SlotFacts DEF Changed
  <2>2. outOfOrder' \subseteq outOfOrder \cup Changed(k) \cup PdfSlots
    BY <1>1 DEF Replace
  <2> QED
    BY <1>2, <2>1, <2>2
<1> QED
  BY <1>1, <1>4, <1>5, <1>7, <1>8, <1>9, <1>10

LEMMA ReplaceKeeps ==
  ASSUME ChunkInv, UNCHANGED points,
         \A p \in Points : task'[p] = task[p] \/ task'[p] = CreateEmbeddingCleanupTask(task[p])
  PROVE  KeptStep
<1> SUFFICES ASSUME NEW p \in Points
             PROVE  (Kept(p) => Kept(p)') /\ (task[p] # "none" => task'[p] # "none")
  BY DEF KeptStep
<1>1. task[p] \in {"none", "pending", "failed", "completed"}
  BY DEF ChunkInv, Types
<1>2. task'[p] = task[p] \/ task'[p] # "none"
  BY <1>1, TaskCreated
<1> QED
  BY <1>2 DEF Kept

LEMMA PersistMoves ==
  ASSUME ChunkInv, NEW w \in Workers, PersistChunks(w)
  PROVE  \E k \in Work : Do(w, k) /\ Fits(k)' /\ k.pc \in CalmPCs
<1> DEFINE chunks == {TargetOf(s, row'[s]) : s \in {q \in PdfSlots : row'[q] # NoRow /\ ~Current(row'[q])}}
<1>1. row' \in [Slots -> Rows]
  BY ReplaceEffect DEF PersistChunks
<1>2. chunks \subseteq Target
  BY <1>1, SlotFacts, TargetRows
<1>3. PICK T \in SUBSET Target : T = chunks
  BY <1>2
<1>4. PICK job \in Nat : job = work[w].job
  BY WorkParts DEF ChunkInv, Types
<1>5. \/ Do(w, IF T = {} THEN Idle ELSE [Idle EXCEPT !.op = "pdf", !.pc = "submit", !.todo = T, !.job = job])
      \/ Do(w, Idle)
  BY <1>3, <1>4 DEF PersistChunks
<1> HIDE DEF chunks
<1>6. CASE Do(w, Idle)
  BY <1>6, IdleWork, IdleFits DEF CalmPCs
<1>7. CASE Do(w, [Idle EXCEPT !.op = "pdf", !.pc = "submit", !.todo = T, !.job = job])
  <2> DEFINE k == [Idle EXCEPT !.op = "pdf", !.pc = "submit", !.todo = T, !.job = job]
  <2>1. "submit" \in PCs /\ T \in SUBSET (Target \cup Points)
    BY DEF PCs
  <2>2. k \in Work /\ k.pc = "submit" /\ k.todo = T
    BY <2>1, IdleWork DEF Work
  <2>3. Do(w, k)
    BY <1>7
  <2> HIDE DEF k
  <2>4. Fits(k)' /\ k.pc \in CalmPCs
    BY <2>2 DEF Fits, TargetPCs, ListPCs, CalmPCs
  <2> QED
    BY <2>2, <2>3, <2>4
<1> QED
  BY <1>5, <1>6, <1>7

LEMMA PersistChunksStep ==
  ASSUME ChunkInv, NEW w \in Workers, PersistChunks(w)
  PROVE  ChunkInv'
<1>1. Replace(w) /\ UNCHANGED <<points, jobs, booting, starts>>
  BY DEF PersistChunks
<1>2. PICK k \in Work : Do(w, k) /\ Fits(k)'
  BY PersistMoves
<1>3. KeptStep
  BY <1>1, ReplaceEffect, ReplaceKeeps
<1>4. CompletedKept'
  <2>1. \A s \in Slots : row'[s].status = "completed" => row'[s] = row[s]
    BY <1>1, ReplaceEffect
  <2> QED
    BY <1>3, <2>1, NothingCompleted
<1>5. Types'
  BY <1>1, <1>2, ReplaceEffect, Moved DEF ChunkInv, Types
<1> QED
  BY <1>2, <1>3, <1>4, <1>5, AllFit DEF ChunkInv

\* What the transaction of Ensure does, which replaces the abstract only.
LEMMA AbstractEffect ==
  ASSUME ChunkInv, NEW w \in Workers, PersistAbstract(w)
  PROVE  /\ row' \in [Slots -> Rows] /\ serial' \in Nat /\ outOfOrder' \subseteq Slots
         /\ row'[Abstract] \in Stored /\ row'[Abstract] # NoRow
         /\ task' \in [Points -> {"none", "pending", "failed", "completed"}]
         /\ \A p \in Points : task'[p] = task[p] \/ task'[p] = CreateEmbeddingCleanupTask(task[p])
         /\ \A s \in Slots : /\ row'[s] # row[s] => row'[s].point = None /\ row'[s].status # "completed"
                             /\ row'[s].content = row[s].content => row'[s] = row[s]
                             /\ s = Abstract => row'[s].content = work[w].want[s]
                             /\ s # Abstract => row'[s] = row[s]
<1>1. PICK k \in Work : k = work[w]
  BY DEF ChunkInv, Types
<1>2. /\ row \in [Slots -> Rows] /\ serial \in Nat /\ serial + 1 \in Nat \ {0} /\ outOfOrder \subseteq Slots
      /\ task \in [Points -> {"none", "pending", "failed", "completed"}]
  BY DEF ChunkInv, Types
<1>3. k.want[Abstract] \in Contents
  BY <1>1 DEF ChunkInv, Fits, PersistAbstract
<1> DEFINE u == UpsertPaperChunk(row[Abstract], serial + 1, k.want[Abstract])
<1>4. /\ u \in Stored /\ u # NoRow /\ u.content = k.want[Abstract]
      /\ row[Abstract].content = k.want[Abstract] => u = row[Abstract]
      /\ row[Abstract].content # k.want[Abstract] => u.point = None /\ u.status = "pending"
  BY <1>2, <1>3, SlotFacts, UpsertRows
<1>5. row' = [row EXCEPT ![Abstract] = u]
  BY <1>1 DEF PersistAbstract
<1> HIDE DEF u
<1>6. \A s \in Slots : row'[s] = IF s = Abstract THEN u ELSE row[s]
  BY <1>2, <1>5
<1>7. row' \in [Slots -> Rows]
  BY <1>2, <1>4, <1>5 DEF Rows
<1>8. \A s \in Slots : /\ row'[s] # row[s] => row'[s].point = None /\ row'[s].status # "completed"
                       /\ row'[s].content = row[s].content => row'[s] = row[s]
                       /\ s = Abstract => row'[s].content = k.want[s]
                       /\ s # Abstract => row'[s] = row[s]
  BY <1>4, <1>6
<1>9. \/ task' = task
      \/ \E p \in Points : task' = [task EXCEPT ![p] = CreateEmbeddingCleanupTask(task[p])]
  <2>1. CASE k.seen[Abstract].point # None /\ k.seen[Abstract].content # k.want[Abstract]
    <3>1. <<Abstract, k.seen[Abstract].point>> \in Points
      BY <2>1, SlotFacts, WorkParts, RowParts DEF Points
    <3>2. task' = [task EXCEPT ![<<Abstract, k.seen[Abstract].point>>] =
                     CreateEmbeddingCleanupTask(task[<<Abstract, k.seen[Abstract].point>>])]
      BY <1>1, <2>1 DEF PersistAbstract
    <3> QED
      BY <3>1, <3>2
  <2>2. CASE ~ (k.seen[Abstract].point # None /\ k.seen[Abstract].content # k.want[Abstract])
    BY <1>1, <2>2 DEF PersistAbstract
  <2> QED
    BY <2>1, <2>2
<1>10. /\ \A p \in Points : task'[p] = task[p] \/ task'[p] = CreateEmbeddingCleanupTask(task[p])
       /\ task' \in [Points -> {"none", "pending", "failed", "completed"}]
  <2>1. CASE task' = task
    BY <1>2, <2>1
  <2>2. ASSUME NEW p \in Points, task' = [task EXCEPT ![p] = CreateEmbeddingCleanupTask(task[p])]
        PROVE  <1>10
    <3>1. CreateEmbeddingCleanupTask(task[p]) \in {"none", "pending", "failed", "completed"}
      BY <1>2, TaskCreated
    <3> QED
      BY <1>2, <2>2, <3>1
  <2> QED
    BY <1>9, <2>1, <2>2
<1>11. outOfOrder' \subseteq Slots
  <2>1. outOfOrder' \subseteq outOfOrder \cup {Abstract}
    BY DEF PersistAbstract
  <2> QED
    BY <1>2, <2>1, SlotFacts
<1>12. serial' \in Nat
  BY <1>2 DEF PersistAbstract
<1> QED
  BY <1>1, <1>4, <1>6, <1>7, <1>8, <1>10, <1>11, <1>12, SlotFacts

LEMMA AbstractMoves ==
  ASSUME ChunkInv, NEW w \in Workers, PersistAbstract(w)
  PROVE  \E k \in Work : Do(w, k) /\ Fits(k)' /\ k.pc \in CalmPCs
<1>1. PICK m \in Work : m = work[w]
  BY DEF ChunkInv, Types
<1>2. PICK r \in Rows : r = row'[Abstract] /\ r # NoRow
  BY AbstractEffect, SlotFacts
<1>3. \/ Do(w, [m EXCEPT !.pc = IF Current(r) THEN "verify" ELSE "mark",
                        !.seen = [Idle.seen EXCEPT ![Abstract] = r],
                        !.todo = {TargetOf(Abstract, r)}])
      \/ Do(w, Idle)
  BY <1>1, <1>2 DEF PersistAbstract
<1>4. CASE Do(w, Idle)
  BY <1>4, IdleWork, IdleFits DEF CalmPCs
<1>5. CASE Do(w, [m EXCEPT !.pc = IF Current(r) THEN "verify" ELSE "mark",
                         !.seen = [Idle.seen EXCEPT ![Abstract] = r],
                         !.todo = {TargetOf(Abstract, r)}])
  <2> DEFINE pc == IF Current(r) THEN "verify" ELSE "mark"
             seen == [Idle.seen EXCEPT ![Abstract] = r]
             todo == {TargetOf(Abstract, r)}
             k == [m EXCEPT !.pc = pc, !.seen = seen, !.todo = todo]
  <2>1. pc \in {"verify", "mark"} /\ {"verify", "mark"} \subseteq PCs
    BY DEF PCs
  <2>2. seen \in [Slots -> Rows]
    BY IdleWork, WorkParts
  <2>3. todo \subseteq Target /\ todo \in SUBSET (Target \cup Points)
    BY <1>2, SlotFacts, TargetRows
  <2>4. Do(w, k)
    BY <1>5
  <2> HIDE DEF pc, seen, todo
  <2>5. k \in Work /\ k.pc = pc /\ k.todo = todo
    BY <2>1, <2>2, <2>3 DEF Work
  <2> HIDE DEF k
  <2>6. Fits(k)' /\ k.pc \in CalmPCs
    BY <2>1, <2>3, <2>5 DEF Fits, TargetPCs, ListPCs, CalmPCs
  <2> QED
    BY <2>4, <2>5, <2>6
<1> QED
  BY <1>3, <1>4, <1>5

LEMMA PersistAbstractStep ==
  ASSUME ChunkInv, NEW w \in Workers, PersistAbstract(w)
  PROVE  ChunkInv'
<1>1. UNCHANGED <<points, jobs, booting, starts>>
  BY DEF PersistAbstract
<1>2. PICK k \in Work : Do(w, k) /\ Fits(k)'
  BY AbstractMoves
<1>3. KeptStep
  BY <1>1, AbstractEffect, ReplaceKeeps
<1>4. CompletedKept'
  <2>1. \A s \in Slots : row'[s].status = "completed" => row'[s] = row[s]
    BY AbstractEffect
  <2> QED
    BY <1>3, <2>1, NothingCompleted
<1>5. Types'
  BY <1>1, <1>2, AbstractEffect, Moved DEF ChunkInv, Types
<1> QED
  BY <1>2, <1>3, <1>4, <1>5, AllFit DEF ChunkInv

LEMMA CrashStep ==
  ASSUME ChunkInv, Crash
  PROVE  ChunkInv'
<1>1. /\ work' = [w \in Workers |-> Idle] /\ booting' = TRUE
      /\ UNCHANGED <<row, points, task, serial, jobs, starts, outOfOrder>>
  BY DEF Crash, database
<1>2. Types'
  BY <1>1, IdleWork DEF ChunkInv, Types
<1>3. CompletedKept'
  BY <1>1 DEF ChunkInv, CompletedKept, Kept
<1>4. \A w \in Workers : Fits(work[w])'
  <2> TAKE w \in Workers
  <2>1. work'[w] = Idle
    BY <1>1
  <2> QED
    BY <2>1, IdleFits DEF Fits
<1> QED
  BY <1>2, <1>3, <1>4 DEF ChunkInv

-------------------------------------------------------------------------------
(* The first theorem *)

LEMMA ChunkInit == Init => ChunkInv
<1> SUFFICES ASSUME Init PROVE ChunkInv
  OBVIOUS
<1>1. NoRow \in Rows /\ NoRow.status # "completed"
  BY DEF Rows, NoRow
<1>2. Types
  BY <1>1, IdleWork DEF Init, Types
<1>3. CompletedKept
  BY <1>1 DEF Init, CompletedKept
<1>4. \A w \in Workers : Fits(work[w])
  BY IdleFits DEF Init
<1> QED
  BY <1>2, <1>3, <1>4 DEF ChunkInv

LEMMA ChunkNext == ChunkInv /\ [Next]_vars => ChunkInv'
<1> SUFFICES ASSUME ChunkInv, [Next]_vars PROVE ChunkInv'
  OBVIOUS
<1>1. CASE UNCHANGED vars
  BY <1>1 DEF vars, ChunkInv, Types, CompletedKept, Kept, Fits
<1>2. CASE Crash
  BY <1>2, CrashStep
<1>3. ASSUME NEW w \in Workers, Embed(w)
      PROVE  ChunkInv'
  BY <1>3, MarkStep, StoreStep, CompleteStep, NoRowsStep, CallFailsStep DEF Embed
<1>4. ASSUME NEW w \in Workers, Clean(w)
      PROVE  ChunkInv'
  BY <1>4, QuietStep, DeletePointStep, RecordCleanupStep DEF Clean, Quiet
<1>5. ASSUME NEW w \in Workers, Index(w)
      PROVE  ChunkInv'
  BY <1>5, QuietStep, PersistChunksStep DEF Index, Quiet
<1>6. ASSUME NEW w \in Workers, Check(w)
      PROVE  ChunkInv'
  BY <1>6, QuietStep, PersistAbstractStep, ResetStep DEF Check, Quiet
<1> QED
  BY <1>1, <1>2, <1>3, <1>4, <1>5, <1>6 DEF Next

LEMMA ChunkInvariance == Spec => []ChunkInv
  BY ChunkInit, ChunkNext, PTL DEF Spec

LEMMA ChunkTypes == ChunkInv => TypeOK
<1> SUFFICES ASSUME ChunkInv PROVE TypeOK
  OBVIOUS
<1>1. Rows \subseteq Row
  BY DEF Rows, Stored, Row, NoRow
<1>2. \A w \in Workers : work[w].pc \in PCs
  BY WorkParts DEF ChunkInv, Types
<1> QED
  BY <1>1, <1>2 DEF ChunkInv, Types, TypeOK, PCs

\* A row that says "completed" names a point that was stored before it said so, or
\* for which a cleanup task was created, whatever fails or crashes (embedChunks,
\* Ensure, reconcileCleanupTasks).
THEOREM CompletedWasStoredHolds == Spec => []CompletedWasStored
<1>1. ChunkInv => CompletedWasStored
  BY ChunkTypes DEF ChunkInv, CompletedKept, Kept, CompletedWasStored
<1> QED
  BY <1>1, ChunkInvariance, PTL

-------------------------------------------------------------------------------
(* Slots in order *)

\* In order, what is called for is the row's own text, and its point has no task.
LEMMA OwnText ==
  ASSUME ChunkInv, OrderInv, NEW s \in Slots \ outOfOrder
  PROVE  /\ RowInOrder(s) /\ row[s] \in Rows
         /\ \A c \in Contents : row[s].point = c => row[s].content = c /\ row[s] # NoRow
         /\ \A c \in Contents : row[s].content = c => task[<<s, c>>] = "none"
<1>1. RowInOrder(s) /\ row[s] \in Rows
  BY DEF OrderInv, ChunkInv, Types
<1>2. \A c \in Contents : row[s].point = c => row[s].content = c /\ row[s] # NoRow
  BY <1>1, RowParts, SlotFacts DEF RowInOrder
<1>3. \A c \in Contents : row[s].content = c => task[<<s, c>>] = "none"
  BY <1>1, RowParts, SlotFacts DEF RowInOrder
<1> QED
  BY <1>1, <1>2, <1>3

LEMMA PairIsPoint == \A s \in Slots, c \in Contents : <<s, c>> \in Points
  BY DEF Points

\* Every worker is where it was, or is w.
LEMMA AllInOrder ==
  ASSUME ChunkInv, OrderInv, NEW w \in Workers, NEW k \in Work, Do(w, k), NEW s \in Slots \ outOfOrder,
         WorkInOrder(k, s)',
         \A m \in Work : Fits(m) /\ WorkInOrder(m, s) /\ (\E v \in Workers \ {w} : m = work[v])
                          => WorkInOrder(m, s)'
  PROVE  \A v \in Workers : WorkInOrder(work[v], s)'
<1> TAKE v \in Workers
<1>1. CASE v = w
  <2>1. work'[v] = k
    BY <1>1, Moved DEF ChunkInv
  <2> QED
    BY <2>1 DEF WorkInOrder
<1>2. CASE v # w
  <2>1. work'[v] = work[v]
    BY <1>2, Moved DEF ChunkInv
  <2>2. PICK m \in Work : m = work[v]
    BY DEF ChunkInv, Types
  <2>3. Fits(m) /\ WorkInOrder(m, s)
    BY <2>2 DEF ChunkInv, OrderInv
  <2>4. WorkInOrder(m, s)'
    BY <1>2, <2>2, <2>3
  <2> QED
    BY <2>1, <2>2, <2>4 DEF WorkInOrder
<1> QED
  BY <1>1, <1>2

\* Steps that keep the texts: a new point is the row's own, and a task that there
\* was fails, or is completed when its point is gone.
LEMMA TextKeepsOrder ==
  ASSUME ChunkInv, OrderInv, TextStep, NEW s \in Slots \ outOfOrder,
         \A c \in Contents : <<s, c>> \in points' /\ <<s, c>> \notin points =>
                             row[s].point = c /\ row[s].content = c,
         \A c \in Contents : \/ task'[<<s, c>>] = task[<<s, c>>]
                             \/ /\ task[<<s, c>>] # "none"
                                /\ task'[<<s, c>>] = "failed" \/ <<s, c>> \notin points'
  PROVE  /\ RowInOrder(s)'
         /\ \A m \in Work : Fits(m) /\ WorkInOrder(m, s) => WorkInOrder(m, s)'
<1>1. /\ row'[s].content = row[s].content /\ row'[s].point = row[s].point
      /\ row'[s] = NoRow <=> row[s] = NoRow
  BY DEF TextStep
<1>2. RowInOrder(s)'
  <2>1. row'[s].point \in {None, row'[s].content}
    BY <1>1, OwnText DEF RowInOrder
  <2>2. row'[s] # NoRow => task'[<<s, row'[s].content>>] = "none"
    <3>1. row[s] # NoRow => row[s].content \in Contents
      BY OwnText, RowParts
    <3> QED
      BY <1>1, <3>1, OwnText
  <2>3. ASSUME NEW c \in Contents, <<s, c>> \in points'
        PROVE  row'[s].point = c \/ task'[<<s, c>>] \in {"pending", "failed"}
    BY <1>1, <2>3, OwnText DEF RowInOrder
  <2> QED
    BY <2>1, <2>2, <2>3 DEF RowInOrder
<1>3. ASSUME NEW m \in Work, Fits(m), WorkInOrder(m, s)
      PROVE  WorkInOrder(m, s)'
  <2>1. m.pc \in {"store", "complete"} =>
          \A t \in m.todo : t.slot = s => row'[s].content = t.content /\ row'[s].point = t.content
    BY <1>1, <1>3 DEF WorkInOrder
  <2>2. ASSUME m.pc = "record", NEW c \in Contents, <<s, c>> \in m.todo
        PROVE  <<s, c>> \notin points'
    <3>1. <<s, c>> \notin points /\ task[<<s, c>>] # "none"
      BY <1>3, <2>2 DEF WorkInOrder, Fits, ListPCs
    <3> QED
      BY <3>1, OwnText
  <2> QED
    BY <1>3, <2>1, <2>2 DEF WorkInOrder
<1> QED
  BY <1>2, <1>3

\* A step of such a worker, which ends where nothing is asked of it.
LEMMA CalmOrder ==
  ASSUME ChunkInv, OrderInv, TextStep, NEW w \in Workers, NEW k \in Work, Do(w, k),
         k.pc \in CalmPCs, UNCHANGED <<task, outOfOrder>>,
         \A s \in Slots \ outOfOrder, c \in Contents :
           <<s, c>> \in points' /\ <<s, c>> \notin points => row[s].point = c /\ row[s].content = c
  PROVE  OrderInv'
<1>1. \A s \in Slots : WorkInOrder(k, s)'
  BY DEF WorkInOrder, CalmPCs
<1>2. ASSUME NEW s \in Slots \ outOfOrder
      PROVE  RowInOrder(s)' /\ \A v \in Workers : WorkInOrder(work[v], s)'
  BY <1>1, TextKeepsOrder, AllInOrder
<1>3. outOfOrder' = outOfOrder
  OBVIOUS
<1> QED
  BY <1>2, <1>3 DEF OrderInv

LEMMA StartOrder ==
  ASSUME ChunkInv, OrderInv, NEW w \in Workers, StartPDF(w) \/ StartEnsure(w) \/ StartCheck(w)
  PROVE  OrderInv'
<1>1. PICK k \in Work : Do(w, k) /\ k.pc \in {"persist", "verify"} /\ k.seen = row
  BY StartMoves
<1>2. UNCHANGED <<row, points, task, outOfOrder>> /\ TextStep
  BY QuietFrame DEF TextStep, ChunkInv, Types
<1>3. ASSUME NEW s \in Slots \ outOfOrder
      PROVE  RowInOrder(s)' /\ \A v \in Workers : WorkInOrder(work[v], s)'
  <2>1. WorkInOrder(k, s)'
    BY <1>1, OwnText DEF WorkInOrder, RowInOrder
  <2> QED
    BY <1>1, <1>2, <2>1, TextKeepsOrder, AllInOrder
<1> QED
  BY <1>2, <1>3 DEF OrderInv

LEMMA QuietOrder ==
  ASSUME ChunkInv, OrderInv, NEW w \in Workers, Quiet(w)
  PROVE  OrderInv'
<1>1. PICK k \in Work : Do(w, k) /\ k.pc \in CalmPCs
  BY QuietMoves
<1>2. UNCHANGED <<row, points, task, outOfOrder>> /\ TextStep
  BY QuietFrame DEF TextStep, ChunkInv, Types
<1> QED
  BY <1>1, <1>2, CalmOrder

LEMMA ResetOrder ==
  ASSUME ChunkInv, OrderInv, NEW w \in Workers, Reset(w)
  PROVE  OrderInv'
<1>1. PICK k \in Work : Do(w, k) /\ k.pc \in CalmPCs
  BY ResetMoves
<1>2. UNCHANGED <<points, task, outOfOrder>> /\ TextStep
  BY ResetMoves DEF Reset
<1> QED
  BY <1>1, <1>2, CalmOrder

LEMMA CompleteOrder ==
  ASSUME ChunkInv, OrderInv, NEW w \in Workers, Complete(w)
  PROVE  OrderInv'
<1>1. PICK k \in Work : Do(w, k) /\ k.pc = "list"
  BY GotoMoves DEF Complete, PCs
<1>2. UNCHANGED <<points, task, outOfOrder>> /\ TextStep
  BY CompleteText DEF Complete
<1> QED
  BY <1>1, <1>2, CalmOrder DEF CalmPCs

LEMMA NoRowsOrder ==
  ASSUME ChunkInv, OrderInv, NEW w \in Workers, NoRows(w)
  PROVE  OrderInv'
<1>1. Abandon(w) /\ UNCHANGED <<points, task, outOfOrder>>
  BY DEF NoRows
<1> QED
  BY <1>1, AbandonLeaves, IdleWork, CalmOrder DEF CalmPCs

\* What a worker stores is, in order, the point of the row it has marked.
LEMMA StoredIsOwn ==
  ASSUME ChunkInv, OrderInv, NEW w \in Workers, work[w].pc = "store",
         points' \in {points, points \cup {PointOf(t) : t \in work[w].todo}}
  PROVE  \A s \in Slots \ outOfOrder, c \in Contents :
           <<s, c>> \in points' /\ <<s, c>> \notin points => row[s].point = c /\ row[s].content = c
<1> SUFFICES ASSUME NEW s \in Slots \ outOfOrder, NEW c \in Contents, <<s, c>> \in points', <<s, c>> \notin points
             PROVE  row[s].point = c /\ row[s].content = c
  OBVIOUS
<1>1. PICK t \in work[w].todo : <<s, c>> = PointOf(t)
  OBVIOUS
<1>2. t \in Target
  BY DEF ChunkInv, Fits, TargetPCs
<1>3. t.slot = s /\ t.content = c
  BY <1>1, <1>2, TargetParts
<1> QED
  BY <1>3 DEF OrderInv, WorkInOrder

LEMMA CallFailsOrder ==
  ASSUME ChunkInv, OrderInv, NEW w \in Workers, CallFails(w)
  PROVE  OrderInv'
<1>1. Abandon(w) /\ UNCHANGED <<task, outOfOrder>>
  BY DEF CallFails
<1>2. \A s \in Slots \ outOfOrder, c \in Contents :
        <<s, c>> \in points' /\ <<s, c>> \notin points => row[s].point = c /\ row[s].content = c
  <2>1. CASE work[w].pc = "store"
    <3>1. points' \in {points, points \cup {PointOf(t) : t \in work[w].todo}}
      BY <2>1 DEF CallFails
    <3> QED
      BY <2>1, <3>1, StoredIsOwn
  <2>2. CASE work[w].pc # "store"
    BY <2>2 DEF CallFails
  <2> QED
    BY <2>1, <2>2
<1> QED
  BY <1>1, <1>2, AbandonLeaves, IdleWork, CalmOrder DEF CalmPCs

LEMMA StoreOrder ==
  ASSUME ChunkInv, OrderInv, NEW w \in Workers, Store(w)
  PROVE  OrderInv'
<1>1. /\ work[w].pc = "store" /\ points' = points \cup {PointOf(t) : t \in work[w].todo}
      /\ UNCHANGED <<row, task, outOfOrder>>
  BY DEF Store, database
<1>2. PICK k \in Work : Do(w, k) /\ k.pc = "complete" /\ k.todo = work[w].todo
  BY GotoMoves DEF Store, PCs
<1>3. TextStep
  BY <1>1 DEF TextStep, ChunkInv, Types
<1>4. ASSUME NEW s \in Slots \ outOfOrder
      PROVE  RowInOrder(s)' /\ \A v \in Workers : WorkInOrder(work[v], s)'
  <2>1. WorkInOrder(k, s)'
    BY <1>1, <1>2 DEF OrderInv, WorkInOrder
  <2>2. \A c \in Contents :
          <<s, c>> \in points' /\ <<s, c>> \notin points => row[s].point = c /\ row[s].content = c
    BY <1>1, StoredIsOwn
  <2> QED
    BY <1>1, <1>2, <1>3, <2>1, <2>2, TextKeepsOrder, AllInOrder
<1> QED
  BY <1>1, <1>4 DEF OrderInv

LEMMA DeletePointOrder ==
  ASSUME ChunkInv, OrderInv, NEW w \in Workers, DeletePoint(w)
  PROVE  OrderInv'
<1>1. PICK m \in Work : m = work[w]
  BY DEF ChunkInv, Types
<1>2. m.pc = "delete" /\ m.list \subseteq {q \in Points : task[q] # "none"}
  BY <1>1 DEF ChunkInv, DeletePoint, Fits, ListPCs
<1>3. UNCHANGED <<row, outOfOrder>> /\ TextStep
  BY DEF DeletePoint, TextStep, ChunkInv, Types
<1>4. PICK p \in m.list :
        \/ /\ points' = points \ {p} /\ UNCHANGED task
           /\ Do(w, [m EXCEPT !.pc = "record", !.todo = {p}])
        \/ /\ points' \in {points, points \ {p}} /\ task' = [task EXCEPT ![p] = "failed"]
           /\ Do(w, [m EXCEPT !.list = m.list \ {p}])
  BY <1>1 DEF DeletePoint
<1>5. PICK k \in Work : /\ Do(w, k)
                       /\ \/ k.pc = "delete"
                          \/ k.pc = "record" /\ k.todo = {p} /\ p \notin points'
  <2>1. CASE points' = points \ {p} /\ Do(w, [m EXCEPT !.pc = "record", !.todo = {p}])
    <3> DEFINE k == [m EXCEPT !.pc = "record", !.todo = {p}]
    <3>1. "record" \in PCs /\ {p} \in SUBSET (Target \cup Points)
      BY <1>2 DEF PCs
    <3>2. k \in Work /\ k.pc = "record" /\ k.todo = {p}
      BY <3>1 DEF Work
    <3> QED
      BY <2>1, <3>2
  <2>2. CASE Do(w, [m EXCEPT !.list = m.list \ {p}])
    <3> DEFINE k == [m EXCEPT !.list = m.list \ {p}]
    <3>1. k \in Work /\ k.pc = "delete"
      BY <1>2 DEF Work
    <3> QED
      BY <2>2, <3>1
  <2> QED
    BY <1>4, <2>1, <2>2
<1>6. /\ points' \subseteq points /\ task[p] # "none"
      /\ \A q \in Points : task'[q] = task[q] \/ (task[q] # "none" /\ task'[q] = "failed")
  BY <1>2, <1>4 DEF ChunkInv, Types
<1>7. ASSUME NEW s \in Slots \ outOfOrder
      PROVE  RowInOrder(s)' /\ \A v \in Workers : WorkInOrder(work[v], s)'
  <2>1. WorkInOrder(k, s)'
    BY <1>5 DEF WorkInOrder
  <2>2. \A c \in Contents : \/ task'[<<s, c>>] = task[<<s, c>>]
                            \/ task[<<s, c>>] # "none" /\ task'[<<s, c>>] = "failed"
    BY <1>6, PairIsPoint
  <2> QED
    BY <1>3, <1>5, <1>6, <2>1, <2>2, TextKeepsOrder, AllInOrder
<1> QED
  BY <1>3, <1>7 DEF OrderInv

LEMMA RecordCleanupOrder ==
  ASSUME ChunkInv, OrderInv, NEW w \in Workers, RecordCleanup(w)
  PROVE  OrderInv'
<1>1. UNCHANGED <<row, points, outOfOrder>> /\ TextStep /\ work[w].pc = "record"
  BY DEF RecordCleanup, TextStep, ChunkInv, Types
<1>2. PICK k \in Work : Do(w, k) /\ k.pc = "delete"
  BY RecordMoves
<1>3. ASSUME NEW s \in Slots \ outOfOrder
      PROVE  RowInOrder(s)' /\ \A v \in Workers : WorkInOrder(work[v], s)'
  <2>1. WorkInOrder(k, s)'
    BY <1>2 DEF WorkInOrder
  <2>2. ASSUME NEW c \in Contents
        PROVE  \/ task'[<<s, c>>] = task[<<s, c>>]
               \/ task[<<s, c>>] # "none" /\ <<s, c>> \notin points'
    BY <1>1, RecordMoves, PairIsPoint DEF OrderInv, WorkInOrder
  <2> QED
    BY <1>1, <1>2, <2>1, <2>2, TextKeepsOrder, AllInOrder
<1> QED
  BY <1>1, <1>3 DEF OrderInv

LEMMA MarkOrder ==
  ASSUME ChunkInv, OrderInv, NEW w \in Workers, Mark(w)
  PROVE  OrderInv'
<1>1. UNCHANGED <<points, task>>
        /\ outOfOrder' = outOfOrder \cup {t.slot : t \in {u \in work[w].todo : row[u.slot].content # u.content}}
  BY DEF Mark
<1>2. PICK k \in Work : Do(w, k) /\ k.pc = "store" /\ k.todo = work[w].todo
  BY GotoMoves DEF Mark, PCs
<1>3. ASSUME NEW s \in Slots \ outOfOrder'
      PROVE  RowInOrder(s)' /\ \A v \in Workers : WorkInOrder(work[v], s)'
  <2>1. s \in Slots \ outOfOrder /\ \A t \in k.todo : t.slot = s => row[s].content = t.content
    BY <1>1, <1>2, <1>3
  <2>2. /\ row'[s].content = row[s].content
        /\ row'[s] = NoRow <=> row[s] = NoRow
        /\ \A c \in Contents : row[s].point = c => row'[s].point = c
        /\ row'[s].point \in {None, row'[s].content}
        /\ \A t \in k.todo : t.slot = s => row'[s].point = t.content
    <3>1. CASE row'[s] = row[s] /\ ~ \E t \in work[w].todo : t.slot = s
      BY <1>2, <2>1, <3>1, OwnText DEF RowInOrder
    <3>2. CASE /\ row[s] # NoRow /\ row'[s] # NoRow /\ row'[s].content = row[s].content
               /\ \E t \in work[w].todo : t.slot = s /\ row'[s].point = t.content
      BY <1>2, <2>1, <3>2, OwnText
    <3> QED
      BY <3>1, <3>2, MarkRowsStep
  <2>3. RowInOrder(s)'
    <3>1. row'[s] # NoRow => task'[<<s, row'[s].content>>] = "none"
      BY <1>1, <2>1, <2>2, OwnText DEF RowInOrder
    <3>2. \A c \in Contents : <<s, c>> \in points' =>
            row'[s].point = c \/ task'[<<s, c>>] \in {"pending", "failed"}
      BY <1>1, <2>1, <2>2, OwnText DEF RowInOrder
    <3> QED
      BY <2>2, <3>1, <3>2 DEF RowInOrder
  <2>4. WorkInOrder(k, s)'
    BY <1>2, <2>1, <2>2 DEF WorkInOrder
  <2>5. ASSUME NEW m \in Work, Fits(m), WorkInOrder(m, s)
        PROVE  WorkInOrder(m, s)'
    <3>1. m.pc \in {"store", "complete"} =>
            \A t \in m.todo : t.slot = s => row'[s].content = t.content /\ row'[s].point = t.content
      BY <2>2, <2>5, TargetParts DEF WorkInOrder, Fits, TargetPCs
    <3> QED
      BY <1>1, <2>5, <3>1 DEF WorkInOrder
  <2> QED
    BY <1>2, <2>1, <2>3, <2>4, <2>5, AllInOrder
<1> QED
  BY <1>3 DEF OrderInv

\* A transaction that writes slot s, computed from the rows that k has read.
Written(w, k, s) ==
  /\ row'[s].content = k.want[s]
  /\ row'[s] # row[s] =>
       /\ row'[s].point = None /\ k.want[s] # row[s].content
       /\ row[s] # NoRow => k.seen[s] = row[s] /\ ~InFlight(w, s)
       /\ k.want[s] # None => task[<<s, k.want[s]>>] = "none"
  /\ \A c \in Contents :
       task'[<<s, c>>] = IF k.seen[s].point = c /\ k.want[s] # k.seen[s].content
                           THEN CreateEmbeddingCleanupTask(task[<<s, c>>]) ELSE task[<<s, c>>]

LEMMA WrittenRow ==
  ASSUME ChunkInv, OrderInv, UNCHANGED points, row' \in [Slots -> Rows], NEW w \in Workers,
         NEW k \in Work, k = work[w], k.pc = "persist",
         NEW s \in Slots \ outOfOrder, Written(w, k, s)
  PROVE  RowInOrder(s)'
<1>1. k.seen[s].point \in {None, k.seen[s].content} /\ k.seen[s] \in Rows
  BY WorkParts DEF OrderInv, WorkInOrder
<1>2. row'[s] \in Rows /\ row[s] \in Rows
  BY DEF ChunkInv, Types
<1>3. row'[s].point \in {None, row'[s].content}
  BY OwnText DEF Written, RowInOrder
<1>4. row'[s] # NoRow => task'[<<s, row'[s].content>>] = "none"
  <2> SUFFICES ASSUME row'[s] # NoRow PROVE task'[<<s, row'[s].content>>] = "none"
    OBVIOUS
  <2>1. PICK c \in Contents : c = row'[s].content /\ c = k.want[s]
    BY <1>2, RowParts DEF Written
  <2>2. task'[<<s, c>>] = task[<<s, c>>]
    BY <1>1, <2>1, SlotFacts DEF Written
  <2>3. task[<<s, c>>] = "none"
    BY <2>1, OwnText, SlotFacts DEF Written
  <2> QED
    BY <2>1, <2>2, <2>3
<1>5. ASSUME NEW c \in Contents, <<s, c>> \in points'
      PROVE  row'[s].point = c \/ task'[<<s, c>>] \in {"pending", "failed"}
  <2>1. CASE row'[s] = row[s] /\ row[s].point = c
    BY <2>1
  <2>2. CASE row'[s] # row[s] /\ row[s].point = c
    <3>1. row[s] # NoRow /\ row[s].content = c /\ task[<<s, c>>] = "none"
      BY <2>2, OwnText
    <3>2. k.seen[s].point = c /\ k.want[s] # k.seen[s].content
      BY <2>2, <3>1 DEF Written
    <3>3. task'[<<s, c>>] = CreateEmbeddingCleanupTask("none")
      BY <3>1, <3>2 DEF Written
    <3> QED
      BY <3>3 DEF CreateEmbeddingCleanupTask
  <2>3. CASE row[s].point # c
    <3>1. task[<<s, c>>] \in {"pending", "failed"}
      BY <1>5, <2>3, OwnText DEF RowInOrder
    <3>2. task'[<<s, c>>] \in {task[<<s, c>>], CreateEmbeddingCleanupTask(task[<<s, c>>])}
      BY DEF Written
    <3> QED
      BY <3>1, <3>2, TaskCreated
  <2> QED
    BY <2>1, <2>2, <2>3
<1> QED
  BY <1>3, <1>4, <1>5 DEF RowInOrder

LEMMA WrittenWork ==
  ASSUME ChunkInv, OrderInv, UNCHANGED points, NEW w \in Workers, NEW k \in Work,
         NEW s \in Slots \ outOfOrder, Written(w, k, s),
         NEW m \in Work, Fits(m), WorkInOrder(m, s), \E v \in Workers \ {w} : m = work[v]
  PROVE  WorkInOrder(m, s)'
<1>1. ASSUME m.pc \in {"store", "complete"}, NEW t \in m.todo, t.slot = s
      PROVE  row'[s] = row[s]
  <2>1. row[s].content = t.content /\ t.content \in Contents
    BY <1>1, TargetParts DEF WorkInOrder, Fits, TargetPCs
  <2>2. row[s] # NoRow
    BY <2>1, SlotFacts DEF NoRow
  <2>3. InFlight(w, s)
    BY <1>1 DEF InFlight
  <2> QED
    BY <2>2, <2>3 DEF Written
<1> QED
  BY <1>1 DEF WorkInOrder

\* The step as a whole: the slots it writes, and those it leaves alone.
LEMMA TransactionOrder ==
  ASSUME ChunkInv, OrderInv, UNCHANGED points, row' \in [Slots -> Rows], outOfOrder \subseteq outOfOrder',
         NEW w \in Workers, NEW k \in Work, k = work[w], k.pc = "persist",
         NEW me \in Work, Do(w, me), me.pc \in CalmPCs,
         \A s \in Slots \ outOfOrder' :
           \/ Written(w, k, s)
           \/ row'[s] = row[s] /\ \A c \in Contents : task'[<<s, c>>] = task[<<s, c>>]
  PROVE  OrderInv'
<1> SUFFICES ASSUME NEW s \in Slots \ outOfOrder'
             PROVE  RowInOrder(s)' /\ \A v \in Workers : WorkInOrder(work[v], s)'
  BY DEF OrderInv
<1>1. s \in Slots \ outOfOrder /\ WorkInOrder(me, s)'
  BY DEF WorkInOrder, CalmPCs
<1>2. CASE Written(w, k, s)
  <2>1. RowInOrder(s)'
    BY <1>1, <1>2, WrittenRow
  <2>2. \A m \in Work : Fits(m) /\ WorkInOrder(m, s) /\ (\E v \in Workers \ {w} : m = work[v])
                          => WorkInOrder(m, s)'
    BY <1>1, <1>2, WrittenWork
  <2> QED
    BY <1>1, <2>1, <2>2, AllInOrder
<1>3. CASE row'[s] = row[s] /\ \A c \in Contents : task'[<<s, c>>] = task[<<s, c>>]
  <2>1. RowInOrder(s)'
    <3>1. row'[s] # NoRow => task'[<<s, row'[s].content>>] = "none"
      BY <1>1, <1>3, OwnText, RowParts DEF RowInOrder
    <3> QED
      BY <1>1, <1>3, <3>1, OwnText DEF RowInOrder
  <2>2. \A m \in Work : WorkInOrder(m, s) => WorkInOrder(m, s)'
    BY <1>3 DEF WorkInOrder
  <2> QED
    BY <1>1, <2>1, <2>2, AllInOrder
<1> QED
  BY <1>2, <1>3

LEMMA ReplaceWrites ==
  ASSUME ChunkInv, NEW w \in Workers, NEW k \in Work, k = work[w], Replace(w),
         NEW s \in PdfSlots, s \notin outOfOrder'
  PROVE  Written(w, k, s)
<1>1. s \in Slots
  BY SlotFacts
<1>2. /\ row'[s] # row[s] => row'[s].point = None
      /\ row'[s].content = row[s].content => row'[s] = row[s]
      /\ row'[s].content = k.want[s]
  BY <1>1, ReplaceEffect
<1>3. /\ s \in Changed(k) => k.seen[s] = row[s] /\ ~InFlight(w, s)
      /\ k.want[s] # None /\ k.want[s] # row[s].content => task[<<s, k.want[s]>>] = "none"
  BY DEF Replace
<1>4. row'[s] # row[s] /\ row[s] # NoRow => s \in Changed(k)
  BY <1>2 DEF Changed
<1>5. ASSUME NEW c \in Contents
      PROVE  task'[<<s, c>>] = IF k.seen[s].point = c /\ k.want[s] # k.seen[s].content
                                 THEN CreateEmbeddingCleanupTask(task[<<s, c>>]) ELSE task[<<s, c>>]
  <2>1. <<s, c>> \in Points
    BY <1>1, PairIsPoint
  <2>2. task'[<<s, c>>] = IF \E q \in Obsolete(k) : <<s, c>> = <<q, k.seen[q].point>>
                            THEN CreateEmbeddingCleanupTask(task[<<s, c>>]) ELSE task[<<s, c>>]
    BY <2>1 DEF Replace
  <2>3. (\E q \in Obsolete(k) : <<s, c>> = <<q, k.seen[q].point>>)
          <=> k.seen[s].point = c /\ k.want[s] # k.seen[s].content
    <3>1. (\E q \in Obsolete(k) : <<s, c>> = <<q, k.seen[q].point>>) <=> s \in Obsolete(k) /\ k.seen[s].point = c
      OBVIOUS
    <3> QED
      BY <3>1, SlotFacts DEF Obsolete
  <2> QED
    BY <2>2, <2>3
<1> QED
  BY <1>2, <1>3, <1>4, <1>5 DEF Written

LEMMA PersistChunksOrder ==
  ASSUME ChunkInv, OrderInv, NEW w \in Workers, PersistChunks(w)
  PROVE  OrderInv'
<1>1. Replace(w) /\ UNCHANGED points /\ work[w].pc = "persist"
  BY DEF PersistChunks
<1>2. PICK k \in Work : k = work[w]
  BY DEF ChunkInv, Types
<1>3. PICK me \in Work : Do(w, me) /\ me.pc \in CalmPCs
  BY PersistMoves
<1>4. row' \in [Slots -> Rows] /\ outOfOrder \subseteq outOfOrder'
  <2>1. outOfOrder \subseteq outOfOrder'
    BY <1>1 DEF Replace
  <2> QED
    BY <1>1, <2>1, ReplaceEffect
<1>5. ASSUME NEW s \in Slots \ outOfOrder', s \notin PdfSlots
      PROVE  row'[s] = row[s] /\ \A c \in Contents : task'[<<s, c>>] = task[<<s, c>>]
  <2>1. ASSUME NEW c \in Contents
        PROVE  task'[<<s, c>>] = task[<<s, c>>]
    <3>1. ~ \E q \in Obsolete(k) : <<s, c>> = <<q, k.seen[q].point>>
      BY <1>5 DEF Obsolete
    <3>2. task'[<<s, c>>] = IF \E q \in Obsolete(k) : <<s, c>> = <<q, k.seen[q].point>>
                              THEN CreateEmbeddingCleanupTask(task[<<s, c>>]) ELSE task[<<s, c>>]
      BY <1>1, <1>2, PairIsPoint DEF Replace
    <3> QED
      BY <3>1, <3>2
  <2> QED
    BY <1>1, <1>5, <2>1, ReplaceEffect
<1>6. \A s \in Slots \ outOfOrder' :
        \/ Written(w, k, s)
        \/ row'[s] = row[s] /\ \A c \in Contents : task'[<<s, c>>] = task[<<s, c>>]
  BY <1>1, <1>2, <1>5, ReplaceWrites
<1> QED
  BY <1>1, <1>2, <1>3, <1>4, <1>6, TransactionOrder

LEMMA AbstractWrites ==
  ASSUME ChunkInv, NEW w \in Workers, NEW k \in Work, k = work[w], PersistAbstract(w),
         Abstract \notin outOfOrder'
  PROVE  Written(w, k, Abstract)
<1>1. /\ row'[Abstract] # row[Abstract] => row'[Abstract].point = None
      /\ row'[Abstract].content = row[Abstract].content => row'[Abstract] = row[Abstract]
      /\ row'[Abstract].content = k.want[Abstract]
  BY AbstractEffect, SlotFacts
<1>2. row[Abstract].content # k.want[Abstract] =>
        /\ k.seen[Abstract] = row[Abstract] /\ ~InFlight(w, Abstract)
        /\ task[<<Abstract, k.want[Abstract]>>] = "none"
  BY DEF PersistAbstract
<1>3. ASSUME NEW c \in Contents
      PROVE  task'[<<Abstract, c>>] =
               IF k.seen[Abstract].point = c /\ k.want[Abstract] # k.seen[Abstract].content
                 THEN CreateEmbeddingCleanupTask(task[<<Abstract, c>>]) ELSE task[<<Abstract, c>>]
  <2> DEFINE p == <<Abstract, k.seen[Abstract].point>>
  <2>1. task' = IF k.seen[Abstract].point # None /\ k.seen[Abstract].content # k.want[Abstract]
                  THEN [task EXCEPT ![p] = CreateEmbeddingCleanupTask(task[p])] ELSE task
    BY DEF PersistAbstract
  <2>2. <<Abstract, c>> \in Points /\ task \in [Points -> {"none", "pending", "failed", "completed"}]
    BY PairIsPoint, SlotFacts DEF ChunkInv, Types
  <2>3. CASE k.seen[Abstract].point = c /\ k.want[Abstract] # k.seen[Abstract].content
    <3>1. p = <<Abstract, c>> /\ c # None
      BY <2>3, SlotFacts
    <3> QED
      BY <2>1, <2>2, <2>3, <3>1
  <2>4. CASE ~ (k.seen[Abstract].point = c /\ k.want[Abstract] # k.seen[Abstract].content)
    <3>1. CASE k.want[Abstract] = k.seen[Abstract].content
      BY <2>1, <3>1
    <3>2. CASE k.seen[Abstract].point # c
      <4>1. p # <<Abstract, c>>
        BY <3>2
      <4> QED
        BY <2>1, <2>2, <3>2, <4>1
    <3> QED
      BY <2>4, <3>1, <3>2
  <2> QED
    BY <2>3, <2>4
<1> QED
  BY <1>1, <1>2, <1>3 DEF Written

LEMMA PersistAbstractOrder ==
  ASSUME ChunkInv, OrderInv, NEW w \in Workers, PersistAbstract(w)
  PROVE  OrderInv'
<1>1. UNCHANGED points /\ work[w].pc = "persist"
  BY DEF PersistAbstract
<1>2. PICK k \in Work : k = work[w]
  BY DEF ChunkInv, Types
<1>3. PICK me \in Work : Do(w, me) /\ me.pc \in CalmPCs
  BY AbstractMoves
<1>4. row' \in [Slots -> Rows] /\ outOfOrder \subseteq outOfOrder'
  <2>1. outOfOrder \subseteq outOfOrder'
    BY DEF PersistAbstract
  <2> QED
    BY <2>1, AbstractEffect
<1>5. ASSUME NEW s \in Slots \ outOfOrder', s # Abstract
      PROVE  row'[s] = row[s] /\ \A c \in Contents : task'[<<s, c>>] = task[<<s, c>>]
  <2>1. ASSUME NEW c \in Contents
        PROVE  task'[<<s, c>>] = task[<<s, c>>]
    <3>1. <<s, c>> # <<Abstract, k.seen[Abstract].point>> /\ <<s, c>> \in Points
      BY <1>5, PairIsPoint
    <3> DEFINE p == <<Abstract, k.seen[Abstract].point>>
    <3>2. task' = IF k.seen[Abstract].point # None /\ k.seen[Abstract].content # k.want[Abstract]
                    THEN [task EXCEPT ![p] = CreateEmbeddingCleanupTask(task[p])] ELSE task
      BY <1>2 DEF PersistAbstract
    <3>3. task \in [Points -> {"none", "pending", "failed", "completed"}]
      BY DEF ChunkInv, Types
    <3> HIDE DEF p
    <3> QED
      BY <3>1, <3>2, <3>3 DEF p
  <2> QED
    BY <1>5, <2>1, AbstractEffect
<1>6. \A s \in Slots \ outOfOrder' :
        \/ Written(w, k, s)
        \/ row'[s] = row[s] /\ \A c \in Contents : task'[<<s, c>>] = task[<<s, c>>]
  BY <1>2, <1>5, AbstractWrites
<1> QED
  BY <1>1, <1>2, <1>3, <1>4, <1>6, TransactionOrder

LEMMA CrashOrder ==
  ASSUME ChunkInv, OrderInv, Crash
  PROVE  OrderInv'
<1>1. work' = [w \in Workers |-> Idle] /\ UNCHANGED <<row, points, task, outOfOrder>>
  BY DEF Crash, database
<1>2. ASSUME NEW s \in Slots \ outOfOrder
      PROVE  RowInOrder(s)' /\ \A v \in Workers : WorkInOrder(work[v], s)'
  <2>1. RowInOrder(s)'
    BY <1>1, OwnText DEF RowInOrder
  <2>2. \A v \in Workers : WorkInOrder(work[v], s)'
    BY <1>1, IdleWork DEF WorkInOrder
  <2> QED
    BY <2>1, <2>2
<1> QED
  BY <1>1, <1>2 DEF OrderInv

-------------------------------------------------------------------------------
(* The theorems about slots in order *)

LEMMA OrderInit == Init => OrderInv
<1> SUFFICES ASSUME Init, NEW s \in Slots \ outOfOrder
             PROVE  RowInOrder(s) /\ \A w \in Workers : WorkInOrder(work[w], s)
  BY DEF OrderInv
<1>1. RowInOrder(s)
  BY DEF Init, RowInOrder, NoRow
<1>2. \A w \in Workers : WorkInOrder(work[w], s)
  BY IdleWork DEF Init, WorkInOrder
<1> QED
  BY <1>1, <1>2

LEMMA OrderNext == ChunkInv /\ OrderInv /\ [Next]_vars => OrderInv'
<1> SUFFICES ASSUME ChunkInv, OrderInv, [Next]_vars PROVE OrderInv'
  OBVIOUS
<1>1. CASE UNCHANGED vars
  BY <1>1 DEF vars, OrderInv, RowInOrder, WorkInOrder
<1>2. CASE Crash
  BY <1>2, CrashOrder
<1>3. ASSUME NEW w \in Workers, Embed(w)
      PROVE  OrderInv'
  BY <1>3, MarkOrder, StoreOrder, CompleteOrder, NoRowsOrder, CallFailsOrder DEF Embed
<1>4. ASSUME NEW w \in Workers, Clean(w)
      PROVE  OrderInv'
  BY <1>4, QuietOrder, DeletePointOrder, RecordCleanupOrder DEF Clean, Quiet
<1>5. ASSUME NEW w \in Workers, Index(w)
      PROVE  OrderInv'
  BY <1>5, StartOrder, QuietOrder, PersistChunksOrder DEF Index, Quiet
<1>6. ASSUME NEW w \in Workers, Check(w)
      PROVE  OrderInv'
  BY <1>6, StartOrder, QuietOrder, PersistAbstractOrder, ResetOrder DEF Check, Quiet
<1> QED
  BY <1>1, <1>2, <1>3, <1>4, <1>5, <1>6 DEF Next

LEMMA OrderInvariance == Spec => [](ChunkInv /\ OrderInv)
  BY ChunkInit, ChunkNext, OrderInit, OrderNext, PTL DEF Spec

\* Unless a job came late or a text came back, a completed row has the point of its
\* own text, and no cleanup has removed it (UpsertPaperChunk,
\* CompletePaperChunkEmbedding, reconcileCleanupTasks).
THEOREM CompletedHasOwnPointHolds == Spec => []CompletedHasOwnPoint
<1>1. ChunkInv /\ OrderInv => CompletedHasOwnPoint
  <2> SUFFICES ASSUME ChunkInv, OrderInv, NEW s \in Slots \ outOfOrder, row[s].status = "completed"
               PROVE  row[s].point = row[s].content /\ <<s, row[s].content>> \in points
    BY DEF CompletedHasOwnPoint
  <2>1. row[s].point # None /\ Kept(<<s, row[s].point>>) /\ row[s] # NoRow
    BY OwnText, RowParts DEF ChunkInv, CompletedKept
  <2>2. row[s].point = row[s].content /\ task[<<s, row[s].content>>] = "none"
    BY <2>1, OwnText DEF RowInOrder
  <2> QED
    BY <2>1, <2>2 DEF Kept
<1> QED
  BY <1>1, OrderInvariance, PTL

\* Unless a job came late or a text came back, every point is named by its row or
\* has a cleanup task that is still to run: no vector stays that a search would
\* return for ever (CreateEmbeddingCleanupTask, reconcileCleanupTasks).
THEOREM NoOrphanHolds == Spec => []NoOrphan
<1>1. ChunkInv /\ OrderInv => NoOrphan
  <2> SUFFICES ASSUME ChunkInv, OrderInv, NEW p \in Points, p \in points, p[1] \notin outOfOrder
               PROVE  row[p[1]].point = p[2] \/ task[p] \in {"pending", "failed"}
    BY DEF NoOrphan
  <2>1. p[1] \in Slots \ outOfOrder /\ p[2] \in Contents /\ p = <<p[1], p[2]>>
    BY DEF Points
  <2>2. RowInOrder(p[1])
    BY <2>1, OwnText
  <2> QED
    BY <2>1, <2>2 DEF RowInOrder
<1> QED
  BY <1>1, OrderInvariance, PTL
===============================================================================
