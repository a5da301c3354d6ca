--------------------------- MODULE PaperStageProofs ---------------------------
(***************************************************************************)
(* Proofs about PaperStage for any papers, cap, chunks, attempts and       *)
(* starts: the batches count their jobs, what is done has nothing to come, *)
(* and a stage that ends well has an analysis of each best ranked paper.   *)
(*                                                                         *)
(* The argument: a job is registered for a batch once, before it can be    *)
(* reported, and is counted when it leaves the registry.  Its identifier   *)
(* is new: a paper's PDF job is registered as the paper leaves the list of *)
(* those left, an embedding job as its chunk leaves the handler's list,    *)
(* and the analysis jobs of this start before the first is submitted.      *)
(***************************************************************************)
EXTENDS PaperStage, FiniteSetTheorems, WellFoundedInduction, TLAPS

-------------------------------------------------------------------------------
(* The invariant *)

\* Before the analysis batch, and while papers are given.
BeforePCs == {"none", "begin", "index", "submit_pdf", "wait_index"}
GivenPCs  == {"index", "submit_pdf", "wait_index", "submit", "wait_analysis"}

\* An analysis job is queued by the stage of its own start, in the order of left.
AnalysisIsNew ==
  /\ \A p \in Papers, k \in 1 .. MaxStarts : k > starts => state[AnalysisJob(p, k)] = "new"
  /\ stage.pc \in BeforePCs \ {"none"} => \A p \in Papers : state[AnalysisJob(p, starts)] = "new"
  /\ stage.pc = "submit" => \A p \in stage.left : state[AnalysisJob(p, starts)] = "new"

\* Which batch is active, and whose jobs are registered.
Registered ==
  /\ proc # "up" => stage.pc \in {"none", "ok", "failed"}
  /\ stage.pc \in {"none", "begin"} => member = {}
  /\ stage.pc \in BeforePCs => AnalysisJobs = {} /\ ~analysis.active
  /\ index.active <=> stage.pc \in {"index", "submit_pdf", "wait_index"}
  /\ stage.pc = "submit_pdf" => Best(stage.left, 1) \subseteq WithPDF
  /\ stage.pc \in {"submit", "wait_analysis"} => analysis.active
  /\ stage.pc \in {"index", "submit_pdf"} => \A p \in stage.left :
       PDFJob(p, starts) \in member => stage.pc = "submit_pdf" /\ p \in Best(stage.left, 1)
  /\ stage.pc = "submit" => \A p \in stage.left : AnalysisJob(p, starts) \in member

\* An embedding job of a chunk that is still left is not registered.
ChunksAreNew ==
  /\ \A e \in sending : e.kind = "embed"
  /\ \A j \in PDFJobs : handler[j].busy => handler[j].attempts > 0
  /\ \A j \in PDFJobs, c \in 1 .. Chunks, n \in 1 .. MaxAttempts :
       EmbedJob(j, c, n) \in member =>
         n < handler[j].attempts \/ (n = handler[j].attempts /\ c \notin handler[j].left)

\* The papers given, and those that are analysed.
Promised ==
  /\ stage.left \subseteq stage.given
  /\ stage.pc \in GivenPCs => stage.given # {} /\ Best(Papers, Cap) \subseteq analyzed \cup stage.given
  /\ \A j \in worked : j.kind = "analysis" => j.paper \in analyzed
  /\ \A j \in Jobs : state[j] = "completed" => j \in worked
  /\ stage.pc \in {"submit", "wait_analysis"} => \A p \in stage.given :
       AnalysisJob(p, starts) \in member \/ p \in analyzed \/ analysis.failed
  /\ OkMeansAnalyzed

\* A batch that is full is closed; the analysis batch only then.
ClosedWhenFull ==
  /\ analysis.active => (analysis.closed <=> analysis.completed = analysis.total)
  /\ index.active /\ index.completed = index.total /\ index.total > 0 => index.closed

Counts ==
  /\ index.active => index.total = index.completed + Cardinality(IndexJobs)
  /\ analysis.active => analysis.total = analysis.completed + Cardinality(AnalysisJobs)
  /\ ClosedWhenFull

StageInv == /\ TypeOK /\ IsFiniteSet(member)
            /\ AnalysisIsNew /\ Registered /\ ChunksAreNew /\ Promised /\ Counts

-------------------------------------------------------------------------------
(* Papers and jobs *)

LEMMA Bounds ==
  /\ NumPapers \in Nat /\ WithPDF \subseteq Papers /\ Cap \in Nat \ {0}
  /\ Chunks \in Nat \ {0} /\ MaxAttempts \in Nat /\ MaxStarts \in Nat \ {0}
  /\ Papers \subseteq Nat
  BY PapersAssumption, StageBoundsAssumption DEF Papers

LEMMA FinitePapers ==
  ASSUME NEW S \in SUBSET Papers
  PROVE  IsFiniteSet(S) /\ Cardinality(S) \in Nat
<1>1. IsFiniteSet(Papers)
  BY Bounds, FS_Interval DEF Papers
<1> QED
  BY <1>1, FS_Subset, FS_CardinalityType

\* A set of papers that is not empty has a best one.
LEMMA BestExists ==
  ASSUME NEW S \in SUBSET Papers, S # {}
  PROVE  \E p \in S : \A q \in S : ~ (q < p)
<1>1. PICK p \in S : \A q \in S : <<q, p>> \notin OpToRel(<, Nat)
  BY Bounds, NatLessThanWellFounded, WFMin
<1> QED
  BY <1>1, Bounds DEF OpToRel

LEMMA BestOfNone ==
  ASSUME NEW S \in SUBSET Papers, Best(S, Cap) = {}
  PROVE  S = {}
<1> SUFFICES ASSUME S # {} PROVE FALSE
  OBVIOUS
<1>1. PICK p \in S : \A q \in S : ~ (q < p)
  BY BestExists
<1>2. {q \in S : q < p} = {}
  BY <1>1
<1>3. Cardinality({q \in S : q < p}) < Cap
  BY <1>2, FS_EmptySet, Bounds
<1> QED
  BY <1>3 DEF Best

LEMMA BestOneIsOne ==
  ASSUME NEW S \in SUBSET Papers, NEW p \in Best(S, 1), NEW q \in Best(S, 1)
  PROVE  p = q
<1>1. ASSUME NEW x \in Best(S, 1)
      PROVE  x \in S /\ {y \in S : y < x} = {}
  <2> DEFINE T == {y \in S : y < x}
  <2>1. T \in SUBSET Papers
    OBVIOUS
  <2>2. x \in S /\ Cardinality(T) < 1
    BY <1>1 DEF Best
  <2> HIDE DEF T
  <2>3. T = {}
    BY <2>1, <2>2, FinitePapers, FS_EmptySet
  <2> QED
    BY <2>2, <2>3 DEF T
<1>2. p \in Nat /\ q \in Nat
  BY <1>1, Bounds
<1> QED
  BY <1>1, <1>2

\* The best of all are analysed already or among the best of the others.
LEMMA BestOfRest ==
  ASSUME NEW A \in SUBSET Papers
  PROVE  Best(Papers, Cap) \subseteq A \cup Best(Papers \ A, Cap)
<1> SUFFICES ASSUME NEW p \in Best(Papers, Cap), p \notin A
             PROVE  p \in Best(Papers \ A, Cap)
  OBVIOUS
<1> DEFINE T == {q \in Papers : q < p}
           U == {q \in Papers \ A : q < p}
<1>1. p \in Papers /\ Cardinality(T) < Cap
  BY DEF Best
<1>2. T \in SUBSET Papers /\ U \in SUBSET T
  OBVIOUS
<1> HIDE DEF T, U
<1>3. Cardinality(U) <= Cardinality(T) /\ Cardinality(T) \in Nat /\ Cardinality(U) \in Nat
  BY <1>2, FinitePapers, FS_Subset
<1>4. Cardinality(U) < Cap
  BY <1>1, <1>3, Bounds
<1> QED
  BY <1>1, <1>4 DEF U, Best

LEMMA BestIsPart == \A S, n : Best(S, n) \subseteq S
  BY DEF Best

LEMMA AnalysisShapes ==
  /\ \A p, k : /\ AnalysisJob(p, k).kind = "analysis" /\ AnalysisJob(p, k).paper = p
               /\ AnalysisJob(p, k).start = k
  /\ \A p \in Papers, k \in 1 .. MaxStarts : AnalysisJob(p, k) \in Jobs
<1>1. \A p, k : /\ AnalysisJob(p, k).kind = "analysis" /\ AnalysisJob(p, k).paper = p
                /\ AnalysisJob(p, k).start = k
  BY DEF AnalysisJob
<1>2. \A p \in Papers, k \in 1 .. MaxStarts : AnalysisJob(p, k) \in Jobs
  BY DEF Jobs
<1> QED
  BY <1>1, <1>2

LEMMA PDFShapes ==
  /\ \A p, k : PDFJob(p, k).kind = "pdf" /\ PDFJob(p, k).paper = p /\ PDFJob(p, k).start = k
  /\ \A p \in WithPDF, k \in 1 .. MaxStarts : PDFJob(p, k) \in PDFJobs
  /\ PDFJobs \subseteq Jobs
  /\ \A j \in PDFJobs : j.kind = "pdf" /\ j = PDFJob(j.paper, j.start) /\ j.paper \in Papers
  BY Bounds DEF PDFJob, PDFJobs, Jobs

LEMMA EmbedShapes ==
  ASSUME NEW j \in PDFJobs, NEW c, NEW n
  PROVE  /\ EmbedJob(j, c, n).kind = "embed" /\ EmbedJob(j, c, n).paper = j.paper
         /\ EmbedJob(j, c, n).chunk = c
         /\ \A i \in PDFJobs : \A d, m : EmbedJob(i, d, m) = EmbedJob(j, c, n) => i = j /\ d = c /\ m = n
<1>1. ASSUME NEW i \in PDFJobs, NEW d, NEW m
      PROVE  LET e == EmbedJob(i, d, m) IN
             e.kind = "embed" /\ e.paper = i.paper /\ e.start = i.start /\ e.chunk = d /\ e.attempt = m
  <2>1. DOMAIN i = {"kind", "paper", "start", "chunk", "attempt"}
    BY DEF PDFJobs, PDFJob
  <2> QED
    BY <2>1 DEF EmbedJob
<1>2. ASSUME NEW i \in PDFJobs, NEW d, NEW m, EmbedJob(i, d, m) = EmbedJob(j, c, n)
      PROVE  i = j /\ d = c /\ m = n
  <2>1. i.paper = j.paper /\ i.start = j.start /\ d = c /\ m = n
    BY <1>1, <1>2
  <2> QED
    BY <2>1, PDFShapes
<1> QED
  BY <1>1, <1>2

LEMMA JobKinds ==
  ASSUME NEW j \in Jobs
  PROVE  /\ j.kind \in {"pdf", "analysis", "embed"} /\ j.paper \in Papers
         /\ j.kind = "pdf" => j \in PDFJobs
         /\ j.kind = "embed" => j.chunk \in 1 .. Chunks
         /\ j.kind = "analysis" => \E p \in Papers, k \in 1 .. MaxStarts : j = AnalysisJob(p, k)
<1>1. CASE j \in PDFJobs
  BY <1>1, PDFShapes
<1>2. CASE \E p \in Papers, k \in 1 .. MaxStarts : j = AnalysisJob(p, k)
  BY <1>2, AnalysisShapes
<1>3. CASE \E i \in PDFJobs, c \in 1 .. Chunks, n \in 1 .. MaxAttempts : j = EmbedJob(i, c, n)
  BY <1>3, EmbedShapes, PDFShapes
<1> QED
  BY <1>1, <1>2, <1>3 DEF Jobs

LEMMA EmbedIsJob ==
  ASSUME NEW j \in PDFJobs, NEW c \in 1 .. Chunks, NEW n \in 1 .. MaxAttempts
  PROVE  EmbedJob(j, c, n) \in Jobs
  BY DEF Jobs

\* As many analysis jobs as papers.
LEMMA AnalysisSet ==
  ASSUME NEW S \in SUBSET Papers, NEW k
  PROVE  LET A == {AnalysisJob(p, k) : p \in S} IN
         IsFiniteSet(A) /\ Cardinality(A) = Cardinality(S)
<1> DEFINE A == {AnalysisJob(p, k) : p \in S}
           f == [p \in S |-> AnalysisJob(p, k)]
<1>1. f \in [S -> A] /\ \A p, q \in S : f[p] = f[q] => p = q
  BY AnalysisShapes
<1>2. \A a \in A : \E p \in S : f[p] = a
  OBVIOUS
<1>3. f \in Bijection(S, A)
  BY <1>1, <1>2, Zenon DEF Bijection, Injection, Surjection, IsInjective
<1>4. ExistsBijection(S, A)
  BY <1>3 DEF ExistsBijection
<1> HIDE DEF A
<1>5. IsFiniteSet(A) /\ Cardinality(A) = Cardinality(S)
  BY <1>4, FinitePapers, FS_Bijection
<1> QED
  BY <1>5 DEF A

-------------------------------------------------------------------------------
(* The queue *)

LEMMA QueueStep ==
  ASSUME TypeOK, NEW j \in Jobs, Delivery!Queue(j)
  PROVE  /\ state[j] = "new" /\ worked' = worked /\ told' = told
         /\ \A i \in Jobs : state'[i] = IF i = j THEN "queued" ELSE state[i]
         /\ state' \in [Jobs -> Delivery!States]
  BY DEF Delivery!Queue, Delivery!States, TypeOK

LEMMA WorkStep ==
  ASSUME TypeOK, NEW j \in Jobs, Delivery!Work(j)
  PROVE  worked' = worked \cup {j} /\ UNCHANGED <<state, told>>
  BY DEF Delivery!Work, TypeOK

LEMMA EndStep ==
  ASSUME TypeOK, NEW j \in Jobs, Delivery!Finish(j) \/ Delivery!GiveUp(j)
  PROVE  /\ UNCHANGED <<worked, told>>
         /\ state' \in [Jobs -> Delivery!States]
         /\ \A i \in Jobs : /\ state[i] = "new" => state'[i] = "new"
                            /\ state'[i] = "completed" => state[i] = "completed" \/ i \in worked
  BY DEF Delivery!Finish, Delivery!GiveUp, Delivery!States, TypeOK

LEMMA ReportStep ==
  ASSUME TypeOK, NEW j \in Jobs, Delivery!Report(j)
  PROVE  /\ UNCHANGED <<state, worked>> /\ state[j] \in {"completed", "dead"}
         /\ told' \in [Jobs -> {<<>>, <<"completed">>, <<"dead">>}]
  BY DEF Delivery!Report, TypeOK

-------------------------------------------------------------------------------
(* Types *)

LEMMA StageParts ==
  ASSUME TypeOK
  PROVE  /\ stage.pc \in PCs /\ stage.given \in SUBSET Papers /\ stage.left \in SUBSET Papers
         /\ \A pc \in PCs : At(pc) => stage' \in [pc : PCs, given : SUBSET Papers, left : SUBSET Papers]
                                   /\ stage'.pc = pc /\ stage'.given = stage.given /\ stage'.left = stage.left
         /\ \A pc \in PCs, S \in SUBSET Papers :
              Left(pc, S) => stage' \in [pc : PCs, given : SUBSET Papers, left : SUBSET Papers]
                             /\ stage'.pc = pc /\ stage'.given = stage.given /\ stage'.left = S
  BY DEF TypeOK, At, Left

LEMMA BatchParts ==
  ASSUME NEW b \in Batch
  PROVE  /\ b.active \in BOOLEAN /\ b.total \in Nat /\ b.completed \in Nat
         /\ b.failed \in BOOLEAN /\ b.closed \in BOOLEAN
         /\ Released(b) \in Batch /\ ~Released(b).active /\ Released(b).failed = b.failed
         /\ [b EXCEPT !.total = b.total + 1] \in Batch
<1>1. /\ b.active \in BOOLEAN /\ b.total \in Nat /\ b.completed \in Nat
      /\ b.failed \in BOOLEAN /\ b.closed \in BOOLEAN
  BY DEF Batch
<1>2. Released(b) \in Batch
  BY DEF Batch, Released
<1>3. ~Released(b).active /\ Released(b).failed = b.failed
  BY DEF Batch, Released
<1>4. [b EXCEPT !.total = b.total + 1] \in Batch
  BY DEF Batch
<1> QED
  BY <1>1, <1>2, <1>3, <1>4

LEMMA BatchChanged ==
  ASSUME NEW b \in Batch, NEW f \in BOOLEAN, NEW c \in BOOLEAN
  PROVE  [b EXCEPT !.completed = b.completed + 1, !.failed = f, !.closed = c] \in Batch
<1>1. \A n \in Nat : [b EXCEPT !.completed = n, !.failed = f, !.closed = c] \in Batch
  BY Zenon DEF Batch
<1>2. b.completed + 1 \in Nat
  BY DEF Batch
<1> QED
  BY <1>1, <1>2

LEMMA CountParts ==
  ASSUME NEW b \in Batch, NEW err \in BOOLEAN
  PROVE  /\ Count(b, err) \in Batch /\ Count(b, err).active = b.active
         /\ Count(b, err).total = b.total /\ Count(b, err).completed = b.completed + 1
         /\ Count(b, err).failed <=> b.failed \/ err
         /\ Count(b, err).closed <=> b.closed \/ b.completed + 1 >= b.total
<1>1. PICK f \in BOOLEAN : f = (b.failed \/ err)
  OBVIOUS
<1>2. PICK c \in BOOLEAN : c = (b.closed \/ Full(b))
  OBVIOUS
<1>3. Count(b, err) = [b EXCEPT !.completed = b.completed + 1, !.failed = f, !.closed = c]
  BY <1>1, <1>2 DEF Count
<1>4. Count(b, err) \in Batch
  BY <1>3, BatchChanged
<1>5. Count(b, err).active = b.active
  BY <1>3 DEF Batch
<1>6. Count(b, err).total = b.total /\ Count(b, err).completed = b.completed + 1
  BY <1>3 DEF Batch
<1>7. Count(b, err).failed <=> f
  BY <1>3 DEF Batch
<1>8. Count(b, err).closed <=> c
  BY <1>3 DEF Batch
<1>9. (Count(b, err).failed <=> b.failed \/ err) /\ (Count(b, err).closed <=> b.closed \/ Full(b))
  BY <1>1, <1>2, <1>7, <1>8
<1> QED
  BY <1>4, <1>5, <1>6, <1>9 DEF Full

LEMMA NoBatchFacts ==
  /\ NoBatch \in Batch /\ ~NoBatch.active /\ ~NoBatch.failed /\ ~NoBatch.closed
  /\ NoBatch.total = 0 /\ NoBatch.completed = 0
  /\ [NoBatch EXCEPT !.active = TRUE] \in Batch
  BY DEF NoBatch, Batch

LEMMA CountedType ==
  ASSUME TypeOK, NEW b \in Batch, NEW j, NEW err \in BOOLEAN
  PROVE  Counted(b, j, err) \in Batch
  BY CountParts DEF Counted

Stages == [pc : PCs, given : SUBSET Papers, left : SUBSET Papers]

\* The run's goroutine, step by step.
LEMMA BeginTypes ==
  ASSUME TypeOK, IsFiniteSet(member), Begin
  PROVE  TypeOK' /\ IsFiniteSet(member')
<1> DEFINE given == Best(Papers \ analyzed, Cap)
<1>1. given \in SUBSET Papers
  BY BestIsPart
<1> HIDE DEF given
<1>2. \/ At("ok") /\ UNCHANGED index
      \/ stage' = [pc |-> "index", given |-> given, left |-> given] /\ index' = [NoBatch EXCEPT !.active = TRUE]
  BY DEF Begin, given
<1>3. "ok" \in PCs /\ "index" \in PCs
  BY DEF PCs
<1>4. stage' \in Stages
  <2>1. [pc |-> "index", given |-> given, left |-> given] \in Stages
    BY <1>1, <1>3 DEF Stages
  <2> QED
    BY <1>2, <1>3, <2>1, StageParts DEF Stages
<1>6. index' \in Batch
  BY <1>2, NoBatchFacts DEF TypeOK
<1>5. UNCHANGED <<doc, analyzed, state, worked, told, proc, starts, analysis, member, handler, sending, locked>>
  BY DEF Begin, queue
<1> QED
  BY <1>4, <1>5, <1>6 DEF TypeOK, Stages

LEMMA RegisterPDFTypes ==
  ASSUME TypeOK, IsFiniteSet(member), NEW p \in Papers, RegisterPDF(p)
  PROVE  TypeOK' /\ IsFiniteSet(member')
<1>1. UNCHANGED <<doc, analyzed, state, worked, told, proc, starts, analysis, handler, sending, locked>>
  BY DEF RegisterPDF, queue
<1>2. \/ Left("index", stage.left \ {p}) /\ UNCHANGED <<index, member>>
      \/ /\ p \in WithPDF /\ At("submit_pdf") /\ index' = [index EXCEPT !.total = index.total + 1]
         /\ member' = member \cup {PDFJob(p, starts)}
  BY DEF RegisterPDF
<1>3. {"index", "submit_pdf"} \subseteq PCs /\ stage.left \ {p} \in SUBSET Papers
  BY StageParts DEF PCs
<1>4. stage' \in Stages
  BY <1>2, <1>3, StageParts DEF Stages
<1>5. index' \in Batch
  BY <1>2, BatchParts DEF TypeOK
<1>6. member' \subseteq Jobs /\ IsFiniteSet(member')
  <2>1. member \subseteq Jobs /\ starts \in 1 .. MaxStarts
    BY DEF TypeOK
  <2>2. CASE member' = member
    BY <2>1, <2>2
  <2>3. CASE p \in WithPDF /\ member' = member \cup {PDFJob(p, starts)}
    BY <2>1, <2>3, PDFShapes, FS_AddElement
  <2> QED
    BY <1>2, <2>2, <2>3
<1> QED
  BY <1>1, <1>4, <1>5, <1>6 DEF TypeOK, Stages

LEMMA SubmitPDFTypes ==
  ASSUME TypeOK, IsFiniteSet(member), NEW p \in Papers, SubmitPDF(p), PDFJob(p, starts) \in Jobs
  PROVE  TypeOK' /\ IsFiniteSet(member')
<1>1. UNCHANGED <<doc, analyzed, proc, starts, index, analysis, member, handler, sending, locked>>
  BY DEF SubmitPDF, batches
<1>2. state' \in [Jobs -> Delivery!States] /\ UNCHANGED <<worked, told>>
  BY QueueStep DEF SubmitPDF
<1>3. "index" \in PCs /\ stage.left \ {p} \in SUBSET Papers
  BY StageParts DEF PCs
<1>4. stage' \in Stages
  BY <1>3, StageParts DEF SubmitPDF, Stages
<1> QED
  BY <1>1, <1>2, <1>4 DEF TypeOK, Stages

\* A batch is cancelled.
LEMMA CancelTypes ==
  ASSUME TypeOK, IsFiniteSet(member), At("failed"), index' = Released(index),
         member' \in {member, {j \in member : j.kind = "analysis"}},
         state' \in [Jobs -> Delivery!States], locked' \in BOOLEAN,
         UNCHANGED <<doc, analyzed, worked, told, proc, starts, analysis, handler, sending>>
  PROVE  TypeOK' /\ IsFiniteSet(member')
<1>1. "failed" \in PCs
  BY DEF PCs
<1>2. stage' \in Stages
  BY <1>1, StageParts DEF Stages
<1>3. index' \in Batch
  BY BatchParts DEF TypeOK
<1>4. member' \subseteq Jobs /\ IsFiniteSet(member')
  <2>1. member' \in SUBSET member
    OBVIOUS
  <2> QED
    BY <2>1, FS_Subset DEF TypeOK
<1> QED
  BY <1>2, <1>3, <1>4 DEF TypeOK, Stages

\* Submit fails, with the job queued or not.
LEMMA PerhapsQueued ==
  ASSUME TypeOK, NEW j \in Jobs, Delivery!Queue(j) \/ UNCHANGED queue
  PROVE  /\ state' \in [Jobs -> Delivery!States] /\ UNCHANGED <<worked, told>>
         /\ \A i \in Jobs : i # j => state'[i] = state[i]
         /\ \A i \in Jobs : state'[i] = "completed" => state[i] = "completed"
<1>1. CASE UNCHANGED queue
  BY <1>1 DEF queue, TypeOK
<1>2. CASE Delivery!Queue(j)
  BY <1>2, QueueStep
<1> QED
  BY <1>1, <1>2

LEMMA CancelsTypes ==
  ASSUME TypeOK, IsFiniteSet(member), NEW p \in Papers,
         CheckFails \/ IndexFails \/ (SubmitPDFFails(p) /\ PDFJob(p, starts) \in Jobs)
  PROVE  TypeOK' /\ IsFiniteSet(member')
<1>1. CASE CheckFails \/ IndexFails
  <2>1. /\ UNCHANGED <<doc, analyzed, state, worked, told, proc, starts, analysis, handler, sending, locked>>
        /\ At("failed") /\ index' = Released(index)
        /\ member' \in {member, {j \in member : j.kind = "analysis"}}
    BY <1>1 DEF CheckFails, IndexFails, queue
  <2>2. state' \in [Jobs -> Delivery!States] /\ locked' \in BOOLEAN
    BY <2>1 DEF TypeOK
  <2> QED
    BY <2>1, <2>2, CancelTypes
<1>2. CASE SubmitPDFFails(p) /\ PDFJob(p, starts) \in Jobs
  <2>1. /\ UNCHANGED <<doc, analyzed, proc, starts, analysis, handler, sending>>
        /\ At("failed") /\ index' = Released(index)
        /\ member' \in {member, {j \in member : j.kind = "analysis"}}
        /\ Delivery!Queue(PDFJob(p, starts)) \/ UNCHANGED queue
    BY <1>2 DEF SubmitPDFFails
  <2>2. locked' \in BOOLEAN
    BY <1>2, Zenon DEF SubmitPDFFails, ClosesAgain
  <2>3. state' \in [Jobs -> Delivery!States] /\ UNCHANGED <<worked, told>>
    BY <1>2, <2>1, PerhapsQueued
  <2> QED
    BY <2>1, <2>2, <2>3, CancelTypes
<1> QED
  BY <1>1, <1>2

LEMMA AllSubmittedTypes ==
  ASSUME TypeOK, IsFiniteSet(member), AllSubmitted
  PROVE  TypeOK' /\ IsFiniteSet(member')
<1>1. UNCHANGED <<doc, analyzed, state, worked, told, proc, starts, analysis, member, handler, sending, locked>>
  BY DEF AllSubmitted, queue
<1>2. "wait_index" \in PCs
  BY DEF PCs
<1>3. stage' \in Stages
  BY <1>2, StageParts DEF Stages, AllSubmitted
<1>4. PICK c \in BOOLEAN : c = (index.closed \/ index.total = 0)
  OBVIOUS
<1>5. index' = [index EXCEPT !.closed = c]
  BY <1>4 DEF AllSubmitted
<1>6. index' \in Batch
  BY <1>5 DEF TypeOK, Batch
<1> QED
  BY <1>1, <1>3, <1>6 DEF TypeOK, Stages

LEMMA IndexDoneTypes ==
  ASSUME TypeOK, IsFiniteSet(member), IndexDone
  PROVE  TypeOK' /\ IsFiniteSet(member')
<1> DEFINE new == {AnalysisJob(p, starts) : p \in stage.given}
<1>1. UNCHANGED <<doc, analyzed, state, worked, told, proc, starts, handler, sending, locked>>
  BY DEF IndexDone, queue
<1>2. "submit" \in PCs /\ stage.given \in SUBSET Papers
  BY StageParts DEF PCs
<1>3. stage' \in Stages
  BY <1>2, StageParts DEF Stages, IndexDone
<1>4. index' \in Batch
  BY BatchParts DEF IndexDone, TypeOK
<1>5. analysis' \in Batch
  BY <1>2, FinitePapers DEF IndexDone, NoBatch, Batch
<1>6. new \subseteq Jobs /\ IsFiniteSet(new)
  <2>1. starts \in 1 .. MaxStarts
    BY DEF TypeOK
  <2>2. new \subseteq Jobs
    BY <1>2, <2>1, AnalysisShapes
  <2>3. IsFiniteSet(new)
    BY <1>2, AnalysisSet
  <2> QED
    BY <2>2, <2>3
<1>7. member' = member \cup new
  BY DEF IndexDone
<1> HIDE DEF new
<1>8. member' \subseteq Jobs /\ IsFiniteSet(member')
  BY <1>6, <1>7, FS_Union DEF TypeOK
<1> QED
  BY <1>1, <1>3, <1>4, <1>5, <1>8 DEF TypeOK, Stages

LEMMA SubmitAnalysisTypes ==
  ASSUME TypeOK, IsFiniteSet(member), NEW p \in Papers, SubmitAnalysis(p)
  PROVE  TypeOK' /\ IsFiniteSet(member')
<1>1. UNCHANGED <<doc, analyzed, proc, starts, index, analysis, member, handler, sending, locked>>
  BY DEF SubmitAnalysis, batches
<1>2. state' \in [Jobs -> Delivery!States] /\ UNCHANGED <<worked, told>>
  BY QueueStep, AnalysisShapes DEF SubmitAnalysis, TypeOK
<1>3. {"wait_analysis", "submit"} \subseteq PCs /\ stage.left \ {p} \in SUBSET Papers
  BY StageParts DEF PCs
<1>4. stage' \in Stages
  BY <1>3, StageParts DEF SubmitAnalysis, Stages
<1> QED
  BY <1>1, <1>2, <1>4 DEF TypeOK, Stages

LEMMA Comparison ==
  ASSUME NEW m \in Nat, NEW n \in Nat
  PROVE  \E c \in BOOLEAN : c = (m >= n)
<1>1. (m >= n) \in BOOLEAN
  BY SMT
<1> QED
  BY <1>1, Zenon

LEMMA SubmitAnalysisFailsTypes ==
  ASSUME TypeOK, IsFiniteSet(member), NEW p \in Papers, SubmitAnalysisFails(p)
  PROVE  TypeOK' /\ IsFiniteSet(member')
<1>1. UNCHANGED <<doc, analyzed, proc, starts, index, handler, sending, locked>>
  BY DEF SubmitAnalysisFails
<1>2. state' \in [Jobs -> Delivery!States] /\ UNCHANGED <<worked, told>>
  BY PerhapsQueued, AnalysisShapes DEF SubmitAnalysisFails, TypeOK
<1>3. "wait_analysis" \in PCs
  BY DEF PCs
<1>4. stage' \in Stages
  BY <1>3, StageParts DEF SubmitAnalysisFails, Stages
<1>5. member' \subseteq Jobs /\ IsFiniteSet(member')
  <2>1. member' \in SUBSET member
    BY DEF SubmitAnalysisFails
  <2> QED
    BY <2>1, FS_Subset DEF TypeOK
<1> DEFINE done == analysis.completed + Cardinality(stage.left)
<1>9. done \in Nat /\ analysis.total \in Nat
  <2>1. Cardinality(stage.left) \in Nat /\ analysis \in Batch
    BY StageParts, FinitePapers DEF TypeOK
  <2>2. analysis.completed \in Nat /\ analysis.total \in Nat
    BY <2>1, BatchParts
  <2> QED
    BY <2>1, <2>2
<1>10. analysis' = [analysis EXCEPT !.completed = done, !.failed = TRUE,
                     !.closed = (done >= analysis.total)]
  BY DEF SubmitAnalysisFails
<1> HIDE DEF done
<1>6. PICK c \in BOOLEAN : c = (done >= analysis.total)
  BY <1>9, Comparison
<1>7. analysis' = [analysis EXCEPT !.completed = done, !.failed = TRUE, !.closed = c]
  BY <1>6, <1>10
<1>8. analysis' \in Batch
  <2>1. \A b \in Batch, n \in Nat : [b EXCEPT !.completed = n, !.failed = TRUE, !.closed = c] \in Batch
    BY Zenon DEF Batch
  <2> QED
    BY <1>9, <1>7, <2>1 DEF TypeOK
<1> QED
  BY <1>1, <1>2, <1>4, <1>5, <1>8 DEF TypeOK, Stages

LEMMA AnalysisDoneTypes ==
  ASSUME TypeOK, IsFiniteSet(member), AnalysisDone
  PROVE  TypeOK' /\ IsFiniteSet(member')
<1>1. UNCHANGED <<doc, analyzed, state, worked, told, proc, starts, index, member, handler, sending, locked>>
  BY DEF AnalysisDone, queue
<1>2. {"failed", "ok"} \subseteq PCs
  BY DEF PCs
<1>3. stage' \in Stages
  BY <1>2, StageParts DEF Stages, AnalysisDone
<1>4. analysis' \in Batch
  BY BatchParts DEF AnalysisDone, TypeOK
<1> QED
  BY <1>1, <1>3, <1>4 DEF TypeOK, Stages

\* Workers.  Their steps leave the stage and the process alone.
LEMMA HandlerParts ==
  ASSUME TypeOK, NEW j \in PDFJobs
  PROVE  /\ handler[j].busy \in BOOLEAN /\ handler[j].left \in SUBSET (1 .. Chunks)
         /\ handler[j].attempts \in 0 .. MaxAttempts
         /\ DOMAIN handler = PDFJobs
         /\ Resting(handler[j]).attempts = handler[j].attempts /\ Resting(handler[j]).left = {}
<1>1. handler \in [PDFJobs -> [busy : BOOLEAN, left : SUBSET (1 .. Chunks), attempts : 0 .. MaxAttempts]]
  BY DEF TypeOK
<1>2. handler[j] \in [busy : BOOLEAN, left : SUBSET (1 .. Chunks), attempts : 0 .. MaxAttempts]
  BY <1>1
<1> QED
  BY <1>1, <1>2 DEF Resting

Handlers == [PDFJobs -> [busy : BOOLEAN, left : SUBSET (1 .. Chunks), attempts : 0 .. MaxAttempts]]

LEMMA StoreChunksStep ==
  ASSUME TypeOK, NEW j \in PDFJobs, StoreChunks(j)
  PROVE  /\ TypeOK'
         /\ UNCHANGED <<analyzed, state, worked, told, proc, starts, stage, index, analysis, member, sending>>
         /\ \A i \in PDFJobs : \/ handler'[i] = handler[i]
                               \/ handler'[i].attempts = handler[i].attempts + 1
<1> DEFINE missing == IF doc[j.paper].stored THEN doc[j.paper].missing ELSE 1 .. Chunks
           h == [busy |-> TRUE, left |-> missing, attempts |-> handler[j].attempts + 1]
<1>1. UNCHANGED <<analyzed, state, worked, told, proc, starts, stage, index, analysis, member, sending, locked>>
  BY DEF StoreChunks, queue, batches
<1>2. doc' = [doc EXCEPT ![j.paper] = [stored |-> TRUE, missing |-> missing]]
  BY DEF StoreChunks
<1>3. handler' = [handler EXCEPT ![j] = h] /\ handler[j].attempts < MaxAttempts
  BY DEF StoreChunks
<1>4. j.paper \in Papers
  BY PDFShapes
<1>5. doc \in [Papers -> [stored : BOOLEAN, missing : SUBSET (1 .. Chunks)]]
  BY DEF TypeOK
<1>6. missing \in SUBSET (1 .. Chunks)
  <2>1. doc[j.paper] \in [stored : BOOLEAN, missing : SUBSET (1 .. Chunks)]
    BY <1>4, <1>5
  <2> QED
    BY <2>1
<1> HIDE DEF missing
<1>7. doc' \in [Papers -> [stored : BOOLEAN, missing : SUBSET (1 .. Chunks)]]
  BY <1>2, <1>5, <1>6
<1>8. handler[j].attempts + 1 \in 0 .. MaxAttempts
  BY <1>3, HandlerParts, Bounds
<1>9. h \in [busy : BOOLEAN, left : SUBSET (1 .. Chunks), attempts : 0 .. MaxAttempts] /\ h.attempts = handler[j].attempts + 1
  BY <1>6, <1>8
<1> HIDE DEF h
<1>10. handler \in Handlers
  BY DEF TypeOK, Handlers
<1>11. handler' \in Handlers
  BY <1>3, <1>9, <1>10 DEF Handlers
<1>12. \A i \in PDFJobs : handler'[i] = IF i = j THEN h ELSE handler[i]
  BY <1>3, <1>10 DEF Handlers
<1>13. TypeOK'
  BY <1>1, <1>7, <1>11 DEF TypeOK, Handlers
<1> QED
  BY <1>1, <1>9, <1>12, <1>13

\* A chunk's embedding job is registered, or the attempt fails.
LEMMA SubmitEmbeddingsStep ==
  ASSUME TypeOK, IsFiniteSet(member), NEW j \in PDFJobs, SubmitEmbeddings(j),
         handler[j].busy => handler[j].attempts > 0
  PROVE  /\ TypeOK' /\ IsFiniteSet(member')
         /\ \/ \E c \in handler[j].left :
                 LET e == EmbedJob(j, c, handler[j].attempts) IN
                 /\ c \in 1 .. Chunks /\ handler[j].attempts \in 1 .. MaxAttempts
                 /\ j \in member /\ index.active
                 /\ index' = [index EXCEPT !.total = index.total + 1]
                 /\ member' = member \cup {e} /\ sending' = sending \cup {e}
                 /\ handler' = [handler EXCEPT ![j].left = handler[j].left \ {c}]
            \/ UNCHANGED <<index, member, sending>> /\ handler' = [handler EXCEPT ![j] = Resting(handler[j])]
<1>1. UNCHANGED <<doc, analyzed, state, worked, told, proc, starts, stage, analysis, locked>>
  BY DEF SubmitEmbeddings, queue
<1>2. handler[j].attempts \in 1 .. MaxAttempts
  BY HandlerParts, Bounds DEF SubmitEmbeddings
<1>3. handler \in Handlers
  BY DEF TypeOK, Handlers
<1>4. CASE \E c \in handler[j].left :
                 LET e == EmbedJob(j, c, handler[j].attempts) IN
                 /\ j \in member /\ index.active
                 /\ index' = [index EXCEPT !.total = index.total + 1]
                 /\ member' = member \cup {e} /\ sending' = sending \cup {e}
                 /\ handler' = [handler EXCEPT ![j].left = handler[j].left \ {c}]
  <2> DEFINE E(c) == EmbedJob(j, c, handler[j].attempts)
  <2>1. PICK c \in handler[j].left :
                 /\ j \in member /\ index.active
                 /\ index' = [index EXCEPT !.total = index.total + 1]
                 /\ member' = member \cup {E(c)} /\ sending' = sending \cup {E(c)}
                 /\ handler' = [handler EXCEPT ![j].left = handler[j].left \ {c}]
    BY <1>4
  <2>2. c \in 1 .. Chunks
    BY HandlerParts
  <2>3. E(c) \in Jobs
    BY <1>2, <2>2, EmbedIsJob
  <2>4. index' \in Batch
    BY <2>1, BatchParts DEF TypeOK
  <2>5. handler' \in Handlers
    BY <1>3, <2>1 DEF Handlers
  <2>6. member' \subseteq Jobs /\ sending' \subseteq Jobs /\ IsFiniteSet(member')
    <3> HIDE DEF E
    <3>1. IsFiniteSet(member')
      BY <2>1, FS_AddElement
    <3> QED
      BY <2>1, <2>3, <3>1 DEF TypeOK
  <2>7. TypeOK'
    BY <1>1, <2>4, <2>5, <2>6 DEF TypeOK, Handlers
  <2> QED
    BY <1>2, <2>1, <2>2, <2>6, <2>7
<1>5. CASE UNCHANGED <<index, member, sending>> /\ handler' = [handler EXCEPT ![j] = Resting(handler[j])]
  <2>1. Resting(handler[j]) \in [busy : BOOLEAN, left : SUBSET (1 .. Chunks), attempts : 0 .. MaxAttempts]
    BY <1>3 DEF Handlers, Resting
  <2>2. handler' \in Handlers
    BY <1>3, <1>5, <2>1 DEF Handlers
  <2>3. TypeOK'
    BY <1>1, <1>5, <2>2 DEF TypeOK, Handlers
  <2> QED
    BY <1>5, <2>3
<1> QED
  <2>1. PICK c \in Best(handler[j].left, 1) :
          LET e == EmbedJob(j, c, handler[j].attempts) IN
          \/ /\ j \in member /\ index.active
             /\ index' = [index EXCEPT !.total = @ + 1]
             /\ member' = member \cup {e}
             /\ sending' = sending \cup {e}
             /\ handler' = [handler EXCEPT ![j].left = @ \ {c}]
          \/ /\ handler' = [handler EXCEPT ![j] = Resting(@)]
             /\ UNCHANGED <<index, member, sending>>
    BY DEF SubmitEmbeddings
  <2>2. c \in handler[j].left
    BY BestIsPart
  <2>3. CASE handler' = [handler EXCEPT ![j] = Resting(@)] /\ UNCHANGED <<index, member, sending>>
    BY <1>5, <2>3
  <2>4. CASE LET e == EmbedJob(j, c, handler[j].attempts) IN
             /\ j \in member /\ index.active
             /\ index' = [index EXCEPT !.total = @ + 1]
             /\ member' = member \cup {e}
             /\ sending' = sending \cup {e}
             /\ handler' = [handler EXCEPT ![j].left = @ \ {c}]
    BY <1>4, <2>2, <2>4
  <2> QED
    BY <2>1, <2>3, <2>4

LEMMA PDFHandledStep ==
  ASSUME TypeOK, NEW j \in PDFJobs, PDFHandled(j)
  PROVE  /\ TypeOK' /\ worked' = worked \cup {j}
         /\ UNCHANGED <<doc, analyzed, state, told, proc, starts, stage, index, analysis, member, sending, locked>>
         /\ handler' = [handler EXCEPT ![j] = Resting(handler[j])]
<1>1. UNCHANGED <<doc, analyzed, proc, starts, stage, index, analysis, member, sending, locked>>
  BY DEF PDFHandled, batches
<1>2. j \in Jobs
  BY PDFShapes
<1>3. worked' = worked \cup {j} /\ UNCHANGED <<state, told>>
  BY <1>2, WorkStep DEF PDFHandled
<1>4. handler' = [handler EXCEPT ![j] = Resting(handler[j])]
  BY DEF PDFHandled
<1>5. handler \in Handlers
  BY DEF TypeOK, Handlers
<1>6. handler' \in Handlers
  <2>1. Resting(handler[j]) \in [busy : BOOLEAN, left : SUBSET (1 .. Chunks), attempts : 0 .. MaxAttempts]
    BY <1>5 DEF Handlers, Resting
  <2> QED
    BY <1>4, <1>5, <2>1 DEF Handlers
<1>7. TypeOK'
  BY <1>1, <1>2, <1>3, <1>6 DEF TypeOK, Handlers
<1> QED
  BY <1>1, <1>3, <1>4, <1>7

LEMMA WorkDoneStep ==
  ASSUME TypeOK, NEW j \in Jobs, WorkDone(j)
  PROVE  /\ TypeOK' /\ worked' = worked \cup {j}
         /\ UNCHANGED <<state, told, proc, starts, stage, index, analysis, member, handler, sending, locked>>
         /\ analyzed \subseteq analyzed' /\ (j.kind = "analysis" => j.paper \in analyzed')
<1>1. UNCHANGED <<proc, starts, stage, index, analysis, member, handler, sending, locked>>
  BY DEF WorkDone, batches
<1>2. worked' = worked \cup {j} /\ UNCHANGED <<state, told>>
  BY WorkStep DEF WorkDone
<1>3. CASE j.kind = "embed"
  <2>1. doc' = [doc EXCEPT ![j.paper].missing = @ \ {j.chunk}] /\ UNCHANGED analyzed
    BY <1>3 DEF WorkDone
  <2>2. j.paper \in Papers
    BY JobKinds
  <2>3. doc' \in [Papers -> [stored : BOOLEAN, missing : SUBSET (1 .. Chunks)]]
    BY <2>1, <2>2 DEF TypeOK
  <2>4. TypeOK'
    BY <1>1, <1>2, <2>1, <2>3 DEF TypeOK
  <2> QED
    BY <1>1, <1>2, <1>3, <2>1, <2>4
<1>4. CASE j.kind # "embed"
  <2>1. analyzed' = analyzed \cup {j.paper} /\ UNCHANGED doc
    BY <1>4 DEF WorkDone
  <2>2. j.paper \in Papers
    BY JobKinds
  <2>3. TypeOK'
    BY <1>1, <1>2, <2>1, <2>2 DEF TypeOK
  <2> QED
    BY <1>1, <1>2, <2>1, <2>3
<1> QED
  BY <1>3, <1>4

LEMMA EndTypes ==
  ASSUME TypeOK, NEW j \in Jobs, End(j)
  PROVE  TypeOK'
<1>1. UNCHANGED <<doc, analyzed, proc, starts, stage, index, analysis, member, handler, sending, locked>>
  BY DEF End, batches
<1>2. UNCHANGED <<worked, told>> /\ state' \in [Jobs -> Delivery!States]
  BY EndStep DEF End
<1> QED
  BY <1>1, <1>2 DEF TypeOK

\* The hook counts a job in its batch.
LEMMA TellStep ==
  ASSUME TypeOK, IsFiniteSet(member), NEW j \in Jobs, Tell(j)
  PROVE  /\ TypeOK' /\ IsFiniteSet(member') /\ member' = member \ {j}
         /\ UNCHANGED <<doc, analyzed, state, worked, proc, starts, stage, handler, sending, locked>>
         /\ state[j] \in {"completed", "dead"} /\ j \in member
         /\ \/ /\ j.kind = "analysis" /\ UNCHANGED index
               /\ analysis' = Counted(analysis, j, state[j] = "dead")
            \/ /\ j.kind # "analysis" /\ UNCHANGED analysis
               /\ index' = Counted(index, j, state[j] = "dead")
<1>1. UNCHANGED <<doc, analyzed, proc, starts, stage, handler, sending, locked>> /\ member' = member \ {j}
  BY DEF Tell
<1>2. /\ UNCHANGED <<state, worked>> /\ state[j] \in {"completed", "dead"}
      /\ told' \in [Jobs -> {<<>>, <<"completed">>, <<"dead">>}]
  BY ReportStep DEF Tell
<1>3. j \in member
  BY DEF Tell
<1>4. \/ /\ j.kind = "analysis" /\ UNCHANGED index
         /\ analysis' = Counted(analysis, j, state[j] = "dead")
      \/ /\ j.kind # "analysis" /\ UNCHANGED analysis
         /\ index' = Counted(index, j, state[j] = "dead")
  BY DEF Tell
<1>5. index' \in Batch /\ analysis' \in Batch
  <2>1. index \in Batch /\ analysis \in Batch /\ (state[j] = "dead") \in BOOLEAN
    BY DEF TypeOK
  <2> QED
    BY <1>4, <2>1, CountedType
<1>6. member' \subseteq Jobs /\ IsFiniteSet(member')
  <2>1. member' \in SUBSET member
    BY <1>1
  <2> QED
    BY <2>1, FS_Subset DEF TypeOK
<1>7. TypeOK'
  BY <1>1, <1>2, <1>5, <1>6 DEF TypeOK
<1> QED
  BY <1>1, <1>2, <1>3, <1>4, <1>6, <1>7

LEMMA SubmitAsyncStep ==
  ASSUME TypeOK, NEW e \in Jobs, SubmitAsync(e)
  PROVE  /\ TypeOK' /\ sending' = sending \ {e} /\ e \in sending
         /\ UNCHANGED <<doc, analyzed, worked, told, proc, starts, stage, index, analysis, member, handler, locked>>
         /\ \A i \in Jobs : i # e => state'[i] = state[i]
         /\ \A i \in Jobs : state'[i] = "completed" => state[i] = "completed"
<1>1. UNCHANGED <<doc, analyzed, proc, starts, stage, index, analysis, member, handler, locked>>
  BY DEF SubmitAsync, batches
<1>2. sending' = sending \ {e} /\ e \in sending
  BY DEF SubmitAsync
<1>3. /\ state' \in [Jobs -> Delivery!States] /\ UNCHANGED <<worked, told>>
      /\ \A i \in Jobs : i # e => state'[i] = state[i]
      /\ \A i \in Jobs : state'[i] = "completed" => state[i] = "completed"
  BY PerhapsQueued DEF SubmitAsync
<1>4. TypeOK'
  BY <1>1, <1>2, <1>3 DEF TypeOK
<1> QED
  BY <1>1, <1>2, <1>3, <1>4

LEMMA SubmitAsyncFailsStep ==
  ASSUME TypeOK, IsFiniteSet(member), NEW e \in Jobs, SubmitAsyncFails(e)
  PROVE  /\ TypeOK' /\ IsFiniteSet(member') /\ sending' = sending \ {e} /\ e \in sending
         /\ UNCHANGED <<doc, analyzed, worked, told, proc, starts, stage, analysis, handler, locked>>
         /\ index' = Counted(index, e, TRUE) /\ member' = member \ {e}
         /\ \A i \in Jobs : i # e => state'[i] = state[i]
         /\ \A i \in Jobs : state'[i] = "completed" => state[i] = "completed"
<1>1. UNCHANGED <<doc, analyzed, proc, starts, stage, analysis, handler, locked>>
  BY DEF SubmitAsyncFails
<1>2. /\ sending' = sending \ {e} /\ e \in sending
      /\ index' = Counted(index, e, TRUE) /\ member' = member \ {e}
  BY DEF SubmitAsyncFails
<1>3. /\ state' \in [Jobs -> Delivery!States] /\ UNCHANGED <<worked, told>>
      /\ \A i \in Jobs : i # e => state'[i] = state[i]
      /\ \A i \in Jobs : state'[i] = "completed" => state[i] = "completed"
  BY PerhapsQueued DEF SubmitAsyncFails
<1>4. index' \in Batch
  <2>1. index \in Batch
    BY DEF TypeOK
  <2> QED
    BY <1>2, <2>1, CountedType
<1>5. member' \subseteq Jobs /\ IsFiniteSet(member')
  <2>1. member' \in SUBSET member
    BY <1>2
  <2> QED
    BY <2>1, FS_Subset DEF TypeOK
<1>6. TypeOK'
  BY <1>1, <1>2, <1>3, <1>4, <1>5 DEF TypeOK
<1> QED
  BY <1>1, <1>2, <1>3, <1>5, <1>6

\* The process.
LEMMA HaltStep ==
  ASSUME TypeOK, Halt, proc' \in {"up", "down", "panicked"}, UNCHANGED <<state, worked>>,
         told' \in [Jobs -> {<<>>, <<"completed">>, <<"dead">>}]
  PROVE  /\ TypeOK' /\ IsFiniteSet(member') /\ member' = {} /\ sending' = {}
         /\ ~index'.active /\ ~analysis'.active /\ UNCHANGED <<doc, analyzed, starts>>
         /\ \/ stage' = stage /\ stage.pc \in {"ok", "failed"}
            \/ stage'.pc = "none" /\ stage'.given = {} /\ stage'.left = {}
         /\ handler' = [j \in PDFJobs |-> Resting(handler[j])]
<1>1. /\ UNCHANGED <<doc, analyzed, starts>> /\ index' = NoBatch /\ analysis' = NoBatch
      /\ member' = {} /\ sending' = {} /\ locked' = FALSE
      /\ handler' = [j \in PDFJobs |-> Resting(handler[j])]
  BY DEF Halt
<1>2. \/ stage' = stage /\ stage.pc \in {"ok", "failed"}
      \/ stage' = [pc |-> "none", given |-> {}, left |-> {}]
  BY DEF Halt
<1>3. stage' \in Stages
  <2>1. "none" \in PCs
    BY DEF PCs
  <2> QED
    BY <1>2, <2>1 DEF TypeOK, Stages
<1>4. handler' \in Handlers
  <2>1. handler \in Handlers
    BY DEF TypeOK, Handlers
  <2>2. ASSUME NEW j \in PDFJobs
        PROVE  Resting(handler[j]) \in [busy : BOOLEAN, left : SUBSET (1 .. Chunks), attempts : 0 .. MaxAttempts]
    BY <2>1 DEF Handlers, Resting
  <2> QED
    BY <1>1, <2>2 DEF Handlers
<1>5. TypeOK'
  BY <1>1, <1>3, <1>4, NoBatchFacts DEF TypeOK, Stages, Handlers
<1> QED
  BY <1>1, <1>2, <1>5, NoBatchFacts, FS_EmptySet

LEMMA RestartTypes ==
  ASSUME TypeOK, Restart
  PROVE  TypeOK' /\ starts' = starts + 1
<1>1. UNCHANGED <<doc, analyzed, state, worked, told, index, analysis, member, handler, sending, locked>>
  BY DEF Restart, queue, batches
<1>2. starts' = starts + 1 /\ starts' \in 1 .. MaxStarts /\ proc' = "up"
  BY Bounds DEF TypeOK, Restart
<1>3. stage' \in Stages
  BY DEF TypeOK, Restart, Stages, PCs
<1> QED
  BY <1>1, <1>2, <1>3 DEF TypeOK, Stages

-------------------------------------------------------------------------------
(* What a step leaves alone *)

LEMMA NewKept ==
  ASSUME TypeOK, TypeOK', AnalysisIsNew, starts' = starts,
         \A j \in Jobs : j.kind = "analysis" /\ state[j] = "new" => state'[j] = "new",
         stage'.pc \in BeforePCs \ {"none"} => stage.pc \in BeforePCs \ {"none"},
         stage'.pc = "submit" => \/ stage.pc \in BeforePCs \ {"none"}
                                 \/ stage.pc = "submit" /\ stage'.left \subseteq stage.left
  PROVE  AnalysisIsNew'
<1>1. starts \in 1 .. MaxStarts /\ stage'.left \subseteq Papers
  BY StageParts DEF TypeOK
<1>2. \A p \in Papers, k \in 1 .. MaxStarts : state[AnalysisJob(p, k)] = "new" => state'[AnalysisJob(p, k)] = "new"
  BY AnalysisShapes
<1>3. \A p \in Papers, k \in 1 .. MaxStarts : k > starts => state'[AnalysisJob(p, k)] = "new"
  BY <1>2 DEF AnalysisIsNew
<1>4. stage'.pc \in BeforePCs \ {"none"} => \A p \in Papers : state'[AnalysisJob(p, starts)] = "new"
  BY <1>1, <1>2 DEF AnalysisIsNew
<1>5. stage'.pc = "submit" => \A p \in stage'.left : state'[AnalysisJob(p, starts)] = "new"
  BY <1>1, <1>2 DEF AnalysisIsNew
<1> QED
  BY <1>3, <1>4, <1>5 DEF AnalysisIsNew

LEMMA RegisteredKept ==
  ASSUME TypeOK, TypeOK', Registered, UNCHANGED <<starts, stage, proc>>,
         index'.active <=> index.active, analysis'.active <=> analysis.active,
         member = {} => member' = {},
         \A j \in member' : j.kind # "embed" => j \in member,
         stage.pc = "submit" => \A p \in stage.left : AnalysisJob(p, starts) \in member'
  PROVE  Registered'
<1>1. stage.left \subseteq Papers
  BY StageParts
<1>2. \A p : PDFJob(p, starts) \in member' => PDFJob(p, starts) \in member
  BY PDFShapes
<1>3. AnalysisJobs = {} => {j \in member' : j.kind = "analysis"} = {}
  BY DEF AnalysisJobs
<1>4. stage.pc \in {"index", "submit_pdf"} => \A p \in stage.left :
        PDFJob(p, starts) \in member' => stage.pc = "submit_pdf" /\ p \in Best(stage.left, 1)
  BY <1>2 DEF Registered
<1>5. Best(stage.left, 1)' = Best(stage.left, 1)
  BY DEF Best
<1>6. /\ proc # "up" => stage.pc \in {"none", "ok", "failed"}
      /\ stage.pc \in {"none", "begin"} => member' = {}
      /\ stage.pc \in BeforePCs => AnalysisJobs = {} /\ ~analysis'.active
      /\ index'.active <=> stage.pc \in {"index", "submit_pdf", "wait_index"}
      /\ stage.pc = "submit_pdf" => Best(stage.left, 1) \subseteq WithPDF
      /\ stage.pc \in {"submit", "wait_analysis"} => analysis'.active
  BY DEF Registered
<1> QED
  BY <1>3, <1>4, <1>5, <1>6 DEF Registered, AnalysisJobs

LEMMA ChunksKept ==
  ASSUME TypeOK, TypeOK', ChunksAreNew, sending' \subseteq sending,
         \A e \in member' : e.kind = "embed" => e \in member,
         \A i \in PDFJobs : \/ handler'[i].attempts = handler[i].attempts /\ handler'[i].left \subseteq handler[i].left
                              /\ (handler'[i].busy => handler[i].busy)
                            \/ handler'[i].attempts = handler[i].attempts + 1
  PROVE  ChunksAreNew'
<1>1. \A i \in PDFJobs : handler[i].attempts \in Nat
  BY HandlerParts, Bounds
<1>2. ASSUME NEW j \in PDFJobs, NEW c \in 1 .. Chunks, NEW n \in 1 .. MaxAttempts,
             EmbedJob(j, c, n) \in member'
      PROVE  n < handler'[j].attempts \/ (n = handler'[j].attempts /\ c \notin handler'[j].left)
  <2>1. EmbedJob(j, c, n) \in member
    BY <1>2, EmbedShapes
  <2>2. n < handler[j].attempts \/ (n = handler[j].attempts /\ c \notin handler[j].left)
    BY <2>1 DEF ChunksAreNew
  <2> QED
    BY <1>1, <2>2
<1>3. \A j \in PDFJobs : handler'[j].busy => handler'[j].attempts > 0
  BY <1>1 DEF ChunksAreNew
<1> QED
  BY <1>2, <1>3 DEF ChunksAreNew

LEMMA Rests ==
  ASSUME TypeOK, NEW j \in PDFJobs, handler' = [handler EXCEPT ![j] = Resting(handler[j])]
  PROVE  \A i \in PDFJobs : /\ handler'[i].attempts = handler[i].attempts /\ handler'[i].left \subseteq handler[i].left
                            /\ handler'[i].busy => handler[i].busy
<1>1. DOMAIN handler = PDFJobs
  BY HandlerParts
<1>2. Resting(handler[j]).attempts = handler[j].attempts /\ Resting(handler[j]).left = {}
  BY HandlerParts
<1>3. ~ Resting(handler[j]).busy
  <2>1. handler[j] \in [busy : BOOLEAN, left : SUBSET (1 .. Chunks), attempts : 0 .. MaxAttempts]
    BY DEF TypeOK
  <2> QED
    BY <2>1 DEF Resting
<1> QED
  BY <1>1, <1>2, <1>3

LEMMA PromisedKept ==
  ASSUME TypeOK, Promised, UNCHANGED <<starts, stage>>, analyzed \subseteq analyzed',
         worked \subseteq worked',
         \A j \in worked' : j \notin worked /\ j.kind = "analysis" => j.paper \in analyzed',
         \A j \in Jobs : state'[j] = "completed" => state[j] = "completed" \/ j \in worked,
         stage.pc \in {"submit", "wait_analysis"} =>
           \/ analysis'.failed
           \/ ~analysis.failed /\ \A p \in stage.given :
                 AnalysisJob(p, starts) \in member => AnalysisJob(p, starts) \in member' \/ p \in analyzed'
  PROVE  Promised'
<1>1. \A j \in worked' : j.kind = "analysis" => j.paper \in analyzed'
  BY DEF Promised
<1>2. \A j \in Jobs : state'[j] = "completed" => j \in worked'
  BY DEF Promised
<1>3. stage.pc \in {"submit", "wait_analysis"} => \A p \in stage.given :
        AnalysisJob(p, starts) \in member' \/ p \in analyzed' \/ analysis'.failed
  BY DEF Promised
<1>4. /\ stage.left \subseteq stage.given
      /\ stage.pc \in GivenPCs => stage.given # {} /\ Best(Papers, Cap) \subseteq analyzed' \cup stage.given
  BY DEF Promised
<1>5. stage.pc = "ok" => Best(Papers, Cap) \subseteq analyzed'
  BY DEF Promised, OkMeansAnalyzed
<1>6. Best(Papers, Cap)' = Best(Papers, Cap)
  BY DEF Best, Papers
<1> QED
  BY <1>1, <1>2, <1>3, <1>4, <1>5, <1>6 DEF Promised, OkMeansAnalyzed

LEMMA CountsKept ==
  ASSUME Counts, UNCHANGED <<index, analysis, member>>
  PROVE  Counts'
  BY DEF Counts, ClosedWhenFull, IndexJobs, AnalysisJobs

-------------------------------------------------------------------------------
(* A job of a batch is counted *)

LEMMA Removed ==
  ASSUME IsFiniteSet(member), NEW S \in SUBSET member, NEW j \in S
  PROVE  /\ Cardinality(S) \in Nat /\ Cardinality(S) > 0
         /\ Cardinality(S \ {j}) = Cardinality(S) - 1
<1>1. IsFiniteSet(S)
  BY FS_Subset
<1>2. Cardinality(S) \in Nat /\ Cardinality(S \ {j}) = Cardinality(S) - 1 /\ Cardinality(S \ {j}) \in Nat
  BY <1>1, FS_CardinalityType, FS_RemoveElement
<1> QED
  BY <1>2

LEMMA IndexCounted ==
  ASSUME TypeOK, IsFiniteSet(member), Counts, NEW j \in member, j.kind # "analysis",
         NEW err \in BOOLEAN, index' = Counted(index, j, err), member' = member \ {j}, UNCHANGED analysis
  PROVE  Counts' /\ (index'.active <=> index.active)
<1>1. /\ Cardinality(IndexJobs) \in Nat /\ Cardinality(IndexJobs) > 0
      /\ IndexJobs' = IndexJobs \ {j} /\ Cardinality(IndexJobs \ {j}) = Cardinality(IndexJobs) - 1
  <2>1. IndexJobs \in SUBSET member /\ j \in IndexJobs /\ IndexJobs' = IndexJobs \ {j}
    BY DEF IndexJobs
  <2> QED
    BY <2>1, Removed
<1>2. AnalysisJobs' = AnalysisJobs
  BY DEF AnalysisJobs
<1>3. CASE ~index.active
  <2>1. index' = index
    BY <1>3 DEF Counted
  <2> QED
    BY <1>2, <1>3, <2>1 DEF Counts, ClosedWhenFull
<1>4. CASE index.active
  <2>1. index' = Count(index, err)
    BY <1>4 DEF Counted
  <2>2. index \in Batch
    BY DEF TypeOK
  <2>3. /\ index'.active = index.active /\ index'.total = index.total
        /\ index'.completed = index.completed + 1
        /\ index'.closed <=> index.closed \/ index.completed + 1 >= index.total
    BY <2>1, <2>2, CountParts
  <2>4. index.total \in Nat /\ index.completed \in Nat
    BY <2>2, BatchParts
  <2>5. index.total = index.completed + Cardinality(IndexJobs)
    BY <1>4 DEF Counts
  <2>6. index'.total = index'.completed + Cardinality(IndexJobs')
    BY <1>1, <2>3, <2>4, <2>5
  <2>7. index'.completed = index'.total => index'.closed
    BY <2>3, <2>4
  <2> QED
    BY <1>2, <2>3, <2>6, <2>7 DEF Counts, ClosedWhenFull
<1> QED
  BY <1>3, <1>4

LEMMA AnalysisCounted ==
  ASSUME TypeOK, IsFiniteSet(member), Counts, NEW j \in member, j.kind = "analysis",
         NEW err \in BOOLEAN, analysis' = Counted(analysis, j, err), member' = member \ {j}, UNCHANGED index
  PROVE  /\ Counts' /\ (analysis'.active <=> analysis.active)
         /\ analysis.active => (analysis'.failed <=> analysis.failed \/ err)
<1>1. /\ Cardinality(AnalysisJobs) \in Nat /\ Cardinality(AnalysisJobs) > 0
      /\ AnalysisJobs' = AnalysisJobs \ {j} /\ Cardinality(AnalysisJobs \ {j}) = Cardinality(AnalysisJobs) - 1
  <2>1. AnalysisJobs \in SUBSET member /\ j \in AnalysisJobs /\ AnalysisJobs' = AnalysisJobs \ {j}
    BY DEF AnalysisJobs
  <2> QED
    BY <2>1, Removed
<1>2. IndexJobs' = IndexJobs
  BY DEF IndexJobs
<1>3. CASE ~analysis.active
  <2>1. analysis' = analysis
    BY <1>3 DEF Counted
  <2> QED
    BY <1>2, <1>3, <2>1 DEF Counts, ClosedWhenFull
<1>4. CASE analysis.active
  <2>1. analysis' = Count(analysis, err)
    BY <1>4 DEF Counted
  <2>2. analysis \in Batch
    BY DEF TypeOK
  <2>3. /\ analysis'.active = analysis.active /\ analysis'.total = analysis.total
        /\ analysis'.completed = analysis.completed + 1
        /\ analysis'.failed <=> analysis.failed \/ err
        /\ analysis'.closed <=> analysis.closed \/ analysis.completed + 1 >= analysis.total
    BY <2>1, <2>2, CountParts
  <2>4. analysis.total \in Nat /\ analysis.completed \in Nat
    BY <2>2, BatchParts
  <2>5. /\ analysis.total = analysis.completed + Cardinality(AnalysisJobs)
        /\ analysis.closed <=> analysis.completed = analysis.total
    BY <1>4 DEF Counts, ClosedWhenFull
  <2>6. analysis'.total = analysis'.completed + Cardinality(AnalysisJobs')
    BY <1>1, <2>3, <2>4, <2>5
  <2>7. analysis'.closed <=> analysis'.completed = analysis'.total
    BY <1>1, <2>3, <2>4, <2>5
  <2> QED
    BY <1>2, <2>3, <2>6, <2>7 DEF Counts, ClosedWhenFull
<1> QED
  BY <1>3, <1>4

-------------------------------------------------------------------------------
(* The workers preserve the invariant *)

LEMMA StoreChunksKeeps ==
  ASSUME StageInv, NEW j \in PDFJobs, StoreChunks(j)
  PROVE  StageInv'
<1>1. /\ TypeOK /\ IsFiniteSet(member) /\ AnalysisIsNew /\ Registered /\ ChunksAreNew
      /\ Promised /\ Counts
  BY DEF StageInv
<1>2. /\ TypeOK'
      /\ UNCHANGED <<analyzed, state, worked, told, proc, starts, stage, index, analysis, member, sending>>
      /\ \A i \in PDFJobs : \/ handler'[i] = handler[i]
                            \/ handler'[i].attempts = handler[i].attempts + 1
  BY <1>1, StoreChunksStep
<1>3. AnalysisIsNew'
  BY <1>1, <1>2, NewKept
<1>4. Registered'
  <2>1. stage.pc = "submit" => \A p \in stage.left : AnalysisJob(p, starts) \in member'
    BY <1>1, <1>2 DEF Registered
  <2> QED
    BY <1>1, <1>2, <2>1, RegisteredKept
<1>5. ChunksAreNew'
  BY <1>1, <1>2, ChunksKept
<1>6. Promised'
  BY <1>1, <1>2, PromisedKept
<1>7. Counts'
  BY <1>1, <1>2, CountsKept
<1> QED
  BY <1>1, <1>2, <1>3, <1>4, <1>5, <1>6, <1>7 DEF StageInv

LEMMA SubmitEmbeddingsKeeps ==
  ASSUME StageInv, NEW j \in PDFJobs, SubmitEmbeddings(j)
  PROVE  StageInv'
<1>1. /\ TypeOK /\ IsFiniteSet(member) /\ AnalysisIsNew /\ Registered /\ ChunksAreNew
      /\ Promised /\ Counts
  BY DEF StageInv
<1>2. UNCHANGED <<analyzed, state, worked, told, proc, starts, stage, analysis>>
  BY DEF SubmitEmbeddings, queue
<1>3. /\ TypeOK' /\ IsFiniteSet(member')
      /\ \/ \E c \in handler[j].left :
              LET e == EmbedJob(j, c, handler[j].attempts) IN
              /\ c \in 1 .. Chunks /\ handler[j].attempts \in 1 .. MaxAttempts
              /\ j \in member /\ index.active
              /\ index' = [index EXCEPT !.total = index.total + 1]
              /\ member' = member \cup {e} /\ sending' = sending \cup {e}
              /\ handler' = [handler EXCEPT ![j].left = handler[j].left \ {c}]
         \/ UNCHANGED <<index, member, sending>> /\ handler' = [handler EXCEPT ![j] = Resting(handler[j])]
  BY <1>1, SubmitEmbeddingsStep DEF ChunksAreNew
<1>4. AnalysisIsNew'
  BY <1>1, <1>2, <1>3, NewKept
<1>5. CASE UNCHANGED <<index, member, sending>> /\ handler' = [handler EXCEPT ![j] = Resting(handler[j])]
  <2>1. Registered'
    <3>1. stage.pc = "submit" => \A p \in stage.left : AnalysisJob(p, starts) \in member'
      BY <1>1, <1>5 DEF Registered
    <3> QED
      BY <1>1, <1>2, <1>3, <1>5, <3>1, RegisteredKept
  <2>2. \A i \in PDFJobs : /\ handler'[i].attempts = handler[i].attempts /\ handler'[i].left \subseteq handler[i].left
                           /\ handler'[i].busy => handler[i].busy
    BY <1>1, <1>5, Rests
  <2>3. ChunksAreNew'
    <3>1. TypeOK'
      BY <1>3
    <3>2. sending' \subseteq sending /\ \A e \in member' : e.kind = "embed" => e \in member
      BY <1>5
    <3> QED
      BY <1>1, <2>2, <3>1, <3>2, ChunksKept
  <2>4. Promised'
    BY <1>1, <1>2, <1>5, PromisedKept
  <2>5. Counts'
    BY <1>1, <1>2, <1>5, CountsKept
  <2> QED
    BY <1>3, <1>4, <2>1, <2>3, <2>4, <2>5 DEF StageInv
<1>6. CASE ~ (UNCHANGED <<index, member, sending>> /\ handler' = [handler EXCEPT ![j] = Resting(handler[j])])
  <2> DEFINE E(c) == EmbedJob(j, c, handler[j].attempts)
  <2>1. PICK c \in handler[j].left :
              /\ c \in 1 .. Chunks /\ handler[j].attempts \in 1 .. MaxAttempts
              /\ j \in member /\ index.active
              /\ index' = [index EXCEPT !.total = index.total + 1]
              /\ member' = member \cup {E(c)} /\ sending' = sending \cup {E(c)}
              /\ handler' = [handler EXCEPT ![j].left = handler[j].left \ {c}]
    BY <1>3, <1>6
  <2>2. E(c).kind = "embed"
    BY EmbedShapes
  <2>3. E(c) \notin member
    BY <1>1, <2>1, Bounds DEF ChunksAreNew
  <2>4. /\ index'.active <=> index.active
        /\ index'.total = index.total + 1 /\ index'.completed = index.completed /\ index'.closed = index.closed
        /\ index.total \in Nat /\ index.completed \in Nat
    <3>1. index \in Batch
      BY <1>1 DEF TypeOK
    <3> QED
      BY <2>1, <3>1 DEF Batch
  <2>5. Registered'
    <3>1. stage.pc = "submit" => \A p \in stage.left : AnalysisJob(p, starts) \in member'
      BY <1>1, <2>1 DEF Registered
    <3>2. \A i \in member' : i.kind # "embed" => i \in member
      BY <2>1, <2>2
    <3>3. member = {} => member' = {}
      BY <2>1
    <3> QED
      BY <1>1, <1>2, <1>3, <2>4, <3>1, <3>2, <3>3, RegisteredKept
  <2>6. ChunksAreNew'
    <3>1. /\ DOMAIN handler = PDFJobs /\ DOMAIN handler[j] = {"busy", "left", "attempts"}
          /\ \A i \in PDFJobs : handler[i].attempts \in Nat
      <4>1. handler \in [PDFJobs -> [busy : BOOLEAN, left : SUBSET (1 .. Chunks), attempts : 0 .. MaxAttempts]]
        BY <1>1 DEF TypeOK
      <4>2. handler[j] \in [busy : BOOLEAN, left : SUBSET (1 .. Chunks), attempts : 0 .. MaxAttempts]
        BY <4>1
      <4> QED
        BY <4>1, <4>2, <1>1, HandlerParts, Bounds
    <3>2. \A i \in PDFJobs : /\ handler'[i].attempts = handler[i].attempts
                             /\ handler'[i].busy = handler[i].busy
                             /\ handler'[i].left = IF i = j THEN handler[j].left \ {c} ELSE handler[i].left
      BY <2>1, <3>1
    <3>3. ASSUME NEW i \in PDFJobs, NEW d \in 1 .. Chunks, NEW n \in 1 .. MaxAttempts,
                 EmbedJob(i, d, n) \in member'
          PROVE  n < handler'[i].attempts \/ (n = handler'[i].attempts /\ d \notin handler'[i].left)
      <4>1. CASE EmbedJob(i, d, n) \in member
        <5>1. n < handler[i].attempts \/ (n = handler[i].attempts /\ d \notin handler[i].left)
          BY <1>1, <4>1 DEF ChunksAreNew
        <5> QED
          BY <3>2, <5>1
      <4>2. CASE EmbedJob(i, d, n) = E(c)
        <5>1. i = j /\ d = c /\ n = handler[j].attempts
          BY <4>2, EmbedShapes
        <5> QED
          BY <3>2, <5>1
      <4> QED
        BY <2>1, <3>3, <4>1, <4>2
    <3>4. \A i \in PDFJobs : handler'[i].busy => handler'[i].attempts > 0
      BY <1>1, <3>2 DEF ChunksAreNew
    <3>5. \A e \in sending' : e.kind = "embed"
      BY <1>1, <2>1, <2>2 DEF ChunksAreNew
    <3> QED
      BY <3>3, <3>4, <3>5 DEF ChunksAreNew
  <2>7. Promised'
    <3>1. \A i \in member : i \in member'
      BY <2>1
    <3> QED
      BY <1>1, <1>2, <3>1, PromisedKept
  <2>8. Counts'
    <3> HIDE DEF E
    <3>1. AnalysisJobs' = AnalysisJobs /\ IndexJobs' = IndexJobs \cup {E(c)}
      BY <2>1, <2>2 DEF AnalysisJobs, IndexJobs
    <3>2. IsFiniteSet(IndexJobs) /\ E(c) \notin IndexJobs
      <4>1. IndexJobs \in SUBSET member
        BY DEF IndexJobs
      <4> QED
        BY <1>1, <2>3, <4>1, FS_Subset
    <3>3. Cardinality(IndexJobs) \in Nat /\ Cardinality(IndexJobs') = Cardinality(IndexJobs) + 1
      BY <3>1, <3>2, FS_CardinalityType, FS_AddElement
    <3>4. index.total = index.completed + Cardinality(IndexJobs)
      BY <1>1, <2>1 DEF Counts
    <3>5. index'.total = index'.completed + Cardinality(IndexJobs') /\ index'.completed # index'.total
      BY <2>4, <3>3, <3>4
    <3> QED
      BY <1>1, <1>2, <3>1, <3>5 DEF Counts, ClosedWhenFull
  <2> QED
    BY <1>3, <1>4, <2>5, <2>6, <2>7, <2>8 DEF StageInv
<1> QED
  BY <1>5, <1>6

LEMMA PDFHandledKeeps ==
  ASSUME StageInv, NEW j \in PDFJobs, PDFHandled(j)
  PROVE  StageInv'
<1>1. /\ TypeOK /\ IsFiniteSet(member) /\ AnalysisIsNew /\ Registered /\ ChunksAreNew
      /\ Promised /\ Counts
  BY DEF StageInv
<1>2. /\ TypeOK' /\ worked' = worked \cup {j} /\ IsFiniteSet(member')
      /\ UNCHANGED <<doc, analyzed, state, told, proc, starts, stage, index, analysis, member, sending, locked>>
      /\ handler' = [handler EXCEPT ![j] = Resting(handler[j])]
  BY <1>1, PDFHandledStep
<1>3. AnalysisIsNew'
  BY <1>1, <1>2, NewKept
<1>4. Registered'
  <2>1. stage.pc = "submit" => \A p \in stage.left : AnalysisJob(p, starts) \in member'
    BY <1>1, <1>2 DEF Registered
  <2> QED
    BY <1>1, <1>2, <2>1, RegisteredKept
<1>5. ChunksAreNew'
  <2>1. \A i \in PDFJobs : /\ handler'[i].attempts = handler[i].attempts /\ handler'[i].left \subseteq handler[i].left
                           /\ handler'[i].busy => handler[i].busy
    BY <1>1, <1>2, Rests
  <2> QED
    BY <1>1, <1>2, <2>1, ChunksKept
<1>6. Promised'
  <2>1. j.kind # "analysis"
    BY PDFShapes
  <2> QED
    BY <1>1, <1>2, <2>1, PromisedKept
<1>7. Counts'
  BY <1>1, <1>2, CountsKept
<1> QED
  BY <1>2, <1>3, <1>4, <1>5, <1>6, <1>7 DEF StageInv

LEMMA WorkDoneKeeps ==
  ASSUME StageInv, NEW j \in Jobs, WorkDone(j)
  PROVE  StageInv'
<1>1. /\ TypeOK /\ IsFiniteSet(member) /\ AnalysisIsNew /\ Registered /\ ChunksAreNew
      /\ Promised /\ Counts
  BY DEF StageInv
<1>2. /\ TypeOK' /\ worked' = worked \cup {j} /\ IsFiniteSet(member')
      /\ UNCHANGED <<state, told, proc, starts, stage, index, analysis, member, handler, sending, locked>>
      /\ analyzed \subseteq analyzed' /\ (j.kind = "analysis" => j.paper \in analyzed')
  BY <1>1, WorkDoneStep
<1>3. AnalysisIsNew'
  BY <1>1, <1>2, NewKept
<1>4. Registered'
  <2>1. stage.pc = "submit" => \A p \in stage.left : AnalysisJob(p, starts) \in member'
    BY <1>1, <1>2 DEF Registered
  <2> QED
    BY <1>1, <1>2, <2>1, RegisteredKept
<1>5. ChunksAreNew'
  BY <1>1, <1>2, ChunksKept
<1>6. Promised'
  BY <1>1, <1>2, PromisedKept
<1>7. Counts'
  BY <1>1, <1>2, CountsKept
<1> QED
  BY <1>2, <1>3, <1>4, <1>5, <1>6, <1>7 DEF StageInv

LEMMA EndKeeps ==
  ASSUME StageInv, NEW j \in Jobs, End(j)
  PROVE  StageInv'
<1>1. /\ TypeOK /\ IsFiniteSet(member) /\ AnalysisIsNew /\ Registered /\ ChunksAreNew
      /\ Promised /\ Counts
  BY DEF StageInv
<1>2. TypeOK'
  BY <1>1, EndTypes
<1>3. UNCHANGED <<doc, analyzed, proc, starts, stage, index, analysis, member, handler, sending, locked>>
  BY DEF End, batches
<1>4. /\ UNCHANGED <<worked, told>>
      /\ \A i \in Jobs : /\ state[i] = "new" => state'[i] = "new"
                         /\ state'[i] = "completed" => state[i] = "completed" \/ i \in worked
  BY <1>1, EndStep DEF End
<1>5. AnalysisIsNew'
  BY <1>1, <1>2, <1>3, <1>4, NewKept
<1>6. Registered'
  <2>1. stage.pc = "submit" => \A p \in stage.left : AnalysisJob(p, starts) \in member'
    BY <1>1, <1>3 DEF Registered
  <2> QED
    BY <1>1, <1>2, <1>3, <2>1, RegisteredKept
<1>7. ChunksAreNew'
  BY <1>1, <1>2, <1>3, ChunksKept
<1>8. Promised'
  BY <1>1, <1>3, <1>4, PromisedKept
<1>9. Counts'
  BY <1>1, <1>3, CountsKept
<1> QED
  BY <1>1, <1>2, <1>3, <1>5, <1>6, <1>7, <1>8, <1>9 DEF StageInv

\* A job of the run's analyses that has ended was submitted, so it is not left.
LEMMA TellKeeps ==
  ASSUME StageInv, NEW j \in Jobs, Tell(j)
  PROVE  StageInv'
<1>1. /\ TypeOK /\ IsFiniteSet(member) /\ AnalysisIsNew /\ Registered /\ ChunksAreNew
      /\ Promised /\ Counts
  BY DEF StageInv
<1>2. /\ TypeOK' /\ IsFiniteSet(member') /\ member' = member \ {j}
      /\ UNCHANGED <<doc, analyzed, state, worked, proc, starts, stage, handler, sending, locked>>
      /\ state[j] \in {"completed", "dead"} /\ j \in member
  BY <1>1, TellStep
<1>3. \/ /\ j.kind = "analysis" /\ UNCHANGED index
         /\ analysis' = Counted(analysis, j, state[j] = "dead")
      \/ /\ j.kind # "analysis" /\ UNCHANGED analysis
         /\ index' = Counted(index, j, state[j] = "dead")
  BY <1>1, TellStep
<1>4. PICK err \in BOOLEAN : err = (state[j] = "dead")
  OBVIOUS
<1>5. AnalysisIsNew'
  BY <1>1, <1>2, NewKept
<1>6. ChunksAreNew'
  BY <1>1, <1>2, ChunksKept
<1>7. /\ Counts' /\ (index'.active <=> index.active) /\ (analysis'.active <=> analysis.active)
      /\ \/ j.kind = "analysis" /\ (analysis.active => (analysis'.failed <=> analysis.failed \/ err))
         \/ j.kind # "analysis" /\ UNCHANGED analysis
  <2>1. CASE j.kind = "analysis"
    <3>1. UNCHANGED index /\ analysis' = Counted(analysis, j, err)
      BY <1>3, <1>4, <2>1
    <3> QED
      BY <1>1, <1>2, <2>1, <3>1, AnalysisCounted
  <2>2. CASE j.kind # "analysis"
    <3>1. UNCHANGED analysis /\ index' = Counted(index, j, err)
      BY <1>3, <1>4, <2>2
    <3> QED
      BY <1>1, <1>2, <2>2, <3>1, IndexCounted
  <2> QED
    BY <2>1, <2>2
<1>8. Registered'
  <2>1. stage.pc = "submit" => \A p \in stage.left : AnalysisJob(p, starts) \in member /\ AnalysisJob(p, starts) # j
    BY <1>1, <1>2 DEF Registered, AnalysisIsNew
  <2>2. stage.pc = "submit" => \A p \in stage.left : AnalysisJob(p, starts) \in member'
    BY <1>2, <2>1
  <2>3. member = {} => member' = {}
    BY <1>2
  <2>4. \A i \in member' : i \in member
    BY <1>2
  <2> QED
    BY <1>1, <1>2, <1>7, <2>2, <2>3, <2>4, RegisteredKept
<1>9. Promised'
  <2>1. ASSUME stage.pc \in {"submit", "wait_analysis"}
        PROVE  \/ analysis'.failed
               \/ ~analysis.failed /\ \A p \in stage.given :
                    AnalysisJob(p, starts) \in member => AnalysisJob(p, starts) \in member' \/ p \in analyzed'
    <3>1. analysis.active
      BY <1>1, <2>1 DEF Registered
    <3>2. CASE analysis.failed
      BY <1>7, <3>1, <3>2
    <3>3. CASE j.kind # "analysis" /\ ~analysis.failed
      BY <1>2, <3>3, AnalysisShapes
    <3>4. CASE j.kind = "analysis" /\ ~analysis.failed
      <4>1. CASE err
        BY <1>7, <3>1, <3>4, <4>1
      <4>2. CASE ~err
        <5>1. state[j] = "completed"
          BY <1>2, <1>4, <4>2
        <5>2. j.paper \in analyzed
          BY <1>1, <3>4, <5>1 DEF Promised
        <5>3. \A p : AnalysisJob(p, starts) = j => p \in analyzed
          BY <5>2, AnalysisShapes
        <5> QED
          BY <1>2, <3>4, <5>3
      <4> QED
        BY <4>1, <4>2
    <3> QED
      BY <3>2, <3>3, <3>4
  <2>2. \A i \in Jobs : state'[i] = "completed" => state[i] = "completed"
    BY <1>2
  <2> QED
    BY <1>1, <1>2, <2>1, <2>2, PromisedKept
<1> QED
  BY <1>2, <1>5, <1>6, <1>7, <1>8, <1>9 DEF StageInv

LEMMA SubmitAsyncKeeps ==
  ASSUME StageInv, NEW e \in Jobs, SubmitAsync(e)
  PROVE  StageInv'
<1>1. /\ TypeOK /\ IsFiniteSet(member) /\ AnalysisIsNew /\ Registered /\ ChunksAreNew
      /\ Promised /\ Counts
  BY DEF StageInv
<1>2. /\ TypeOK' /\ sending' = sending \ {e} /\ e \in sending
      /\ UNCHANGED <<doc, analyzed, worked, told, proc, starts, stage, index, analysis, member, handler, locked>>
      /\ \A i \in Jobs : i # e => state'[i] = state[i]
      /\ \A i \in Jobs : state'[i] = "completed" => state[i] = "completed"
  BY <1>1, SubmitAsyncStep
<1>3. e.kind = "embed"
  BY <1>1, <1>2 DEF ChunksAreNew
<1>4. AnalysisIsNew'
  BY <1>1, <1>2, <1>3, NewKept
<1>5. Registered'
  <2>1. stage.pc = "submit" => \A p \in stage.left : AnalysisJob(p, starts) \in member'
    BY <1>1, <1>2 DEF Registered
  <2> QED
    BY <1>1, <1>2, <2>1, RegisteredKept
<1>6. ChunksAreNew'
  BY <1>1, <1>2, ChunksKept
<1>7. Promised'
  BY <1>1, <1>2, PromisedKept
<1>8. Counts'
  BY <1>1, <1>2, CountsKept
<1> QED
  BY <1>1, <1>2, <1>4, <1>5, <1>6, <1>7, <1>8 DEF StageInv

LEMMA SubmitAsyncFailsKeeps ==
  ASSUME StageInv, NEW e \in Jobs, SubmitAsyncFails(e)
  PROVE  StageInv'
<1>1. /\ TypeOK /\ IsFiniteSet(member) /\ AnalysisIsNew /\ Registered /\ ChunksAreNew
      /\ Promised /\ Counts
  BY DEF StageInv
<1>2. /\ TypeOK' /\ IsFiniteSet(member') /\ sending' = sending \ {e} /\ e \in sending
      /\ UNCHANGED <<doc, analyzed, worked, told, proc, starts, stage, analysis, handler, locked>>
      /\ index' = Counted(index, e, TRUE) /\ member' = member \ {e}
      /\ \A i \in Jobs : i # e => state'[i] = state[i]
      /\ \A i \in Jobs : state'[i] = "completed" => state[i] = "completed"
  BY <1>1, SubmitAsyncFailsStep
<1>3. e.kind = "embed"
  BY <1>1, <1>2 DEF ChunksAreNew
<1>4. AnalysisIsNew'
  BY <1>1, <1>2, <1>3, NewKept
<1>5. ChunksAreNew'
  BY <1>1, <1>2, ChunksKept
<1>6. Counts' /\ (index'.active <=> index.active)
  <2>1. CASE e \in member
    BY <1>1, <1>2, <1>3, <2>1, IndexCounted
  <2>2. CASE e \notin member
    <3>1. UNCHANGED <<index, analysis, member>>
      BY <1>2, <2>2 DEF Counted
    <3> QED
      BY <1>1, <3>1, CountsKept
  <2> QED
    BY <2>1, <2>2
<1>7. \A p : AnalysisJob(p, starts) \in member => AnalysisJob(p, starts) \in member'
  BY <1>2, <1>3, AnalysisShapes
<1>8. Registered'
  <2>1. stage.pc = "submit" => \A p \in stage.left : AnalysisJob(p, starts) \in member'
    BY <1>1, <1>7 DEF Registered
  <2>2. (member = {} => member' = {}) /\ \A i \in member' : i \in member
    BY <1>2
  <2> QED
    BY <1>1, <1>2, <1>6, <2>1, <2>2, RegisteredKept
<1>9. Promised'
  BY <1>1, <1>2, <1>7, PromisedKept
<1> QED
  BY <1>2, <1>4, <1>5, <1>6, <1>8, <1>9 DEF StageInv

-------------------------------------------------------------------------------
(* The process preserves the invariant *)

LEMMA HaltKeeps ==
  ASSUME StageInv, Halt, proc' \in {"up", "down", "panicked"}, UNCHANGED <<state, worked>>,
         told' \in [Jobs -> {<<>>, <<"completed">>, <<"dead">>}]
  PROVE  StageInv'
<1>1. /\ TypeOK /\ IsFiniteSet(member) /\ AnalysisIsNew /\ Registered /\ ChunksAreNew
      /\ Promised /\ Counts
  BY DEF StageInv
<1>2. /\ TypeOK' /\ IsFiniteSet(member') /\ member' = {} /\ sending' = {}
      /\ ~index'.active /\ ~analysis'.active /\ UNCHANGED <<doc, analyzed, starts>>
  BY <1>1, HaltStep
<1>3. \/ stage' = stage /\ stage.pc \in {"ok", "failed"}
      \/ stage'.pc = "none" /\ stage'.given = {} /\ stage'.left = {}
  BY <1>1, HaltStep
<1>4. handler' = [j \in PDFJobs |-> Resting(handler[j])]
  BY <1>1, HaltStep
<1>5. AnalysisIsNew'
  BY <1>1, <1>2, <1>3, NewKept
<1>6. Registered'
  <2>1. stage'.pc \in {"none", "ok", "failed"}
    BY <1>3
  <2>2. AnalysisJobs' = {}
    BY <1>2 DEF AnalysisJobs
  <2> QED
    BY <1>2, <2>1, <2>2 DEF Registered
<1>7. ChunksAreNew'
  <2>1. ASSUME NEW i \in PDFJobs
        PROVE  handler'[i].attempts = handler[i].attempts /\ ~handler'[i].busy
    <3>1. handler[i] \in [busy : BOOLEAN, left : SUBSET (1 .. Chunks), attempts : 0 .. MaxAttempts]
      BY <1>1 DEF TypeOK
    <3>2. handler'[i] = Resting(handler[i])
      BY <1>4
    <3> QED
      BY <3>1, <3>2 DEF Resting
  <2> QED
    BY <1>2, <2>1 DEF ChunksAreNew
<1>8. Promised'
  <2>1. \A j \in worked' : j.kind = "analysis" => j.paper \in analyzed'
    BY <1>1, <1>2 DEF Promised
  <2>2. \A j \in Jobs : state'[j] = "completed" => j \in worked'
    BY <1>1 DEF Promised
  <2>3. stage'.left \subseteq stage'.given
    BY <1>1, <1>3 DEF Promised
  <2>4. stage'.pc = "ok" => Best(Papers, Cap) \subseteq analyzed'
    BY <1>1, <1>2, <1>3 DEF Promised, OkMeansAnalyzed
  <2>5. stage'.pc \in {"none", "ok", "failed"} /\ Best(Papers, Cap)' = Best(Papers, Cap)
    BY <1>3 DEF Best, Papers
  <2> QED
    BY <2>1, <2>2, <2>3, <2>4, <2>5 DEF Promised, OkMeansAnalyzed, GivenPCs
<1>9. Counts'
  BY <1>2 DEF Counts, ClosedWhenFull
<1> QED
  BY <1>2, <1>5, <1>6, <1>7, <1>8, <1>9 DEF StageInv

LEMMA CrashKeeps ==
  ASSUME StageInv, Crash
  PROVE  StageInv'
<1>1. Halt /\ proc' = "down" /\ UNCHANGED <<state, worked, told>>
  BY DEF Crash, queue
<1>2. told' \in [Jobs -> {<<>>, <<"completed">>, <<"dead">>}]
  BY <1>1 DEF StageInv, TypeOK
<1> QED
  BY <1>1, <1>2, HaltKeeps

LEMMA PanicKeeps ==
  ASSUME StageInv, NEW j \in Jobs, Panic(j)
  PROVE  StageInv'
<1>1. Halt /\ proc' = "panicked" /\ (Delivery!Report(j) \/ UNCHANGED queue)
  BY DEF Panic
<1>2. TypeOK
  BY DEF StageInv
<1>3. UNCHANGED <<state, worked>> /\ told' \in [Jobs -> {<<>>, <<"completed">>, <<"dead">>}]
  <2>1. CASE Delivery!Report(j)
    BY <1>2, <2>1, ReportStep
  <2>2. CASE UNCHANGED queue
    BY <1>2, <2>2 DEF TypeOK, queue
  <2> QED
    BY <1>1, <2>1, <2>2
<1> QED
  BY <1>1, <1>3, HaltKeeps

\* The next start finds no batch, and no analysis job of its own.
LEMMA RestartKeeps ==
  ASSUME StageInv, Restart
  PROVE  StageInv'
<1>1. /\ TypeOK /\ IsFiniteSet(member) /\ AnalysisIsNew /\ Registered /\ ChunksAreNew
      /\ Promised /\ Counts
  BY DEF StageInv
<1>2. UNCHANGED <<doc, analyzed, state, worked, told, index, analysis, member, handler, sending, locked>>
  BY DEF Restart, queue, batches
<1>3. TypeOK' /\ starts' = starts + 1 /\ proc' = "up" /\ starts \in Nat
  <2>1. starts \in Nat
    BY <1>1 DEF TypeOK
  <2> QED
    BY <1>1, <2>1, RestartTypes DEF Restart
<1>4. /\ stage'.left = stage.left /\ stage'.given = stage.given
      /\ \/ stage.pc = "none" /\ stage'.pc = "begin"
         \/ stage.pc \in {"ok", "failed"} /\ stage'.pc = stage.pc
  <2>1. stage.pc \in {"none", "ok", "failed"}
    BY <1>1 DEF Registered, Restart
  <2>2. stage \in [pc : PCs, given : SUBSET Papers, left : SUBSET Papers]
    BY <1>1 DEF TypeOK
  <2> QED
    BY <2>1, <2>2 DEF Restart
<1>5. AnalysisIsNew'
  <2>1. \A p \in Papers, k \in 1 .. MaxStarts : k > starts' => state'[AnalysisJob(p, k)] = "new"
    BY <1>1, <1>2, <1>3 DEF AnalysisIsNew
  <2>2. \A p \in Papers : state'[AnalysisJob(p, starts')] = "new"
    BY <1>1, <1>2, <1>3 DEF AnalysisIsNew, TypeOK
  <2>3. stage'.pc # "submit"
    BY <1>4
  <2> QED
    BY <2>1, <2>2, <2>3 DEF AnalysisIsNew
<1>6. Registered'
  <2>1. stage'.pc \in {"begin", "ok", "failed"}
    BY <1>4
  <2>2. ~index'.active
    BY <1>1, <1>2, <1>4 DEF Registered
  <2>3. stage'.pc = "begin" => member' = {} /\ AnalysisJobs' = {} /\ ~analysis'.active
    BY <1>1, <1>2, <1>4 DEF Registered, AnalysisJobs, BeforePCs
  <2> QED
    BY <1>3, <2>1, <2>2, <2>3 DEF Registered, BeforePCs
<1>7. ChunksAreNew'
  BY <1>1, <1>2, <1>3, ChunksKept
<1>8. Promised'
  <2>1. \A j \in worked' : j.kind = "analysis" => j.paper \in analyzed'
    BY <1>1, <1>2 DEF Promised
  <2>2. \A j \in Jobs : state'[j] = "completed" => j \in worked'
    BY <1>1, <1>2 DEF Promised
  <2>3. stage'.left \subseteq stage'.given
    BY <1>1, <1>4 DEF Promised
  <2>4. stage'.pc = "ok" => Best(Papers, Cap) \subseteq analyzed'
    BY <1>1, <1>2, <1>4 DEF Promised, OkMeansAnalyzed
  <2>5. stage'.pc \in {"begin", "ok", "failed"} /\ Best(Papers, Cap)' = Best(Papers, Cap)
    BY <1>4 DEF Best, Papers
  <2> QED
    BY <2>1, <2>2, <2>3, <2>4, <2>5 DEF Promised, OkMeansAnalyzed, GivenPCs
<1>9. Counts'
  BY <1>1, <1>2, CountsKept
<1> QED
  BY <1>1, <1>2, <1>3, <1>5, <1>6, <1>7, <1>8, <1>9 DEF StageInv

-------------------------------------------------------------------------------
(* The run's goroutine preserves the invariant *)

\* What the queue and the database hold, when no job ends and none is worked on.
LEMMA WorkKept ==
  ASSUME Promised, UNCHANGED <<analyzed, worked>>,
         \A j \in Jobs : state'[j] = "completed" => state[j] = "completed"
  PROVE  /\ \A j \in worked' : j.kind = "analysis" => j.paper \in analyzed'
         /\ \A j \in Jobs : state'[j] = "completed" => j \in worked'
         /\ Best(Papers, Cap)' = Best(Papers, Cap)
  BY DEF Promised, Best, Papers

LEMMA BeginKeeps ==
  ASSUME StageInv, Begin
  PROVE  StageInv'
<1>1. /\ TypeOK /\ IsFiniteSet(member) /\ AnalysisIsNew /\ Registered /\ ChunksAreNew
      /\ Promised /\ Counts
  BY DEF StageInv
<1>2. UNCHANGED <<doc, analyzed, state, worked, told, proc, starts, analysis, member, handler, sending, locked>>
  BY DEF Begin, queue
<1>3. TypeOK' /\ IsFiniteSet(member')
  BY <1>1, BeginTypes
<1> DEFINE given == Best(Papers \ analyzed, Cap)
<1>4. stage.pc = "begin" /\ analyzed \subseteq Papers
  BY <1>1 DEF Begin, TypeOK
<1>5. \/ given = {} /\ At("ok") /\ UNCHANGED index
      \/ /\ given # {} /\ stage' = [pc |-> "index", given |-> given, left |-> given]
         /\ index' = [NoBatch EXCEPT !.active = TRUE]
  BY DEF Begin
<1>6. Best(Papers, Cap) \subseteq analyzed \cup given
  BY <1>4, BestOfRest
<1>7. given = {} => Papers = analyzed
  BY <1>4, BestOfNone
<1> HIDE DEF given
<1>8. /\ member = {} /\ AnalysisJobs = {} /\ ~analysis.active /\ ~index.active
  BY <1>1, <1>4 DEF Registered, BeforePCs
<1>9. \/ given = {} /\ stage'.pc = "ok" /\ stage'.given = stage.given /\ stage'.left = stage.left /\ index' = index
      \/ /\ given # {} /\ stage'.pc = "index" /\ stage'.given = given /\ stage'.left = given
         /\ index'.active /\ index'.total = 0 /\ index'.completed = 0
  <2>1. "ok" \in PCs
    BY DEF PCs
  <2>2. LET b == [NoBatch EXCEPT !.active = TRUE] IN b.active /\ b.total = 0 /\ b.completed = 0
    BY DEF NoBatch
  <2>3. CASE given = {} /\ At("ok") /\ UNCHANGED index
    BY <1>1, <2>1, <2>3, StageParts
  <2>4. CASE /\ given # {} /\ stage' = [pc |-> "index", given |-> given, left |-> given]
             /\ index' = [NoBatch EXCEPT !.active = TRUE]
    BY <2>2, <2>4
  <2> QED
    BY <1>5, <2>3, <2>4
<1>10. AnalysisIsNew'
  <2>1. stage.pc \in BeforePCs \ {"none"}
    BY <1>4 DEF BeforePCs
  <2> QED
    BY <1>1, <1>2, <1>3, <2>1, NewKept
<1>11. Registered'
  <2>1. member' = {} /\ AnalysisJobs' = {} /\ ~analysis'.active
    BY <1>2, <1>8 DEF AnalysisJobs
  <2>2. proc' # "up" => stage'.pc \in {"none", "ok", "failed"}
    BY <1>1, <1>2, <1>4 DEF Registered
  <2>3. stage'.pc \in {"ok", "index"} /\ (index'.active <=> stage'.pc = "index")
    BY <1>8, <1>9
  <2> QED
    BY <2>1, <2>2, <2>3 DEF Registered
<1>12. ChunksAreNew'
  BY <1>1, <1>2, <1>3, ChunksKept
<1>13. Promised'
  <2>1. /\ \A j \in worked' : j.kind = "analysis" => j.paper \in analyzed'
        /\ \A j \in Jobs : state'[j] = "completed" => j \in worked'
        /\ Best(Papers, Cap)' = Best(Papers, Cap)
    BY <1>1, <1>2, WorkKept
  <2>2. stage'.left \subseteq stage'.given
    BY <1>1, <1>9 DEF Promised
  <2>3. stage'.pc \in {"ok", "index"}
    BY <1>9
  <2>4. stage'.pc = "index" => stage'.given # {} /\ Best(Papers, Cap) \subseteq analyzed' \cup stage'.given
    BY <1>2, <1>6, <1>9
  <2>5. stage'.pc = "ok" => Best(Papers, Cap) \subseteq analyzed'
    BY <1>2, <1>6, <1>9
  <2> QED
    BY <2>1, <2>2, <2>3, <2>4, <2>5 DEF Promised, OkMeansAnalyzed, GivenPCs
<1>14. Counts'
  <2>1. IndexJobs' = {} /\ ~analysis'.active
    BY <1>2, <1>8 DEF IndexJobs
  <2>2. index'.active => index'.total = 0 /\ index'.completed = 0
    BY <1>8, <1>9
  <2>3. Cardinality(IndexJobs') = 0
    BY <2>1, FS_EmptySet
  <2> QED
    BY <2>1, <2>2, <2>3 DEF Counts, ClosedWhenFull
<1> QED
  BY <1>3, <1>10, <1>11, <1>12, <1>13, <1>14 DEF StageInv

\* The paper that the stage is at.
LEMMA CurrentPDF ==
  ASSUME TypeOK, Registered, stage.pc = "submit_pdf", NEW p \in Best(stage.left, 1)
  PROVE  p \in stage.left /\ p \in Papers /\ PDFJob(p, starts) \in Jobs
<1>1. p \in stage.left /\ stage.left \subseteq Papers
  BY BestIsPart, StageParts
<1>2. p \in WithPDF
  BY DEF Registered
<1>3. starts \in 1 .. MaxStarts
  BY DEF TypeOK
<1> QED
  BY <1>1, <1>2, <1>3, PDFShapes

LEMMA RegisterPDFKeeps ==
  ASSUME StageInv, NEW p \in Papers, RegisterPDF(p)
  PROVE  StageInv'
<1>1. /\ TypeOK /\ IsFiniteSet(member) /\ AnalysisIsNew /\ Registered /\ ChunksAreNew
      /\ Promised /\ Counts
  BY DEF StageInv
<1>2. UNCHANGED <<doc, analyzed, state, worked, told, proc, starts, analysis, handler, sending, locked>>
  BY DEF RegisterPDF, queue
<1>3. TypeOK' /\ IsFiniteSet(member')
  BY <1>1, RegisterPDFTypes
<1>4. stage.pc = "index" /\ p \in Best(stage.left, 1) /\ p \in stage.left /\ index.active
  BY <1>1, BestIsPart DEF RegisterPDF, Registered
<1>5. stage.left \in SUBSET Papers /\ stage.left \subseteq stage.given /\ {"index", "submit_pdf"} \subseteq PCs
  BY <1>1, StageParts DEF Promised, PCs
<1>6. \/ /\ stage'.pc = "index" /\ stage'.left = stage.left \ {p} /\ stage'.given = stage.given
         /\ UNCHANGED <<index, member>>
      \/ /\ p \in WithPDF /\ stage'.pc = "submit_pdf" /\ stage'.left = stage.left /\ stage'.given = stage.given
         /\ index' = [index EXCEPT !.total = index.total + 1] /\ member' = member \cup {PDFJob(p, starts)}
  <2>1. \/ Left("index", stage.left \ {p}) /\ UNCHANGED <<index, member>>
        \/ /\ p \in WithPDF /\ At("submit_pdf") /\ index' = [index EXCEPT !.total = index.total + 1]
           /\ member' = member \cup {PDFJob(p, starts)}
    BY DEF RegisterPDF
  <2>2. stage.left \ {p} \in SUBSET Papers
    BY <1>5
  <2> QED
    BY <1>1, <1>5, <2>1, <2>2, StageParts
<1>7. AnalysisIsNew'
  <2>1. stage.pc \in BeforePCs \ {"none"}
    BY <1>4 DEF BeforePCs
  <2> QED
    BY <1>1, <1>2, <1>3, <2>1, NewKept
<1>8. ChunksAreNew'
  <2>1. \A e \in member' : e.kind = "embed" => e \in member
    BY <1>6, PDFShapes
  <2> QED
    BY <1>1, <1>2, <1>3, <2>1, ChunksKept
<1>9. Promised'
  <2>1. /\ \A j \in worked' : j.kind = "analysis" => j.paper \in analyzed'
        /\ \A j \in Jobs : state'[j] = "completed" => j \in worked'
        /\ Best(Papers, Cap)' = Best(Papers, Cap)
    BY <1>1, <1>2, WorkKept
  <2>2. stage'.left \subseteq stage'.given
    BY <1>5, <1>6
  <2>3. stage'.given # {} /\ Best(Papers, Cap) \subseteq analyzed' \cup stage'.given
    BY <1>1, <1>2, <1>4, <1>6 DEF Promised, GivenPCs
  <2>4. stage'.pc \in {"index", "submit_pdf"}
    BY <1>6
  <2> QED
    BY <2>1, <2>2, <2>3, <2>4 DEF Promised, OkMeansAnalyzed
<1>10. PDFJob(p, starts) \notin member
  BY <1>1, <1>4 DEF Registered
<1>11. /\ index'.active
       /\ \/ index' = index
          \/ /\ index'.total = index.total + 1 /\ index'.completed = index.completed
             /\ index.total \in Nat /\ index.completed \in Nat
  <2>1. index \in Batch
    BY <1>1 DEF TypeOK
  <2> QED
    BY <1>4, <1>6, <2>1 DEF Batch
<1>12. AnalysisJobs' = AnalysisJobs
  BY <1>6, PDFShapes DEF AnalysisJobs
<1>13. Registered'
  <2>1. /\ proc' # "up" => FALSE
        /\ AnalysisJobs' = {} /\ ~analysis'.active /\ index'.active
    BY <1>1, <1>2, <1>4, <1>11, <1>12 DEF Registered, BeforePCs
  <2>2. stage'.pc \in {"index", "submit_pdf"}
    BY <1>6
  <2>3. \A q \in Best(stage.left, 1) : q = p
    BY <1>4, <1>5, BestOneIsOne
  <2>4. stage'.pc = "submit_pdf" => Best(stage'.left, 1) \subseteq WithPDF
    BY <1>6, <2>3
  <2>5. \A q \in stage'.left :
          PDFJob(q, starts') \in member' => stage'.pc = "submit_pdf" /\ q \in Best(stage'.left, 1)
    <3>1. \A q \in stage.left : PDFJob(q, starts) \notin member
      BY <1>1, <1>4 DEF Registered
    <3>2. \A q : PDFJob(q, starts) = PDFJob(p, starts) => q = p
      BY PDFShapes
    <3>3. stage'.left \subseteq stage.left
      BY <1>6
    <3> QED
      BY <1>2, <1>4, <1>6, <3>1, <3>2, <3>3
  <2>6. Best(stage.left, 1)' = Best(stage'.left, 1)
    BY DEF Best
  <2> QED
    BY <2>1, <2>2, <2>4, <2>5, <2>6 DEF Registered
<1>14. Counts'
  <2>1. CASE UNCHANGED <<index, member>>
    BY <1>1, <1>2, <2>1, CountsKept
  <2>2. CASE index' # index /\ member' = member \cup {PDFJob(p, starts)}
    <3>1. IndexJobs' = IndexJobs \cup {PDFJob(p, starts)}
      BY <2>2, PDFShapes DEF IndexJobs
    <3>2. IsFiniteSet(IndexJobs) /\ PDFJob(p, starts) \notin IndexJobs
      <4>1. IndexJobs \in SUBSET member
        BY DEF IndexJobs
      <4> QED
        BY <1>1, <1>10, <4>1, FS_Subset
    <3>3. Cardinality(IndexJobs) \in Nat /\ Cardinality(IndexJobs') = Cardinality(IndexJobs) + 1
      BY <3>1, <3>2, FS_CardinalityType, FS_AddElement
    <3>4. index.total = index.completed + Cardinality(IndexJobs)
      BY <1>1, <1>4 DEF Counts
    <3>5. index'.total = index'.completed + Cardinality(IndexJobs') /\ index'.completed # index'.total
      BY <1>11, <2>2, <3>3, <3>4
    <3>6. ~analysis'.active
      BY <1>1, <1>2, <1>4 DEF Registered, BeforePCs
    <3> QED
      BY <3>5, <3>6 DEF Counts, ClosedWhenFull
  <2>3. index' = index => member' = member
    <3>1. index.total \in Nat
      BY <1>1, BatchParts DEF TypeOK
    <3>2. index' = [index EXCEPT !.total = index.total + 1] => index'.total = index.total + 1
      BY <1>1 DEF TypeOK, Batch
    <3> QED
      BY <1>6, <3>1, <3>2
  <2> QED
    BY <1>6, <2>1, <2>2, <2>3
<1> QED
  BY <1>3, <1>7, <1>8, <1>9, <1>13, <1>14 DEF StageInv

LEMMA SubmitPDFKeeps ==
  ASSUME StageInv, NEW p \in Papers, SubmitPDF(p)
  PROVE  StageInv'
<1>1. /\ TypeOK /\ IsFiniteSet(member) /\ AnalysisIsNew /\ Registered /\ ChunksAreNew
      /\ Promised /\ Counts
  BY DEF StageInv
<1>2. UNCHANGED <<doc, analyzed, proc, starts, index, analysis, member, handler, sending, locked>>
  BY DEF SubmitPDF, batches
<1>3. stage.pc = "submit_pdf" /\ p \in Best(stage.left, 1) /\ Delivery!Queue(PDFJob(p, starts))
  BY DEF SubmitPDF
<1>4. p \in stage.left /\ PDFJob(p, starts) \in Jobs
  BY <1>1, <1>3, CurrentPDF
<1>5. TypeOK' /\ IsFiniteSet(member')
  BY <1>1, <1>4, SubmitPDFTypes
<1>6. stage.left \in SUBSET Papers /\ stage'.pc = "index" /\ stage'.left = stage.left \ {p} /\ stage'.given = stage.given
  <2>1. stage.left \in SUBSET Papers /\ stage.left \ {p} \in SUBSET Papers /\ "index" \in PCs
    BY <1>1, StageParts DEF PCs
  <2> QED
    BY <1>1, <2>1, StageParts DEF SubmitPDF
<1>7. /\ UNCHANGED <<worked, told>> /\ \A i \in Jobs : i # PDFJob(p, starts) => state'[i] = state[i]
      /\ \A i \in Jobs : state'[i] = "completed" => state[i] = "completed"
  BY <1>1, <1>3, <1>4, PerhapsQueued
<1>8. AnalysisIsNew'
  <2>1. stage.pc \in BeforePCs \ {"none"}
    BY <1>3 DEF BeforePCs
  <2>2. \A j \in Jobs : j.kind = "analysis" /\ state[j] = "new" => state'[j] = "new"
    BY <1>7, PDFShapes
  <2> QED
    BY <1>1, <1>2, <1>5, <2>1, <2>2, NewKept
<1>9. ChunksAreNew'
  BY <1>1, <1>2, <1>5, ChunksKept
<1>10. Promised'
  <2>1. /\ \A j \in worked' : j.kind = "analysis" => j.paper \in analyzed'
        /\ \A j \in Jobs : state'[j] = "completed" => j \in worked'
        /\ Best(Papers, Cap)' = Best(Papers, Cap)
    BY <1>1, <1>2, <1>7, WorkKept
  <2>2. stage'.left \subseteq stage'.given
    BY <1>1, <1>6 DEF Promised
  <2>3. stage'.given # {} /\ Best(Papers, Cap) \subseteq analyzed' \cup stage'.given
    BY <1>1, <1>2, <1>3, <1>6 DEF Promised, GivenPCs
  <2> QED
    BY <1>6, <2>1, <2>2, <2>3 DEF Promised, OkMeansAnalyzed
<1>11. Registered'
  <2>1. /\ proc' # "up" => FALSE
        /\ AnalysisJobs' = {} /\ ~analysis'.active /\ index'.active
    BY <1>1, <1>2, <1>3 DEF Registered, BeforePCs, AnalysisJobs
  <2>2. \A q \in stage'.left : PDFJob(q, starts') \notin member'
    <3>1. \A q \in stage.left : PDFJob(q, starts) \in member => q \in Best(stage.left, 1)
      BY <1>1, <1>3 DEF Registered
    <3>2. \A q \in Best(stage.left, 1) : q = p
      BY <1>3, <1>6, BestOneIsOne
    <3> QED
      BY <1>2, <1>6, <3>1, <3>2
  <2> QED
    BY <1>6, <2>1, <2>2 DEF Registered
<1>12. Counts'
  BY <1>1, <1>2, CountsKept
<1> QED
  BY <1>5, <1>8, <1>9, <1>10, <1>11, <1>12 DEF StageInv

\* A batch is cancelled while no analysis is.
LEMMA CancelKeeps ==
  ASSUME StageInv, TypeOK', IsFiniteSet(member'), stage.pc \in {"index", "submit_pdf", "wait_index"},
         At("failed"), index' = Released(index),
         member' \in {member, {j \in member : j.kind = "analysis"}},
         UNCHANGED <<analyzed, worked, proc, starts, analysis, handler, sending>>,
         \A j \in Jobs : j.kind = "analysis" => state'[j] = state[j],
         \A j \in Jobs : state'[j] = "completed" => state[j] = "completed"
  PROVE  StageInv'
<1>1. /\ TypeOK /\ IsFiniteSet(member) /\ AnalysisIsNew /\ Registered /\ ChunksAreNew
      /\ Promised /\ Counts
  BY DEF StageInv
<1>2. stage'.pc = "failed" /\ stage'.given = stage.given /\ stage'.left = stage.left
  <2>1. "failed" \in PCs
    BY DEF PCs
  <2> QED
    BY <1>1, <2>1, StageParts
<1>3. ~index'.active /\ ~analysis'.active
  <2>1. ~analysis.active
    BY <1>1 DEF Registered, BeforePCs
  <2> QED
    BY <1>1, <2>1, BatchParts DEF TypeOK
<1>4. AnalysisIsNew'
  <2>1. \A j \in Jobs : j.kind = "analysis" /\ state[j] = "new" => state'[j] = "new"
    OBVIOUS
  <2>2. stage'.pc \notin BeforePCs /\ stage'.pc # "submit"
    BY <1>2 DEF BeforePCs
  <2> QED
    BY <1>1, <2>1, <2>2, NewKept
<1>5. Registered'
  BY <1>2, <1>3 DEF Registered, BeforePCs
<1>6. ChunksAreNew'
  BY <1>1, ChunksKept
<1>7. Promised'
  <2>1. /\ \A j \in worked' : j.kind = "analysis" => j.paper \in analyzed'
        /\ \A j \in Jobs : state'[j] = "completed" => j \in worked'
        /\ Best(Papers, Cap)' = Best(Papers, Cap)
    BY <1>1, <1>2, WorkKept
  <2>2. stage'.left \subseteq stage'.given
    BY <1>1, <1>2 DEF Promised
  <2> QED
    BY <1>2, <2>1, <2>2 DEF Promised, OkMeansAnalyzed, GivenPCs
<1>8. Counts'
  BY <1>3 DEF Counts, ClosedWhenFull
<1> QED
  BY <1>4, <1>5, <1>6, <1>7, <1>8 DEF StageInv

LEMMA CancelsKeep ==
  ASSUME StageInv, NEW p \in Papers, CheckFails \/ IndexFails \/ SubmitPDFFails(p)
  PROVE  StageInv'
<1>1. /\ TypeOK /\ IsFiniteSet(member) /\ AnalysisIsNew /\ Registered /\ ChunksAreNew
      /\ Promised /\ Counts
  BY DEF StageInv
<1>2. CASE CheckFails \/ IndexFails
  <2>1. TypeOK' /\ IsFiniteSet(member')
    BY <1>1, <1>2, CancelsTypes
  <2>2. /\ UNCHANGED <<doc, analyzed, state, worked, told, proc, starts, analysis, handler, sending, locked>>
        /\ At("failed") /\ index' = Released(index)
        /\ member' \in {member, {j \in member : j.kind = "analysis"}}
        /\ stage.pc \in {"index", "submit_pdf", "wait_index"}
    BY <1>2 DEF CheckFails, IndexFails, queue
  <2>3. /\ \A j \in Jobs : j.kind = "analysis" => state'[j] = state[j]
        /\ \A j \in Jobs : state'[j] = "completed" => state[j] = "completed"
    BY <2>2
  <2> QED
    BY <2>1, <2>2, <2>3, CancelKeeps
<1>3. CASE SubmitPDFFails(p)
  <2>1. /\ UNCHANGED <<doc, analyzed, proc, starts, analysis, handler, sending>>
        /\ At("failed") /\ index' = Released(index)
        /\ member' \in {member, {j \in member : j.kind = "analysis"}}
        /\ stage.pc = "submit_pdf" /\ p \in Best(stage.left, 1)
        /\ Delivery!Queue(PDFJob(p, starts)) \/ UNCHANGED queue
    BY <1>3 DEF SubmitPDFFails
  <2>2. PDFJob(p, starts) \in Jobs
    BY <1>1, <2>1, CurrentPDF
  <2>3. TypeOK' /\ IsFiniteSet(member')
    BY <1>1, <1>3, <2>2, CancelsTypes
  <2>4. /\ UNCHANGED <<worked, told>> /\ \A i \in Jobs : i # PDFJob(p, starts) => state'[i] = state[i]
        /\ \A i \in Jobs : state'[i] = "completed" => state[i] = "completed"
    BY <1>1, <2>1, <2>2, PerhapsQueued
  <2>5. \A j \in Jobs : j.kind = "analysis" => state'[j] = state[j]
    BY <2>4, PDFShapes
  <2> QED
    BY <2>1, <2>3, <2>4, <2>5, CancelKeeps
<1> QED
  BY <1>2, <1>3

LEMMA AllSubmittedKeeps ==
  ASSUME StageInv, AllSubmitted
  PROVE  StageInv'
<1>1. /\ TypeOK /\ IsFiniteSet(member) /\ AnalysisIsNew /\ Registered /\ ChunksAreNew
      /\ Promised /\ Counts
  BY DEF StageInv
<1>2. UNCHANGED <<doc, analyzed, state, worked, told, proc, starts, analysis, member, handler, sending, locked>>
  BY DEF AllSubmitted, queue
<1>3. TypeOK' /\ IsFiniteSet(member')
  BY <1>1, AllSubmittedTypes
<1>4. stage.pc = "index"
  BY DEF AllSubmitted
<1>5. stage'.pc = "wait_index" /\ stage'.left = stage.left /\ stage'.given = stage.given
  <2>1. "wait_index" \in PCs
    BY DEF PCs
  <2> QED
    BY <1>1, <2>1, StageParts DEF AllSubmitted
<1>6. /\ index'.active = index.active /\ index'.total = index.total /\ index'.completed = index.completed
      /\ index.closed => index'.closed
  <2>1. index \in Batch
    BY <1>1 DEF TypeOK
  <2>2. index' = [index EXCEPT !.closed = index.closed \/ index.total = 0]
    BY DEF AllSubmitted
  <2> QED
    BY <2>1, <2>2 DEF Batch
<1>7. AnalysisIsNew'
  <2>1. stage.pc \in BeforePCs \ {"none"}
    BY <1>4 DEF BeforePCs
  <2> QED
    BY <1>1, <1>2, <1>3, <1>5, <2>1, NewKept
<1>8. Registered'
  BY <1>1, <1>2, <1>4, <1>5, <1>6 DEF Registered, BeforePCs, AnalysisJobs
<1>9. ChunksAreNew'
  BY <1>1, <1>2, <1>3, ChunksKept
<1>10. Promised'
  <2>1. /\ \A j \in worked' : j.kind = "analysis" => j.paper \in analyzed'
        /\ \A j \in Jobs : state'[j] = "completed" => j \in worked'
        /\ Best(Papers, Cap)' = Best(Papers, Cap)
    BY <1>1, <1>2, WorkKept
  <2>2. stage'.left \subseteq stage'.given
    BY <1>1, <1>5 DEF Promised
  <2>3. stage'.given # {} /\ Best(Papers, Cap) \subseteq analyzed' \cup stage'.given
    BY <1>1, <1>2, <1>4, <1>5 DEF Promised, GivenPCs
  <2> QED
    BY <1>5, <2>1, <2>2, <2>3 DEF Promised, OkMeansAnalyzed
<1>11. Counts'
  BY <1>1, <1>2, <1>6 DEF Counts, ClosedWhenFull, IndexJobs, AnalysisJobs
<1> QED
  BY <1>3, <1>7, <1>8, <1>9, <1>10, <1>11 DEF StageInv

\* The analysis jobs are registered, and there is at least one.
LEMMA IndexDoneKeeps ==
  ASSUME StageInv, IndexDone
  PROVE  StageInv'
<1> DEFINE new == {AnalysisJob(p, starts) : p \in stage.given}
<1>1. /\ TypeOK /\ IsFiniteSet(member) /\ AnalysisIsNew /\ Registered /\ ChunksAreNew
      /\ Promised /\ Counts
  BY DEF StageInv
<1>2. UNCHANGED <<doc, analyzed, state, worked, told, proc, starts, handler, sending, locked>>
  BY DEF IndexDone, queue
<1>3. TypeOK' /\ IsFiniteSet(member')
  BY <1>1, IndexDoneTypes
<1>4. stage.pc = "wait_index" /\ member' = member \cup new
  BY DEF IndexDone
<1>5. stage.given \in SUBSET Papers /\ stage.given # {}
  BY <1>1, <1>4, StageParts DEF Promised, GivenPCs
<1>6. stage'.pc = "submit" /\ stage'.left = stage.given /\ stage'.given = stage.given
  <2>1. "submit" \in PCs
    BY DEF PCs
  <2> QED
    BY <1>1, <1>5, <2>1, StageParts DEF IndexDone
<1>7. /\ analysis'.active /\ analysis'.total = Cardinality(stage.given) /\ analysis'.completed = 0
      /\ ~analysis'.failed /\ ~analysis'.closed
  BY DEF IndexDone, NoBatch
<1>8. ~index'.active
  <2>1. index' = Released(index) /\ index \in Batch
    BY <1>1 DEF IndexDone, TypeOK
  <2> QED
    BY <2>1, BatchParts
<1>9. AnalysisIsNew'
  <2>1. stage.pc \in BeforePCs \ {"none"} /\ stage'.pc \notin BeforePCs
    BY <1>4, <1>6 DEF BeforePCs
  <2> QED
    BY <1>1, <1>2, <1>3, <1>6, <2>1, NewKept
<1>10. Registered'
  <2>1. proc' # "up" => FALSE
    BY <1>1, <1>2, <1>4 DEF Registered
  <2>2. \A p \in stage'.left : AnalysisJob(p, starts') \in member'
    BY <1>2, <1>4, <1>6
  <2> QED
    BY <1>6, <1>7, <1>8, <2>1, <2>2 DEF Registered, BeforePCs
<1>11. ChunksAreNew'
  <2>1. \A e \in member' : e.kind = "embed" => e \in member
    BY <1>4, AnalysisShapes
  <2> QED
    BY <1>1, <1>2, <1>3, <2>1, ChunksKept
<1>12. Promised'
  <2>1. /\ \A j \in worked' : j.kind = "analysis" => j.paper \in analyzed'
        /\ \A j \in Jobs : state'[j] = "completed" => j \in worked'
        /\ Best(Papers, Cap)' = Best(Papers, Cap)
    BY <1>1, <1>2, WorkKept
  <2>2. stage'.given # {} /\ Best(Papers, Cap) \subseteq analyzed' \cup stage'.given
    BY <1>1, <1>2, <1>4, <1>6 DEF Promised, GivenPCs
  <2>3. \A p \in stage'.given : AnalysisJob(p, starts') \in member'
    BY <1>2, <1>4, <1>6
  <2> QED
    BY <1>6, <2>1, <2>2, <2>3 DEF Promised, OkMeansAnalyzed
<1>13. AnalysisJobs' = new
  <2>1. AnalysisJobs = {}
    BY <1>1, <1>4 DEF Registered, BeforePCs
  <2> QED
    BY <1>4, <2>1, AnalysisShapes DEF AnalysisJobs
<1>14. Counts'
  <2>1. Cardinality(new) = Cardinality(stage.given) /\ IsFiniteSet(stage.given) /\ Cardinality(stage.given) \in Nat
    BY <1>5, AnalysisSet, FinitePapers
  <2>2. Cardinality(stage.given) # 0
    BY <1>5, <2>1, FS_EmptySet
  <2> HIDE DEF new
  <2>3. analysis'.total = analysis'.completed + Cardinality(AnalysisJobs') /\ analysis'.completed # analysis'.total
    BY <1>7, <1>13, <2>1, <2>2
  <2> QED
    BY <1>7, <1>8, <2>3 DEF Counts, ClosedWhenFull
<1> QED
  BY <1>3, <1>9, <1>10, <1>11, <1>12, <1>14 DEF StageInv

\* An unfailed batch that is done has reported a completed job for each paper.
LEMMA AnalysisDoneKeeps ==
  ASSUME StageInv, AnalysisDone
  PROVE  StageInv'
<1>1. /\ TypeOK /\ IsFiniteSet(member) /\ AnalysisIsNew /\ Registered /\ ChunksAreNew
      /\ Promised /\ Counts
  BY DEF StageInv
<1>2. UNCHANGED <<doc, analyzed, state, worked, told, proc, starts, index, member, handler, sending, locked>>
  BY DEF AnalysisDone, queue
<1>3. TypeOK' /\ IsFiniteSet(member')
  BY <1>1, AnalysisDoneTypes
<1>4. stage.pc = "wait_analysis" /\ analysis.closed
  BY DEF AnalysisDone
<1>5. /\ stage'.given = stage.given /\ stage'.left = stage.left
      /\ \/ analysis.failed /\ stage'.pc = "failed"
         \/ ~analysis.failed /\ stage'.pc = "ok"
  <2>1. {"ok", "failed"} \subseteq PCs
    BY DEF PCs
  <2> QED
    BY <1>1, <2>1, StageParts DEF AnalysisDone
<1>6. ~analysis'.active /\ ~index'.active
  <2>1. analysis' = Released(analysis) /\ analysis \in Batch
    BY <1>1 DEF AnalysisDone, TypeOK
  <2>2. ~index'.active
    BY <1>1, <1>2, <1>4 DEF Registered
  <2> QED
    BY <2>1, <2>2, BatchParts
<1>7. AnalysisIsNew'
  <2>1. stage'.pc \notin BeforePCs /\ stage'.pc # "submit"
    BY <1>5 DEF BeforePCs
  <2> QED
    BY <1>1, <1>2, <1>3, <2>1, NewKept
<1>8. Registered'
  BY <1>5, <1>6 DEF Registered, BeforePCs
<1>9. ChunksAreNew'
  BY <1>1, <1>2, <1>3, ChunksKept
<1>10. AnalysisJobs = {}
  <2>1. analysis.active
    BY <1>1, <1>4 DEF Registered
  <2>2. analysis.total = analysis.completed + Cardinality(AnalysisJobs) /\ analysis.completed = analysis.total
    BY <1>1, <1>4, <2>1 DEF Counts, ClosedWhenFull
  <2>3. analysis.total \in Nat
    BY <1>1, BatchParts DEF TypeOK
  <2>4. IsFiniteSet(AnalysisJobs)
    <3>1. AnalysisJobs \in SUBSET member
      BY DEF AnalysisJobs
    <3> QED
      BY <1>1, <3>1, FS_Subset
  <2>5. Cardinality(AnalysisJobs) \in Nat
    BY <2>4, FS_CardinalityType
  <2>6. Cardinality(AnalysisJobs) = 0
    BY <2>2, <2>3, <2>5
  <2> QED
    BY <2>4, <2>6, FS_EmptySet
<1>11. ~analysis.failed => stage.given \subseteq analyzed
  <2>1. \A p : AnalysisJob(p, starts) \notin member
    BY <1>10, AnalysisShapes DEF AnalysisJobs
  <2> QED
    BY <1>1, <1>4, <2>1 DEF Promised
<1>12. Promised'
  <2>1. /\ \A j \in worked' : j.kind = "analysis" => j.paper \in analyzed'
        /\ \A j \in Jobs : state'[j] = "completed" => j \in worked'
        /\ Best(Papers, Cap)' = Best(Papers, Cap)
    BY <1>1, <1>2, WorkKept
  <2>2. stage'.left \subseteq stage'.given
    BY <1>1, <1>5 DEF Promised
  <2>3. Best(Papers, Cap) \subseteq analyzed \cup stage.given
    BY <1>1, <1>4 DEF Promised, GivenPCs
  <2>4. stage'.pc = "ok" => Best(Papers, Cap) \subseteq analyzed'
    BY <1>2, <1>5, <1>11, <2>3
  <2> QED
    BY <1>5, <2>1, <2>2, <2>4 DEF Promised, OkMeansAnalyzed, GivenPCs
<1>13. Counts'
  BY <1>6 DEF Counts, ClosedWhenFull
<1> QED
  BY <1>3, <1>7, <1>8, <1>9, <1>12, <1>13 DEF StageInv

LEMMA SubmitAnalysisKeeps ==
  ASSUME StageInv, NEW p \in Papers, SubmitAnalysis(p)
  PROVE  StageInv'
<1>1. /\ TypeOK /\ IsFiniteSet(member) /\ AnalysisIsNew /\ Registered /\ ChunksAreNew
      /\ Promised /\ Counts
  BY DEF StageInv
<1>2. UNCHANGED <<doc, analyzed, proc, starts, index, analysis, member, handler, sending, locked>>
  BY DEF SubmitAnalysis, batches
<1>3. TypeOK' /\ IsFiniteSet(member')
  BY <1>1, SubmitAnalysisTypes
<1>4. stage.pc = "submit" /\ Delivery!Queue(AnalysisJob(p, starts)) /\ starts \in 1 .. MaxStarts
  BY <1>1 DEF SubmitAnalysis, TypeOK
<1>5. /\ stage.left \in SUBSET Papers /\ stage'.left = stage.left \ {p} /\ stage'.given = stage.given
      /\ stage'.pc \in {"submit", "wait_analysis"}
  <2>1. stage.left \in SUBSET Papers /\ stage.left \ {p} \in SUBSET Papers /\ {"submit", "wait_analysis"} \subseteq PCs
    BY <1>1, StageParts DEF PCs
  <2>2. Left("submit", stage.left \ {p}) \/ Left("wait_analysis", stage.left \ {p})
    BY DEF SubmitAnalysis
  <2> QED
    BY <1>1, <2>1, <2>2, StageParts
<1>6. /\ UNCHANGED <<worked, told>> /\ \A i \in Jobs : i # AnalysisJob(p, starts) => state'[i] = state[i]
      /\ \A i \in Jobs : state'[i] = "completed" => state[i] = "completed"
  <2>1. AnalysisJob(p, starts) \in Jobs
    BY <1>4, AnalysisShapes
  <2> QED
    BY <1>1, <1>4, <2>1, PerhapsQueued
<1>7. \A q \in Papers, k \in 1 .. MaxStarts : q # p \/ k # starts => state'[AnalysisJob(q, k)] = state[AnalysisJob(q, k)]
  BY <1>6, AnalysisShapes
<1>8. AnalysisIsNew'
  <2>1. \A q \in Papers, k \in 1 .. MaxStarts : k > starts => state'[AnalysisJob(q, k)] = "new"
    BY <1>1, <1>4, <1>7 DEF AnalysisIsNew
  <2>2. \A q \in stage'.left : state'[AnalysisJob(q, starts)] = "new"
    BY <1>1, <1>4, <1>5, <1>7 DEF AnalysisIsNew
  <2> QED
    BY <1>2, <1>5, <2>1, <2>2 DEF AnalysisIsNew, BeforePCs
<1>9. Registered'
  BY <1>1, <1>2, <1>4, <1>5 DEF Registered, BeforePCs
<1>10. ChunksAreNew'
  BY <1>1, <1>2, <1>3, ChunksKept
<1>11. Promised'
  <2>1. /\ \A j \in worked' : j.kind = "analysis" => j.paper \in analyzed'
        /\ \A j \in Jobs : state'[j] = "completed" => j \in worked'
        /\ Best(Papers, Cap)' = Best(Papers, Cap)
    BY <1>1, <1>2, <1>6, WorkKept
  <2>2. stage'.left \subseteq stage'.given
    BY <1>1, <1>5 DEF Promised
  <2>3. stage'.given # {} /\ Best(Papers, Cap) \subseteq analyzed' \cup stage'.given
    BY <1>1, <1>2, <1>4, <1>5 DEF Promised, GivenPCs
  <2>4. \A q \in stage'.given : AnalysisJob(q, starts') \in member' \/ q \in analyzed' \/ analysis'.failed
    BY <1>1, <1>2, <1>4, <1>5 DEF Promised
  <2> QED
    BY <1>5, <2>1, <2>2, <2>3, <2>4 DEF Promised, OkMeansAnalyzed
<1>12. Counts'
  BY <1>1, <1>2, CountsKept
<1> QED
  BY <1>3, <1>8, <1>9, <1>10, <1>11, <1>12 DEF StageInv

\* The jobs of the papers left are all registered, and are counted at once.
LEMMA SubmitAnalysisFailsKeeps ==
  ASSUME StageInv, NEW p \in Papers, SubmitAnalysisFails(p)
  PROVE  StageInv'
<1> DEFINE gone == {AnalysisJob(q, starts) : q \in stage.left}
<1>1. /\ TypeOK /\ IsFiniteSet(member) /\ AnalysisIsNew /\ Registered /\ ChunksAreNew
      /\ Promised /\ Counts
  BY DEF StageInv
<1>2. UNCHANGED <<doc, analyzed, proc, starts, index, handler, sending, locked>> /\ member' = member \ gone
  BY DEF SubmitAnalysisFails
<1>3. TypeOK' /\ IsFiniteSet(member')
  BY <1>1, SubmitAnalysisFailsTypes
<1>4. /\ stage.pc = "submit" /\ starts \in 1 .. MaxStarts
      /\ Delivery!Queue(AnalysisJob(p, starts)) \/ UNCHANGED queue
  BY <1>1 DEF SubmitAnalysisFails, TypeOK
<1>5. stage.left \in SUBSET Papers /\ stage'.left = {} /\ stage'.given = stage.given /\ stage'.pc = "wait_analysis"
  <2>1. "wait_analysis" \in PCs /\ stage.left \in SUBSET Papers
    BY <1>1, StageParts DEF PCs
  <2> QED
    BY <1>1, <2>1, StageParts DEF SubmitAnalysisFails
<1>6. /\ UNCHANGED <<worked, told>> /\ \A i \in Jobs : i # AnalysisJob(p, starts) => state'[i] = state[i]
      /\ \A i \in Jobs : state'[i] = "completed" => state[i] = "completed"
  <2>1. AnalysisJob(p, starts) \in Jobs
    BY <1>4, AnalysisShapes
  <2> QED
    BY <1>1, <1>4, <2>1, PerhapsQueued
<1>7. AnalysisIsNew'
  <2>1. \A q \in Papers, k \in 1 .. MaxStarts : k # starts => state'[AnalysisJob(q, k)] = state[AnalysisJob(q, k)]
    BY <1>6, AnalysisShapes
  <2>2. \A q \in Papers, k \in 1 .. MaxStarts : k > starts => state'[AnalysisJob(q, k)] = "new"
    BY <1>1, <1>4, <2>1 DEF AnalysisIsNew
  <2> QED
    BY <1>2, <1>5, <2>2 DEF AnalysisIsNew, BeforePCs
<1>8. ChunksAreNew'
  BY <1>1, <1>2, <1>3, ChunksKept
<1>9. gone \in SUBSET AnalysisJobs /\ AnalysisJobs' = AnalysisJobs \ gone /\ IndexJobs' = IndexJobs
  <2>1. gone \subseteq AnalysisJobs
    BY <1>1, <1>4, AnalysisShapes DEF Registered, AnalysisJobs
  <2>2. \A j \in gone : j.kind = "analysis"
    BY AnalysisShapes
  <2> HIDE DEF gone
  <2> QED
    BY <1>2, <2>1, <2>2 DEF AnalysisJobs, IndexJobs
<1>10. Cardinality(gone) = Cardinality(stage.left)
  BY <1>5, AnalysisSet
<1> HIDE DEF gone
<1>11. /\ Cardinality(AnalysisJobs) \in Nat /\ Cardinality(gone) \in Nat /\ Cardinality(AnalysisJobs') \in Nat
       /\ Cardinality(AnalysisJobs') = Cardinality(AnalysisJobs) - Cardinality(gone)
  <2>1. AnalysisJobs \in SUBSET member
    BY DEF AnalysisJobs
  <2>2. IsFiniteSet(AnalysisJobs) /\ IsFiniteSet(gone) /\ IsFiniteSet(AnalysisJobs \ gone)
    BY <1>1, <1>9, <2>1, FS_Subset
  <2>3. Cardinality(AnalysisJobs \ gone) = Cardinality(AnalysisJobs) - Cardinality(AnalysisJobs \cap gone)
    BY <2>2, FS_Difference
  <2>4. AnalysisJobs \cap gone = gone
    BY <1>9
  <2> QED
    BY <1>9, <2>2, <2>3, <2>4, FS_CardinalityType
<1>12. analysis.active /\ ~index.active /\ proc = "up"
  BY <1>1, <1>4 DEF Registered
<1>13. analysis \in Batch /\ analysis.total \in Nat /\ analysis.completed \in Nat
  BY <1>1, BatchParts DEF TypeOK
<1>14. /\ analysis'.active /\ analysis'.total = analysis.total /\ analysis'.failed
       /\ analysis'.completed = analysis.completed + Cardinality(gone)
       /\ analysis'.closed <=> analysis.completed + Cardinality(gone) >= analysis.total
  <2> DEFINE done == analysis.completed + Cardinality(gone)
             cl   == done >= analysis.total
  <2>1. analysis' = [analysis EXCEPT !.completed = done, !.failed = TRUE, !.closed = cl]
    BY <1>10 DEF SubmitAnalysisFails
  <2>2. DOMAIN analysis = {"active", "total", "completed", "failed", "closed"}
    BY <1>13 DEF Batch
  <2> HIDE DEF done, cl
  <2>3. /\ analysis'.active = analysis.active /\ analysis'.total = analysis.total /\ analysis'.failed
        /\ analysis'.completed = done
    BY <2>1, <2>2
  <2>4. analysis'.closed <=> cl
    BY <2>1, <2>2
  <2> QED
    BY <1>12, <2>3, <2>4 DEF done, cl
<1>15. Registered'
  BY <1>2, <1>5, <1>12, <1>14 DEF Registered, BeforePCs
<1>16. Promised'
  <2>1. /\ \A j \in worked' : j.kind = "analysis" => j.paper \in analyzed'
        /\ \A j \in Jobs : state'[j] = "completed" => j \in worked'
        /\ Best(Papers, Cap)' = Best(Papers, Cap)
    BY <1>1, <1>2, <1>6, WorkKept
  <2>2. stage'.given # {} /\ Best(Papers, Cap) \subseteq analyzed' \cup stage'.given
    BY <1>1, <1>2, <1>4, <1>5 DEF Promised, GivenPCs
  <2> QED
    BY <1>5, <1>14, <2>1, <2>2 DEF Promised, OkMeansAnalyzed
<1>17. Counts'
  <2>1. analysis.total = analysis.completed + Cardinality(AnalysisJobs)
    BY <1>1, <1>12 DEF Counts
  <2>2. analysis'.total = analysis'.completed + Cardinality(AnalysisJobs')
    BY <1>11, <1>13, <1>14, <2>1
  <2>3. analysis'.closed <=> analysis'.completed = analysis'.total
    BY <1>11, <1>13, <1>14, <2>1, <2>2
  <2>4. ~index'.active
    BY <1>2, <1>12
  <2> QED
    BY <2>2, <2>3, <2>4 DEF Counts, ClosedWhenFull
<1> QED
  BY <1>3, <1>7, <1>8, <1>15, <1>16, <1>17 DEF StageInv

-------------------------------------------------------------------------------
(* The theorems *)

LEMMA InitStage == Init => StageInv
<1> SUFFICES ASSUME Init PROVE StageInv
  OBVIOUS
<1>1. /\ doc = [p \in Papers |-> [stored |-> FALSE, missing |-> {}]] /\ analyzed = {}
      /\ proc = "up" /\ starts = 1 /\ stage = [pc |-> "begin", given |-> {}, left |-> {}]
      /\ index = NoBatch /\ analysis = NoBatch /\ member = {}
      /\ handler = [j \in PDFJobs |-> Idle] /\ sending = {} /\ locked = FALSE
  BY DEF Init
<1>2. /\ state = [j \in Jobs |-> "new"] /\ worked = {} /\ told = [j \in Jobs |-> <<>>]
  BY DEF Init, Delivery!Init
<1>3. TypeOK
  <2>1. "begin" \in PCs /\ "new" \in Delivery!States
    BY DEF PCs, Delivery!States
  <2>2. stage \in Stages
    BY <1>1, <2>1 DEF Stages
  <2>3. handler \in Handlers
    BY <1>1, Bounds DEF Handlers, Idle
  <2>4. starts \in 1 .. MaxStarts
    BY <1>1, Bounds
  <2>5. state \in [Jobs -> Delivery!States] /\ told \in [Jobs -> {<<>>, <<"completed">>, <<"dead">>}]
    BY <1>2, <2>1
  <2> QED
    BY <1>1, <1>2, <2>2, <2>3, <2>4, <2>5, NoBatchFacts DEF TypeOK, Stages, Handlers
<1>4. IsFiniteSet(member)
  BY <1>1, FS_EmptySet
<1>5. AnalysisIsNew
  BY <1>1, <1>2, <1>3, AnalysisShapes DEF AnalysisIsNew, TypeOK
<1>6. Registered
  BY <1>1, NoBatchFacts DEF Registered, AnalysisJobs
<1>7. ChunksAreNew
  BY <1>1 DEF ChunksAreNew, Idle
<1>8. Promised
  BY <1>1, <1>2 DEF Promised, GivenPCs, OkMeansAnalyzed
<1>9. Counts
  BY <1>1, NoBatchFacts DEF Counts, ClosedWhenFull
<1> QED
  BY <1>3, <1>4, <1>5, <1>6, <1>7, <1>8, <1>9 DEF StageInv

LEMMA NextStage == StageInv /\ [Next]_vars => StageInv'
<1> SUFFICES ASSUME StageInv, [Next]_vars PROVE StageInv'
  OBVIOUS
<1>1. CASE RunStep
  <2>1. CASE Begin
    BY <2>1, BeginKeeps
  <2>2. CASE CheckFails \/ IndexFails
    <3>1. stage.pc \in {"index", "wait_index"}
      BY <2>2 DEF CheckFails, IndexFails
    <3>2. stage.given # {} /\ stage.given \subseteq Papers
      BY <3>1, StageParts DEF StageInv, Promised, GivenPCs
    <3>3. PICK p \in Papers : TRUE
      BY <3>2
    <3> QED
      BY <2>2, CancelsKeep
  <2>3. CASE AllSubmitted
    BY <2>3, AllSubmittedKeeps
  <2>4. CASE IndexDone
    BY <2>4, IndexDoneKeeps
  <2>5. CASE AnalysisDone
    BY <2>5, AnalysisDoneKeeps
  <2>6. ASSUME NEW p \in Papers, RegisterPDF(p) \/ SubmitPDF(p) \/ SubmitPDFFails(p)
        PROVE  StageInv'
    BY <2>6, RegisterPDFKeeps, SubmitPDFKeeps, CancelsKeep
  <2>7. ASSUME NEW p \in Papers, SubmitAnalysis(p) \/ SubmitAnalysisFails(p)
        PROVE  StageInv'
    BY <2>7, SubmitAnalysisKeeps, SubmitAnalysisFailsKeeps
  <2> QED
    BY <1>1, <2>1, <2>2, <2>3, <2>4, <2>5, <2>6, <2>7 DEF RunStep
<1>2. ASSUME NEW j \in Jobs, WorkerStep(j)
      PROVE  StageInv'
  <2>1. CASE j \in PDFJobs /\ (StoreChunks(j) \/ SubmitEmbeddings(j) \/ PDFHandled(j))
    BY <2>1, StoreChunksKeeps, SubmitEmbeddingsKeeps, PDFHandledKeeps
  <2>2. CASE WorkDone(j) \/ End(j) \/ Tell(j)
    BY <2>2, WorkDoneKeeps, EndKeeps, TellKeeps
  <2>3. CASE SubmitAsync(j) \/ SubmitAsyncFails(j) \/ Panic(j)
    BY <2>3, SubmitAsyncKeeps, SubmitAsyncFailsKeeps, PanicKeeps
  <2> QED
    BY <1>2, <2>1, <2>2, <2>3 DEF WorkerStep
<1>3. CASE Crash \/ Restart
  BY <1>3, CrashKeeps, RestartKeeps
<1>4. CASE UNCHANGED vars
  <2>1. UNCHANGED <<doc, analyzed, state, worked, told, proc, starts, stage, index, analysis, member, handler, sending, locked>>
    BY <1>4 DEF vars
  <2>2. TypeOK' /\ IsFiniteSet(member')
    BY <2>1 DEF StageInv, TypeOK
  <2>3. AnalysisIsNew'
    BY <2>1 DEF StageInv, AnalysisIsNew
  <2>4. Registered'
    BY <2>1 DEF StageInv, Registered, AnalysisJobs, Best
  <2>5. ChunksAreNew'
    BY <2>1 DEF StageInv, ChunksAreNew
  <2>6. Promised'
    BY <2>1 DEF StageInv, Promised, OkMeansAnalyzed, Best, Papers
  <2>7. Counts'
    BY <2>1, CountsKept DEF StageInv
  <2> QED
    BY <2>2, <2>3, <2>4, <2>5, <2>6, <2>7 DEF StageInv
<1> QED
  BY <1>1, <1>2, <1>3, <1>4 DEF Next

LEMMA StageInvariant == Spec => []StageInv
<1> QED
  BY InitStage, NextStage, PTL DEF Spec

\* Whichever of submission, failed submission and completion hook comes first,
\* the completions to come of each batch are the jobs registered for it
\* (indexer.go register, complete; analyzer.go HandleJobCompletion).
THEOREM BatchesCountTheirJobsHolds == Spec => []BatchesCountTheirJobs
<1>1. StageInv => BatchesCountTheirJobs
  <2> SUFFICES ASSUME StageInv PROVE BatchesCountTheirJobs
    OBVIOUS
  <2>1. TypeOK /\ IsFiniteSet(member) /\ Counts
    BY DEF StageInv
  <2>2. Cardinality(AnalysisJobs) \in Nat /\ Cardinality(IndexJobs) \in Nat
    <3>1. AnalysisJobs \in SUBSET member /\ IndexJobs \in SUBSET member
      BY DEF AnalysisJobs, IndexJobs
    <3> QED
      BY <2>1, <3>1, FS_Subset, FS_CardinalityType
  <2>3. index.total \in Nat /\ index.completed \in Nat /\ analysis.total \in Nat /\ analysis.completed \in Nat
    BY <2>1, BatchParts DEF TypeOK
  <2>4. index.active => index.total - index.completed = Cardinality(IndexJobs)
    BY <2>1, <2>2, <2>3 DEF Counts
  <2>5. analysis.active => analysis.total - analysis.completed = Cardinality(AnalysisJobs)
    BY <2>1, <2>2, <2>3 DEF Counts
  <2> QED
    BY <2>1, <2>4, <2>5 DEF BatchesCountTheirJobs
<1> QED
  BY <1>1, StageInvariant, PTL

\* What the counts say of the jobs to come.
LEMMA NothingToCome ==
  ASSUME StageInv
  PROVE  /\ index.active => (index.total <= index.completed <=> IndexJobs = {})
         /\ index.active => (index.total = index.completed <=> IndexJobs = {})
         /\ analysis.active => (analysis.total = analysis.completed <=> AnalysisJobs = {})
<1>1. TypeOK /\ IsFiniteSet(member) /\ Counts
  BY DEF StageInv
<1>2. IsFiniteSet(IndexJobs) /\ IsFiniteSet(AnalysisJobs)
  <2>1. AnalysisJobs \in SUBSET member /\ IndexJobs \in SUBSET member
    BY DEF AnalysisJobs, IndexJobs
  <2> QED
    BY <1>1, <2>1, FS_Subset
<1>3. /\ Cardinality(IndexJobs) \in Nat /\ Cardinality(AnalysisJobs) \in Nat
      /\ Cardinality(IndexJobs) = 0 <=> IndexJobs = {}
      /\ Cardinality(AnalysisJobs) = 0 <=> AnalysisJobs = {}
  BY <1>2, FS_CardinalityType, FS_EmptySet
<1>4. index.total \in Nat /\ index.completed \in Nat /\ analysis.total \in Nat /\ analysis.completed \in Nat
  BY <1>1, BatchParts DEF TypeOK
<1>5. /\ index.active => index.total = index.completed + Cardinality(IndexJobs)
      /\ analysis.active => analysis.total = analysis.completed + Cardinality(AnalysisJobs)
  BY <1>1 DEF Counts
<1> QED
  BY <1>3, <1>4, <1>5

\* The step that closes the indexing batch leaves nothing to come.
LEMMA ClosingStep ==
  ASSUME StageInv, StageInv', Next, index'.closed, ~index.closed
  PROVE  IndexJobs' = {}
<1>1. TypeOK /\ Registered /\ index \in Batch
  BY DEF StageInv, TypeOK
<1>2. /\ index' # index /\ index' # Released(index) /\ index' # NoBatch
      /\ index' # [NoBatch EXCEPT !.active = TRUE]
      /\ index' # [index EXCEPT !.total = index.total + 1]
  <2>1. ~Released(index).closed /\ ~[index EXCEPT !.total = index.total + 1].closed
    BY <1>1 DEF Released, Batch
  <2>2. ~NoBatch.closed /\ ~[NoBatch EXCEPT !.active = TRUE].closed
    BY DEF NoBatch
  <2> QED
    BY <2>1, <2>2
<1>3. CASE AllSubmitted
  <2>1. stage.pc = "index" /\ member' = member /\ index' = [index EXCEPT !.closed = index.closed \/ index.total = 0]
    BY <1>3 DEF AllSubmitted
  <2>2. index.active /\ index.completed \in Nat
    BY <1>1, <2>1, BatchParts DEF Registered
  <2>3. index.total = 0
    BY <1>2, <2>1, <1>1 DEF Batch
  <2>4. IndexJobs = {}
    BY <2>2, <2>3, NothingToCome
  <2> QED
    BY <2>1, <2>4 DEF IndexJobs
<1>4. ASSUME NEW j \in Jobs, NEW err \in BOOLEAN, index' = Counted(index, j, err)
      PROVE  IndexJobs' = {}
  <2>1. index.active /\ index' = Count(index, err)
    BY <1>2, <1>4 DEF Counted
  <2>2. /\ index'.active /\ index'.total = index.total /\ index'.completed = index.completed + 1
        /\ index.completed + 1 >= index.total
    BY <1>1, <2>1, CountParts
  <2>3. index.total \in Nat /\ index.completed \in Nat
    BY <1>1, BatchParts
  <2>4. index'.total <= index'.completed
    BY <2>2, <2>3
  <2> DEFINE Nothing == index.active => (index.total <= index.completed <=> IndexJobs = {})
  <2>5. Nothing'
    BY NothingToCome, PTL
  <2> QED
    BY <2>2, <2>4, <2>5
<1>5. CASE RunStep
  <2>1. CASE Begin
    BY <1>2, <2>1 DEF Begin
  <2>2. CASE CheckFails \/ IndexDone \/ IndexFails
    BY <1>2, <2>2 DEF CheckFails, IndexDone, IndexFails
  <2>3. CASE AnalysisDone
    BY <1>2, <2>3 DEF AnalysisDone
  <2>4. ASSUME NEW p \in Papers, RegisterPDF(p) \/ SubmitPDF(p) \/ SubmitPDFFails(p)
        PROVE  FALSE
    BY <1>2, <2>4 DEF RegisterPDF, SubmitPDF, SubmitPDFFails, batches
  <2>5. ASSUME NEW p \in Papers, SubmitAnalysis(p) \/ SubmitAnalysisFails(p)
        PROVE  FALSE
    BY <1>2, <2>5 DEF SubmitAnalysis, SubmitAnalysisFails, batches
  <2> QED
    BY <1>3, <1>5, <2>1, <2>2, <2>3, <2>4, <2>5 DEF RunStep
<1>6. ASSUME NEW j \in Jobs, WorkerStep(j)
      PROVE  IndexJobs' = {}
  <2>1. CASE StoreChunks(j) \/ SubmitEmbeddings(j) \/ PDFHandled(j)
    BY <1>2, <2>1 DEF StoreChunks, SubmitEmbeddings, PDFHandled, batches
  <2>2. CASE WorkDone(j) \/ End(j) \/ SubmitAsync(j)
    BY <1>2, <2>2 DEF WorkDone, End, SubmitAsync, batches
  <2>3. CASE Tell(j)
    <3>1. PICK err \in BOOLEAN : err = (state[j] = "dead")
      OBVIOUS
    <3>2. index' = Counted(index, j, err)
      BY <1>2, <2>3, <3>1 DEF Tell
    <3> QED
      BY <1>4, <3>2
  <2>4. CASE SubmitAsyncFails(j)
    BY <1>4, <2>4 DEF SubmitAsyncFails
  <2>5. CASE Panic(j)
    BY <1>2, <2>5 DEF Panic, Halt
  <2> QED
    BY <1>6, <2>1, <2>2, <2>3, <2>4, <2>5 DEF WorkerStep
<1>7. CASE Crash \/ Restart
  BY <1>2, <1>7 DEF Crash, Halt, Restart, batches
<1> QED
  BY <1>5, <1>6, <1>7 DEF Next

\* What is registered for a batch with nothing to come is registered by Index.
LEMMA RegisteringStep ==
  ASSUME StageInv, Next, IndexJobs = {}, IndexJobs' # {}
  PROVE  stage.pc = "index"
<1>1. ~(member' \subseteq member)
  BY DEF IndexJobs
<1>2. CASE RunStep
  <2>1. CASE Begin \/ CheckFails \/ AllSubmitted \/ IndexFails \/ AnalysisDone
    BY <1>1, <2>1 DEF Begin, CheckFails, AllSubmitted, IndexFails, AnalysisDone
  <2>2. CASE IndexDone
    BY <2>2, AnalysisShapes DEF IndexDone, IndexJobs
  <2>3. ASSUME NEW p \in Papers, RegisterPDF(p)
        PROVE  stage.pc = "index"
    BY <2>3 DEF RegisterPDF
  <2>4. ASSUME NEW p \in Papers, SubmitPDF(p) \/ SubmitPDFFails(p)
        PROVE  FALSE
    BY <1>1, <2>4 DEF SubmitPDF, SubmitPDFFails, batches
  <2>5. ASSUME NEW p \in Papers, SubmitAnalysis(p) \/ SubmitAnalysisFails(p)
        PROVE  FALSE
    BY <1>1, <2>5 DEF SubmitAnalysis, SubmitAnalysisFails, batches
  <2> QED
    BY <1>2, <2>1, <2>2, <2>3, <2>4, <2>5 DEF RunStep
<1>3. ASSUME NEW j \in Jobs, WorkerStep(j)
      PROVE  FALSE
  <2>1. CASE j \in PDFJobs /\ SubmitEmbeddings(j)
    <3>1. j \in member
      BY <1>1, <2>1 DEF SubmitEmbeddings
    <3> QED
      BY <2>1, <3>1, PDFShapes DEF IndexJobs
  <2>2. CASE StoreChunks(j) \/ PDFHandled(j) \/ WorkDone(j) \/ End(j) \/ SubmitAsync(j)
    BY <1>1, <2>2 DEF StoreChunks, PDFHandled, WorkDone, End, SubmitAsync, batches
  <2>3. CASE Tell(j) \/ SubmitAsyncFails(j) \/ Panic(j)
    BY <1>1, <2>3 DEF Tell, SubmitAsyncFails, Panic, Halt
  <2> QED
    BY <1>3, <2>1, <2>2, <2>3 DEF WorkerStep
<1>4. CASE Crash \/ Restart
  BY <1>1, <1>4 DEF Crash, Halt, Restart, batches
<1> QED
  BY <1>2, <1>3, <1>4 DEF Next

\* The analysis batch is closed exactly while nothing is to come, and the indexing
\* batch is closed at once when nothing that was registered is to come, and only then;
\* what is registered afterwards is a PDF job of the loop of Index (analyzer.go
\* HandleJobCompletion, indexer.go complete, register, SubmitEmbeddings).
THEOREM DoneMeansNothingToComeHolds == Spec => DoneMeansNothingToCome
<1> DEFINE Closing ==
             /\ analysis'.active => (analysis'.closed <=> AnalysisJobs' = {})
             /\ index'.closed /\ ~index.closed => IndexJobs' = {}
             /\ index'.active /\ index'.total > 0 /\ IndexJobs' = {} => index'.closed
             /\ index.closed /\ IndexJobs = {} /\ IndexJobs' # {} => stage.pc = "index"
           ClosedNow ==
             /\ analysis.active => (analysis.closed <=> AnalysisJobs = {})
             /\ index.active /\ index.total > 0 /\ IndexJobs = {} => index.closed
<1>1. StageInv => ClosedNow
  <2> SUFFICES ASSUME StageInv PROVE ClosedNow
    OBVIOUS
  <2>1. ClosedWhenFull
    BY DEF StageInv, Counts
  <2> QED
    BY <2>1, NothingToCome DEF ClosedWhenFull
<1>2. StageInv /\ StageInv' /\ ClosedNow' /\ [Next]_vars => [Closing]_vars
  <2> SUFFICES ASSUME StageInv, StageInv', ClosedNow', Next PROVE Closing
    BY DEF vars
  <2>1. index'.closed /\ ~index.closed => IndexJobs' = {}
    BY ClosingStep
  <2>2. index.closed /\ IndexJobs = {} /\ IndexJobs' # {} => stage.pc = "index"
    BY RegisteringStep
  <2>3. /\ analysis'.active => (analysis'.closed <=> AnalysisJobs' = {})
        /\ index'.active /\ index'.total > 0 /\ IndexJobs' = {} => index'.closed
    OBVIOUS
  <2> QED
    BY <2>1, <2>2, <2>3, ZenonT(40)
<1> QED
  BY <1>1, <1>2, StageInvariant, PTL DEF Spec, DoneMeansNothingToCome

\* A stage that ends well leaves an analysis of each of the best ranked papers,
\* also after a restart (analyzer.go waitForBatch, pipeline_runner.go
\* PendingPapers).
THEOREM OkMeansAnalyzedHolds == Spec => []OkMeansAnalyzed
<1>1. StageInv => OkMeansAnalyzed
  BY DEF StageInv, Promised
<1> QED
  BY <1>1, StageInvariant, PTL
===============================================================================
