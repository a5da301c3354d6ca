------------------------------ MODULE PaperStage ------------------------------
(***************************************************************************)
(* The paper_analysis stage of one run: the ranked papers still pending    *)
(* are indexed as one batch of PDF jobs, which submit embedding jobs of    *)
(* their own, and then analysed as one batch of analysis jobs.  Indexer    *)
(* and Analyzer learn of the end of a job from the completion hook of the  *)
(* worker pool, on the goroutine of any worker.                            *)
(*                                                                         *)
(* The queue is JobDelivery, which JobQueue implements.  Crash stands for  *)
(* a shutdown too: both end the stage and lose the batches, while queued   *)
(* jobs stay and meet a process that does not know them.                   *)
(***************************************************************************)
EXTENDS Integers, FiniteSets

CONSTANTS
  NumPapers,    \* ranked papers, 1 is the best
  WithPDF,      \* papers that have a PDF
  Cap,          \* PapersToAnalyze
  Chunks,       \* embedding jobs of a PDF
  MaxAttempts,  \* attempts of a PDF job in which it submits embedding jobs
  MaxStarts     \* bound on starts of the process

ASSUME PapersAssumption == NumPapers \in Nat /\ WithPDF \subseteq 1 .. NumPapers /\ Cap \in Nat \ {0}
ASSUME StageBoundsAssumption == Chunks \in Nat \ {0} /\ MaxAttempts \in Nat /\ MaxStarts \in Nat \ {0}

VARIABLES
  doc,       \* PostgreSQL: are the chunks of a paper stored, which lack an embedding
  analyzed,  \* PostgreSQL: papers whose analysis_status is completed
  state, worked, told,   \* the queue, see JobDelivery
  proc,      \* the process
  starts,    \* starts of the process so far
  stage,     \* the run's goroutine: its pc, the papers it was given, those left
  index,     \* indexBatch
  analysis,  \* analysisBatch
  member,    \* Indexer.jobToBatch and Analyzer.jobToBatch
  handler,   \* PDF jobs that a worker is submitting embedding jobs for
  sending,   \* embedding jobs of the goroutines of submitAsync
  locked     \* whether a panic has left Indexer.mu locked

queue   == <<state, worked, told>>
batches == <<index, analysis, member>>
vars    == <<doc, analyzed, state, worked, told, proc, starts, stage, index,
             analysis, member, handler, sending, locked>>

-------------------------------------------------------------------------------
Papers == 1 .. NumPapers

\* The jobs that the stage of the k-th process submits for paper p.
PDFJob(p, k)      == [kind |-> "pdf", paper |-> p, start |-> k, chunk |-> 0, attempt |-> 0]
AnalysisJob(p, k) == [kind |-> "analysis", paper |-> p, start |-> k, chunk |-> 0, attempt |-> 0]

\* The embedding job of chunk c that the n-th attempt of a PDF job submits.
EmbedJob(j, c, n) == [j EXCEPT !.kind = "embed", !.chunk = c, !.attempt = n]

PDFJobs  == {PDFJob(p, k) : p \in WithPDF, k \in 1 .. MaxStarts}
Jobs     == PDFJobs \cup {AnalysisJob(p, k) : p \in Papers, k \in 1 .. MaxStarts}
            \cup {EmbedJob(j, c, n) : j \in PDFJobs, c \in 1 .. Chunks, n \in 1 .. MaxAttempts}

Delivery == INSTANCE JobDelivery

\* A batch: registered or expected jobs, completed ones, whether one failed, and
\* whether its done channel is closed.
Batch  == [active : BOOLEAN, total : Nat, completed : Nat, failed : BOOLEAN, closed : BOOLEAN]
NoBatch == [active |-> FALSE, total |-> 0, completed |-> 0, failed |-> FALSE, closed |-> FALSE]
Released(b) == [b EXCEPT !.active = FALSE]

\* Faulty Full: one job short.
AlmostFull(b) == b.completed + 2 >= b.total

\* Indexer.complete and Analyzer.HandleJobCompletion of a job of an active batch.
Full(b) == b.completed + 1 >= b.total
Count(b, err) == [b EXCEPT !.completed = @ + 1, !.failed = @ \/ err, !.closed = @ \/ Full(b)]

\* close of a channel that is closed already.
ClosesAgain(j) == j \in member /\ index.active /\ index.closed /\ Full(index)

Counted(b, j, err) == IF j \in member /\ b.active THEN Count(b, err) ELSE b

Indexed(p) == doc[p].stored /\ doc[p].missing = {}

\* The first n of a set of papers, in rank order.
Best(S, n) == {p \in S : Cardinality({q \in S : q < p}) < n}

\* Where the run's goroutine stands.  begin: before PendingPapers.  index: in the
\* loop of Index.  submit_pdf: a job is registered and not submitted.  wait_index
\* and wait_analysis: waiting for a batch.  submit: in the loop of Analyze.
\* none: the process is down.  ok, failed: what the run makes durable.
PCs == {"none", "begin", "index", "submit_pdf", "wait_index", "submit", "wait_analysis", "ok", "failed"}
At(pc)       == stage' = [stage EXCEPT !.pc = pc]
Left(pc, S)  == stage' = [stage EXCEPT !.pc = pc, !.left = S]

\* Once the stage is over, what the process still does concerns nobody here.
Over == stage.pc \in {"ok", "failed"}

\* A PDF job's handler: whether a worker runs it, the chunks it has not submitted
\* yet, and its attempts so far.
Idle == [busy |-> FALSE, left |-> {}, attempts |-> 0]
Resting(h) == [h EXCEPT !.busy = FALSE, !.left = {}]

Init ==
  /\ doc = [p \in Papers |-> [stored |-> FALSE, missing |-> {}]]
  /\ analyzed = {}
  /\ Delivery!Init
  /\ proc = "up" /\ starts = 1
  /\ stage = [pc |-> "begin", given |-> {}, left |-> {}]
  /\ index = NoBatch /\ analysis = NoBatch /\ member = {}
  /\ handler = [j \in PDFJobs |-> Idle]
  /\ sending = {}
  /\ locked = FALSE

-------------------------------------------------------------------------------
(* The run's goroutine *)

\* PendingPapers, the cap, and the start of Index.
Begin ==
  /\ stage.pc = "begin"
  /\ LET given == Best(Papers \ analyzed, Cap) IN
     \/ given = {} /\ At("ok") /\ UNCHANGED index
     \/ /\ given # {}
        /\ stage' = [pc |-> "index", given |-> given, left |-> given]
        /\ index' = [NoBatch EXCEPT !.active = TRUE]
  /\ UNCHANGED <<doc, analyzed, queue, proc, starts, analysis, member, handler,
                 sending, locked>>

\* The next paper of Index: it is skipped, or its PDF job is registered.
RegisterPDF(p) ==
  /\ stage.pc = "index" /\ p \in Best(stage.left, 1)
  /\ \/ /\ p \notin WithPDF \/ Indexed(p)
        /\ Left("index", stage.left \ {p})
        /\ UNCHANGED <<index, member>>
     \/ /\ p \in WithPDF /\ ~Indexed(p)
        /\ At("submit_pdf")
        /\ index' = [index EXCEPT !.total = @ + 1]
        /\ member' = member \cup {PDFJob(p, starts)}
  /\ UNCHANGED <<doc, analyzed, queue, proc, starts, analysis, handler, sending, locked>>

\* Pool.Submit of the registered job.
SubmitPDF(p) ==
  /\ stage.pc = "submit_pdf" /\ p \in Best(stage.left, 1)
  /\ Delivery!Queue(PDFJob(p, starts))
  /\ Left("index", stage.left \ {p})
  /\ UNCHANGED <<doc, analyzed, proc, starts, batches, handler, sending, locked>>

\* Submit fails, perhaps after the job was added: the job is counted as failed
\* and the batch cancelled.  When the count closes a closed channel the panic
\* leaves Indexer.mu locked; the run recovers from it and fails.
SubmitPDFFails(p) ==
  /\ stage.pc = "submit_pdf" /\ p \in Best(stage.left, 1)
  /\ Delivery!Queue(PDFJob(p, starts)) \/ UNCHANGED queue
  /\ At("failed")
  /\ locked' = ClosesAgain(PDFJob(p, starts))
  /\ index' = Released(index)
  /\ member' = {j \in member : j.kind = "analysis"}
  /\ UNCHANGED <<doc, analyzed, proc, starts, analysis, handler, sending>>

\* The check of a paper's chunks fails: cancelBatch.
CheckFails ==
  /\ stage.pc = "index" /\ stage.left # {}
  /\ At("failed")
  /\ index' = Released(index)
  /\ member' = {j \in member : j.kind = "analysis"}
  /\ UNCHANGED <<doc, analyzed, queue, proc, starts, analysis, handler, sending, locked>>

\* The end of the loop: a batch without a job is done.
AllSubmitted ==
  /\ stage.pc = "index" /\ stage.left = {}
  /\ At("wait_index")
  /\ index' = [index EXCEPT !.closed = @ \/ index.total = 0]
  /\ UNCHANGED <<doc, analyzed, queue, proc, starts, analysis, member, handler,
                 sending, locked>>

\* wait: the batch is done without a failure, and Analyze registers its jobs.
IndexDone ==
  /\ stage.pc = "wait_index" /\ index.closed /\ ~index.failed
  /\ index' = Released(index)
  /\ Left("submit", stage.given)
  /\ analysis' = [NoBatch EXCEPT !.active = TRUE, !.total = Cardinality(stage.given)]
  /\ member' = member \cup {AnalysisJob(p, starts) : p \in stage.given}
  /\ UNCHANGED <<doc, analyzed, queue, proc, starts, handler, sending, locked>>

\* wait: a job of the batch failed, or PDFIndexingTimeout has passed.
IndexFails ==
  /\ stage.pc = "wait_index"
  /\ index' = Released(index)
  /\ At("failed")
  /\ UNCHANGED <<doc, analyzed, queue, proc, starts, analysis, member, handler,
                 sending, locked>>

\* Pool.Submit of the next analysis job.
SubmitAnalysis(p) ==
  /\ stage.pc = "submit" /\ p \in Best(stage.left, 1)
  /\ Delivery!Queue(AnalysisJob(p, starts))
  /\ Left(IF stage.left = {p} THEN "wait_analysis" ELSE "submit", stage.left \ {p})
  /\ UNCHANGED <<doc, analyzed, proc, starts, batches, handler, sending, locked>>

\* Faulty SubmitAnalysisFails: the jobs that were not sent are forgotten.
SubmitAnalysisGivesUp(p) ==
  /\ stage.pc = "submit" /\ p \in Best(stage.left, 1)
  /\ Delivery!Queue(AnalysisJob(p, starts)) \/ UNCHANGED queue
  /\ Left("wait_analysis", {})
  /\ analysis' = Count(analysis, TRUE)
  /\ member' = member \ {AnalysisJob(p, starts)}
  /\ UNCHANGED <<doc, analyzed, proc, starts, index, handler, sending, locked>>

\* Submit fails: its job, perhaps queued after all, and every later one count as
\* failed.
SubmitAnalysisFails(p) ==
  /\ stage.pc = "submit" /\ p \in Best(stage.left, 1)
  /\ Delivery!Queue(AnalysisJob(p, starts)) \/ UNCHANGED queue
  /\ Left("wait_analysis", {})
  /\ analysis' = [analysis EXCEPT !.completed = @ + Cardinality(stage.left), !.failed = TRUE,
                    !.closed = analysis.completed + Cardinality(stage.left) >= analysis.total]
  /\ member' = member \ {AnalysisJob(q, starts) : q \in stage.left}
  /\ UNCHANGED <<doc, analyzed, proc, starts, index, handler, sending, locked>>

\* Faulty AnalysisDone: the failures of the batch are not looked at.
AnalysisDoneAnyhow ==
  /\ stage.pc = "wait_analysis" /\ analysis.closed
  /\ analysis' = Released(analysis)
  /\ At("ok")
  /\ UNCHANGED <<doc, analyzed, queue, proc, starts, index, member, handler, sending, locked>>

\* waitForBatch, and the stage's checkpoint or the run's failure.
AnalysisDone ==
  /\ stage.pc = "wait_analysis" /\ analysis.closed
  /\ analysis' = Released(analysis)
  /\ At(IF analysis.failed THEN "failed" ELSE "ok")
  /\ UNCHANGED <<doc, analyzed, queue, proc, starts, index, member, handler, sending, locked>>

-------------------------------------------------------------------------------
(* Workers *)

\* handlePDFDownload up to the commit of the chunks: what is to be embedded.
StoreChunks(j) ==
  /\ proc = "up" /\ state[j] = "queued"
  /\ ~handler[j].busy /\ handler[j].attempts < MaxAttempts
  /\ LET missing == IF doc[j.paper].stored THEN doc[j.paper].missing ELSE 1 .. Chunks IN
     /\ doc' = [doc EXCEPT ![j.paper] = [stored |-> TRUE, missing |-> missing]]
     /\ handler' = [handler EXCEPT ![j] = [busy |-> TRUE, left |-> missing, attempts |-> @.attempts + 1]]
  /\ UNCHANGED <<analyzed, queue, proc, starts, stage, batches, sending, locked>>

\* Faulty SubmitEmbeddings: a child is not counted in its batch.
SubmitUncounted(j) ==
  /\ handler[j].busy /\ ~locked
  /\ \E c \in Best(handler[j].left, 1) :
       LET e == EmbedJob(j, c, handler[j].attempts) IN
       /\ j \in member /\ index.active
       /\ member' = member \cup {e}
       /\ sending' = sending \cup {e}
       /\ handler' = [handler EXCEPT ![j].left = @ \ {c}]
  /\ UNCHANGED <<doc, analyzed, queue, proc, starts, stage, index, analysis, locked>>

\* SubmitEmbeddings of the next chunks: register, and a goroutine that submits.
\* Without the parent's batch the attempt fails.
SubmitEmbeddings(j) ==
  /\ handler[j].busy /\ ~locked
  /\ \E c \in Best(handler[j].left, 1) :
       LET e == EmbedJob(j, c, handler[j].attempts) IN
       \/ /\ j \in member /\ index.active
          /\ index' = [index EXCEPT !.total = @ + 1]
          /\ member' = member \cup {e}
          /\ sending' = sending \cup {e}
          /\ handler' = [handler EXCEPT ![j].left = @ \ {c}]
       \/ /\ ~(j \in member /\ index.active)
          /\ handler' = [handler EXCEPT ![j] = Resting(@)]
          /\ UNCHANGED <<index, member, sending>>
  /\ UNCHANGED <<doc, analyzed, queue, proc, starts, stage, analysis, locked>>

\* The handler returns nil.
PDFHandled(j) ==
  /\ handler[j].busy /\ handler[j].left = {}
  /\ Delivery!Work(j)
  /\ handler' = [handler EXCEPT ![j] = Resting(@)]
  /\ UNCHANGED <<doc, analyzed, proc, starts, stage, batches, sending, locked>>

\* embedChunks of an embedding job, StoreAnalysis of an analysis job.
WorkDone(j) ==
  /\ proc = "up" /\ j.kind # "pdf"
  /\ Delivery!Work(j)
  /\ IF j.kind = "embed"
     THEN doc' = [doc EXCEPT ![j.paper].missing = @ \ {j.chunk}] /\ UNCHANGED analyzed
     ELSE analyzed' = analyzed \cup {j.paper} /\ UNCHANGED doc
  /\ UNCHANGED <<proc, starts, stage, batches, handler, sending, locked>>

\* The queue's own steps: a job ends when no worker is in its handler.  The end of
\* a job that no batch waits for changes nothing here and is left out, like its
\* report; what it does before, its work, is not.
End(j) ==
  /\ j \in member /\ (j.kind = "pdf" => ~handler[j].busy)
  /\ Delivery!Finish(j) \/ Delivery!GiveUp(j)
  /\ UNCHANGED <<doc, analyzed, proc, starts, stage, batches, handler, sending, locked>>

\* The completion hook.
Tell(j) ==
  /\ j \in member /\ ~ClosesAgain(j)
  /\ j.kind # "analysis" => ~locked
  /\ Delivery!Report(j)
  /\ member' = member \ {j}
  /\ IF j.kind = "analysis"
     THEN analysis' = Counted(analysis, j, state[j] = "dead") /\ UNCHANGED index
     ELSE index' = Counted(index, j, state[j] = "dead") /\ UNCHANGED analysis
  /\ UNCHANGED <<doc, analyzed, proc, starts, stage, handler, sending, locked>>

\* submitAsync; a job that could not be submitted counts as failed.
SubmitAsync(e) ==
  /\ e \in sending
  /\ sending' = sending \ {e}
  /\ Delivery!Queue(e)
  /\ UNCHANGED <<doc, analyzed, proc, starts, stage, batches, handler, locked>>

SubmitAsyncFails(e) ==
  /\ e \in sending /\ ~locked /\ ~ClosesAgain(e)
  /\ sending' = sending \ {e}
  /\ Delivery!Queue(e) \/ UNCHANGED queue
  /\ index' = Counted(index, e, TRUE)
  /\ member' = member \ {e}
  /\ UNCHANGED <<doc, analyzed, proc, starts, stage, analysis, handler, locked>>

-------------------------------------------------------------------------------
(* The process *)

Halt ==
  /\ stage' = IF stage.pc \in {"ok", "failed"} THEN stage
              ELSE [pc |-> "none", given |-> {}, left |-> {}]
  /\ index' = NoBatch /\ analysis' = NoBatch /\ member' = {}
  /\ handler' = [j \in PDFJobs |-> Resting(handler[j])]
  /\ sending' = {} /\ locked' = FALSE
  /\ UNCHANGED <<doc, analyzed, starts>>

Crash ==
  /\ proc = "up" /\ ~Over
  /\ proc' = "down"
  /\ Halt /\ UNCHANGED queue

\* complete closes the channel of a batch a second time, on a goroutine that does
\* not recover: the process ends.
Panic(j) ==
  /\ proc = "up" /\ ~locked /\ ClosesAgain(j)
  /\ Delivery!Report(j) \/ (j \in sending /\ UNCHANGED queue)
  /\ proc' = "panicked"
  /\ Halt

Restart ==
  /\ proc # "up" /\ starts < MaxStarts
  /\ proc' = "up" /\ starts' = starts + 1
  /\ stage' = IF stage.pc = "none" THEN [stage EXCEPT !.pc = "begin"] ELSE stage
  /\ UNCHANGED <<doc, analyzed, queue, batches, handler, sending, locked>>

-------------------------------------------------------------------------------
RunStep ==
  \/ Begin \/ CheckFails \/ AllSubmitted \/ IndexDone \/ IndexFails \/ AnalysisDone
  \/ \E p \in Papers :
       \/ RegisterPDF(p) \/ SubmitPDF(p) \/ SubmitPDFFails(p)
       \/ SubmitAnalysis(p) \/ SubmitAnalysisFails(p)

WorkerStep(j) ==
  \/ j \in PDFJobs /\ (StoreChunks(j) \/ SubmitEmbeddings(j) \/ PDFHandled(j))
  \/ WorkDone(j) \/ End(j) \/ Tell(j) \/ SubmitAsync(j) \/ SubmitAsyncFails(j) \/ Panic(j)

Next ==
  \/ RunStep
  \/ ~Over /\ \E j \in Jobs : WorkerStep(j)
  \/ Crash \/ Restart

Spec == Init /\ [][Next]_vars

\* The scheduler starves no goroutine, the queue ends and reports every job that a
\* live process waits for, and a server that stopped is started again.
Fairness == WF_vars(RunStep) /\ WF_vars(\E j \in Jobs : WorkerStep(j)) /\ WF_vars(Restart)

FairSpec == Spec /\ Fairness

-------------------------------------------------------------------------------
(* Properties *)

TypeOK ==
  /\ doc \in [Papers -> [stored : BOOLEAN, missing : SUBSET (1 .. Chunks)]]
  /\ analyzed \subseteq Papers
  /\ state \in [Jobs -> Delivery!States] /\ worked \subseteq Jobs
  /\ told \in [Jobs -> {<<>>, <<"completed">>, <<"dead">>}]
  /\ proc \in {"up", "down", "panicked"} /\ starts \in 1 .. MaxStarts
  /\ stage \in [pc : PCs, given : SUBSET Papers, left : SUBSET Papers]
  /\ index \in Batch /\ analysis \in Batch
  /\ member \subseteq Jobs
  /\ handler \in [PDFJobs -> [busy : BOOLEAN, left : SUBSET (1 .. Chunks), attempts : 0 .. MaxAttempts]]
  /\ sending \subseteq Jobs
  /\ locked \in BOOLEAN

\* A stage that ends well has a stored analysis of each of the best ranked papers,
\* also when it was resumed and jobs of the earlier process were in the way
\* (analyzer.go waitForBatch, pipeline_runner.go PendingPapers).
OkMeansAnalyzed == stage.pc = "ok" => Best(Papers, Cap) \subseteq analyzed

\* The jobs that are still to come of either batch.
IndexJobs    == {j \in member : j.kind # "analysis"}
AnalysisJobs == {j \in member : j.kind = "analysis"}

\* A batch has as many completions to come as jobs registered for it, whichever
\* of submission, failed submission and completion hook comes first (indexer.go
\* register, complete; analyzer.go HandleJobCompletion).  The state is well typed.
BatchesCountTheirJobs ==
  /\ TypeOK
  /\ index.active => index.total - index.completed = Cardinality(IndexJobs)
  /\ analysis.active => analysis.total - analysis.completed = Cardinality(AnalysisJobs)

\* The analysis batch is closed exactly while nothing is to come.  The indexing batch
\* is closed when nothing that was registered is to come, and then at once; what is
\* registered for it afterwards is the next PDF job of the loop of Index, never an
\* embedding job (analyzer.go HandleJobCompletion, indexer.go complete, register,
\* SubmitEmbeddings).
DoneMeansNothingToCome ==
  [][/\ analysis'.active => (analysis'.closed <=> AnalysisJobs' = {})
     /\ index'.closed /\ ~index.closed => IndexJobs' = {}
     /\ index'.active /\ index'.total > 0 /\ IndexJobs' = {} => index'.closed
     /\ index.closed /\ IndexJobs = {} /\ IndexJobs' # {} => stage.pc = "index"]_vars

\* The process never closes a done channel twice.  A fast completion cannot race
\* the batch accounting (indexer.go SubmitEmbeddings).
NeverClosedTwice == proc # "panicked"

\* When the stage waits for a batch, something that is still to happen closes it,
\* although submissions fail: the stage or its process ends (indexer.go wait,
\* analyzer.go Analyze).
StageEnds == <>(Over \/ (proc # "up" /\ starts = MaxStarts))

===============================================================================
