# Paper Scout: TLA+ models and proofs

Paper Scout turns a research topic into a report: one HTTP request starts a run of seven
stages (query expansion, discovery, ranking, paper analysis, gap detection, feasibility,
report) whose state is kept in PostgreSQL, whose background jobs go through Redis Streams and
whose vectors are in Qdrant. The modules beside this file model the parts of that program whose
correctness depends on the order of things: who writes what first, who is still running, what a
crash leaves behind. They are checked with TLC, and every safety property that a passing run
checks is proved with TLAPS as well.

    cd tla
    tlc -workers 2 -config PipelineRun_faults.cfg MCPipelineRun
    tlapm PipelineRunProofs.tla

## 1. The system

| Part | State it keeps | Operations | Talks to |
|---|---|---|---|
| Run coordinator, run manager (`orchestrator/run_coordinator.go`, `run_manager.go`) | running goroutines, their cancel function | Start, Launch, Shutdown | inserts the topic, opens the run log, launches the runner |
| Pipeline runner, checkpoints (`pipeline_runner.go`, `checkpoint.go`) | none of its own: topic row and one checkpoint per stage in PostgreSQL | Run, begin, startStage, completeStage, failStage, persistTerminalState | stages, state service |
| Pipeline state service (`pipeline_state.go`, `state.go`) | a map in memory, 24 h snapshots in Redis | Remember, Save, Publish, Get | memory, then Redis, then PostgreSQL; SSE |
| Recovery (`recovery.go`) | none | Recover, recoverOne, failRecovery | reads Redis and PostgreSQL at startup, relaunches runs |
| SSE and its handler (`sse.go`, `api/handler/research.go`) | channels of the connected clients, behind a read-write lock | Subscribe, Unsubscribe, Send, CloseAll; Stream | state service, one goroutine per client |
| Worker queue (`storage/redis/queue.go`) | stream, consumer group, dead letters in Redis | Enqueue, Dequeue (claim, read), Complete, Fail | pool |
| Worker pool (`worker/pool.go`) | its goroutines and their job | Submit, worker loop, completion hook, Stop | queue, processor, indexer, analyzer |
| Processor (`worker/processor.go`) | chunks in PostgreSQL, points in Qdrant, cleanup tasks | handlers of the four job types | indexer (submits embeddings) |
| Indexer, Analyzer (`agent/indexer.go`, `agent/analyzer.go`) | active batches, job-to-batch maps | Index, SubmitEmbeddings, Analyze, HandleJobCompletion | pool |
| Discovery, ranking, gaps, feasibility, report (`agent/`) | memberships, gaps, directions; the report's cache | one call each per stage | sources, model providers, PostgreSQL |
| Abstract index (`abstractindex/`) | the abstract's chunk and point | Ensure | PostgreSQL, Qdrant, embedder |
| Embedding generations (`reindex/`, `storage/qdrant/`) | activation intents and generations in PostgreSQL, collections and the alias in Qdrant | reindex, startup reconcile | PostgreSQL, Qdrant |
| Resilience (`circuitbreaker/`, `httpresilience/`, `llm/rate_limiter.go`, `accelerator/`) | breaker, token bucket, minute and day counts, semaphores | Execute, Do, Wait, Acquire | every provider client |

What is hard here, and what makes each part correct:

- **Runs.** The process may stop between any two of: publishing a stage, its transaction, its
  work, the transaction that completes it, the terminal transaction, the last publication.
  Shutdown cancels the same operations at the same places, and a commit may succeed although its
  answer is lost. Correct: the checkpoints of a run that has not failed are a prefix of its
  stages, ends are final, nothing durable is taken back, a reader is told "completed" only of
  finished work, and every run ends.
- **Queue and pool.** An entry whose worker is gone is claimed by another after `ClaimIdle`;
  the answer of the transaction that ends an attempt can be lost. Correct: no job is lost,
  attempts are bounded, nobody attempts a job that another worker holds, the hook is told what
  Redis recorded.
- **Batches.** Completions arrive on any worker while the batch is still being registered,
  while PDF jobs register embedding jobs, and while submissions fail. Correct: counts match the
  registered jobs, a batch is done when nothing is to come, a stage that ends well has its
  analyses stored.
- **Vectors.** A chunk can be replaced while an old embedding of it is in flight; PostgreSQL and
  Qdrant are written and switched by separate calls. Correct: a chunk marked embedded has its
  own point, a point in use is not cleaned up, no replaced point is forgotten, and after startup
  the alias and PostgreSQL agree.
- **A run's rows.** A stage cut off by a crash is attempted again over what it left, beside jobs
  of the earlier process; searches answer concurrently and one work comes under several
  identities. Correct: no work twice, a complete report whose citations resolve, and a report of
  the same papers, gaps and directions whenever it is asked for.
- **SSE.** Clients come and go while events are sent and the server shuts down; the state is
  looked up and the channel subscribed in two steps; channels are finite. Correct: nobody uses a
  closed channel, a client misses no state, a slow one holds up nobody.
- **Resilience.** Calls are cancelled between two acquisitions, callers wait in line for a
  limiter that sleeps with its mutex held, results arrive after the breaker has changed state.
  Correct: limits hold, permits come back, calls end, the breaker finds its way to closed.

`PROJECT.json` lists the hazards one by one with the line where each bites and the properties
that cover it; a hazard without a property says why.

## 2. Modules

    DurableRun    <-- implements --  PipelineRun   (MCPipelineRun, PipelineRunProofs)
    JobDelivery   <-- implements --  JobQueue      (JobQueueProofs)
    JobDelivery   <-- uses -------   PaperStage
                                                   (PaperStageProofs)
    Activation                                     (MCActivation, ActivationProofs)
    ChunkEmbedding                                 (MCChunkEmbedding, ChunkEmbeddingProofs)
    ProviderCalls                                  (ProviderCallsProofs)
    Stream                                         (StreamProofs)
    PaperIdentity <-- extends ----   ResearchData  (MCResearchData, ResearchDataProofs)

Definitions that begin with "Faulty" are what a plausible slip in the code would make of the
definition after them. No specification uses them; they are there to see that a property
notices.

**PipelineRun** models a run from `POST /research` to its durable end, for a set of `Topics`.

| Variable | Code |
|---|---|
| `topic`, `checkpoint` | the topic's row and its stage checkpoints in PostgreSQL |
| `snapshot` | `pipeline:<id>` in Redis |
| `memory` | `PipelineStateService.pipelines` |
| `run` | the goroutine of `Start` or `Run`: where it is, its stage, the `Pipeline` it owns |
| `openLogs` | files held by `logger.Manager` |
| `todo` | topics that `Recover` has still to relaunch |
| `proc` | serving, shutting down, or not there |

An action is one step between two points where the goroutine can be interrupted or seen: a read
of a checkpoint (`SkipStage`, `Recount`), `begin`, a transaction (`StartStage`, `CommitStage`,
`PersistTerminal`, `FailRun`), a stage's work, the terminal publication with the closing of the
log. `Transaction` says what a transaction can do: commit, fail without effect, or fail after it
has committed, because the context was cancelled or because of one of `MaxFaults` faults. What a
stage computes, progress fractions, time stamps and log text are left out: nothing here branches
on them. `Get` is one step, since nobody knows the identifier of a run before it is remembered.

**DurableRun** is what a reader of PostgreSQL may rely on: accepted, stages finished in order,
ended. `PipelineRun!ImplementsDurableRun` maps `status` to the topic's status and `done` to the
stages with a completed checkpoint.

**JobQueue** models Redis Streams and the pool: `log` is everything ever added, `live` what was
not deleted, `cursor` the group's last delivered entry, `fresh` the delivered entries that are
not claimable yet. Each worker has a program counter: claim, read, handler, the transaction that
ends the attempt, hook. `Age` lets time pass; unless `Overrun`, an entry a worker holds does not
become claimable, which is what `ClaimIdle` (a minute more than `JOB_TIMEOUT`) is for. The
transactions of `Complete` and `Fail` are MULTI blocks and hence one step; a call that fails may
have been executed. Redis keeps its data, and each command is sent once: what go-redis resends
by itself lies outside this repository.

**JobDelivery** is the promise of queue and pool: queued once, ended once, completed only with
its work durable, told at most once and truthfully. A report may be missing, and the code can
indeed lose one (the answer of `Complete` is lost after Redis ran it).

**PaperStage** models the paper_analysis stage on top of `JobDelivery`: `Index` registers and
submits PDF jobs one by one, their handlers store chunks and register embedding jobs which
goroutines submit, the completion hook counts, then `Analyze` does the same with a batch whose
size is fixed. `index` and `analysis` are the two batches, `member` the two job-to-batch maps,
`handler` the PDF jobs being handled, `sending` the goroutines of `submitAsync`. A second close of
a done channel is an action of its own (`Panic`): on a worker it ends the process, on the run's
own goroutine it leaves `Indexer.mu` locked (`locked`). `Crash` stands for a shutdown too. What
becomes of a job that no batch waits for is followed as far as its work goes; its end and report
change nothing and are left out. So is everything after the stage is over. A job counts as to come
from its registration on; the indexing batch grows while it is active, so `IndexJobs` is what is
registered and not counted at that moment, and `DoneMeansNothingToCome` is a property
of the closing step.

**Activation** models the reindex command, the reconciliation that it and the server run first,
and the server that stores and embeds chunks meanwhile. Several processes run at once and each
is started as either program.

| Variable | Code |
|---|---|
| `chunks`, `row` | `paper_chunks`: what is stored, and the collection and state of each embedding |
| `generation`, `intent` | `embedding_generations`, `embedding_activation_intents` |
| `alias`, `points` | Qdrant's alias and collections |
| `proc` | each process: the call it makes next and the local variables of `Run` or `Reconcile` |
| `overlap` | history: whether two processes ever ran at once |

A step is one call to PostgreSQL or Qdrant; `ActivateExpected` and `RestoreExpected` are two, a
read of the alias and an update, because Qdrant does not compare and swap. `Locked` is the table
lock of `finalizeDurableActivation`, which holds off writers of chunks and other activations from
`Begin` to `Commit`. `OnlyOpen` is the unique index on open intents: a statement that would open
a second one fails. A call that breaks may have taken effect (`Breaks`, at most `MaxFaults`
together with crashes); a command interrupted with Ctrl-C is a broken call followed by the
program's own clean-up. The embedding identity is fixed, chunks are only added (replacement and
cleanup are in ChunkEmbedding), the batches of one generation are one step, and a server embeds
one chunk at a time. The schema is the one the migrations describe.

**ChunkEmbedding** models the chunks of one paper from text to vector.

| Variable | Code |
|---|---|
| `row`, `task` | `paper_chunks` of each slot (the abstract, and the chunks of the PDF), `embedding_cleanup_tasks` |
| `points` | the points in Qdrant, a pair of slot and content, as `point_id` is computed from them |
| `jobs` | embedding jobs in the queue, grouped by the PDF job they come from |
| `work` | the pool's goroutines and the run: the operation each is in and its local variables |
| `booting` | the process starts, and its cleanup runs before anything else |
| `serial` | row identifiers handed out |
| `outOfOrder` | history: slots that saw late work or returning content |

A worker is in one of: `handlePDFDownload` with the transaction that replaces the chunks,
`handleEmbedding` and `embedChunks`, `Ensure`, `isFullyIndexed` with the reset that may follow, or
`reconcileCleanupTasks`. A step is one transaction or one call to Qdrant. A failed call may have
taken effect. An embedding job is redelivered as often as bounds allow and may be of text that was
replaced meanwhile. `outOfOrder` marks the slots where that happened, or where a text returned,
since there the code promises less (section 3, Known divergences).

**ProviderCalls** models calls to one provider by several goroutines: `kind` is the provider,
since breakers and limiters do not meet. A Gemini call goes through `breaker`, retries and the
`minute` and `day` counts of `LLMRateLimiter`; an HTTP call through `breaker`, retries and the
`tokens` of the bucket; a call to Ollama or Docling through its client's `permits` and the shared
`gate`. `call` holds each caller's place, attempts, whether its context has ended and whether it is
the breaker's probe. Time appears as what it brings about: `ripe` (the open timeout is over), a
minute or a day that is over, a token that has come. `minuteMu` is a variable because
`checkMinuteLimit` sleeps with it held; `dayMu` is not, because nothing happens under it but the
count. `streak`, `granted` and `late` are history. A caller's context may end at any step.

**Stream** models what clients are shown of one run. The run remembers a state, saves it and
publishes it; workers count analysis jobs and publish progress; each client has a handler that
looks up the state, subscribes, looks up again, writes and then forwards its channel.

| Variable | Code |
|---|---|
| `memory`, `run`, `counted` | the remembered pipeline, the run's next step, `analysisBatch.completed` |
| `sender` | every goroutine inside `Send`: its event and the channels it has still to try |
| `clients`, `closed`, `stopping` | `SSEManager`'s map and flag; the shutdown has begun |
| `channel`, `handler`, `read`, `shown` | each client's channel, its handler and what it has read and written |
| `lost` | history: clients for which a full channel dropped a status |

`Send` holds the read lock from its first channel to its last, so senders interleave channel by
channel; `Subscribe`, `Unsubscribe` and `CloseAll` need the write lock (`Writable`). Closing a
channel resets its `open` and has no panic of its own: that nobody closes one twice rests on the
half of `OnlyOpenChannels` that says registered channels are open, since only those are closed.
Status events count their states, keep-alives are left out, and an event is a state or a progress.

**PaperIdentity** translates `reconcileDiscoveredPapers` as a fold over the candidates: `Keys`,
`Match`, `Merge` and `Enter` are the keys of a paper, the lookup, the merging and the indices.
Normalization is done: a DOI, an arXiv ID and a title with its year are values, equal when their
normalized forms are. The two indices of the code are functions; a lookup that stops at the first
hit takes the least place among the hits.

**ResearchData** is what a run leaves in PostgreSQL and in its report, with one step
per statement or item: discovery with its three query levels and the deletion of memberships
between them, ranking as any order, analysis jobs of this and of earlier processes (`jobs`), gaps
upserted one by one from any answer of the model, directions for them, and the report with its
cache. `done`, `ranked` and `planned` are checkpoints and their results; `pc`, `level`, `answers`,
`items`, `todo`, `failed` and `read` are the run's memory, gone with a crash; `cached` and `served`
are the report kept and the report last given out; `torn` is history. `analysed` is the set of
papers whose analysis status says so, and `analysis` what is stored of each. An analysis job asks
the model whatever became of its paper, and the answer replaces the stored one; a job whose end is
not recorded remains and is executed again, by a later process too. Searches answer in any
order with any selection of what their source knows. How checkpoints are written is PipelineRun's
subject and how batches are counted PaperStage's: here a stage either ends with its checkpoint or
is cut off. `OffersAssumption` says what the two sources know: a source describes a paper alike in
every answer, and what arXiv offers has an arXiv ID, which its client reads from the same field as
the external ID.

## 3. Runs

| Run | Instance | Shows |
|---|---|---|
| `run_faults` | 1 topic, 7 stages, 3 faults, 2 stops | safety of a run, finality of ends, `DurableRun` |
| `run_live` | 2 topics, 3 stages, no fault, 2 stops | every run ends |
| `queue` | 2 jobs, 2 workers, 2 attempts, 1 fault, 1 stop | queue and pool keep `JobDelivery`; no job is lost, attempts are bounded, every job ends |
| `stage` | 2 papers together, 1 process | accounting of both batches, a batch is closed when full and only with nothing registered to come, the stage ends |
| `stage_restart` | 2 papers, one at a time, 2 attempts, 2 processes | a resumed stage ends well only with its analyses |
| `stage_early` (violation) | 2 papers together | the indexing batch is closed twice |
| `activation` | 2 processes, 2 contents, 2 generations, 1 fault or crash | no activation misses a chunk; one after the other, processes keep PostgreSQL and the alias together |
| `chunks` | 2 workers, 2 texts, documents of two chunks and of one, 3 operations, 1 fault, 1 crash | completed rows have their points, replaced points are cleaned up |
| `chunks_return` (violation) | 1 worker, documents of one chunk, no crash | the abstract index removes a point it has just stored |
| `calls` | 2 callers, 2 local clients of 1 permit, 1 permit of the gate, thresholds 2, 1 retry, burst 1, 1 request a minute and 2 a day | limits hold, permits come back, calls end, the breaker recovers, no deadlock |
| `stream` | 2 clients of which one may stall, 1 worker, 2 progress events, 3 states, channels of 1 event | closed channels are left alone, no state is missed, a stalled client holds up nobody |
| `data` | 4 and 2 papers of two sources, levels of 2, 2 and 1 queries, 2 papers, 2 gaps, 2 analyses, 1 fault, 2 crashes | one work once, a complete report that resolves, another report of the same papers, gaps and directions |

*Why these bounds.* Topics share only the process, the Redis server and the fault counter, so one
topic with the program's own seven stages shows a run's safety; two are used where one could hold
up the other. Three faults make every pair of failing operations possible with one to spare (a
failed stage whose failure cannot be recorded, after a lost answer); two stops allow a crash
during recovery from the first. In the queue, two attempts have a retry and a last attempt, two
workers a race for one entry, and one fault and one stop together a lost answer followed by a
claim in the next process; three attempts (the program's value) were run without further result.
In the stage, two PDF jobs are what an early end of the batch needs, and one embedding job per PDF
keeps a parent and a child in flight together. In the activation, a second chunk is what changes
a snapshot, a second generation has a previous one to go back to, and one fault is enough for
every property that can break alone. In `chunks` three operations let a text be replaced and the
old job come late, and the shorter document drops a chunk; two workers have a cleanup beside an
embedding. In `calls` a threshold of two tells a count from a flag, one permit and one token make
every second caller wait, and two requests a day end the day with a call under way. `stream` has
channels of one event instead of the program's hundred, so that a full channel is common; two
clients are one that loses events and one that must not notice. In `data` the offers hold one work
under every combination of identifiers and a second one without any, two papers per discovery make
quotas uneven, two analyses tell whether one was replaced, and two crashes cut off an attempt and
its successor. Deadlock checking is off
except in `calls`, because the other systems may stop: all runs have ended, all clients have left,
or a bound on starts is reached.

*Fairness.* Go schedules every runnable goroutine; the calls of the modelled operations have a
deadline or end with the context; a stopped server is started again by its supervisor; time
passes, so entries become claimable and snapshots may (need not) expire. Requests, faults,
crashes, shutdowns, disconnects and expiry get no fairness. `run_live` has no faults since a failed
fault ends a run as failed anyway; stops are what could lose it. `EveryJobEnds` holds with a fault
and a stop. `StageEnds` assumes that jobs a live process waits for are reported: `JobDelivery` does
not promise it, and when the answer of `Complete` is lost the stage waits until the server stops.
In ProviderCalls timers fire and requests time out; the one strong fairness is that of
`CheckMinute`, since a Go mutex hands itself to the goroutine that has waited longest.
`BreakerRecovers` takes calls that keep coming as its premise and not as a fact. In Stream the run,
the senders and the handlers go on; a stalled client need never receive, and nobody has to leave.

*Known divergences.* Two are runs of their own, each with a finding in `PROJECT.json`:

- `stage_early`: a PDF job that ends before `Index` has registered the next one closes the batch;
  `wait` then returns without the later papers, or the next completion closes it again and the
  process dies.
- `chunks_return`: a text that comes back gets the point it had before, and the cleanup task of
  that point is still open when its first removal has failed. `Ensure` embeds the abstract, runs
  the cleanup, and calls queryable what it has removed.

The others are behaviours of the models that their properties step around, each in the open:

- *A stale snapshot.* After a crash between the terminal transaction and its publication, `Get`
  answers "processing" from Redis and remembers it. `ImplementsDurableRun` shows the durable state
  itself is never harmed.
- *An early "completed".* When the shutdown cancels the terminal transaction, `fail` publishes the
  pipeline as it stands. `CompletedShownMeansStagesDone` is what does hold.
- *A claim time too short.* `ClaimIdle` follows `JOB_TIMEOUT`, which PDF and embedding jobs do not
  obey. With the default of 10 minutes it is long enough; below 9 minutes a running job can be
  claimed, two failing attempts queue two retries, and with `Overrun = TRUE` `RetryLimitHolds`
  fails. No run covers that setting; `NoJobIsLost` is proved with it included.
- *Two activations at once.* `Reconcile` reads the generation's status and the alias before it
  takes the lock and does not read them again. Beside a running reindex command it can find the
  snapshot changed after the command has committed, and then restores the previous alias under an
  active generation. A server that writes between a switch and its restore completes a row whose
  point is in the collection given up. `AliasIsActive` and `CompletedIsServed` fail without
  `~overlap`.
- *An intent nobody can end.* When the answer to the intent's insert is lost, or the process ends
  between failing the generation and superseding the intent, an open intent is left for a failed
  generation. `Reconcile` marks it failed, which is still open, on every start.
- *Late reports.* A call from before the breaker opened may report while another probes: it clears
  the probe, and a second one is let through. `OneProbe` holds without such a call; that the
  breaker closes only when earned, and closes again at all, holds with it.
- *Late embeddings.* An embedding job of replaced text stores its vector after the cleanup task of
  that text has run, and nothing remembers the point. `CompletedHasOwnPoint` and `NoOrphan` leave
  out the slots in `outOfOrder`; only `CompletedWasStored` covers them. Texts that return are in
  `outOfOrder` too, and are the subject of `chunks_return`.
- *A late analysis.* `Analyzer.HandleJob` does not ask whether its paper is analysed, and
  `UpdatePaperAnalysis` overwrites what is there. When a stage of analysis was cut off, a job of it
  can be executed after the run has completed, and a report generated after a restart then says
  something else of that paper than the one given out before. `ReportsAgree` allows exactly this:
  the cached report was lost with its process, and `paper_analysis` is in `torn`. The papers, gaps
  and directions of the two reports are the same even then.
- *A paper that joins two.* A candidate with two identifiers, each already known from another
  paper, joins the first; the second stays. `PapersAreDistinct` allows exactly that.

## 4. Proofs

The theorems hold for every value of the constants that satisfies the named assumptions of the
modules: any number of topics and stages, jobs and workers, callers and limits, clients and events,
processes and generations, papers and chunks, offers and answers. "Stated as" names the property of a run.

| Theorem | Stated as | Extra assumption |
|---|---|---|
| `PipelineRunProofs!TypeCorrect` | `TypeOK` | |
| `PipelineRunProofs!PrefixTheorem` | `CheckpointsArePrefix` | |
| `PipelineRunProofs!ShownTheorem` | `CompletedShownMeansStagesDone` | |
| `PipelineRunProofs!LogsTheorem` | `LogsMatchRuns` | |
| `PipelineRunProofs!ShownFinalTheorem` | `ShownEndIsFinal` | |
| `PipelineRunProofs!Refinement` | `ImplementsDurableRun` | |
| `JobQueueProofs!TypeTheorem`, `LostTheorem` | `TypeOK`, `NoJobIsLost` | |
| `JobQueueProofs!RetryTheorem`, `DeliveryTheorem` | `RetryLimitHolds`, `ImplementsJobDelivery` | `~Overrun` |
| `ProviderCallsProofs!TypeTheorem`, `PermitsTheorem` | `TypeOK`, `PermitsAreHeld` | |
| `ProviderCallsProofs!MinuteTheorem` | `MinuteHolds` | |
| `ProviderCallsProofs!ProbeTheorem`, `EarnedTheorem` | `OneProbe`, `ClosedIsEarned` | |
| `StreamProofs!ChannelTheorem`, `ShownTheorem` | `OnlyOpenChannels`, `ShownIsCurrent` | |
| `ActivationProofs!TypeTheorem`, `ActivationTheorem` | `TypeOK`, `ActivationMissesNoChunk` | |
| `ActivationProofs!AliasIsActiveAloneHolds`, `CompletedIsServedAloneHolds` | `AliasIsActiveAlone`, `CompletedIsServedAlone` | |
| `PaperStageProofs!BatchesCountTheirJobsHolds`, `DoneMeansNothingToComeHolds`, `OkMeansAnalyzedHolds` | `BatchesCountTheirJobs`, `DoneMeansNothingToCome`, `OkMeansAnalyzed` | |
| `ChunkEmbeddingProofs!CompletedWasStoredHolds`, `CompletedHasOwnPointHolds`, `NoOrphanHolds` | `CompletedWasStored`, `CompletedHasOwnPoint`, `NoOrphan` | |
| `ResearchDataProofs!PapersAreDistinctHolds`, `DiscoveryKeepsItsPapersHolds` | `PapersAreDistinct`, `DiscoveryKeepsItsPapers` | |
| `ResearchDataProofs!CitationsResolveHolds`, `ReportIsCompleteHolds`, `ReportsAgreeHolds` | `CitationsResolve`, `ReportIsComplete`, `ReportsAgree` | |

`PipelineRunProofs!CompletedTheorem`, `AnnouncedTheorem`, `FinalTheorem` and `KeptTheorem` and
`JobQueueProofs!OneEntryTheorem` (with `~Overrun`) state properties that no run checks by itself,
because the refinement or another property of the run contains what TLC could find of them.

*PipelineRun.* None of the properties is inductive alone: that a checkpoint may be written follows
from where the goroutine stands, and that from what PostgreSQL said when it read. `IInv` says for
each topic what holds at each program counter: the topic row and the checkpoints up to the stage
the goroutine is at (`ActiveRun`, `AtStage`), that topics in `todo` and ended topics have no
goroutine (`Listed`, `Ended`), that checkpoints form a prefix (`Prefix`), and that what memory and
Redis show is backed by checkpoints (`Supported`). Beside it stand that a topic row exists wherever
anything else does (`HasTopic`), that a process that is down has no volatile state (`DownIsIdle`),
and which logs are open (`LogsOfRuns`). The refinement shows that each step is one of DurableRun or
leaves the mapped state alone. That a shown end is final needs `ShownInv` beside `IInv`: a topic
whose end is in memory has no goroutine left and is in no list of recovery, a goroutine past its
start has shown something, so that no reader brings an older snapshot in from Redis, and a process
that is down remembers nothing.

*JobQueue.* `BaseInv` needs no claim time: entries that left the stream are worked or buried, and a
worker past its handler has the work it will report. Without overruns `StreamInv` adds that of a
job's entries only the last can be live, and that its attempts number them; `HoldInv` that an entry
in hand is fresh and in one hand; `PromiseInv` that a worker about to report is alone with its job
and that what was told is over. `SoleInv` is the four together. How often a job was added is
counted by an injection of its entries into their attempts.

*ProviderCalls.* `TypeInv` ties each counter to the set of callers it counts, so that taking or
giving back a permit moves both. `MinuteInv` says who holds the limiter's mutex and that the count
of the minute covers what was granted in it; `ProbeInv` that without late reports a probe is what
the breaker believes in flight; `EarnedInv` that the successes counted are part of the streak.

*Stream.* `ChannelInv` says which channels are open and that senders' remaining channels are
registered ones, which the read lock keeps so. `CurrentInv` says of each client that has lost
nothing: a status is still to come, or the last status in its channel or before its handler is the
remembered one. `ShownIsCurrent` is the case of an empty channel.

*Activation.* `ActInv` says what a process relies on at each program counter (`Fits`): one that
fills a collection is alone with its generation and there is no intent for it yet; whoever holds the
lock finds the chunks as the intent's snapshot. Every intent's snapshot is inside its collection
(`Snapshots`), because points are only added once there is an intent. At most one intent is open
and one generation active (`Unique`). Overlapping processes and lost answers are all included.

Where processes never overlap, `SoloInv` says more. While an intent is open the alias is at its
collection or at the previous one, and so is the active generation; with none open the alias is at
the active one (`Aliased`). What the only process has read is still so (`Knows`): this is the fact
that an overlap destroys, and which makes a crash at any call repairable. A row completed for a
collection has its point there (`Served`), wherever the alias is.

*PaperStage.* The batches count with integers, the invariant with sets: `Counts` equates what is
still to come with the cardinality of the registered jobs. That a job is registered once, and hence
counted once, needs to know which jobs are new: analysis jobs belong to a start (`AnalysisIsNew`), an
embedding job to an attempt of its PDF job and a chunk the handler has passed (`ChunksAreNew`).
`Registered` says which batch is active at each program counter, and `Promised` that each paper given
to a stage is analysed, has its job in the batch, or the batch has failed; with no job left, that is
`OkMeansAnalyzed`. When a
batch is closed is a property of steps. By `Counts` a batch has nothing to come exactly when as many
jobs are counted as registered (`NothingToCome`), and such a batch is closed already
(`ClosedWhenFull`); the step that closes the indexing batch leaves nothing to come (`ClosingStep`),
and what is registered after that is registered by `Index` (`RegisteringStep`). The early end of an
indexing batch (`stage_early`) is among the steps covered: the PDF jobs that are then still to come
are not registered yet.

*ChunkEmbedding.* `CompletedWasStored` rests on `ChunkInv`: no point goes before a cleanup task was
created for it (`Kept`, which every step preserves), and a worker at "complete" has stored the points
of all its chunks, so they are kept too, whatever was replaced or removed meanwhile (`Fits`).
`OrderInv` adds, for slots outside `outOfOrder`: a row's point is of its own text, that text has
no cleanup task, and every other point in Qdrant has one that is open (`RowInOrder`); and what a
worker holds of such a slot still agrees with the row (`WorkInOrder`). A step that would break it is
one that puts its slot into `outOfOrder`.

*ResearchData.* Two arguments meet. The first is about the algorithm alone: a fold over a list is
unfolded into a function on the sets of its places (`EnterIter`, `CollectIter`), and what holds after
n candidates is carried to n + 1 by an induction up to the length of the list that uses only that a
non-empty set of numbers has a least element. `Registered` and `Named` say what the index of
identifiers leads to: from a DOI to the one paper that has it, so that only an arXiv ID can be on two
papers; `Apart` then gives the candidate that joined both, for which `FromList` and `BothIds` find the
earlier candidates with each identifier alone. `Identified` keeps the papers distinct as rows. Here the
order of the candidates and `OffersAssumption` come in (`Ordered`): Semantic Scholar's come first,
arXiv's all have an arXiv ID, and one source describes a paper alike.

The second is the run's invariant `IInv`, stage by stage: which stages are done at each program
counter (`AtStage`), what a stage has in hand and how many of its items failed (`ItemsInHand`), that
discovery has at least as many members as items handled without failure (`Discovery`, where papers
distinct as rows turn a count of items into one of members), that a gap cites analysed papers (`GapsInv`),
and that a direction exists for each gap handled (`DirectionsInv`). `ReportsAgree` hangs on three
parts. `JobsInv`: a job of an earlier process is about a paper that is analysed or due, so once the
analysis is checkpointed no job changes which papers are analysed. `AnalysesInv`: past that
checkpoint jobs are left only of a stage that was cut off or of a run that has failed, so
otherwise what is stored of the papers stands still as well. `ReportInv`: a report kept or given
out lists what the rows would give now, says the same of each paper unless the stage was cut off,
and the one kept is the one given out.

Each action preserves each part in a lemma of its own or one per group of actions; the invariants
were first checked with TLC on the instances above. The temporal step is `PTL`.

*Only model-checked.* Liveness under fairness is beyond the prover: `EveryRunEnds`, `EveryJobEnds`,
`StageEnds`, `CancelledCallEnds`, `BreakerRecovers`, `EndIsShown`, `RunEnds` and `StreamsEnd` hold of
the instances of section 3. The two properties of the violation runs are refuted there. Everything
else a run checks is a theorem above. The induction theorems of the library take an operator as
their parameter, which no installed prover instantiates; where an induction was needed (the fold
above, counts up to a bound) it is done with a least counterexample instead.

## 5. Plan

What could be added, in this order:

1. Two topics in Stream, whose clients share one lock.
2. Safety halves of the liveness properties: that a stage, a call or a job that has not ended always
   has a step of its own, by program counter.
3. An abstract specification of ChunkEmbedding (rows name stored points) that `Activation` could use
   for its server, as PaperStage uses JobDelivery.

## 6. Not modelled

Prompts and answers of language models, scoring, formatting of reports and BibTeX, PDF parsing
and chunking of text, configuration, HTTP routing, health probes and log lines: they keep no state
that another part races for. Rows that nothing decides on (authors, documents, PDF status) are left
out, and so are operations without a caller (`Delete`, `Reset`, `Activate`, `ClearFailed`).
The admission middleware takes a token of one process-wide bucket under a mutex, or refuses the
submission, in a single step; a run begins after it. Backoff lengths, `Retry-After` and time stamps are durations, and the models
know only what time brings about. Generated database code is modelled by the effect of its
statements. `PROJECT.json` lists each part with what of it is left out.
