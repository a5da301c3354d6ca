----------------------------- MODULE PipelineRun -----------------------------
(***************************************************************************)
(* One research run from admission to its durable end: the run             *)
(* coordinator, the stage runner with its checkpoints, the live state that *)
(* the API reads (process memory, then Redis, then PostgreSQL), shutdown,  *)
(* crashes and the recovery at startup.                                    *)
(*                                                                         *)
(* Stage 0 is "pending", 1 query_expansion, 2 paper_discovery, ..., the    *)
(* last one report_generation; Completed and Failed are the two marker     *)
(* stages.  Progress fractions, timestamps, messages and stage outputs are *)
(* left out: no decision of this code depends on them.  So is the report   *)
(* cache, a read-through copy of rows already in PostgreSQL.               *)
(*                                                                         *)
(* Errors.  A PostgreSQL operation may fail for two reasons.  Once the     *)
(* application context is cancelled every operation on it returns          *)
(* context.Canceled; one that was in flight may have committed first.  And *)
(* at most MaxFaults times per behaviour PostgreSQL, Redis or the file     *)
(* system fails by itself; a transaction whose commit answer is lost may   *)
(* have committed.                                                         *)
(***************************************************************************)
EXTENDS Integers, FiniteSets

CONSTANTS
  Topics,       \* research topics, one run each
  NumStages,    \* stages of a run; the program has 7
  MaxFaults,    \* bound on spontaneous infrastructure faults
  MaxStops      \* bound on shutdowns and crashes together

ASSUME StagesAssumption == NumStages \in Nat \ {0, 1}
ASSUME BoundsAssumption == MaxFaults \in Nat /\ MaxStops \in Nat

VARIABLES
  topic,        \* PostgreSQL research_topics: status and current_stage
  checkpoint,   \* PostgreSQL pipeline_stage_checkpoints: status of each stage
  snapshot,     \* Redis pipeline:<topic-id>, or None
  proc,         \* the server process
  memory,       \* PipelineStateService.pipelines, or None
  run,          \* the goroutine that starts or runs each topic
  openLogs,     \* run log files that logger.Manager holds open
  todo,         \* topics Recover has listed and not reopened yet
  faults,       \* spontaneous faults so far
  stops         \* shutdowns and crashes so far

durable  == <<topic, checkpoint>>
volatile == <<memory, run, openLogs, todo>>
bounds   == <<faults, stops>>
vars     == <<topic, checkpoint, snapshot, proc, memory, run, openLogs, todo,
              faults, stops>>

-------------------------------------------------------------------------------
Pending   == 0
Discovery == 2
Completed == NumStages + 1
Failed    == NumStages + 2

Stages    == 1 .. NumStages
Terminal  == {"completed", "failed"}

\* Pipeline: what memory, Redis, an SSE event or an API answer says of a run.
Pipeline  == [status : {"absent", "pending", "processing", "completed", "failed"},
              stage : 0 .. NumStages + 2]
None      == [status |-> "absent", stage |-> Pending]
Accepted  == [status |-> "pending", stage |-> Pending]
At(s)     == [status |-> "processing", stage |-> s]
Succeeded == [status |-> "completed", stage |-> Completed]
Broken    == [status |-> "failed", stage |-> Failed]

\* Where a goroutine stands.  idle: there is none.  created: Start has inserted
\* the topic.  check: before stageCompleted.  recount: before CountPapers.
\* start, commit and persist: before that transaction.  work: inside the stage.
\* fail: at the entry of PipelineRunner.fail.  publish: before the last Publish.
PCs == {"idle", "created", "check", "recount", "start", "work", "commit",
        "persist", "fail", "publish"}

\* A goroutine: its pc, the stage it is at, the Pipeline it owns, and whether
\* the error it fails with is context.Canceled.
Goroutine == [pc : PCs, at : 0 .. NumStages, p : Pipeline, canceled : BOOLEAN]
NoRun == [pc |-> "idle", at |-> 0, p |-> None, canceled |-> FALSE]
Run(pc, s, p) == [pc |-> pc, at |-> s, p |-> p, canceled |-> FALSE]
Failing(s, p, c) == [pc |-> "fail", at |-> s, p |-> p, canceled |-> c]

Goto(t, r) == run' = [run EXCEPT ![t] = r]

\* The reasons an operation on a context of the application fails, and what
\* errors.Is(err, context.Canceled) answers for each.
Cancelled(c) == proc = "stopping" /\ c = TRUE /\ UNCHANGED faults
Faulted(c)   == faults < MaxFaults /\ c = FALSE /\ faults' = faults + 1
Breaks(c)    == Cancelled(c) \/ Faulted(c)
Works        == proc = "up" /\ UNCHANGED faults

\* updateTopicState and the checkpoint statement of one WithTx.
Write(t, s, c, p) ==
  /\ checkpoint' = [checkpoint EXCEPT ![t][s] = c]
  /\ topic' = [topic EXCEPT ![t] = p]

\* Remember and Save of Publish: a failed Save is only logged.
Publish(t, p) ==
  /\ memory' = [memory EXCEPT ![t] = p]
  /\ \/ snapshot' = [snapshot EXCEPT ![t] = p] /\ UNCHANGED faults
     \/ UNCHANGED snapshot /\ faults < MaxFaults /\ faults' = faults + 1

Init ==
  /\ topic = [t \in Topics |-> None]
  /\ checkpoint = [t \in Topics |-> [s \in 0 .. NumStages |-> "none"]]
  /\ snapshot = [t \in Topics |-> None]
  /\ proc = "up"
  /\ memory = [t \in Topics |-> None]
  /\ run = [t \in Topics |-> NoRun]
  /\ openLogs = {}
  /\ todo = {}
  /\ faults = 0
  /\ stops = 0

-------------------------------------------------------------------------------
(* Admission: RunCoordinator.Start *)

\* CreateResearchTopic.  When the answer of the insert is lost the row exists
\* and nobody runs it before the next start of the server.
Create(t) ==
  /\ proc # "down" /\ todo = {}
  /\ topic[t] = None
  /\ topic' = [topic EXCEPT ![t] = Accepted]
  /\ \/ Goto(t, Run("created", 0, Accepted)) /\ UNCHANGED faults
     \/ faults < MaxFaults /\ faults' = faults + 1 /\ UNCHANGED run
  /\ UNCHANGED <<checkpoint, snapshot, proc, memory, openLogs, todo, stops>>

\* StartRun, Remember, Save and Launch.  Save runs on the request's context: its
\* error is context.Canceled when the client has gone, and the run is failed.
Open(t) ==
  /\ run[t].pc = "created"
  /\ memory' = [memory EXCEPT ![t] = Accepted]
  /\ openLogs' = openLogs \cup {t}
  /\ \/ /\ snapshot' = [snapshot EXCEPT ![t] = Accepted]
        /\ Goto(t, Run("check", 1, Accepted))
        /\ UNCHANGED faults
     \/ /\ faults < MaxFaults /\ faults' = faults + 1
        /\ \E c \in BOOLEAN : Goto(t, Failing(0, Accepted, c))
        /\ snapshot' \in {snapshot, [snapshot EXCEPT ![t] = Accepted]}
  /\ UNCHANGED <<durable, proc, todo, stops>>

\* StartRun fails: persistRunLogFailure, and the request returns an error.  The
\* failed status is lost when its own statement fails too.
OpenFails(t) ==
  /\ run[t].pc = "created"
  /\ \/ faults + 1 <= MaxFaults /\ faults' = faults + 1
        /\ topic' = [topic EXCEPT ![t] = Broken]
     \/ faults + 2 <= MaxFaults /\ faults' = faults + 2
        /\ UNCHANGED topic
  /\ Goto(t, NoRun)
  /\ UNCHANGED <<checkpoint, snapshot, proc, memory, openLogs, todo, stops>>

-------------------------------------------------------------------------------
(* PipelineRunner.Run *)

\* Faulty After: the run never finds its last stage; or ends one stage early.
AfterNoLast(s, p) == Run("check", s + 1, p)
AfterOneShort(s, p) == IF s + 1 >= NumStages THEN Run("persist", s, Succeeded)
                                             ELSE Run("check", s + 1, p)

\* What follows stage s once it is durable.
After(s, p) == IF s = NumStages THEN Run("persist", s, Succeeded)
                                ELSE Run("check", s + 1, p)

\* stageCompleted answers that the stage is done: it is skipped.
SkipStage(t) ==
  LET r == run[t] IN
  /\ r.pc = "check" /\ Works
  /\ checkpoint[t][r.at] = "completed"
  /\ Goto(t, IF r.at = Discovery THEN Run("recount", r.at, r.p)
                                 ELSE After(r.at, r.p))
  /\ UNCHANGED <<durable, snapshot, proc, memory, openLogs, todo, stops>>

\* A recovered discovery still needs MinPapersForAnalysis papers.
Recount(t) ==
  LET r == run[t] IN
  /\ r.pc = "recount"
  /\ \/ Works /\ Goto(t, After(Discovery, r.p))
     \/ Works /\ Goto(t, Failing(Discovery, r.p, FALSE))
     \/ \E c \in BOOLEAN : Breaks(c) /\ Goto(t, Failing(Discovery, r.p, c))
  /\ UNCHANGED <<durable, snapshot, proc, memory, openLogs, todo, stops>>

\* stageCompleted answers no: begin announces the stage before startStage.
BeginStage(t) ==
  LET r == run[t] IN
  /\ r.pc = "check" /\ proc = "up"
  /\ checkpoint[t][r.at] # "completed"
  /\ Publish(t, At(r.at))
  /\ Goto(t, Run("start", r.at, At(r.at)))
  /\ UNCHANGED <<durable, proc, openLogs, todo, stops>>

\* stageCompleted, or the second checkpoint that analysis and feasibility read,
\* returns an error.
CheckFails(t) ==
  LET r == run[t] IN
  /\ r.pc = "check"
  /\ \E c \in BOOLEAN : Breaks(c) /\ Goto(t, Failing(r.at, r.p, c))
  /\ UNCHANGED <<durable, snapshot, proc, memory, openLogs, todo, stops>>

\* Faulty Transaction: its error is dropped.
TransactionErrorDropped(t, s, c, next) ==
  LET r == run[t] IN
  /\ \/ Works /\ Write(t, s, c, r.p)
     \/ (\E canceled \in BOOLEAN : Breaks(canceled)) /\ UNCHANGED durable
  /\ Goto(t, next)
  /\ UNCHANGED <<snapshot, proc, memory, openLogs, todo, stops>>

\* One transaction of the runner, and where the goroutine goes when it works.
Transaction(t, s, c, next) ==
  LET r == run[t] IN
  /\ \/ Works /\ Goto(t, next) /\ Write(t, s, c, r.p)
     \/ \E canceled \in BOOLEAN :
          /\ Breaks(canceled)
          /\ Goto(t, Failing(s, r.p, canceled))
          /\ Write(t, s, c, r.p) \/ UNCHANGED durable
  /\ UNCHANGED <<snapshot, proc, memory, openLogs, todo, stops>>

StartStage(t) ==
  /\ run[t].pc = "start"
  /\ Transaction(t, run[t].at, "running", Run("work", run[t].at, run[t].p))

\* The stage's own operation.  Its errors, a shortage of papers and a recovered
\* panic all end in fail; no bound is needed on them, a failed run is not rerun.
WorkStage(t) ==
  LET r == run[t] IN
  /\ r.pc = "work"
  /\ \/ Goto(t, Run("commit", r.at, r.p))
     \/ Goto(t, Failing(r.at, r.p, FALSE))
     \/ proc = "stopping" /\ Goto(t, Failing(r.at, r.p, TRUE))
  /\ UNCHANGED <<durable, snapshot, proc, memory, openLogs, todo, bounds>>

CommitStage(t) ==
  /\ run[t].pc = "commit"
  /\ Transaction(t, run[t].at, "completed", After(run[t].at, run[t].p))

\* persistTerminalState touches no checkpoint; its error fails the last stage.
PersistTerminal(t) ==
  /\ run[t].pc = "persist"
  /\ Transaction(t, NumStages, checkpoint[t][NumStages],
                 Run("publish", NumStages, run[t].p))

\* Faulty PublishTerminal: CloseRun is forgotten; or a failed run goes on to
\* the next stage.
PublishTerminalLogOpen(t) ==
  /\ run[t].pc = "publish"
  /\ Publish(t, run[t].p)
  /\ Goto(t, NoRun)
  /\ todo' = todo \ {t}
  /\ UNCHANGED <<durable, proc, openLogs, stops>>
PublishTerminalGoesOn(t) ==
  LET r == run[t] IN
  /\ r.pc = "publish"
  /\ Publish(t, r.p)
  /\ Goto(t, IF r.at < NumStages THEN Run("check", r.at + 1, r.p) ELSE NoRun)
  /\ openLogs' = openLogs \ {t}
  /\ todo' = todo \ {t}
  /\ UNCHANGED <<durable, proc, stops>>

\* The final Publish and CloseRun of Run, fail and failRecovery.
PublishTerminal(t) ==
  /\ run[t].pc = "publish"
  /\ Publish(t, run[t].p)
  /\ Goto(t, NoRun)
  /\ openLogs' = openLogs \ {t}
  /\ todo' = todo \ {t}
  /\ UNCHANGED <<durable, proc, stops>>

\* fail after a cancellation by shutdown: the run is left for recovery.
Interrupt(t) ==
  /\ run[t].pc = "fail"
  /\ run[t].canceled /\ proc = "stopping"
  /\ Publish(t, run[t].p)
  /\ Goto(t, NoRun)
  /\ UNCHANGED <<durable, proc, openLogs, todo, stops>>

\* fail for any other cause: failStage on a context of its own.  Its error is
\* logged and the failure is published all the same.
FailRun(t) ==
  LET r == run[t] IN
  /\ r.pc = "fail"
  /\ ~(r.canceled /\ proc = "stopping")
  /\ \/ Write(t, r.at, "failed", Broken) /\ UNCHANGED faults
     \/ /\ faults < MaxFaults /\ faults' = faults + 1
        /\ Write(t, r.at, "failed", Broken) \/ UNCHANGED durable
  /\ Goto(t, Run("publish", r.at, Broken))
  /\ UNCHANGED <<snapshot, proc, memory, openLogs, todo, stops>>

-------------------------------------------------------------------------------
(* The process: RunManager.Shutdown, crashes, and RecoveryService.Recover *)

\* Shutdown cancels the application context under every goroutine.
Shutdown ==
  /\ proc = "up" /\ todo = {} /\ stops < MaxStops
  /\ proc' = "stopping"
  /\ stops' = stops + 1
  /\ UNCHANGED <<durable, snapshot, memory, run, openLogs, todo, faults>>

Halt ==
  /\ proc' = "down"
  /\ memory' = [t \in Topics |-> None]
  /\ run' = [t \in Topics |-> NoRun]
  /\ openLogs' = {}
  /\ todo' = {}
  /\ UNCHANGED <<durable, snapshot, faults>>

\* The process ends when the runs have stopped, or after 30 seconds.
Exit == proc = "stopping" /\ Halt /\ UNCHANGED stops

Crash == proc # "down" /\ stops < MaxStops /\ Halt /\ stops' = stops + 1

\* Faulty candidates: Redis is believed; or runs that never began are left out.
RedisCandidatesUnchecked == {t \in Topics : snapshot[t].status \in {"pending", "processing"}}
DurableCandidatesBegun == {t \in Topics : topic[t].status = "processing"}

\* Redis candidates are kept when PostgreSQL calls them unfinished; the durable
\* list has every unfinished topic.  An error of either is only logged.
RedisCandidates == {t \in Topics : /\ snapshot[t].status \in {"pending", "processing"}
                                   /\ topic[t].status \in {"pending", "processing"}}
DurableCandidates == {t \in Topics : topic[t].status \in {"pending", "processing"}}

Restart ==
  /\ proc = "down"
  /\ proc' = "up"
  /\ \/ todo' = DurableCandidates /\ UNCHANGED faults
     \/ /\ faults < MaxFaults /\ faults' = faults + 1
        /\ todo' \in SUBSET RedisCandidates
  /\ UNCHANGED <<durable, snapshot, memory, run, openLogs, stops>>

\* The stage of the checkpoint started last, if there is one.  Stages start in
\* order, so it is the highest one that has a checkpoint.
LatestStage(t) ==
  {s \in 0 .. NumStages :
     /\ checkpoint[t][s] # "none"
     /\ \A u \in 0 .. NumStages : checkpoint[t][u] # "none" => u <= s}

\* A topic from the durable list shows its latest checkpoint, one that only
\* Redis named (or whose checkpoints could not be read) the topic's own stage.
RecoverOne(t) ==
  /\ t \in todo /\ run[t] = NoRun
  /\ \E s \in {topic[t].stage} \cup LatestStage(t) :
       LET p == [status |-> topic[t].status, stage |-> s] IN
       /\ memory' = [memory EXCEPT ![t] = p]
       /\ Goto(t, Run("check", 1, p))
  /\ openLogs' = openLogs \cup {t}
  /\ todo' = todo \ {t}
  /\ UNCHANGED <<durable, snapshot, proc, bounds>>

\* The run log cannot be reopened: failRecovery fails the topic, or only says so.
RecoverFails(t) ==
  /\ t \in todo /\ run[t] = NoRun
  /\ \/ faults + 1 <= MaxFaults /\ faults' = faults + 1
        /\ topic' = [topic EXCEPT ![t] = Broken]
     \/ faults + 2 <= MaxFaults /\ faults' = faults + 2
        /\ UNCHANGED topic
  /\ Goto(t, Run("publish", 0, Broken))
  /\ UNCHANGED <<checkpoint, snapshot, proc, memory, openLogs, todo, stops>>

-------------------------------------------------------------------------------
(* Readers *)

\* PipelineStateService.Get when memory has nothing: Redis, then PostgreSQL, and
\* the answer is remembered.  Nobody knows the identifier of a run that Start
\* has not remembered yet.
Get(t) ==
  /\ proc # "down" /\ todo = {}
  /\ memory[t] = None /\ topic[t] # None /\ run[t].pc # "created"
  /\ \/ /\ memory' = [memory EXCEPT ![t] = IF snapshot[t] # None THEN snapshot[t]
                                                                ELSE topic[t]]
        /\ UNCHANGED faults
     \/ /\ faults < MaxFaults /\ faults' = faults + 1
        /\ memory' = [memory EXCEPT ![t] = topic[t]]
  /\ UNCHANGED <<durable, snapshot, proc, run, openLogs, todo, stops>>

\* The live snapshot expires.
Expire(t) ==
  /\ snapshot[t] # None
  /\ snapshot' = [snapshot EXCEPT ![t] = None]
  /\ UNCHANGED <<durable, proc, volatile, bounds>>

-------------------------------------------------------------------------------
Coordinate(t) == Create(t) \/ Open(t) \/ OpenFails(t)

Step(t) ==
  \/ SkipStage(t) \/ Recount(t) \/ BeginStage(t) \/ CheckFails(t)
  \/ StartStage(t) \/ WorkStage(t) \/ CommitStage(t) \/ PersistTerminal(t)
  \/ PublishTerminal(t) \/ Interrupt(t) \/ FailRun(t)

Recover(t) == RecoverOne(t) \/ RecoverFails(t)

Next ==
  \/ \E t \in Topics : Coordinate(t) \/ Step(t) \/ Recover(t) \/ Get(t) \/ Expire(t)
  \/ Shutdown \/ Exit \/ Crash \/ Restart

Spec == Init /\ [][Next]_vars

\* A goroutine the Go scheduler runs is not starved, every call it makes has a
\* deadline, and the supervisor restarts a server that stopped.
Fairness ==
  /\ \A t \in Topics : WF_vars(Open(t) \/ OpenFails(t)) /\ WF_vars(Step(t)) /\ WF_vars(RecoverOne(t))
  /\ WF_vars(Exit) /\ WF_vars(Restart)

FairSpec == Spec /\ Fairness

-------------------------------------------------------------------------------
(* Properties *)

TypeOK ==
  /\ topic \in [Topics -> Pipeline]
  /\ checkpoint \in [Topics -> [0 .. NumStages -> {"none", "running", "completed", "failed"}]]
  /\ snapshot \in [Topics -> Pipeline]
  /\ proc \in {"up", "stopping", "down"}
  /\ memory \in [Topics -> Pipeline]
  /\ run \in [Topics -> Goroutine]
  /\ openLogs \subseteq Topics
  /\ todo \subseteq Topics
  /\ faults \in 0 .. MaxFaults
  /\ stops \in 0 .. MaxStops

\* Whatever crashes, cancellations and lost commit answers came before, a stage
\* of a run that has not failed has a checkpoint only if every earlier stage is
\* completed: recovery can trust the prefix it resumes from (checkpoint.go,
\* pipeline_runner.go Run).
CheckpointsArePrefix ==
  \A t \in Topics : topic[t].status # "failed" =>
    \A s \in Stages : checkpoint[t][s] # "none" =>
      \A u \in 1 .. (s - 1) : checkpoint[t][u] = "completed"

\* PostgreSQL calls a run completed only when all its stages are: the terminal
\* row and the checkpoints are written by different transactions.
CompletedMeansAllStages ==
  \A t \in Topics : topic[t].status = "completed" =>
    \A s \in Stages : checkpoint[t][s] = "completed"

\* A stage's work runs only under its own durable "running" checkpoint and topic
\* row, so that a crash in the middle is seen as unfinished by the next start
\* (begin, startStage).
WorkIsAnnounced ==
  \A t \in Topics : run[t].pc = "work" =>
    /\ checkpoint[t][run[t].at] = "running"
    /\ topic[t] = At(run[t].at)

\* A reader of memory who is told "completed" can rely on every stage being
\* durable, even in a shutdown that cancels the terminal transaction; only a
\* durable failure of the same run can contradict it.
CompletedShownMeansStagesDone ==
  \A t \in Topics : memory[t].status = "completed" =>
    topic[t].status = "failed" \/ \A s \in Stages : checkpoint[t][s] = "completed"

\* In a serving process the open run logs are those of the goroutines that run:
\* each way out of Run, fail and Start closes its log, once (logger.StartRun,
\* logger.CloseRun).
LogsMatchRuns ==
  proc = "up" /\ todo = {} =>
    openLogs = {t \in Topics : run[t].pc \notin {"idle", "created"}}

\* A durable end is final: no crash, recovery or stale Redis snapshot makes a
\* completed or failed run unfinished again, and a failed one stays failed.
DurableEndIsFinal ==
  [][\A t \in Topics :
       /\ topic[t].status \in Terminal => topic'[t].status \in Terminal
       /\ topic[t].status = "failed" => topic'[t].status = "failed"]_vars

\* A completed stage is durable: its checkpoint changes again only in a
\* transaction that fails the run, so its work is never repeated by a recovery.
CompletedStageIsKept ==
  [][\A t \in Topics : \A s \in Stages :
       checkpoint[t][s] = "completed" /\ checkpoint'[t][s] # "completed"
         => topic'[t].status = "failed"]_vars

\* Within one process a run that was shown completed or failed is never shown
\* otherwise: no goroutine publishes after the end of its run.
ShownEndIsFinal ==
  [][\A t \in Topics :
       memory[t].status \in Terminal /\ proc' # "down" => memory'[t] = memory[t]]_vars

\* The durable state of PipelineRun is a DurableRun.
Abstract == INSTANCE DurableRun WITH
  status <- [t \in Topics |-> topic[t].status],
  done   <- [t \in Topics |-> {s \in Stages : checkpoint[t][s] = "completed"}]
ImplementsDurableRun == Abstract!Spec

\* With no infrastructure fault, every accepted run ends in PostgreSQL, however
\* often the server is shut down or crashes in between.
EveryRunEnds ==
  \A t \in Topics : topic[t].status = "pending" ~> topic[t].status \in Terminal

===============================================================================
