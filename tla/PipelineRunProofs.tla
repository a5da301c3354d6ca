-------------------------- MODULE PipelineRunProofs --------------------------
(***************************************************************************)
(* Proofs about PipelineRun for any topics, any number of stages and any   *)
(* bounds.  The inductive invariant says, for every topic, what the        *)
(* program counter of its goroutine implies about PostgreSQL, and that a   *)
(* topic recovery has listed has no goroutine and no durable end.          *)
(***************************************************************************)
EXTENDS PipelineRun, TLAPS

-------------------------------------------------------------------------------
(* Types *)

\* The states and goroutines the actions build have their types.
LEMMA Building ==
  /\ None \in Pipeline /\ Accepted \in Pipeline
  /\ Succeeded \in Pipeline /\ Broken \in Pipeline
  /\ \A s \in 0 .. NumStages : At(s) \in Pipeline
  /\ NoRun \in Goroutine
  /\ \A pc \in PCs, s \in 0 .. NumStages, p \in Pipeline : Run(pc, s, p) \in Goroutine
  /\ \A s \in 0 .. NumStages, p \in Pipeline, c \in BOOLEAN :
        Failing(s, p, c) \in Goroutine
  BY StagesAssumption
  DEF None, Accepted, Succeeded, Broken, At, Pipeline, Pending, Completed, Failed,
      NoRun, Goroutine, Run, Failing, PCs

\* What is read back from a typed goroutine or pipeline has its own type.
LEMMA Reading ==
  /\ \A r \in Goroutine : /\ r.pc \in PCs /\ r.at \in 0 .. NumStages
                          /\ r.p \in Pipeline /\ r.canceled \in BOOLEAN
  /\ \A p \in Pipeline : /\ p.stage \in 0 .. NumStages + 2
                         /\ p.status \in {"absent", "pending", "processing",
                                          "completed", "failed"}
  BY DEF Goroutine, Pipeline

LEMMA StageFacts ==
  /\ Stages \subseteq 0 .. NumStages /\ NumStages \in Stages
  /\ Discovery \in Stages /\ 1 \in Stages /\ 0 \in 0 .. NumStages
  BY StagesAssumption DEF Stages, Discovery

\* After is a goroutine for every stage of the run.
LEMMA AfterTyping ==
  ASSUME NEW s \in 0 .. NumStages, NEW p \in Pipeline
  PROVE  After(s, p) \in Goroutine
<1>1. s \in 0 .. NumStages /\ (s # NumStages => s + 1 \in 0 .. NumStages)
  BY StagesAssumption
<1>2. {"persist", "check"} \subseteq PCs
  BY DEF PCs
<1> QED
  BY <1>1, <1>2, Building DEF After

RunTyped == run \in [Topics -> Goroutine]
DurableTyped ==
  /\ topic \in [Topics -> Pipeline]
  /\ checkpoint \in [Topics -> [0 .. NumStages -> {"none", "running", "completed", "failed"}]]

LEMMA GotoTyping ==
  ASSUME RunTyped, NEW t \in Topics, NEW r \in Goroutine, Goto(t, r)
  PROVE  RunTyped'
  BY DEF RunTyped, Goto

LEMMA WriteTyping ==
  ASSUME DurableTyped, NEW t \in Topics, NEW s \in 0 .. NumStages,
         NEW c \in {"none", "running", "completed", "failed"},
         NEW p \in Pipeline, Write(t, s, c, p)
  PROVE  DurableTyped'
  BY DEF DurableTyped, Write

LEMMA DurableUnchanged ==
  ASSUME DurableTyped, UNCHANGED durable PROVE DurableTyped'
  BY DEF DurableTyped, durable

LEMMA PublishTyping ==
  ASSUME TypeOK, NEW t \in Topics, NEW p \in Pipeline, Publish(t, p)
  PROVE  /\ memory' \in [Topics -> Pipeline] /\ snapshot' \in [Topics -> Pipeline]
         /\ faults' \in 0 .. MaxFaults
  BY BoundsAssumption DEF TypeOK, Publish

LEMMA FaultsTyping ==
  ASSUME faults \in 0 .. MaxFaults, Works \/ (\E c \in BOOLEAN : Breaks(c))
  PROVE  faults' \in 0 .. MaxFaults
  BY BoundsAssumption DEF Works, Breaks, Cancelled, Faulted

LEMMA TransactionTyping ==
  ASSUME TypeOK, NEW t \in Topics, NEW s \in 0 .. NumStages,
         NEW c \in {"none", "running", "completed", "failed"},
         NEW next \in Goroutine, Transaction(t, s, c, next)
  PROVE  TypeOK'
<1> USE BoundsAssumption
<1>1. RunTyped /\ DurableTyped /\ run[t].p \in Pipeline
  BY Reading DEF TypeOK, RunTyped, DurableTyped
<1>2. RunTyped'
  BY <1>1, Building, GotoTyping DEF Transaction
<1>3. DurableTyped'
  BY <1>1, WriteTyping, DurableUnchanged DEF Transaction
<1>4. faults' \in 0 .. MaxFaults
  BY DEF Transaction, Works, Breaks, Cancelled, Faulted, TypeOK
<1> QED
  BY <1>2, <1>3, <1>4 DEF Transaction, TypeOK, RunTyped, DurableTyped

\* The type invariant, for every value of the constants.
THEOREM TypeCorrect == Spec => []TypeOK
<1> USE StagesAssumption, BoundsAssumption
<1>1. Init => TypeOK
  BY Building DEF Init, TypeOK
<1>2. TypeOK /\ [Next]_vars => TypeOK'
  <2> SUFFICES ASSUME TypeOK, [Next]_vars PROVE TypeOK'
    OBVIOUS
  <2>0. RunTyped /\ DurableTyped
    BY DEF TypeOK, RunTyped, DurableTyped
  <2>r. ASSUME NEW t \in Topics
        PROVE  /\ run[t].pc \in PCs /\ run[t].at \in 0 .. NumStages
               /\ run[t].p \in Pipeline /\ topic[t] \in Pipeline
    BY Reading DEF TypeOK
  <2>1. ASSUME NEW t \in Topics, Create(t) PROVE TypeOK'
    <3>1. RunTyped'
      BY <2>0, <2>r, <2>1, Building, GotoTyping, StageFacts
      DEF Create, PCs, RunTyped
    <3>2. DurableTyped'
      BY <2>0, <2>r, <2>1, Building DEF Create, DurableTyped
    <3> QED
      BY <2>r, <2>1, <3>1, <3>2, Building DEF Create, TypeOK, RunTyped, DurableTyped
  <2>2. ASSUME NEW t \in Topics, Open(t) PROVE TypeOK'
    <3>1. RunTyped'
      BY <2>0, <2>r, <2>2, Building, GotoTyping, StageFacts
      DEF Open, PCs
    <3>2. DurableTyped'
      BY <2>0, <2>r, <2>2, DurableUnchanged DEF Open
    <3>3. faults' \in 0 .. MaxFaults
      BY <2>2 DEF Open, TypeOK
    <3>4. memory' \in [Topics -> Pipeline] /\ snapshot' \in [Topics -> Pipeline]
      BY <2>2, Building DEF Open, TypeOK
    <3> QED
      BY <2>2, <3>1, <3>2, <3>3, <3>4 DEF Open, TypeOK, RunTyped, DurableTyped
  <2>3. ASSUME NEW t \in Topics, OpenFails(t) PROVE TypeOK'
    <3>1. RunTyped'
      BY <2>0, <2>r, <2>3, Building, GotoTyping, StageFacts
      DEF OpenFails
    <3>2. DurableTyped'
      BY <2>0, <2>r, <2>3, Building DEF OpenFails, DurableTyped
    <3> QED
      BY <2>r, <2>3, <3>1, <3>2, Building DEF OpenFails, TypeOK, RunTyped, DurableTyped
  <2>4. ASSUME NEW t \in Topics, SkipStage(t) PROVE TypeOK'
    <3>1. RunTyped'
      BY <2>0, <2>r, <2>4, Building, GotoTyping, StageFacts, AfterTyping
      DEF SkipStage, PCs
    <3>2. DurableTyped'
      BY <2>0, <2>r, <2>4, DurableUnchanged DEF SkipStage
    <3> QED
      BY <2>r, <2>4, <3>1, <3>2, Building DEF SkipStage, Works, TypeOK, RunTyped, DurableTyped
  <2>5. ASSUME NEW t \in Topics, Recount(t) PROVE TypeOK'
    <3>1. RunTyped'
      BY <2>0, <2>r, <2>5, Building, GotoTyping, StageFacts, AfterTyping
      DEF Recount
    <3>2. DurableTyped'
      BY <2>0, <2>r, <2>5, DurableUnchanged DEF Recount
    <3>3. faults' \in 0 .. MaxFaults
      BY <2>5, FaultsTyping DEF Recount, TypeOK
    <3> QED
      BY <2>5, <3>1, <3>2, <3>3 DEF Recount, TypeOK, RunTyped, DurableTyped
  <2>6. ASSUME NEW t \in Topics, BeginStage(t) PROVE TypeOK'
    <3>1. RunTyped'
      BY <2>0, <2>r, <2>6, Building, GotoTyping, StageFacts
      DEF BeginStage, PCs
    <3>2. DurableTyped'
      BY <2>0, <2>r, <2>6, DurableUnchanged DEF BeginStage
    <3>3. /\ memory' \in [Topics -> Pipeline] /\ snapshot' \in [Topics -> Pipeline]
          /\ faults' \in 0 .. MaxFaults
      BY <2>r, <2>6, Building, StageFacts, PublishTyping DEF BeginStage
    <3> QED
      BY <2>r, <2>6, <3>1, <3>2, <3>3, Building DEF BeginStage, TypeOK, RunTyped, DurableTyped
  <2>7. ASSUME NEW t \in Topics, CheckFails(t) PROVE TypeOK'
    <3>1. RunTyped'
      BY <2>0, <2>r, <2>7, Building, GotoTyping, StageFacts
      DEF CheckFails
    <3>2. DurableTyped'
      BY <2>0, <2>r, <2>7, DurableUnchanged DEF CheckFails
    <3> QED
      BY <2>r, <2>7, <3>1, <3>2, Building DEF CheckFails, Breaks, Cancelled, Faulted, TypeOK, RunTyped, DurableTyped
  <2>8. ASSUME NEW t \in Topics, StartStage(t) PROVE TypeOK'
    BY <2>r, <2>8, Building, TransactionTyping DEF StartStage, PCs
  <2>9. ASSUME NEW t \in Topics, WorkStage(t) PROVE TypeOK'
    <3>1. RunTyped'
      BY <2>0, <2>r, <2>9, Building, GotoTyping, StageFacts
      DEF WorkStage, PCs
    <3>2. DurableTyped'
      BY <2>0, <2>r, <2>9, DurableUnchanged DEF WorkStage
    <3> QED
      BY <2>r, <2>9, <3>1, <3>2, Building DEF WorkStage, bounds, TypeOK, RunTyped, DurableTyped
  <2>10. ASSUME NEW t \in Topics, CommitStage(t) PROVE TypeOK'
    BY <2>r, <2>10, Building, AfterTyping, TransactionTyping DEF CommitStage, PCs
  <2>11. ASSUME NEW t \in Topics, PersistTerminal(t) PROVE TypeOK'
    <3>1. checkpoint[t][NumStages] \in {"none", "running", "completed", "failed"}
      BY StageFacts DEF TypeOK
    <3> QED
      BY <2>r, <2>11, <3>1, Building, StageFacts, TransactionTyping DEF PersistTerminal, PCs
  <2>12. ASSUME NEW t \in Topics, PublishTerminal(t) PROVE TypeOK'
    <3>1. RunTyped'
      BY <2>0, <2>r, <2>12, Building, GotoTyping, StageFacts
      DEF PublishTerminal
    <3>2. DurableTyped'
      BY <2>0, <2>r, <2>12, DurableUnchanged DEF PublishTerminal
    <3>3. /\ memory' \in [Topics -> Pipeline] /\ snapshot' \in [Topics -> Pipeline]
          /\ faults' \in 0 .. MaxFaults
      BY <2>r, <2>12, Building, PublishTyping DEF PublishTerminal
    <3> QED
      BY <2>r, <2>12, <3>1, <3>2, <3>3, Building DEF PublishTerminal, TypeOK, RunTyped, DurableTyped
  <2>13. ASSUME NEW t \in Topics, Interrupt(t) PROVE TypeOK'
    <3>1. RunTyped'
      BY <2>0, <2>r, <2>13, Building, GotoTyping, StageFacts
      DEF Interrupt
    <3>2. DurableTyped'
      BY <2>0, <2>r, <2>13, DurableUnchanged DEF Interrupt
    <3>3. /\ memory' \in [Topics -> Pipeline] /\ snapshot' \in [Topics -> Pipeline]
          /\ faults' \in 0 .. MaxFaults
      BY <2>r, <2>13, Building, PublishTyping DEF Interrupt
    <3> QED
      BY <2>r, <2>13, <3>1, <3>2, <3>3, Building DEF Interrupt, TypeOK, RunTyped, DurableTyped
  <2>14. ASSUME NEW t \in Topics, FailRun(t) PROVE TypeOK'
    <3>1. RunTyped'
      BY <2>0, <2>r, <2>14, Building, GotoTyping, StageFacts
      DEF FailRun, PCs
    <3>2. DurableTyped'
      BY <2>0, <2>r, <2>14, Building, WriteTyping, DurableUnchanged DEF FailRun
    <3> QED
      BY <2>r, <2>14, <3>1, <3>2, Building DEF FailRun, TypeOK, RunTyped, DurableTyped
  <2>15. ASSUME NEW t \in Topics, RecoverOne(t) PROVE TypeOK'
    <3>0. {topic[t].stage} \cup LatestStage(t) \subseteq 0 .. NumStages + 2
      BY <2>r, Reading DEF LatestStage
    <3>1. PICK s \in 0 .. NumStages + 2 :
            LET p == [status |-> topic[t].status, stage |-> s] IN
            /\ memory' = [memory EXCEPT ![t] = p]
            /\ Goto(t, Run("check", 1, p))
      BY <2>r, <2>15, <3>0, Reading DEF RecoverOne
    <3>2. [status |-> topic[t].status, stage |-> s] \in Pipeline
      BY <2>r DEF Pipeline
    <3>3. RunTyped'
      BY <2>0, <3>1, <3>2, Building, GotoTyping, StageFacts DEF PCs
    <3>4. DurableTyped'
      BY <2>0, <2>15, DurableUnchanged DEF RecoverOne
    <3> QED
      BY <2>15, <3>1, <3>2, <3>3, <3>4 DEF RecoverOne, bounds, TypeOK, RunTyped, DurableTyped
  <2>16. ASSUME NEW t \in Topics, RecoverFails(t) PROVE TypeOK'
    <3>1. RunTyped'
      BY <2>0, <2>r, <2>16, Building, GotoTyping, StageFacts
      DEF RecoverFails, PCs
    <3>2. DurableTyped'
      BY <2>0, <2>r, <2>16, Building DEF RecoverFails, DurableTyped
    <3> QED
      BY <2>r, <2>16, <3>1, <3>2, Building DEF RecoverFails, TypeOK, RunTyped, DurableTyped
  <2>17. ASSUME NEW t \in Topics, Get(t) PROVE TypeOK'
    <3>1. RunTyped'
      BY <2>0, <2>r, <2>17, Building
      DEF Get, RunTyped
    <3>2. DurableTyped'
      BY <2>0, <2>r, <2>17, DurableUnchanged DEF Get
    <3> QED
      BY <2>r, <2>17, <3>1, <3>2, Building DEF Get, TypeOK, RunTyped, DurableTyped
  <2>18. ASSUME NEW t \in Topics, Expire(t) PROVE TypeOK'
    <3>1. RunTyped'
      BY <2>0, <2>r, <2>18, Building, GotoTyping, StageFacts
      DEF Expire, volatile, RunTyped
    <3>2. DurableTyped'
      BY <2>0, <2>r, <2>18, DurableUnchanged DEF Expire
    <3> QED
      BY <2>r, <2>18, <3>1, <3>2, Building DEF Expire, volatile, bounds, TypeOK, RunTyped, DurableTyped
  <2>19. CASE Shutdown
    BY <2>19 DEF Shutdown, TypeOK, durable
  <2>20. ASSUME Halt, stops' \in 0 .. MaxStops PROVE TypeOK'
    <3>1. RunTyped' /\ DurableTyped'
      BY <2>0, <2>20, Building, DurableUnchanged DEF Halt, RunTyped
    <3> QED
      BY <2>20, <3>1, Building DEF Halt, TypeOK, RunTyped, DurableTyped
  <2>21. CASE Exit \/ Crash
    <3>1. stops' \in 0 .. MaxStops
      BY <2>21 DEF Exit, Crash, TypeOK
    <3> QED
      BY <2>20, <2>21, <3>1 DEF Exit, Crash
  <2>22. CASE Restart
    BY <2>22 DEF Restart, DurableCandidates, RedisCandidates, TypeOK, durable
  <2>23. CASE UNCHANGED vars
    BY <2>23 DEF vars, TypeOK
  <2> QED
    BY <2>1, <2>2, <2>3, <2>4, <2>5, <2>6, <2>7, <2>8, <2>9, <2>10, <2>11, <2>12,
       <2>13, <2>14, <2>15, <2>16, <2>17, <2>18, <2>19, <2>21, <2>22, <2>23
       DEF Next, Coordinate, Step, Recover
<1> QED
  BY <1>1, <1>2, PTL DEF Spec

-------------------------------------------------------------------------------
(* The inductive invariant *)

Unfinished == {"pending", "processing"}
Active     == {"check", "recount", "start", "work", "commit", "persist"}

\* An active goroutine stands at a stage of an unfinished run, behind which
\* everything is completed.
ActiveRun(t) ==
  /\ run[t].pc \in {"created"} \cup Active => topic[t].status \in Unfinished
  /\ run[t].pc \in Active =>
       /\ run[t].at \in Stages
       /\ \A u \in 1 .. (run[t].at - 1) : checkpoint[t][u] = "completed"

\* What each point of a stage implies about its own checkpoint.
AtStage(t) ==
  /\ run[t].pc = "recount" =>
       run[t].at = Discovery /\ checkpoint[t][Discovery] = "completed"
  /\ run[t].pc \in {"start", "work", "commit"} => run[t].p = At(run[t].at)
  /\ run[t].pc = "start" => checkpoint[t][run[t].at] # "completed"
  /\ run[t].pc \in {"work", "commit"} =>
       checkpoint[t][run[t].at] = "running" /\ topic[t] = At(run[t].at)
  /\ run[t].pc = "persist" =>
       /\ run[t].p = Succeeded /\ run[t].at = NumStages
       /\ checkpoint[t][NumStages] = "completed"

\* A topic recovery has listed is unfinished and idle, or being failed.
Listed(t) ==
  t \in todo => \/ run[t] = NoRun /\ topic[t].status \in Unfinished
                \/ run[t].pc = "publish"

Prefix(t) ==
  topic[t].status # "failed" =>
    \A s \in Stages : checkpoint[t][s] # "none" =>
      \A u \in 1 .. (s - 1) : checkpoint[t][u] = "completed"

AllStages(t) == \A s \in Stages : checkpoint[t][s] = "completed"

Ended(t) == topic[t].status = "completed" => AllStages(t)

\* Nobody, neither a goroutine nor a reader of memory or Redis, holds a
\* "completed" that the checkpoints do not support.
Supported(t) ==
  "completed" \in {run[t].p.status, memory[t].status, snapshot[t].status}
    => topic[t].status = "failed" \/ AllStages(t)

TopicInv(t) ==
  /\ ActiveRun(t) /\ AtStage(t) /\ Listed(t) /\ Prefix(t) /\ Ended(t) /\ Supported(t)

DownIsIdle ==
  proc = "down" => todo = {} /\ openLogs = {} /\ \A t \in Topics : run[t] = NoRun

\* A topic that recovery failed to reopen is published without a log.
LogsOfRuns ==
  proc = "up" => \A t \in Topics :
    t \in openLogs <=> run[t].pc \notin {"idle", "created"} /\ t \notin todo

\* A goroutine has a topic, and a run that has a checkpoint has begun.
HasTopic(t) ==
  /\ topic[t].status = "absent" => run[t].pc = "idle"
  /\ topic[t].status \in {"absent", "pending"} =>
       \A s \in 0 .. NumStages : checkpoint[t][s] = "none"

IInv ==
  /\ TypeOK
  /\ \A t \in Topics : TopicInv(t) /\ HasTopic(t)
  /\ DownIsIdle /\ LogsOfRuns

-------------------------------------------------------------------------------
(* What one step leaves alone, and what it writes *)

LEMMA Fields ==
  /\ \A pc, s, p : /\ Run(pc, s, p).pc = pc /\ Run(pc, s, p).at = s
                   /\ Run(pc, s, p).p = p
  /\ \A s, p, c : /\ Failing(s, p, c).pc = "fail" /\ Failing(s, p, c).p = p
                  /\ Failing(s, p, c).at = s
  /\ NoRun.pc = "idle" /\ NoRun.p = None
  /\ None.status = "absent" /\ Accepted.status = "pending"
  /\ Succeeded.status = "completed" /\ Broken.status = "failed"
  /\ \A s : At(s).status = "processing"
  BY DEF Run, Failing, NoRun, None, Accepted, Succeeded, Broken, At

LEMMA GotoEffect ==
  ASSUME TypeOK, NEW t \in Topics, NEW r, Goto(t, r)
  PROVE  run'[t] = r /\ \A u \in Topics : u # t => run'[u] = run[u]
  BY DEF TypeOK, Goto

LEMMA WriteEffect ==
  ASSUME TypeOK, NEW t \in Topics, NEW s \in 0 .. NumStages, NEW c, NEW p,
         Write(t, s, c, p)
  PROVE  /\ topic'[t] = p
         /\ checkpoint'[t][s] = c
         /\ \A v \in 0 .. NumStages : v # s => checkpoint'[t][v] = checkpoint[t][v]
         /\ \A u \in Topics : u # t => topic'[u] = topic[u] /\ checkpoint'[u] = checkpoint[u]
  BY DEF TypeOK, Write

LEMMA PublishEffect ==
  ASSUME TypeOK, NEW t \in Topics, NEW p, Publish(t, p)
  PROVE  /\ memory'[t] = p /\ snapshot'[t] \in {p, snapshot[t]}
         /\ \A u \in Topics : u # t => memory'[u] = memory[u] /\ snapshot'[u] = snapshot[u]
  BY DEF TypeOK, Publish

\* A step of topic t changes nothing of another topic.
Untouched(u) ==
  /\ topic'[u] = topic[u] /\ checkpoint'[u] = checkpoint[u] /\ run'[u] = run[u]
  /\ memory'[u] = memory[u] /\ snapshot'[u] = snapshot[u]
  /\ u \in todo' <=> u \in todo
  /\ u \in openLogs' <=> u \in openLogs

LEMMA UntouchedInv ==
  ASSUME NEW u \in Topics, TopicInv(u), Untouched(u)
  PROVE  TopicInv(u)'
<1>1. ActiveRun(u)'
  BY DEF TopicInv, Untouched, ActiveRun
<1>2. AtStage(u)'
  BY DEF TopicInv, Untouched, AtStage
<1>3. Listed(u)'
  BY DEF TopicInv, Untouched, Listed
<1>4. Prefix(u)'
  BY DEF TopicInv, Untouched, Prefix
<1>5. Ended(u)'
  BY DEF TopicInv, Untouched, Ended, AllStages
<1>6. Supported(u)'
  BY DEF TopicInv, Untouched, Supported, AllStages
<1> QED
  BY <1>1, <1>2, <1>3, <1>4, <1>5, <1>6 DEF TopicInv

LEMMA TransactionElsewhere ==
  ASSUME TypeOK, NEW t \in Topics, NEW s \in 0 .. NumStages, NEW c, NEW next,
         Transaction(t, s, c, next),
         NEW u \in Topics, u # t
  PROVE  Untouched(u)
<1>1. run'[u] = run[u]
  BY GotoEffect DEF Transaction
<1>2. topic'[u] = topic[u] /\ checkpoint'[u] = checkpoint[u]
  BY WriteEffect DEF Transaction, durable
<1> QED
  BY <1>1, <1>2 DEF Transaction, Untouched

LEMMA Elsewhere ==
  ASSUME TypeOK, NEW t \in Topics,
         Coordinate(t) \/ Step(t) \/ Recover(t) \/ Get(t) \/ Expire(t),
         NEW u \in Topics, u # t
  PROVE  Untouched(u)
<1> USE DEF Untouched
<1>r. /\ run[t].pc \in PCs /\ run[t].at \in 0 .. NumStages
      /\ run[t].p \in Pipeline /\ topic[t] \in Pipeline
  BY Reading DEF TypeOK
<1>1. CASE Create(t)
  BY <1>1, GotoEffect DEF Create, TypeOK
<1>2. CASE Open(t)
  BY <1>2, GotoEffect DEF Open, durable, TypeOK
<1>3. CASE OpenFails(t)
  BY <1>3, GotoEffect DEF OpenFails, TypeOK
<1>4. CASE SkipStage(t)
  BY <1>4, GotoEffect DEF SkipStage, durable
<1>5. CASE Recount(t)
  BY <1>5, GotoEffect DEF Recount, durable
<1>6. CASE BeginStage(t)
  BY <1>6, GotoEffect, PublishEffect DEF BeginStage, durable
<1>7. CASE CheckFails(t)
  BY <1>7, GotoEffect DEF CheckFails, durable
<1>8. CASE StartStage(t)
  BY <1>r, <1>8, TransactionElsewhere DEF StartStage
<1>9. CASE WorkStage(t)
  BY <1>9, GotoEffect DEF WorkStage, durable
<1>10. CASE CommitStage(t)
  BY <1>r, <1>10, TransactionElsewhere DEF CommitStage
<1>11. CASE PersistTerminal(t)
  BY <1>r, <1>11, StageFacts, TransactionElsewhere DEF PersistTerminal
<1>12. CASE PublishTerminal(t)
  BY <1>12, GotoEffect, PublishEffect DEF PublishTerminal, durable
<1>13. CASE Interrupt(t)
  BY <1>13, GotoEffect, PublishEffect DEF Interrupt, durable
<1>14. CASE FailRun(t)
  <2>1. run'[u] = run[u]
    BY <1>14, GotoEffect DEF FailRun
  <2>2. topic'[u] = topic[u] /\ checkpoint'[u] = checkpoint[u]
    BY <1>r, <1>14, WriteEffect DEF FailRun, durable
  <2> QED
    BY <1>14, <2>1, <2>2 DEF FailRun
<1>15. CASE RecoverOne(t)
  <2>1. PICK p : memory' = [memory EXCEPT ![t] = p] /\ Goto(t, Run("check", 1, p))
    BY <1>15 DEF RecoverOne
  <2>2. run'[u] = run[u]
    BY <2>1, GotoEffect
  <2> QED
    BY <1>15, <2>1, <2>2 DEF RecoverOne, durable, TypeOK
<1>16. CASE RecoverFails(t)
  BY <1>16, GotoEffect DEF RecoverFails, TypeOK
<1>17. CASE Get(t)
  BY <1>17 DEF Get, durable, TypeOK
<1>18. CASE Expire(t)
  BY <1>18 DEF Expire, durable, volatile, TypeOK
<1> QED
  BY <1>1, <1>2, <1>3, <1>4, <1>5, <1>6, <1>7, <1>8, <1>9, <1>10, <1>11, <1>12,
     <1>13, <1>14, <1>15, <1>16, <1>17, <1>18 DEF Coordinate, Step, Recover

-------------------------------------------------------------------------------
(* Steps that write nothing to PostgreSQL *)

LEMMA DurableSame ==
  ASSUME NEW t \in Topics, TopicInv(t), topic' = topic, checkpoint' = checkpoint
  PROVE  Prefix(t)' /\ Ended(t)' /\ AllStages(t)' = AllStages(t)
  BY DEF TopicInv, Prefix, Ended, AllStages

Tracked(t) == ActiveRun(t) /\ AtStage(t) /\ Listed(t) /\ Supported(t)

\* After leads on only if stage s and those before it are completed.
LEMMA AfterInv ==
  ASSUME NEW t \in Topics, NEW s \in Stages, NEW p,
         topic'[t].status \in Unfinished,
         \A u \in 1 .. s : checkpoint'[t][u] = "completed",
         run'[t] = After(s, p), t \notin todo',
         "completed" \in {p.status, memory'[t].status, snapshot'[t].status} => AllStages(t)'
  PROVE  Tracked(t)'
<1> USE StagesAssumption DEF Tracked
<1>1. CASE s = NumStages
  <2>1. run'[t].pc = "persist" /\ run'[t].at = s /\ run'[t].p = Succeeded
    BY <1>1, Fields DEF After
  <2>2. AllStages(t)'
    BY <1>1 DEF AllStages, Stages
  <2> QED
    BY <1>1, <2>1, <2>2, StageFacts DEF ActiveRun, AtStage, Listed, Supported, Active, Stages
<1>2. CASE s # NumStages
  <2>1. run'[t].pc = "check" /\ run'[t].at = s + 1 /\ run'[t].p = p
    BY <1>2, Fields DEF After
  <2>2. s + 1 \in Stages /\ \A u \in 1 .. (s + 1) - 1 : u \in 1 .. s
    BY <1>2 DEF Stages
  <2> QED
    BY <2>1, <2>2 DEF ActiveRun, AtStage, Listed, Supported, Active
<1> QED
  BY <1>1, <1>2

\* A goroutine that fails or publishes its end holds nothing that the invariant
\* constrains but its p.
LEMMA EndingInv ==
  ASSUME NEW t \in Topics,
         run'[t].pc \in {"fail", "publish"},
         t \in todo' => run'[t].pc = "publish",
         "completed" \in {run'[t].p.status, memory'[t].status, snapshot'[t].status}
           => topic'[t].status = "failed" \/ AllStages(t)'
  PROVE  Tracked(t)'
  BY DEF Tracked, ActiveRun, AtStage, Listed, Supported, Active

\* A topic with no goroutine.
LEMMA IdleInv ==
  ASSUME NEW t \in Topics, run'[t] = NoRun, t \notin todo',
         "completed" \in {memory'[t].status, snapshot'[t].status}
           => topic'[t].status = "failed" \/ AllStages(t)'
  PROVE  Tracked(t)'
  BY Fields DEF Tracked, ActiveRun, AtStage, Listed, Supported, Active

LEMMA QuietHere ==
  ASSUME IInv, NEW t \in Topics,
         \/ Open(t) \/ SkipStage(t) \/ Recount(t) \/ BeginStage(t) \/ CheckFails(t)
         \/ WorkStage(t) \/ PublishTerminal(t) \/ Interrupt(t)
         \/ RecoverOne(t) \/ Get(t) \/ Expire(t)
  PROVE  TopicInv(t)'
<1>0. TypeOK /\ TopicInv(t)
  BY DEF IInv
<1>r. /\ run[t].pc \in PCs /\ run[t].at \in 0 .. NumStages
      /\ run[t].p \in Pipeline /\ topic[t] \in Pipeline
  BY <1>0, Reading DEF TypeOK
<1>s. topic' = topic /\ checkpoint' = checkpoint
  BY DEF Open, SkipStage, Recount, BeginStage, CheckFails, WorkStage, PublishTerminal,
         Interrupt, RecoverOne, Get, Expire, durable
<1>d. Prefix(t)' /\ Ended(t)' /\ AllStages(t)' = AllStages(t)
  BY <1>0, <1>s, DurableSame
<1>a. "completed" \in {run[t].p.status, memory[t].status, snapshot[t].status,
                       topic[t].status}
        => topic[t].status = "failed" \/ AllStages(t)
  BY <1>0 DEF TopicInv, Supported, Ended
<1>l. run[t].pc # "publish" /\ run[t] # NoRun => t \notin todo
  BY <1>0 DEF TopicInv, Listed
<1>n. run[t].pc # "idle" => run[t] # NoRun
  BY Fields
<1> SUFFICES Tracked(t)'
  BY <1>d DEF TopicInv, Tracked
<1>1. CASE Open(t)
  <2>1. /\ t \notin todo' /\ memory'[t] = Accepted
        /\ snapshot'[t] \in {snapshot[t], Accepted}
    BY <1>0, <1>l, <1>n, <1>1 DEF Open, TypeOK
  <2>2. topic[t].status \in Unfinished
    BY <1>0, <1>1 DEF Open, TopicInv, ActiveRun
  <2>3. CASE run'[t] = Run("check", 1, Accepted)
    BY <1>a, <1>s, <1>d, <2>1, <2>2, <2>3, Fields, StageFacts
    DEF Tracked, ActiveRun, AtStage, Listed, Supported, Active
  <2>4. CASE \E c \in BOOLEAN : run'[t] = Failing(0, Accepted, c)
    BY <1>a, <1>s, <1>d, <2>1, <2>4, Fields, EndingInv
  <2> QED
    BY <1>0, <1>1, <2>3, <2>4, GotoEffect DEF Open
<1>2. ASSUME run[t].pc \in Active
      PROVE  /\ topic[t].status \in Unfinished /\ run[t].at \in Stages
             /\ \A u \in 1 .. (run[t].at - 1) : checkpoint[t][u] = "completed"
             /\ t \notin todo
  BY <1>0, <1>2, <1>l, <1>n DEF TopicInv, ActiveRun, Active
<1>3. ASSUME \E s \in 0 .. NumStages, c \in BOOLEAN : Goto(t, Failing(s, run[t].p, c)),
             memory' = memory, snapshot' = snapshot, todo' = todo, t \notin todo
      PROVE  Tracked(t)'
  BY <1>0, <1>a, <1>s, <1>d, <1>3, GotoEffect, Fields, EndingInv
<1>4. CASE SkipStage(t)
  <2>1. /\ run[t].pc = "check" /\ memory' = memory /\ snapshot' = snapshot /\ todo' = todo
        /\ checkpoint[t][run[t].at] = "completed"
    BY <1>4 DEF SkipStage
  <2>2. \A u \in 1 .. run[t].at : checkpoint[t][u] = "completed"
    BY <1>2, <2>1 DEF Active, Stages
  <2>3. CASE run'[t] = After(run[t].at, run[t].p)
    BY <1>2, <1>a, <1>s, <1>d, <2>1, <2>2, <2>3, AfterInv DEF Active, Unfinished
  <2>4. CASE run'[t] = Run("recount", run[t].at, run[t].p) /\ run[t].at = Discovery
    BY <1>2, <1>a, <1>s, <1>d, <2>1, <2>4, Fields, StageFacts
    DEF Tracked, ActiveRun, AtStage, Listed, Supported, Active
  <2> QED
    BY <1>0, <1>4, <2>3, <2>4, GotoEffect DEF SkipStage
<1>5. CASE Recount(t)
  <2>1. run[t].pc = "recount" /\ memory' = memory /\ snapshot' = snapshot /\ todo' = todo
    BY <1>5 DEF Recount
  <2>2. \A u \in 1 .. Discovery : checkpoint[t][u] = "completed"
    BY <1>0, <1>2, <2>1 DEF Active, TopicInv, AtStage, Discovery
  <2>3. CASE Goto(t, After(Discovery, run[t].p))
    BY <1>0, <1>2, <1>a, <1>s, <1>d, <2>1, <2>2, <2>3, AfterInv, GotoEffect, StageFacts
    DEF Active, Unfinished
  <2> QED
    BY <1>2, <1>3, <1>5, <2>1, <2>3, StageFacts DEF Recount, Active
<1>6. CASE BeginStage(t)
  <2>1. /\ run[t].pc = "check" /\ todo' = todo
        /\ checkpoint[t][run[t].at] # "completed"
        /\ run'[t] = Run("start", run[t].at, At(run[t].at))
        /\ memory'[t] = At(run[t].at) /\ snapshot'[t] \in {At(run[t].at), snapshot[t]}
    BY <1>0, <1>6, GotoEffect, PublishEffect DEF BeginStage
  <2> QED
    BY <1>2, <1>a, <1>s, <1>d, <2>1, Fields
    DEF Tracked, ActiveRun, AtStage, Listed, Supported, Active
<1>7. CASE CheckFails(t)
  BY <1>2, <1>3, <1>7, <1>r DEF CheckFails, Active
<1>8. CASE WorkStage(t)
  <2>1. run[t].pc = "work" /\ memory' = memory /\ snapshot' = snapshot /\ todo' = todo
    BY <1>8 DEF WorkStage
  <2>2. CASE run'[t] = Run("commit", run[t].at, run[t].p)
    BY <1>0, <1>2, <1>a, <1>s, <1>d, <2>1, <2>2, Fields
    DEF Tracked, TopicInv, ActiveRun, AtStage, Listed, Supported, Active
  <2> QED
    BY <1>0, <1>r, <1>2, <1>3, <1>8, <2>1, <2>2, GotoEffect DEF WorkStage, Active
<1>9. CASE PublishTerminal(t)
  <2>1. /\ run'[t] = NoRun /\ t \notin todo'
        /\ memory'[t] = run[t].p /\ snapshot'[t] \in {run[t].p, snapshot[t]}
    BY <1>0, <1>9, GotoEffect, PublishEffect DEF PublishTerminal
  <2> QED
    BY <1>a, <1>s, <1>d, <2>1, IdleInv
<1>10. CASE Interrupt(t)
  <2>1. /\ run'[t] = NoRun /\ t \notin todo'
        /\ memory'[t] = run[t].p /\ snapshot'[t] \in {run[t].p, snapshot[t]}
    BY <1>0, <1>l, <1>n, <1>10, GotoEffect, PublishEffect DEF Interrupt
  <2> QED
    BY <1>a, <1>s, <1>d, <2>1, IdleInv
<1>11. CASE RecoverOne(t)
  <2>1. PICK p : /\ memory' = [memory EXCEPT ![t] = p] /\ Goto(t, Run("check", 1, p))
                 /\ p.status = topic[t].status
    BY <1>11 DEF RecoverOne
  <2>2. topic[t].status \in Unfinished /\ t \notin todo' /\ snapshot' = snapshot
    BY <1>0, <1>11, Fields DEF RecoverOne, TopicInv, Listed
  <2>3. run'[t] = Run("check", 1, p) /\ memory'[t] = p
    BY <1>0, <2>1, GotoEffect DEF TypeOK
  <2> QED
    BY <1>a, <1>s, <1>d, <2>1, <2>2, <2>3, Fields, StageFacts
    DEF Tracked, ActiveRun, AtStage, Listed, Supported, Active, Unfinished
<1>12. CASE Get(t) \/ Expire(t)
  <2>1. /\ run' = run /\ todo' = todo
        /\ memory'[t] \in {memory[t], snapshot[t], topic[t]}
        /\ snapshot'[t] \in {snapshot[t], None}
    BY <1>0, <1>12 DEF Get, Expire, volatile, TypeOK
  <2>2. Supported(t)'
    BY <1>a, <1>s, <1>d, <2>1, Fields DEF Supported
  <2> QED
    BY <1>0, <1>s, <2>1, <2>2 DEF Tracked, TopicInv, ActiveRun, AtStage, Listed
<1> QED
  BY <1>1, <1>4, <1>5, <1>6, <1>7, <1>8, <1>9, <1>10, <1>11, <1>12

-------------------------------------------------------------------------------
(* Steps that write to PostgreSQL *)

\* A failed topic satisfies everything the invariant says of durable state.
LEMMA FailedInv ==
  ASSUME NEW t \in Topics, topic'[t].status = "failed", Tracked(t)'
  PROVE  TopicInv(t)'
  BY DEF TopicInv, Tracked, Prefix, Ended

\* The stage that starts is the first that is not completed.
LEMMA StartWrites ==
  ASSUME IInv, NEW t \in Topics, run[t].pc = "start",
         Write(t, run[t].at, "running", run[t].p)
  PROVE  /\ topic'[t] = At(run[t].at) /\ checkpoint'[t][run[t].at] = "running"
         /\ Prefix(t)' /\ Ended(t)'
         /\ "completed" \notin {run[t].p.status, memory[t].status, snapshot[t].status}
         /\ \A u \in 1 .. (run[t].at - 1) : checkpoint'[t][u] = "completed"
<1> USE StagesAssumption
<1>1. /\ TypeOK /\ run[t].at \in Stages /\ run[t].p = At(run[t].at)
      /\ topic[t].status \in Unfinished /\ checkpoint[t][run[t].at] # "completed"
      /\ \A u \in 1 .. (run[t].at - 1) : checkpoint[t][u] = "completed"
      /\ Prefix(t) /\ Supported(t)
  BY DEF IInv, TopicInv, ActiveRun, AtStage, Active
<1>2. /\ topic'[t] = At(run[t].at) /\ checkpoint'[t][run[t].at] = "running"
      /\ \A v \in 0 .. NumStages : v # run[t].at => checkpoint'[t][v] = checkpoint[t][v]
  <2>1. run[t].at \in 0 .. NumStages
    BY <1>1, StageFacts
  <2>2. /\ topic'[t] = run[t].p /\ checkpoint'[t][run[t].at] = "running"
        /\ \A v \in 0 .. NumStages : v # run[t].at => checkpoint'[t][v] = checkpoint[t][v]
    BY <1>1, <2>1, WriteEffect
  <2> QED
    BY <1>1, <2>2
<1>3. "completed" \notin {run[t].p.status, memory[t].status, snapshot[t].status}
  BY <1>1, Fields DEF Supported, Unfinished, AllStages
<1>4. \A u \in 1 .. (run[t].at - 1) : checkpoint'[t][u] = "completed"
  BY <1>1, <1>2 DEF Stages
<1>5. Ended(t)'
  BY <1>2, Fields DEF Ended
<1>6. \A s \in Stages : s > run[t].at => checkpoint[t][s] = "none"
  BY <1>1 DEF Prefix, Stages, Unfinished
<1>7. Prefix(t)'
  <2> SUFFICES ASSUME NEW s \in Stages, checkpoint'[t][s] # "none",
                      NEW u \in 1 .. (s - 1)
               PROVE  checkpoint'[t][u] = "completed"
    BY DEF Prefix
  <2>1. s <= run[t].at
    BY <1>1, <1>2, <1>6 DEF Stages
  <2> QED
    BY <1>1, <1>4, <2>1 DEF Stages
<1> QED
  BY <1>2, <1>3, <1>4, <1>5, <1>7

LEMMA CommitWrites ==
  ASSUME IInv, NEW t \in Topics, run[t].pc = "commit",
         Write(t, run[t].at, "completed", run[t].p)
  PROVE  /\ topic'[t] = At(run[t].at) /\ Prefix(t)' /\ Ended(t)'
         /\ AllStages(t) => AllStages(t)'
         /\ \A u \in 1 .. run[t].at : checkpoint'[t][u] = "completed"
<1> USE StagesAssumption
<1>1. /\ TypeOK /\ run[t].at \in Stages /\ run[t].p = At(run[t].at)
      /\ topic[t].status \in Unfinished
      /\ \A u \in 1 .. (run[t].at - 1) : checkpoint[t][u] = "completed"
      /\ Prefix(t) /\ checkpoint[t][run[t].at] = "running"
  BY DEF IInv, TopicInv, ActiveRun, AtStage, Active
<1>2. /\ topic'[t] = At(run[t].at) /\ checkpoint'[t][run[t].at] = "completed"
      /\ \A v \in 0 .. NumStages : v # run[t].at => checkpoint'[t][v] = checkpoint[t][v]
  <2>1. run[t].at \in 0 .. NumStages
    BY <1>1, StageFacts
  <2>2. /\ topic'[t] = run[t].p /\ checkpoint'[t][run[t].at] = "completed"
        /\ \A v \in 0 .. NumStages : v # run[t].at => checkpoint'[t][v] = checkpoint[t][v]
    BY <1>1, <2>1, WriteEffect
  <2> QED
    BY <1>1, <2>2
<1>3. \A u \in 1 .. run[t].at : checkpoint'[t][u] = "completed"
  BY <1>1, <1>2 DEF Stages
<1>4. AllStages(t) => AllStages(t)'
  BY <1>1, <1>2 DEF AllStages, Stages
<1>5. Ended(t)'
  BY <1>2, Fields DEF Ended
<1>6. Prefix(t)'
  BY <1>1, <1>2, <1>3 DEF Prefix, Stages, Unfinished
<1> QED
  BY <1>2, <1>3, <1>4, <1>5, <1>6

LEMMA PersistWrites ==
  ASSUME IInv, NEW t \in Topics, run[t].pc = "persist",
         Write(t, NumStages, checkpoint[t][NumStages], run[t].p)
  PROVE  topic'[t] = Succeeded /\ Prefix(t)' /\ Ended(t)' /\ AllStages(t)'
<1> USE StagesAssumption
<1>1. /\ TypeOK /\ run[t].at = NumStages /\ run[t].p = Succeeded
      /\ \A u \in 1 .. (run[t].at - 1) : checkpoint[t][u] = "completed"
      /\ checkpoint[t][NumStages] = "completed"
  BY DEF IInv, TopicInv, ActiveRun, AtStage, Active
<1>2. /\ topic'[t] = Succeeded
      /\ checkpoint'[t][NumStages] = checkpoint[t][NumStages]
      /\ \A v \in 0 .. NumStages : v # NumStages => checkpoint'[t][v] = checkpoint[t][v]
  BY <1>1, WriteEffect, StageFacts
<1>3. AllStages(t)'
  BY <1>1, <1>2 DEF AllStages, Stages
<1> QED
  BY <1>2, <1>3 DEF Prefix, Ended, AllStages, Stages

LEMMA WritingHere ==
  ASSUME IInv, NEW t \in Topics,
         \/ Create(t) \/ OpenFails(t) \/ StartStage(t) \/ CommitStage(t)
         \/ PersistTerminal(t) \/ FailRun(t) \/ RecoverFails(t)
  PROVE  TopicInv(t)'
<1>0. TypeOK /\ TopicInv(t) /\ memory' = memory /\ snapshot' = snapshot /\ todo' = todo
  BY DEF IInv, Create, OpenFails, StartStage, CommitStage, PersistTerminal, FailRun,
         RecoverFails, Transaction
<1>r. /\ run[t].pc \in PCs /\ run[t].at \in 0 .. NumStages
      /\ run[t].p \in Pipeline /\ topic[t] \in Pipeline
  BY <1>0, Reading DEF TypeOK
<1>a. "completed" \in {run[t].p.status, memory[t].status, snapshot[t].status,
                       topic[t].status}
        => topic[t].status = "failed" \/ AllStages(t)
  BY <1>0 DEF TopicInv, Supported, Ended
<1>l. run[t].pc \notin {"publish", "idle"} => t \notin todo
  BY <1>0, Fields DEF TopicInv, Listed
<1>t. Tracked(t)' /\ Prefix(t)' /\ Ended(t)' => TopicInv(t)'
  BY DEF Tracked, TopicInv
<1>1. CASE Create(t)
  <2>1. /\ topic[t] = None /\ topic'[t] = Accepted /\ checkpoint' = checkpoint
        /\ t \notin todo'
    BY <1>0, <1>1 DEF Create, TypeOK
  <2>2. run'[t] \in {Run("created", 0, Accepted), run[t]}
    BY <1>0, <1>1, GotoEffect DEF Create
  <2>3. Prefix(t)' /\ Ended(t)' /\ AllStages(t)' = AllStages(t)
    BY <1>0, <2>1, Fields DEF TopicInv, Prefix, Ended, AllStages
  <2>4. run[t].pc \notin Active
    BY <1>0, <2>1, Fields DEF TopicInv, ActiveRun, Unfinished
  <2>5. ActiveRun(t)' /\ AtStage(t)' /\ Listed(t)'
    BY <2>1, <2>2, <2>4, Fields DEF ActiveRun, AtStage, Listed, Active, Unfinished
  <2>6. Supported(t)'
    BY <1>0, <1>a, <2>1, <2>2, <2>3, Fields DEF Supported
  <2> QED
    BY <2>3, <2>5, <2>6 DEF TopicInv
<1>2. CASE OpenFails(t)
  <2>1. run'[t] = NoRun /\ t \notin todo' /\ checkpoint' = checkpoint
    BY <1>0, <1>l, <1>2, GotoEffect DEF OpenFails
  <2>2. CASE topic'[t] = Broken
    BY <2>1, <2>2, Fields, FailedInv, IdleInv
  <2>3. CASE topic' = topic
    BY <1>0, <1>a, <1>t, <2>1, <2>3, DurableSame, IdleInv
  <2> QED
    BY <1>0, <1>2, <2>2, <2>3 DEF OpenFails, TypeOK
<1>d. ASSUME topic' = topic, checkpoint' = checkpoint, t \notin todo',
             \E s \in 0 .. NumStages, c \in BOOLEAN : run'[t] = Failing(s, run[t].p, c)
      PROVE  TopicInv(t)'
  <2>1. run'[t].pc = "fail" /\ run'[t].p = run[t].p
    BY <1>d, Fields
  <2> QED
    BY <1>0, <1>a, <1>t, <1>d, <2>1, DurableSame, EndingInv
<1>3. CASE StartStage(t)
  <2>0. run[t].pc = "start" /\ t \notin todo' /\ run[t].at \in Stages
    BY <1>0, <1>l, <1>3 DEF StartStage, TopicInv, ActiveRun, Active
  <2>1. CASE Goto(t, Run("work", run[t].at, run[t].p)) /\ Write(t, run[t].at, "running", run[t].p)
    <3>1. run'[t] = Run("work", run[t].at, run[t].p) /\ run[t].p = At(run[t].at)
      BY <1>0, <2>0, <2>1, GotoEffect DEF TopicInv, AtStage
    <3>2. Tracked(t)'
      BY <1>0, <2>0, <2>1, <3>1, StartWrites, Fields
      DEF Tracked, ActiveRun, AtStage, Listed, Supported, Active, Unfinished
    <3> QED
      BY <1>t, <2>0, <2>1, <3>2, StartWrites
  <2>2. ASSUME NEW c \in BOOLEAN, Goto(t, Failing(run[t].at, run[t].p, c)),
               Write(t, run[t].at, "running", run[t].p)
        PROVE  TopicInv(t)'
    <3>1. run'[t].pc = "fail" /\ run'[t].p = run[t].p
      BY <1>0, <2>2, GotoEffect, Fields
    <3>2. Tracked(t)'
      BY <1>0, <2>0, <2>2, <3>1, StartWrites, EndingInv
    <3> QED
      BY <1>t, <2>0, <2>2, <3>2, StartWrites
  <2>3. ASSUME NEW c \in BOOLEAN, Goto(t, Failing(run[t].at, run[t].p, c)), UNCHANGED durable
        PROVE  TopicInv(t)'
    BY <1>0, <1>r, <1>d, <2>0, <2>3, GotoEffect DEF durable
  <2> QED
    BY <1>3, <2>1, <2>2, <2>3 DEF StartStage, Transaction
<1>4. CASE CommitStage(t)
  <2>0. /\ run[t].pc = "commit" /\ t \notin todo' /\ run[t].at \in Stages
        /\ "completed" \in {run[t].p.status, memory[t].status, snapshot[t].status} => AllStages(t)
    BY <1>0, <1>l, <1>4, <1>a DEF CommitStage, TopicInv, ActiveRun, Active, Unfinished
  <2>1. CASE Goto(t, After(run[t].at, run[t].p)) /\ Write(t, run[t].at, "completed", run[t].p)
    <3>1. run'[t] = After(run[t].at, run[t].p)
      BY <1>0, <2>1, GotoEffect
    <3>2. Tracked(t)'
      BY <1>0, <2>0, <2>1, <3>1, CommitWrites, AfterInv, Fields DEF Unfinished
    <3> QED
      BY <1>t, <2>0, <2>1, <3>2, CommitWrites
  <2>2. ASSUME NEW c \in BOOLEAN, Goto(t, Failing(run[t].at, run[t].p, c)),
               Write(t, run[t].at, "completed", run[t].p)
        PROVE  TopicInv(t)'
    <3>1. run'[t].pc = "fail" /\ run'[t].p = run[t].p
      BY <1>0, <2>2, GotoEffect, Fields
    <3>2. Tracked(t)'
      BY <1>0, <2>0, <2>2, <3>1, CommitWrites, EndingInv
    <3> QED
      BY <1>t, <2>0, <2>2, <3>2, CommitWrites
  <2>3. ASSUME NEW c \in BOOLEAN, Goto(t, Failing(run[t].at, run[t].p, c)), UNCHANGED durable
        PROVE  TopicInv(t)'
    BY <1>0, <1>r, <1>d, <2>0, <2>3, GotoEffect DEF durable
  <2> QED
    BY <1>4, <2>1, <2>2, <2>3 DEF CommitStage, Transaction
<1>5. CASE PersistTerminal(t)
  <2>0. run[t].pc = "persist" /\ t \notin todo' /\ NumStages \in 0 .. NumStages
    BY <1>0, <1>l, <1>5, StageFacts DEF PersistTerminal
  <2>1. ASSUME Write(t, NumStages, checkpoint[t][NumStages], run[t].p),
               run'[t].pc \in {"publish", "fail"}
        PROVE  TopicInv(t)'
    BY <1>t, <2>0, <2>1, PersistWrites, EndingInv
  <2>2. ASSUME NEW c \in BOOLEAN, Goto(t, Failing(NumStages, run[t].p, c)), UNCHANGED durable
        PROVE  TopicInv(t)'
    BY <1>0, <1>d, <2>0, <2>2, GotoEffect DEF durable
  <2> QED
    BY <1>0, <1>5, <2>1, <2>2, GotoEffect, Fields DEF PersistTerminal, Transaction
<1>6. CASE FailRun(t)
  <2>1. run'[t].pc = "publish" /\ run'[t].p = Broken
    BY <1>0, <1>6, GotoEffect, Fields DEF FailRun
  <2>2. CASE Write(t, run[t].at, "failed", Broken)
    BY <1>0, <1>r, <2>1, <2>2, WriteEffect, Fields, FailedInv, EndingInv
  <2>3. CASE UNCHANGED durable
    BY <1>0, <1>a, <1>t, <2>1, <2>3, DurableSame, EndingInv, Fields DEF durable
  <2> QED
    BY <1>6, <2>2, <2>3 DEF FailRun
<1>7. CASE RecoverFails(t)
  <2>1. run'[t].pc = "publish" /\ run'[t].p = Broken /\ checkpoint' = checkpoint
    BY <1>0, <1>7, GotoEffect, Fields DEF RecoverFails
  <2>2. CASE topic'[t] = Broken
    BY <2>1, <2>2, Fields, FailedInv, EndingInv
  <2>3. CASE topic' = topic
    BY <1>0, <1>a, <1>t, <2>1, <2>3, DurableSame, EndingInv, Fields
  <2> QED
    BY <1>0, <1>7, <2>2, <2>3 DEF RecoverFails, TypeOK
<1> QED
  BY <1>1, <1>2, <1>3, <1>4, <1>5, <1>6, <1>7

-------------------------------------------------------------------------------
(* The invariant *)

LEMMA DownIsIdleStep ==
  ASSUME IInv, [Next]_vars PROVE DownIsIdle'
<1> USE DEF DownIsIdle
<1>0. TypeOK /\ DownIsIdle
  BY DEF IInv
<1>1. ASSUME NEW t \in Topics,
             Coordinate(t) \/ Step(t) \/ Recover(t) \/ Get(t) \/ Expire(t)
      PROVE  DownIsIdle'
  <2>1. proc' = proc
    BY <1>1 DEF Coordinate, Step, Recover, Create, Open, OpenFails, SkipStage, Recount,
                BeginStage, CheckFails, StartStage, WorkStage, CommitStage, PersistTerminal,
                Transaction, PublishTerminal, Interrupt, FailRun, RecoverOne, RecoverFails,
                Get, Expire
  <2>2. CASE proc = "down"
    <3>1. run[t].pc = "idle" /\ t \notin todo
      BY <1>0, <2>2, Fields
    <3>2. Expire(t)
      BY <1>1, <2>2, <3>1
      DEF Coordinate, Step, Recover, Create, Open, OpenFails, SkipStage, Recount,
          BeginStage, CheckFails, StartStage, WorkStage, CommitStage, PersistTerminal,
          PublishTerminal, Interrupt, FailRun, RecoverOne, RecoverFails, Get
    <3> QED
      BY <1>0, <3>2 DEF Expire, volatile
  <2> QED
    BY <2>1, <2>2
<1>2. CASE Exit \/ Crash
  BY <1>2 DEF Exit, Crash, Halt
<1>3. CASE Shutdown \/ Restart
  BY <1>3 DEF Shutdown, Restart
<1>4. CASE UNCHANGED vars
  BY <1>0, <1>4 DEF vars
<1> QED
  BY <1>1, <1>2, <1>3, <1>4 DEF Next

\* The log of topic t follows its own goroutine.
LEMMA LogHere ==
  ASSUME IInv, NEW t \in Topics, proc' = "up",
         Coordinate(t) \/ Step(t) \/ Recover(t) \/ Get(t) \/ Expire(t)
  PROVE  proc = "up" /\ (t \in openLogs' <=> run'[t].pc \notin {"idle", "created"} /\ t \notin todo')
<1>0. TypeOK /\ TopicInv(t)
  BY DEF IInv
<1>1. proc = "up"
  BY DEF Coordinate, Step, Recover, Create, Open, OpenFails, SkipStage, Recount,
         BeginStage, CheckFails, StartStage, WorkStage, CommitStage, PersistTerminal,
         Transaction, PublishTerminal, Interrupt, FailRun, RecoverOne, RecoverFails,
         Get, Expire
<1>2. /\ t \in openLogs <=> run[t].pc \notin {"idle", "created"} /\ t \notin todo
      /\ run[t].pc \notin {"publish", "idle"} => t \notin todo
  BY <1>1, Fields DEF IInv, LogsOfRuns, TopicInv, Listed
<1>a. \A s, p : After(s, p).pc \in {"check", "persist"}
  BY Fields DEF After
<1>3. CASE Create(t)
  <2>1. t \notin todo /\ openLogs' = openLogs /\ todo' = todo /\ topic[t] = None
    BY <1>3 DEF Create
  <2>2. run'[t] \in {Run("created", 0, Accepted), run[t]}
    BY <1>0, <1>3, GotoEffect DEF Create
  <2>3. CASE run'[t] = run[t]
    BY <1>1, <1>2, <2>1, <2>3
  <2>4. CASE run'[t] = Run("created", 0, Accepted)
    <3>1. run[t].pc = "idle"
      BY <2>1, Fields DEF IInv, HasTopic
    <3> QED
      BY <1>1, <1>2, <2>1, <2>4, <3>1, Fields
  <2> QED
    BY <2>2, <2>3, <2>4
<1>4. CASE Open(t)
  BY <1>0, <1>1, <1>2, <1>4, GotoEffect, Fields DEF Open
<1>5. CASE OpenFails(t)
  BY <1>0, <1>1, <1>2, <1>5, GotoEffect, Fields DEF OpenFails
<1>6. CASE SkipStage(t) \/ Recount(t) \/ BeginStage(t) \/ CheckFails(t) \/ WorkStage(t)
  <2>1. /\ run[t].pc \notin {"publish", "idle", "created"}
        /\ openLogs' = openLogs /\ todo' = todo
    BY <1>6 DEF SkipStage, Recount, BeginStage, CheckFails, WorkStage
  <2>2. PICK r : Goto(t, r) /\ r.pc \notin {"idle", "created"}
    <3>1. CASE SkipStage(t)
      BY <3>1, <1>a, Fields DEF SkipStage
    <3>2. CASE Recount(t)
      BY <3>2, <1>a, Fields DEF Recount
    <3>3. CASE BeginStage(t)
      BY <3>3, Fields DEF BeginStage
    <3>4. CASE CheckFails(t)
      <4>1. PICK c \in BOOLEAN : Goto(t, Failing(run[t].at, run[t].p, c))
        BY <3>4 DEF CheckFails
      <4> QED
        BY <4>1, Fields
    <3>5. CASE WorkStage(t)
      <4>1. \/ Goto(t, Run("commit", run[t].at, run[t].p))
            \/ Goto(t, Failing(run[t].at, run[t].p, FALSE))
            \/ Goto(t, Failing(run[t].at, run[t].p, TRUE))
        BY <3>5, Zenon DEF WorkStage
      <4>2. CASE Goto(t, Run("commit", run[t].at, run[t].p))
        BY <4>2, Fields
      <4>3. CASE Goto(t, Failing(run[t].at, run[t].p, FALSE))
        BY <4>3, Fields
      <4>4. CASE Goto(t, Failing(run[t].at, run[t].p, TRUE))
        BY <4>4, Fields
      <4> QED
        BY <4>1, <4>2, <4>3, <4>4
    <3> QED
      BY <1>6, <3>1, <3>2, <3>3, <3>4, <3>5
  <2>3. run'[t].pc \notin {"idle", "created"}
    BY <1>0, <2>2, GotoEffect
  <2> QED
    BY <1>1, <1>2, <2>1, <2>3
<1>7. CASE StartStage(t) \/ CommitStage(t) \/ PersistTerminal(t) \/ FailRun(t)
  <2>1. /\ run[t].pc \notin {"publish", "idle", "created"}
        /\ openLogs' = openLogs /\ todo' = todo
    BY <1>7 DEF StartStage, CommitStage, PersistTerminal, FailRun, Transaction
  <2>2. run'[t].pc \notin {"idle", "created"}
    BY <1>0, <1>7, <1>a, GotoEffect, Fields
    DEF StartStage, CommitStage, PersistTerminal, FailRun, Transaction
  <2> QED
    BY <1>1, <1>2, <2>1, <2>2
<1>8. CASE PublishTerminal(t)
  BY <1>0, <1>8, GotoEffect, Fields DEF PublishTerminal
<1>9. CASE Interrupt(t)
  BY <1>1, <1>9 DEF Interrupt
<1>10. CASE RecoverOne(t)
  <2>1. PICK p : Goto(t, Run("check", 1, p))
    BY <1>10 DEF RecoverOne
  <2>2. run'[t].pc = "check"
    BY <1>0, <2>1, GotoEffect, Fields
  <2> QED
    BY <1>10, <2>2 DEF RecoverOne
<1>11. CASE RecoverFails(t)
  <2>1. t \in todo /\ openLogs' = openLogs /\ todo' = todo
    BY <1>11 DEF RecoverFails
  <2> QED
    BY <1>1, <1>2, <2>1
<1>12. CASE Get(t) \/ Expire(t)
  BY <1>1, <1>2, <1>12 DEF Get, Expire, volatile
<1> QED
  BY <1>1, <1>3, <1>4, <1>5, <1>6, <1>7, <1>8, <1>9, <1>10, <1>11, <1>12
  DEF Coordinate, Step, Recover

\* No step leaves a goroutine without a topic, or a checkpoint on a topic that
\* has not begun.
LEMMA HasTopicHere ==
  ASSUME IInv, NEW t \in Topics,
         Coordinate(t) \/ Step(t) \/ Recover(t) \/ Get(t) \/ Expire(t)
  PROVE  HasTopic(t)'
<1>0. TypeOK /\ TopicInv(t) /\ HasTopic(t)
  BY DEF IInv
<1>r. run[t].at \in 0 .. NumStages
  BY <1>0, Reading DEF TypeOK
<1>w. ASSUME topic'[t].status \notin {"absent", "pending"} PROVE HasTopic(t)'
  BY <1>w DEF HasTopic
<1>s. ASSUME UNCHANGED durable, topic[t].status # "absent" PROVE HasTopic(t)'
  BY <1>0, <1>s DEF HasTopic, durable
<1>i. ASSUME run[t].pc # "idle" PROVE topic[t].status # "absent"
  BY <1>0, <1>i DEF HasTopic
<1>1. CASE Create(t)
  <2>1. topic[t] = None /\ topic'[t] = Accepted /\ checkpoint' = checkpoint
    BY <1>0, <1>1 DEF Create, TypeOK
  <2> QED
    BY <1>0, <2>1, Fields DEF HasTopic
<1>2. CASE OpenFails(t) \/ RecoverFails(t)
  <2>1. topic[t].status # "absent"
    BY <1>0, <1>2, <1>i, Fields DEF OpenFails, RecoverFails, TopicInv, Listed, Unfinished
  <2>2. topic'[t] = Broken \/ (topic' = topic /\ checkpoint' = checkpoint)
    BY <1>0, <1>2 DEF OpenFails, RecoverFails, TypeOK
  <2> QED
    BY <1>w, <1>s, <2>1, <2>2, Fields DEF durable
<1>3. CASE StartStage(t)
  <2>1. run[t].pc = "start" /\ (UNCHANGED durable \/ Write(t, run[t].at, "running", run[t].p))
    BY <1>3 DEF StartStage, Transaction
  <2> QED
    BY <1>i, <1>s, <1>w, <2>1, StartWrites, Fields
<1>4. CASE CommitStage(t)
  <2>1. run[t].pc = "commit" /\ (UNCHANGED durable \/ Write(t, run[t].at, "completed", run[t].p))
    BY <1>4 DEF CommitStage, Transaction
  <2> QED
    BY <1>i, <1>s, <1>w, <2>1, CommitWrites, Fields
<1>5. CASE PersistTerminal(t)
  <2>1. /\ run[t].pc = "persist"
        /\ \/ UNCHANGED durable
           \/ Write(t, NumStages, checkpoint[t][NumStages], run[t].p)
    BY <1>5 DEF PersistTerminal, Transaction
  <2> QED
    BY <1>i, <1>s, <1>w, <2>1, PersistWrites, Fields
<1>6. CASE FailRun(t)
  <2>1. run[t].pc = "fail" /\ (UNCHANGED durable \/ topic'[t] = Broken)
    BY <1>0, <1>r, <1>6, WriteEffect DEF FailRun
  <2> QED
    BY <1>i, <1>s, <1>w, <2>1, Fields
<1>7. CASE \/ Open(t) \/ SkipStage(t) \/ Recount(t) \/ BeginStage(t) \/ CheckFails(t)
           \/ WorkStage(t) \/ PublishTerminal(t) \/ Interrupt(t) \/ RecoverOne(t)
  <2>1. UNCHANGED durable
    BY <1>7 DEF Open, SkipStage, Recount, BeginStage, CheckFails, WorkStage,
                PublishTerminal, Interrupt, RecoverOne
  <2>2. topic[t].status # "absent"
    <3>1. CASE RecoverOne(t)
      BY <1>0, <3>1, Fields DEF RecoverOne, TopicInv, Listed, Unfinished
    <3>2. CASE ~RecoverOne(t)
      BY <1>i, <1>7, <3>2 DEF Open, SkipStage, Recount, BeginStage, CheckFails, WorkStage,
                              PublishTerminal, Interrupt
    <3> QED
      BY <3>1, <3>2
  <2> QED
    BY <1>s, <2>1, <2>2
<1>8. CASE Get(t) \/ Expire(t)
  <2>1. topic' = topic /\ checkpoint' = checkpoint /\ run' = run
    BY <1>8 DEF Get, Expire, durable, volatile
  <2> QED
    BY <1>0, <2>1 DEF HasTopic
<1> QED
  BY <1>1, <1>2, <1>3, <1>4, <1>5, <1>6, <1>7, <1>8 DEF Coordinate, Step, Recover

LEMMA InductiveStep ==
  ASSUME IInv, TypeOK', [Next]_vars PROVE IInv'
<1>0. TypeOK /\ (\A u \in Topics : TopicInv(u) /\ HasTopic(u)) /\ DownIsIdle /\ LogsOfRuns
  BY DEF IInv
<1>u. ASSUME NEW u \in Topics, Untouched(u) PROVE TopicInv(u)' /\ HasTopic(u)'
  BY <1>0, <1>u, UntouchedInv DEF HasTopic, Untouched
<1>1. ASSUME NEW t \in Topics,
             Coordinate(t) \/ Step(t) \/ Recover(t) \/ Get(t) \/ Expire(t)
      PROVE  (\A u \in Topics : TopicInv(u)' /\ HasTopic(u)') /\ LogsOfRuns'
  <2>1. TopicInv(t)' /\ HasTopic(t)'
    BY <1>1, QuietHere, WritingHere, HasTopicHere DEF Coordinate, Step, Recover
  <2>2. \A u \in Topics : u # t => Untouched(u)
    BY <1>0, <1>1, Elsewhere
  <2>3. \A u \in Topics : TopicInv(u)' /\ HasTopic(u)'
    BY <1>u, <2>1, <2>2
  <2>4. LogsOfRuns'
    BY <1>0, <1>1, <2>2, LogHere DEF LogsOfRuns, Untouched
  <2> QED
    BY <2>3, <2>4
<1>2. ASSUME Shutdown
      PROVE  (\A u \in Topics : TopicInv(u)' /\ HasTopic(u)') /\ LogsOfRuns'
  <2>1. \A u \in Topics : Untouched(u)
    BY <1>2 DEF Shutdown, Untouched, durable
  <2>2. LogsOfRuns'
    BY <1>2 DEF Shutdown, LogsOfRuns
  <2> QED
    BY <1>u, <2>1, <2>2
<1>3. ASSUME Exit \/ Crash
      PROVE  (\A u \in Topics : TopicInv(u)' /\ HasTopic(u)') /\ LogsOfRuns'
  <2>1. /\ proc' = "down" /\ todo' = {} /\ topic' = topic /\ checkpoint' = checkpoint
        /\ snapshot' = snapshot
    BY <1>3 DEF Exit, Crash, Halt, durable
  <2>2. \A t \in Topics : run'[t] = NoRun /\ memory'[t] = None
    BY <1>3 DEF Exit, Crash, Halt
  <2>3. ASSUME NEW t \in Topics PROVE TopicInv(t)' /\ HasTopic(t)'
    <3>1. TopicInv(t) /\ HasTopic(t)
      BY <1>0
    <3>4. HasTopic(t)'
      BY <2>1, <2>2, <3>1, Fields DEF HasTopic
    <3>2. Prefix(t)' /\ Ended(t)' /\ AllStages(t)' = AllStages(t)
      BY <2>1, <3>1, DurableSame
    <3>3. Tracked(t)'
      BY <2>1, <2>2, <3>1, <3>2, IdleInv, Fields DEF TopicInv, Supported
    <3> QED
      BY <3>2, <3>3, <3>4 DEF TopicInv, Tracked
  <2> QED
    BY <2>1, <2>3 DEF LogsOfRuns
<1>4. ASSUME Restart
      PROVE  (\A u \in Topics : TopicInv(u)' /\ HasTopic(u)') /\ LogsOfRuns'
  <2>1. /\ proc = "down" /\ topic' = topic /\ checkpoint' = checkpoint
        /\ snapshot' = snapshot /\ memory' = memory /\ run' = run /\ openLogs' = openLogs
    BY <1>4 DEF Restart, durable
  <2>2. \A t \in Topics : run[t] = NoRun /\ t \notin openLogs
    BY <1>0, <2>1 DEF DownIsIdle
  <2>3. \A t \in Topics : t \in todo' => topic[t].status \in Unfinished
    BY <1>4 DEF Restart, DurableCandidates, RedisCandidates, Unfinished
  <2>4. ASSUME NEW t \in Topics PROVE TopicInv(t)' /\ HasTopic(t)'
    <3>1. TopicInv(t) /\ HasTopic(t)
      BY <1>0
    <3>5. HasTopic(t)'
      BY <2>1, <3>1 DEF HasTopic
    <3>2. Prefix(t)' /\ Ended(t)' /\ AllStages(t)' = AllStages(t)
      BY <2>1, <3>1, DurableSame
    <3>3. ActiveRun(t)' /\ AtStage(t)' /\ Listed(t)'
      BY <2>1, <2>2, <2>3, Fields DEF ActiveRun, AtStage, Listed, Active
    <3>4. Supported(t)'
      BY <2>1, <3>1, <3>2 DEF TopicInv, Supported
    <3> QED
      BY <3>2, <3>3, <3>4, <3>5 DEF TopicInv
  <2>5. LogsOfRuns'
    BY <2>1, <2>2, Fields DEF LogsOfRuns
  <2> QED
    BY <2>4, <2>5
<1>5. ASSUME UNCHANGED vars
      PROVE  (\A u \in Topics : TopicInv(u)' /\ HasTopic(u)') /\ LogsOfRuns'
  <2>1. \A u \in Topics : Untouched(u)
    BY <1>5 DEF vars, Untouched
  <2>2. LogsOfRuns'
    BY <1>0, <1>5 DEF vars, LogsOfRuns
  <2> QED
    BY <1>u, <2>1, <2>2
<1>6. (\A u \in Topics : TopicInv(u)' /\ HasTopic(u)') /\ LogsOfRuns'
  BY <1>1, <1>2, <1>3, <1>4, <1>5 DEF Next
<1> QED
  BY <1>6, DownIsIdleStep DEF IInv

LEMMA InitInv == Init => IInv
<1> SUFFICES ASSUME Init PROVE IInv
  OBVIOUS
<1>1. TypeOK
  BY Building, BoundsAssumption DEF Init, TypeOK
<1>2. ASSUME NEW t \in Topics PROVE TopicInv(t) /\ HasTopic(t)
  <2>1. /\ topic[t] = None /\ run[t] = NoRun /\ memory[t] = None /\ snapshot[t] = None
        /\ todo = {}
        /\ \A s \in 0 .. NumStages : checkpoint[t][s] = "none"
    BY DEF Init
  <2>2. ActiveRun(t) /\ AtStage(t) /\ Listed(t)
    BY <2>1, Fields DEF ActiveRun, AtStage, Listed, Active
  <2>3. Prefix(t) /\ Ended(t) /\ Supported(t)
    BY <2>1, Fields, StageFacts DEF Prefix, Ended, Supported
  <2> QED
    BY <2>1, <2>2, <2>3, Fields DEF TopicInv, HasTopic
<1>3. DownIsIdle /\ LogsOfRuns
  BY Fields DEF Init, DownIsIdle, LogsOfRuns
<1> QED
  BY <1>1, <1>2, <1>3 DEF IInv

\* The invariant holds of every behaviour.
THEOREM Invariance == Spec => []IInv
<1>1. IInv /\ TypeOK' /\ [Next]_vars => IInv'
  BY InductiveStep
<1> QED
  BY <1>1, InitInv, TypeCorrect, PTL DEF Spec

-------------------------------------------------------------------------------
(* What follows *)

\* The checkpoints of a run that has not failed are a prefix of its stages,
\* whatever crashes, cancellations and lost commit answers it has met: recovery
\* resumes behind completed work only.
THEOREM PrefixTheorem == Spec => []CheckpointsArePrefix
<1>1. IInv => CheckpointsArePrefix
  BY DEF IInv, TopicInv, Prefix, CheckpointsArePrefix
<1> QED
  BY <1>1, Invariance, PTL

\* A durably completed run has every stage completed, although the two are
\* written by different transactions.
THEOREM CompletedTheorem == Spec => []CompletedMeansAllStages
<1>1. IInv => CompletedMeansAllStages
  BY DEF IInv, TopicInv, Ended, AllStages, CompletedMeansAllStages
<1> QED
  BY <1>1, Invariance, PTL

\* No stage works before its "running" checkpoint and its topic row are durable.
THEOREM AnnouncedTheorem == Spec => []WorkIsAnnounced
<1>1. IInv => WorkIsAnnounced
  BY DEF IInv, TopicInv, AtStage, WorkIsAnnounced
<1> QED
  BY <1>1, Invariance, PTL

\* A reader told "completed" can rely on every stage, unless the run has durably
\* failed since.
THEOREM ShownTheorem == Spec => []CompletedShownMeansStagesDone
<1>1. IInv => CompletedShownMeansStagesDone
  BY DEF IInv, TopicInv, Supported, AllStages, CompletedShownMeansStagesDone
<1> QED
  BY <1>1, Invariance, PTL

\* Each way a run can end closes its log, and each way it begins opens it.
THEOREM LogsTheorem == Spec => []LogsMatchRuns
<1>1. IInv => LogsMatchRuns
  BY DEF IInv, TypeOK, LogsOfRuns, LogsMatchRuns
<1> QED
  BY <1>1, Invariance, PTL

\* A durable end is final, and a failed run stays failed.
THEOREM FinalTheorem == Spec => DurableEndIsFinal
<1>1. ASSUME IInv, [Next]_vars, NEW t \in Topics
      PROVE  /\ topic[t].status \in Terminal => topic'[t].status \in Terminal
             /\ topic[t].status = "failed" => topic'[t].status = "failed"
  <2>0. TypeOK /\ TopicInv(t) /\ run[t].at \in 0 .. NumStages
    BY <1>1, Reading DEF IInv, TypeOK
  <2> SUFFICES ASSUME topic'[t] # topic[t], topic[t].status \in Terminal
               PROVE  topic'[t] = Broken
    BY Fields DEF Terminal
  <2>1. Coordinate(t) \/ Step(t) \/ Recover(t) \/ Get(t) \/ Expire(t)
    BY <1>1, <2>0, Elsewhere
    DEF Next, vars, Shutdown, Exit, Crash, Halt, Restart, durable, Untouched
  <2>2. ~Create(t) /\ run[t].pc \notin Active
    BY <2>0, Fields DEF Create, TopicInv, ActiveRun, Terminal, Unfinished
  <2>3. OpenFails(t) \/ FailRun(t) \/ RecoverFails(t)
    BY <2>1, <2>2 DEF Coordinate, Step, Recover, Open, SkipStage, Recount, BeginStage,
       CheckFails, StartStage, WorkStage, CommitStage, PersistTerminal, PublishTerminal,
       Interrupt, RecoverOne, Get, Expire, durable, Active
  <2>4. CASE FailRun(t)
    BY <2>0, <2>4, WriteEffect DEF FailRun, durable
  <2> QED
    BY <2>0, <2>3, <2>4 DEF OpenFails, RecoverFails, TypeOK
<1>2. IInv /\ [Next]_vars =>
        \A t \in Topics : /\ topic[t].status \in Terminal => topic'[t].status \in Terminal
                          /\ topic[t].status = "failed" => topic'[t].status = "failed"
  BY <1>1
<1> QED
  BY <1>2, Invariance, PTL DEF Spec, DurableEndIsFinal

\* A completed stage is taken back only by the transaction that fails its run.
THEOREM KeptTheorem == Spec => CompletedStageIsKept
<1>1. ASSUME IInv, [Next]_vars, NEW t \in Topics, NEW s \in Stages,
             checkpoint[t][s] = "completed", checkpoint'[t][s] # "completed"
      PROVE  topic'[t].status = "failed"
  <2>0. TypeOK /\ TopicInv(t) /\ run[t].at \in 0 .. NumStages /\ s \in 0 .. NumStages
    BY <1>1, Reading, StageFacts DEF IInv, TypeOK
  <2>1. Coordinate(t) \/ Step(t) \/ Recover(t) \/ Get(t) \/ Expire(t)
    BY <1>1, <2>0, Elsewhere
    DEF Next, vars, Shutdown, Exit, Crash, Halt, Restart, durable, Untouched
  <2>2. StartStage(t) \/ CommitStage(t) \/ PersistTerminal(t) \/ FailRun(t)
    BY <1>1, <2>1 DEF Coordinate, Step, Recover, Create, Open, OpenFails, SkipStage,
       Recount, BeginStage, CheckFails, WorkStage, PublishTerminal, Interrupt,
       RecoverOne, RecoverFails, Get, Expire, durable
  <2>3. CASE StartStage(t)
    <3>1. run[t].pc = "start" /\ Write(t, run[t].at, "running", run[t].p)
      BY <1>1, <2>3 DEF StartStage, Transaction, durable
    <3>2. s = run[t].at
      BY <1>1, <2>0, <3>1, WriteEffect
    <3> QED
      BY <1>1, <2>0, <3>1, <3>2 DEF TopicInv, AtStage
  <2>4. CASE CommitStage(t) \/ PersistTerminal(t)
    <3>1. \/ Write(t, run[t].at, "completed", run[t].p)
          \/ Write(t, NumStages, checkpoint[t][NumStages], run[t].p)
      BY <1>1, <2>4 DEF CommitStage, PersistTerminal, Transaction, durable
    <3> QED
      BY <1>1, <2>0, <3>1, WriteEffect, StageFacts
  <2>5. CASE FailRun(t)
    <3>1. Write(t, run[t].at, "failed", Broken)
      BY <1>1, <2>5 DEF FailRun, durable
    <3> QED
      BY <2>0, <3>1, WriteEffect, Fields
  <2> QED
    BY <2>2, <2>3, <2>4, <2>5
<1>2. IInv /\ [Next]_vars =>
        \A t \in Topics : \A s \in Stages :
          checkpoint[t][s] = "completed" /\ checkpoint'[t][s] # "completed"
            => topic'[t].status = "failed"
  BY <1>1
<1> QED
  BY <1>2, Invariance, PTL DEF Spec, CompletedStageIsKept

-------------------------------------------------------------------------------
(* What memory shows *)

\* A topic whose end is shown has no goroutine and is not recovered; a goroutine past
\* its start has shown something; what is shown has a topic.
Shown(t) ==
  /\ memory[t].status \in Terminal => run[t].pc = "idle" /\ t \notin todo
  /\ memory[t] = None => run[t].pc \in {"idle", "created"} \/ t \in todo
  /\ memory[t] # None => topic[t] # None

DownForgets == proc = "down" => \A t \in Topics : memory[t] = None

ShownInv == DownForgets /\ \A t \in Topics : Shown(t)

LEMMA NotEnded ==
  /\ None.status \notin Terminal /\ Accepted.status \notin Terminal
  /\ \A s : At(s).status \notin Terminal
  /\ Accepted # None /\ Broken # None /\ \A s : At(s) # None
  BY Fields DEF Terminal

\* A goroutine that goes on, or fails, and shows nothing new.
LEMMA ShowsNothing ==
  ASSUME NEW t \in Topics, Shown(t), HasTopic(t)', UNCHANGED <<memory, todo>>,
         run[t].pc \notin {"idle", "created"}, run'[t].pc \notin {"idle", "created"}
  PROVE  Shown(t)'
<1>1. memory[t].status \notin Terminal /\ (memory[t] = None => t \in todo)
  BY DEF Shown
<1>2. topic'[t] # None
  BY Fields DEF HasTopic
<1> QED
  BY <1>1, <1>2 DEF Shown

LEMMA TransactionGoesOn ==
  ASSUME TypeOK, NEW t \in Topics, NEW s, NEW c, NEW next, next.pc \notin {"idle", "created"},
         Transaction(t, s, c, next)
  PROVE  run'[t].pc \notin {"idle", "created"} /\ UNCHANGED <<memory, todo>>
  BY GotoEffect, Fields DEF Transaction

LEMMA AfterGoesOn ==
  ASSUME NEW s, NEW p PROVE After(s, p).pc \notin {"idle", "created"}
  BY Fields DEF After

LEMMA ShownHere ==
  ASSUME IInv, IInv', NEW t \in Topics, Shown(t),
         Coordinate(t) \/ Step(t) \/ Recover(t) \/ Get(t) \/ Expire(t)
  PROVE  Shown(t)'
<1>0. TypeOK /\ TopicInv(t) /\ HasTopic(t) /\ HasTopic(t)'
  BY DEF IInv
<1>i. run[t].pc # "idle" => topic[t] # None
  BY <1>0, Fields DEF HasTopic
<1>1. CASE Create(t)
  <2>1. topic[t] = None /\ topic'[t] = Accepted /\ UNCHANGED <<memory, todo>> /\ todo = {}
    BY <1>0, <1>1 DEF Create, TypeOK
  <2>2. memory[t] = None
    BY <2>1 DEF Shown
  <2>3. run'[t].pc \in {"idle", "created"}
    <3>1. run[t].pc = "idle"
      BY <1>i, <2>1
    <3> QED
      BY <1>0, <1>1, <3>1, GotoEffect, Fields DEF Create
  <2> QED
    BY <2>1, <2>2, <2>3, NotEnded DEF Shown
<1>2. CASE Open(t)
  <2>1. memory'[t] = Accepted /\ topic' = topic /\ run[t].pc = "created"
    BY <1>0, <1>2 DEF Open, TypeOK, durable
  <2> QED
    BY <1>i, <2>1, NotEnded DEF Shown
<1>3. CASE OpenFails(t)
  <2>1. run[t].pc = "created" /\ run'[t] = NoRun /\ UNCHANGED <<memory, todo>>
    BY <1>0, <1>3, GotoEffect DEF OpenFails
  <2>2. topic'[t] = Broken \/ topic'[t] = topic[t]
    BY <1>0, <1>3 DEF OpenFails, TypeOK
  <2> QED
    BY <1>i, <2>1, <2>2, Fields, NotEnded DEF Shown
<1>4. CASE SkipStage(t) \/ Recount(t) \/ CheckFails(t) \/ WorkStage(t) \/ FailRun(t)
  <2>1. run[t].pc \notin {"idle", "created"} /\ UNCHANGED <<memory, todo>>
    BY <1>4 DEF SkipStage, Recount, CheckFails, WorkStage, FailRun
  <2>2. run'[t].pc \notin {"idle", "created"}
    <3>1. CASE SkipStage(t)
      <4>1. \/ Goto(t, Run("recount", run[t].at, run[t].p))
            \/ Goto(t, After(run[t].at, run[t].p))
        BY <3>1 DEF SkipStage
      <4>2. \/ run'[t] = Run("recount", run[t].at, run[t].p)
            \/ run'[t] = After(run[t].at, run[t].p)
        BY <1>0, <4>1, GotoEffect
      <4> QED
        BY <4>2, AfterGoesOn, Fields
    <3>2. CASE Recount(t)
      <4>1. PICK r : /\ Goto(t, r)
                     /\ \/ r = After(Discovery, run[t].p)
                        \/ \E c \in BOOLEAN : r = Failing(Discovery, run[t].p, c)
        BY <3>2 DEF Recount
      <4>2. r.pc \notin {"idle", "created"}
        BY <4>1, AfterGoesOn, Fields
      <4> QED
        BY <1>0, <4>1, <4>2, GotoEffect
    <3>3. CASE CheckFails(t)
      BY <1>0, <3>3, GotoEffect, Fields DEF CheckFails
    <3>4. CASE WorkStage(t)
      <4>1. \/ Goto(t, Run("commit", run[t].at, run[t].p))
            \/ \E c \in BOOLEAN : Goto(t, Failing(run[t].at, run[t].p, c))
        BY <3>4 DEF WorkStage
      <4>2. \/ run'[t] = Run("commit", run[t].at, run[t].p)
            \/ \E c \in BOOLEAN : run'[t] = Failing(run[t].at, run[t].p, c)
        BY <1>0, <4>1, GotoEffect
      <4> QED
        BY <4>2, Fields
    <3>5. CASE FailRun(t)
      BY <1>0, <3>5, GotoEffect, Fields DEF FailRun
    <3> QED
      BY <1>4, <3>1, <3>2, <3>3, <3>4, <3>5
  <2> QED
    BY <1>0, <2>1, <2>2, ShowsNothing
<1>5. CASE StartStage(t) \/ CommitStage(t) \/ PersistTerminal(t)
  <2>1. run[t].pc \notin {"idle", "created"}
    BY <1>5 DEF StartStage, CommitStage, PersistTerminal
  <2>2. run'[t].pc \notin {"idle", "created"} /\ UNCHANGED <<memory, todo>>
    <3>1. CASE StartStage(t)
      BY <1>0, <3>1, TransactionGoesOn, Fields DEF StartStage
    <3>2. CASE CommitStage(t)
      BY <1>0, <3>2, TransactionGoesOn, AfterGoesOn DEF CommitStage
    <3>3. CASE PersistTerminal(t)
      BY <1>0, <3>3, TransactionGoesOn, Fields DEF PersistTerminal
    <3> QED
      BY <1>5, <3>1, <3>2, <3>3
  <2> QED
    BY <1>0, <2>1, <2>2, ShowsNothing
<1>6. CASE BeginStage(t)
  <2>1. /\ run[t].pc = "check" /\ memory'[t] = At(run[t].at) /\ topic' = topic
    BY <1>0, <1>6, PublishEffect DEF BeginStage, durable
  <2> QED
    BY <1>i, <2>1, NotEnded DEF Shown
<1>7. CASE PublishTerminal(t) \/ Interrupt(t)
  <2>1. run[t].pc \in {"publish", "fail"} /\ run'[t] = NoRun /\ topic' = topic
    BY <1>0, <1>7, GotoEffect DEF PublishTerminal, Interrupt, durable
  <2>2. t \notin todo'
    <3>1. CASE PublishTerminal(t)
      BY <3>1 DEF PublishTerminal
    <3>2. CASE Interrupt(t)
      BY <1>0, <3>2, Fields DEF Interrupt, TopicInv, Listed
    <3> QED
      BY <1>7, <3>1, <3>2
  <2> QED
    BY <1>i, <2>1, <2>2, Fields DEF Shown
<1>8. CASE RecoverOne(t)
  <2>1. PICK s \in {topic[t].stage} \cup LatestStage(t) :
          memory' = [memory EXCEPT ![t] = [status |-> topic[t].status, stage |-> s]]
    BY <1>8 DEF RecoverOne
  <2>2. memory'[t].status = topic[t].status /\ topic' = topic
    BY <1>0, <1>8, <2>1 DEF TypeOK, RecoverOne, durable
  <2>3. topic[t].status \in Unfinished
    BY <1>0, <1>8, Fields DEF RecoverOne, TopicInv, Listed
  <2> QED
    BY <2>2, <2>3, Fields DEF Shown, Terminal, Unfinished
<1>9. CASE RecoverFails(t)
  <2>1. t \in todo /\ run[t] = NoRun /\ UNCHANGED <<memory, todo>>
    BY <1>9 DEF RecoverFails
  <2>2. topic[t].status \in Unfinished
    BY <1>0, <2>1, Fields DEF TopicInv, Listed
  <2>3. topic'[t] = Broken \/ topic'[t] = topic[t]
    BY <1>0, <1>9 DEF RecoverFails, TypeOK
  <2> QED
    BY <2>1, <2>2, <2>3, Fields, NotEnded DEF Shown, Unfinished
<1>10. CASE Get(t)
  <2>1. /\ todo = {} /\ memory[t] = None /\ topic[t] # None /\ run[t].pc # "created"
        /\ topic' = topic /\ run' = run /\ todo' = todo
    BY <1>10 DEF Get, durable
  <2> QED
    BY <2>1 DEF Shown
<1>11. CASE Expire(t)
  BY <1>11 DEF Expire, durable, volatile, Shown
<1> QED
  BY <1>1, <1>2, <1>3, <1>4, <1>5, <1>6, <1>7, <1>8, <1>9, <1>10, <1>11
  DEF Coordinate, Step, Recover

LEMMA ShownStep == IInv /\ IInv' /\ ShownInv /\ [Next]_vars => ShownInv'
<1> SUFFICES ASSUME IInv, IInv', ShownInv, [Next]_vars PROVE ShownInv'
  OBVIOUS
<1>0. TypeOK /\ DownForgets /\ DownIsIdle /\ \A t \in Topics : Shown(t)
  BY DEF IInv, ShownInv
<1>1. ASSUME NEW t \in Topics, Coordinate(t) \/ Step(t) \/ Recover(t) \/ Get(t) \/ Expire(t)
      PROVE  ShownInv'
  <2>1. \A u \in Topics : u # t => Untouched(u)
    BY <1>0, <1>1, Elsewhere
  <2>2. \A u \in Topics : u # t => Shown(u)'
    BY <1>0, <2>1 DEF Untouched, Shown
  <2>3. Shown(t)'
    BY <1>0, <1>1, ShownHere
  <2>4. DownForgets'
    <3>1. proc' = proc
      BY <1>1 DEF Coordinate, Step, Recover, Create, Open, OpenFails, SkipStage, Recount,
                  BeginStage, CheckFails, StartStage, WorkStage, CommitStage, PersistTerminal,
                  Transaction, PublishTerminal, Interrupt, FailRun, RecoverOne, RecoverFails,
                  Get, Expire
    <3>2. CASE proc = "down"
      <4>1. run[t].pc = "idle" /\ t \notin todo
        BY <1>0, <3>2, Fields DEF DownIsIdle
      <4>2. Expire(t)
        BY <1>1, <3>2, <4>1
        DEF Coordinate, Step, Recover, Create, Open, OpenFails, SkipStage, Recount,
            BeginStage, CheckFails, StartStage, WorkStage, CommitStage, PersistTerminal,
            PublishTerminal, Interrupt, FailRun, RecoverOne, RecoverFails, Get
      <4> QED
        BY <1>0, <4>2 DEF Expire, volatile, DownForgets
    <3> QED
      BY <3>1, <3>2 DEF DownForgets
  <2> QED
    BY <2>2, <2>3, <2>4 DEF ShownInv
<1>2. CASE Exit \/ Crash
  <2>1. todo' = {} /\ \A t \in Topics : run'[t] = NoRun /\ memory'[t] = None
    BY <1>2 DEF Exit, Crash, Halt
  <2> QED
    BY <2>1, Fields, NotEnded DEF ShownInv, Shown, DownForgets
<1>3. CASE Restart
  <2>1. /\ proc = "down" /\ proc' = "up" /\ memory' = memory /\ run' = run
    BY <1>3 DEF Restart
  <2>2. \A t \in Topics : run[t].pc = "idle" /\ memory[t] = None
    BY <1>0, <2>1, Fields DEF DownIsIdle, DownForgets
  <2> QED
    BY <2>1, <2>2, NotEnded DEF ShownInv, Shown, DownForgets
<1>4. CASE Shutdown
  BY <1>0, <1>4 DEF Shutdown, durable, ShownInv, Shown, DownForgets
<1>5. CASE UNCHANGED vars
  BY <1>0, <1>5 DEF vars, ShownInv, Shown, DownForgets
<1> QED
  BY <1>1, <1>2, <1>3, <1>4, <1>5 DEF Next

LEMMA ShownInit == Init => ShownInv
  BY Fields, NotEnded DEF Init, ShownInv, Shown, DownForgets

\* Within one process nothing is shown after the end of a run: no goroutine, recovery
\* or reader that answers from Redis replaces it (PipelineStateService).
THEOREM ShownFinalTheorem == Spec => ShownEndIsFinal
<1>1. ASSUME IInv, ShownInv, [Next]_vars, NEW t \in Topics,
             memory[t].status \in Terminal, proc' # "down"
      PROVE  memory'[t] = memory[t]
  <2>0. TypeOK /\ run[t].pc = "idle" /\ t \notin todo /\ memory[t] # None
    BY <1>1, NotEnded DEF IInv, ShownInv, Shown
  <2> SUFFICES ASSUME memory'[t] # memory[t] PROVE FALSE
    OBVIOUS
  <2>1. Coordinate(t) \/ Step(t) \/ Recover(t) \/ Get(t) \/ Expire(t)
    BY <1>1, <2>0, Elsewhere DEF Next, vars, Shutdown, Exit, Crash, Halt, Restart, Untouched
  <2>2. Create(t) \/ Expire(t)
    BY <2>0, <2>1 DEF Coordinate, Step, Recover, Open, OpenFails, SkipStage, Recount,
       BeginStage, CheckFails, StartStage, WorkStage, CommitStage, PersistTerminal,
       PublishTerminal, Interrupt, FailRun, RecoverOne, RecoverFails, Get
  <2> QED
    BY <2>2 DEF Create, Expire, volatile
<1>2. IInv /\ ShownInv /\ [Next]_vars =>
        \A t \in Topics : memory[t].status \in Terminal /\ proc' # "down" => memory'[t] = memory[t]
  BY <1>1
<1> QED
  BY <1>2, Invariance, ShownInit, ShownStep, PTL DEF Spec, ShownEndIsFinal

-------------------------------------------------------------------------------
(* Refinement of DurableRun *)

StagesDone(t) == {s \in Stages : checkpoint[t][s] = "completed"}

\* Under the mapping, a step that keeps the durable state is a stutter.
LEMMA MappedStutter ==
  ASSUME UNCHANGED durable PROVE UNCHANGED Abstract!vars
  BY DEF durable, Abstract!vars

\* A step of topic t changes the mapped state of no other topic.
LEMMA MappedElsewhere ==
  ASSUME TypeOK, NEW t \in Topics,
         Coordinate(t) \/ Step(t) \/ Recover(t) \/ Get(t) \/ Expire(t),
         NEW st, NEW D, topic'[t].status = st, StagesDone(t)' = D
  PROVE  /\ [u \in Topics |-> topic'[u].status]
              = [[u \in Topics |-> topic[u].status] EXCEPT ![t] = st]
         /\ [u \in Topics |-> {s \in Stages : checkpoint'[u][s] = "completed"}]
              = [[u \in Topics |-> {s \in Stages : checkpoint[u][s] = "completed"}]
                   EXCEPT ![t] = D]
  BY Elsewhere DEF Untouched, StagesDone

\* The durable state of a run is what DurableRun promises: stages in order, one
\* after another, completion only when all are done, and failures recorded in
\* one step with the stage they take back.
THEOREM Refinement == Spec => ImplementsDurableRun
<1>1. Init => Abstract!Init
  <2> SUFFICES ASSUME Init PROVE Abstract!Init
    OBVIOUS
  <2>1. \A t \in Topics : topic[t].status = "absent" /\ StagesDone(t) = {}
    BY Fields, StageFacts DEF Init, StagesDone
  <2> QED
    BY <2>1 DEF Abstract!Init, StagesDone
<1>2. ASSUME IInv, NEW t \in Topics,
             Coordinate(t) \/ Step(t) \/ Recover(t) \/ Get(t) \/ Expire(t)
      PROVE  Abstract!Next \/ UNCHANGED Abstract!vars
  <2>0. TypeOK /\ TopicInv(t) /\ HasTopic(t) /\ run[t].at \in 0 .. NumStages
    BY <1>2, Reading DEF IInv, TypeOK
  <2>m. /\ [u \in Topics |-> topic'[u].status]
             = [[u \in Topics |-> topic[u].status] EXCEPT ![t] = topic'[t].status]
        /\ [u \in Topics |-> {s \in Stages : checkpoint'[u][s] = "completed"}]
             = [[u \in Topics |-> {s \in Stages : checkpoint[u][s] = "completed"}]
                  EXCEPT ![t] = StagesDone(t)']
    BY <1>2, <2>0, MappedElsewhere
  <2>d. ASSUME StagesDone(t)' = StagesDone(t)
        PROVE  [u \in Topics |-> {s \in Stages : checkpoint'[u][s] = "completed"}]
                 = [u \in Topics |-> {s \in Stages : checkpoint[u][s] = "completed"}]
    BY <1>2, <2>0, <2>d, Elsewhere DEF Untouched, StagesDone
  <2>e. ASSUME topic'[t].status = topic[t].status
        PROVE  [u \in Topics |-> topic'[u].status] = [u \in Topics |-> topic[u].status]
    BY <1>2, <2>0, <2>e, Elsewhere DEF Untouched
  <2>k. ASSUME NEW s \in 0 .. NumStages, NEW c, NEW p, Write(t, s, c, p)
        PROVE  /\ topic'[t] = p
               /\ \A v \in Stages : checkpoint'[t][v] = IF v = s THEN c ELSE checkpoint[t][v]
    BY <2>0, <2>k, WriteEffect, StageFacts
  <2>a. ASSUME topic[t].status = "absent", topic'[t].status = "pending",
               StagesDone(t)' = StagesDone(t)
        PROVE  Abstract!Next
    <3>1. Abstract!Accept(t)
      BY <2>m, <2>a, <2>d DEF Abstract!Accept
    <3> QED
      BY <3>1 DEF Abstract!Next
  <2>w. ASSUME topic[t].status \in Unfinished, topic'[t].status = "processing",
               StagesDone(t)' = StagesDone(t)
        PROVE  Abstract!Next
    <3>1. Abstract!Work(t)
      BY <2>m, <2>w, <2>d DEF Abstract!Work, Unfinished
    <3> QED
      BY <3>1 DEF Abstract!Next
  <2>f. ASSUME NEW s \in 0 .. NumStages, topic[t].status # "absent",
               topic'[t].status = "failed", StagesDone(t)' = StagesDone(t) \ {s}
        PROVE  Abstract!Next
    <3>1. Abstract!Fail(t)
      BY <2>m, <2>f DEF Abstract!Fail, StagesDone
    <3> QED
      BY <3>1 DEF Abstract!Next
  <2>1. CASE Create(t)
    <3>1. /\ topic[t] = None /\ topic'[t] = Accepted /\ checkpoint' = checkpoint
      BY <2>0, <2>1 DEF Create, TypeOK
    <3> QED
      BY <2>a, <3>1, Fields DEF StagesDone
  <2>2. CASE OpenFails(t) \/ RecoverFails(t)
    <3>1. topic[t].status # "absent"
      BY <2>0, <2>2, Fields
      DEF OpenFails, RecoverFails, TopicInv, Listed, HasTopic, Unfinished
    <3>2. checkpoint' = checkpoint /\ (topic'[t] = Broken \/ topic' = topic)
      BY <2>0, <2>2 DEF OpenFails, RecoverFails, TypeOK
    <3>3. CASE topic'[t] = Broken
      <4>1. StagesDone(t)' = StagesDone(t) \ {0}
        BY <3>2, StagesAssumption DEF StagesDone, Stages
      <4> QED
        BY <2>f, <3>1, <3>3, <4>1, StageFacts, Fields
    <3> QED
      BY <3>2, <3>3, MappedStutter DEF durable
  <2>3. CASE StartStage(t)
    <3>1. run[t].pc = "start" /\ (UNCHANGED durable \/ Write(t, run[t].at, "running", run[t].p))
      BY <2>3 DEF StartStage, Transaction
    <3>2. CASE Write(t, run[t].at, "running", run[t].p)
      <4>1. topic'[t].status = "processing" /\ topic[t].status \in Unfinished
        BY <1>2, <2>0, <3>1, <3>2, StartWrites, Fields DEF TopicInv, ActiveRun, Active
      <4>2. StagesDone(t)' = StagesDone(t)
        BY <2>0, <2>k, <3>1, <3>2 DEF StagesDone, TopicInv, AtStage
      <4> QED
        BY <2>w, <4>1, <4>2
    <3> QED
      BY <3>1, <3>2, MappedStutter
  <2>4. CASE CommitStage(t)
    <3>1. run[t].pc = "commit" /\ (UNCHANGED durable \/ Write(t, run[t].at, "completed", run[t].p))
      BY <2>4 DEF CommitStage, Transaction
    <3>2. CASE Write(t, run[t].at, "completed", run[t].p)
      <4>0. /\ topic'[t] = At(run[t].at) /\ topic[t] = At(run[t].at)
            /\ run[t].at \in Stages /\ checkpoint[t][run[t].at] = "running"
            /\ \A u \in 1 .. (run[t].at - 1) : checkpoint[t][u] = "completed"
        BY <1>2, <2>0, <3>1, <3>2, CommitWrites DEF TopicInv, ActiveRun, AtStage, Active
      <4>1. /\ topic'[t].status = "processing" /\ topic[t].status = "processing"
            /\ run[t].at \in Stages /\ run[t].at \notin StagesDone(t)
            /\ 1 .. (run[t].at - 1) \subseteq StagesDone(t)
        BY <4>0, Fields, StagesAssumption DEF StagesDone, Stages
      <4>2. StagesDone(t)' = StagesDone(t) \cup {run[t].at}
        <5>1. \A v \in Stages : checkpoint'[t][v] =
                IF v = run[t].at THEN "completed" ELSE checkpoint[t][v]
          BY <2>0, <2>k, <3>2
        <5> QED
          BY <4>1, <5>1 DEF StagesDone
      <4>3. PICK s \in Stages : s = run[t].at
        BY <4>1
      <4>4. Abstract!FinishStage(t, s)
        BY <2>m, <2>e, <4>1, <4>2, <4>3 DEF Abstract!FinishStage, StagesDone
      <4> QED
        BY <4>3, <4>4 DEF Abstract!Next, Abstract!Stages, Stages
    <3> QED
      BY <3>1, <3>2, MappedStutter
  <2>5. CASE PersistTerminal(t)
    <3>1. /\ run[t].pc = "persist"
          /\ \/ UNCHANGED durable
             \/ Write(t, NumStages, checkpoint[t][NumStages], run[t].p)
      BY <2>5 DEF PersistTerminal, Transaction
    <3>2. CASE Write(t, NumStages, checkpoint[t][NumStages], run[t].p)
      <4>1. topic'[t].status = "completed" /\ StagesDone(t)' = Stages
        BY <1>2, <3>1, <3>2, PersistWrites, Fields DEF AllStages, StagesDone
      <4>2. checkpoint[t][NumStages] = "completed" /\ topic[t].status \in Unfinished
        BY <2>0, <3>1 DEF TopicInv, ActiveRun, AtStage, Active
      <4>3. topic[t].status = "processing"
        BY <2>0, <4>2, StageFacts DEF HasTopic, Unfinished
      <4>4. StagesDone(t) = Stages
        <5>1. \A v \in Stages : checkpoint'[t][v] = checkpoint[t][v]
          BY <2>0, <2>k, <3>2, StageFacts
        <5> QED
          BY <4>1, <5>1 DEF StagesDone
      <4>5. Abstract!Complete(t)
        BY <2>m, <2>d, <4>1, <4>3, <4>4 DEF Abstract!Complete, Abstract!Stages, StagesDone, Stages
      <4> QED
        BY <4>5 DEF Abstract!Next
    <3> QED
      BY <3>1, <3>2, MappedStutter
  <2>6. CASE FailRun(t)
    <3>1. run[t].pc = "fail" /\ (UNCHANGED durable \/ Write(t, run[t].at, "failed", Broken))
      BY <2>6 DEF FailRun
    <3>2. CASE Write(t, run[t].at, "failed", Broken)
      <4>1. topic'[t].status = "failed" /\ topic[t].status # "absent"
        BY <2>0, <2>k, <3>1, <3>2, Fields DEF HasTopic
      <4>2. StagesDone(t)' = StagesDone(t) \ {run[t].at}
        BY <2>0, <2>k, <3>2 DEF StagesDone
      <4> QED
        BY <2>0, <2>f, <4>1, <4>2
    <3> QED
      BY <3>1, <3>2, MappedStutter
  <2>7. CASE \/ Open(t) \/ SkipStage(t) \/ Recount(t) \/ BeginStage(t) \/ CheckFails(t)
             \/ WorkStage(t) \/ PublishTerminal(t) \/ Interrupt(t) \/ RecoverOne(t)
             \/ Get(t) \/ Expire(t)
    <3>1. UNCHANGED durable
      BY <2>7 DEF Open, SkipStage, Recount, BeginStage, CheckFails, WorkStage,
                  PublishTerminal, Interrupt, RecoverOne, Get, Expire
    <3> QED
      BY <3>1, MappedStutter
  <2> QED
    BY <1>2, <2>1, <2>2, <2>3, <2>4, <2>5, <2>6, <2>7 DEF Coordinate, Step, Recover
<1>3. ASSUME IInv, Shutdown \/ Exit \/ Crash \/ Restart \/ UNCHANGED vars
      PROVE  UNCHANGED Abstract!vars
  BY <1>3, MappedStutter DEF Shutdown, Exit, Crash, Halt, Restart, vars, durable
<1>4. IInv /\ [Next]_vars => [Abstract!Next]_(Abstract!vars)
  BY <1>2, <1>3 DEF Next
<1> QED
  BY <1>1, <1>4, Invariance, PTL DEF Spec, ImplementsDurableRun, Abstract!Spec
===============================================================================
