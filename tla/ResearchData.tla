---------------------------- MODULE ResearchData ----------------------------
(***************************************************************************)
(* What a run leaves in PostgreSQL and in its report: its papers, those    *)
(* analysed, the gaps and the directions.  One topic; the rows are         *)
(* written one by one and upserted, a stage whose checkpoint is missing    *)
(* after a crash is attempted again over what the earlier attempt left,    *)
(* and analysis jobs of an earlier process are still executed.             *)
(*                                                                         *)
(* The checkpoints themselves are the subject of PipelineRun, the analysis *)
(* batch that of PaperStage.                                               *)
(***************************************************************************)
EXTENDS PaperIdentity

CONSTANTS
  Offers,       \* Offers[source]: the papers a source knows
  Queries,      \* number of queries at the levels full, broad and minimal
  MaxPapers,    \* PIPELINE__MAX_PAPERS
  MinPapers,    \* PIPELINE__MIN_PAPERS_FOR_ANALYSIS
  Cap,          \* PIPELINE__PAPERS_TO_ANALYZE
  Analyses,     \* analyses the model gives of a paper
  Titles,       \* titles the model gives to gaps
  MaxGaps,      \* bound on the gaps of one answer
  MaxFaults,    \* bound on the items that fail
  MaxCrashes    \* bound on crashes

Sources == {"semantic_scholar", "arxiv"}

ASSUME PapersAssumption == /\ Queries \in [1 .. 3 -> Nat \ {0}]
                           /\ {MaxPapers, MinPapers, Cap} \subseteq Nat \ {0}
                           /\ MinPapers <= MaxPapers /\ Cap <= MaxPapers
\* A source describes a paper alike in every answer.  The arXiv client takes the
\* external ID and the arXiv ID of an entry from the same field.
ASSUME OffersAssumption ==
  /\ \A source \in Sources :
       /\ IsFiniteSet(Offers[source])
       /\ \A p \in Offers[source] :
            p = [source |-> source, ext |-> p.ext, doi |-> p.doi, arxiv |-> p.arxiv,
                 title |-> p.title, authors |-> p.authors]
       /\ \A p, q \in Offers[source] : p.ext = q.ext => p = q
  /\ \A p \in Offers["arxiv"] : p.arxiv # None
ASSUME BoundsAssumption == {MaxGaps, MaxFaults, MaxCrashes} \subseteq Nat

Stages  == <<"paper_discovery", "ranking", "paper_analysis", "gap_detection",
             "feasibility_evaluation", "report_generation">>
NoReport == [papers |-> {}, analyses |-> <<>>, gaps |-> <<>>, directions |-> {None}]

\* A row of papers: its unique columns.
Id(p) == <<p.source, p.ext>>
PaperIds == {Id(p) : p \in Offers["semantic_scholar"] \cup Offers["arxiv"]}

VARIABLES
  status,      \* research_topics.status
  done,        \* stages with a completed checkpoint
  ranked,      \* result of the checkpoint of ranking
  planned,     \* result of the checkpoint of gap_detection
  members,     \* topic_papers
  analysed,    \* topic_papers whose analysis_status is completed
  analysis,    \* topic_papers.analysis of those
  gaps,        \* research_gaps: evidence of every title
  directions,  \* novel_directions: the titles of their gaps
  jobs,        \* analysis jobs in the queue, with the process that queued them
  pc,          \* what the run does next, or "down" without a process
  level,       \* query level of the discovery
  answers,     \* answers of the searches, or None
  items,       \* papers of this level, or the items of another stage
  todo,        \* items that the stage has still to handle
  failed,      \* how many of the items have failed
  read,        \* papers that gap detection has read
  cached,      \* ReportService.cache
  served,      \* the report a client was last given
  crashes, faults,
  torn         \* history: stages an attempt of which was cut off

durable == <<status, done, ranked, planned, members, analysed, analysis, gaps, directions>>
run     == <<pc, level, answers, items, todo, failed, read>>
history == <<crashes, faults, torn>>
vars    == <<durable, jobs, run, cached, served, history>>

NoAnswers == [source \in Sources |-> <<>>]

Init ==
  /\ status = "processing" /\ done = {} /\ ranked = <<>> /\ planned = <<>>
  /\ members = {} /\ analysed = {} /\ analysis = <<>> /\ gaps = <<>> /\ directions = {} /\ jobs = {}
  /\ pc = "next" /\ level = 1 /\ answers = NoAnswers
  /\ items = <<>> /\ todo = <<>> /\ failed = 0 /\ read = <<>>
  /\ cached = NoReport /\ served = NoReport
  /\ crashes = 0 /\ faults = 0 /\ torn = {}

Fault == faults < MaxFaults /\ faults' = faults + 1 /\ UNCHANGED <<crashes, torn>>

\* What a stage worked with is gone when it ends.
Forget == /\ level' = 1 /\ answers' = NoAnswers
          /\ items' = <<>> /\ todo' = <<>> /\ failed' = 0 /\ read' = <<>>

Fail == /\ status' = "failed" /\ pc' = "ended" /\ Forget

Complete(stage) == /\ done' = done \cup {stage} /\ pc' = "next" /\ Forget

-------------------------------------------------------------------------------
(* The run *)

First == [paper_discovery |-> "ask", ranking |-> "rank", paper_analysis |-> "pending",
          gap_detection |-> "detect", feasibility_evaluation |-> "plan",
          report_generation |-> "report"]

Remaining == {n \in DOMAIN Stages : Stages[n] \notin done}
Upcoming == Stages[Min(Remaining)]

\* The next stage begins.
Begin ==
  /\ pc = "next" /\ Remaining # {}
  /\ pc' = First[Upcoming]
  /\ UNCHANGED <<durable, jobs, level, answers, items, todo, failed, read, cached, served,
                 history>>

\* All stages are done: the terminal transaction.
End ==
  /\ pc = "next" /\ Remaining = {}
  /\ status' = "completed" /\ pc' = "ended"
  /\ UNCHANGED <<done, ranked, planned, members, analysed, analysis, gaps, directions, jobs,
                 level, answers, items, todo, failed, read, cached, served, history>>

\* A call that no stage tolerates fails: a transaction, a read, an invalid answer of
\* the model.  Searches and items are handled where they occur.
CallFails ==
  /\ pc \in {"next", "clear", "rank", "pending", "submit", "detect", "answer", "plan", "report",
             "cached"}
  /\ Fault
  /\ Fail
  /\ UNCHANGED <<done, ranked, planned, members, analysed, analysis, gaps, directions, jobs,
                 cached, served>>

Crash ==
  /\ pc # "down" /\ crashes < MaxCrashes
  /\ crashes' = crashes + 1
  /\ torn' = IF pc \in {"next", "ended"} THEN torn ELSE torn \cup {Upcoming}
  /\ pc' = "down" /\ Forget /\ cached' = NoReport
  /\ UNCHANGED <<durable, jobs, served, faults>>

\* A process starts; it resumes a run that has not ended, and refuses one whose
\* discovery has left too few papers.
Recover ==
  /\ pc = "down"
  /\ CASE status # "processing" -> pc' = "ended" /\ UNCHANGED status
       [] status = "processing" /\ "paper_discovery" \in done
            /\ Cardinality(members) < MinPapers -> pc' = "ended" /\ status' = "failed"
       [] OTHER -> pc' = "next" /\ UNCHANGED status
  /\ UNCHANGED <<done, ranked, planned, members, analysed, analysis, gaps, directions, jobs,
                 level, answers, items, todo, failed, read, cached, served, history>>

-------------------------------------------------------------------------------
(* Discovery *)

NumQueries == IF Queries[level] < MaxPapers THEN Queries[level] ELSE MaxPapers

\* Results asked for by query q: together MaxPapers from either source.
Limit(q) == (MaxPapers \div NumQueries) + (IF q <= MaxPapers % NumQueries THEN 1 ELSE 0)

\* Lists of at most n of the papers, each once.
Lists(papers, n) == UNION {SetToSeqs(chosen) : chosen \in {some \in SUBSET papers : Cardinality(some) <= n}}

UnchangedByDiscovery == UNCHANGED <<ranked, planned, analysed, analysis, gaps, directions, jobs,
                                    cached, served>>

\* The searches of a level start.
Ask ==
  /\ pc = "ask"
  /\ answers' = [source \in Sources |-> [q \in 1 .. NumQueries |-> None]]
  /\ pc' = "search"
  /\ UNCHANGED <<durable, jobs, level, items, todo, failed, read, cached, served, history>>

\* One of the concurrent searches answers, or fails.
SearchEnds(source, q) ==
  /\ pc = "search" /\ answers[source][q] = None
  /\ \E answer \in {Failed} \cup Lists(Offers[source], Limit(q)) :
       /\ answers' = [answers EXCEPT ![source][q] = answer]
  /\ UNCHANGED <<durable, jobs, pc, level, items, todo, failed, read, cached, served, history>>

\* All searches have ended: their answers are reconciled, and cut to MaxPapers.
Reconciled ==
  /\ pc = "search" /\ \A source \in Sources : None \notin ToSet(answers[source])
  /\ items' = LET papers == Reconcile(answers)
               IN  SubSeq(papers, 1, IF Len(papers) < MaxPapers THEN Len(papers) ELSE MaxPapers)
  /\ todo' = items' /\ failed' = 0 /\ pc' = "store"
  /\ UNCHANGED <<durable, jobs, level, answers, read, cached, served, history>>

\* The transaction of one paper: its row, its authors and its membership.  It may
\* be applied although it is reported as failed.
StorePaper ==
  /\ pc = "store" /\ todo # <<>>
  /\ todo' = Tail(todo)
  /\ \/ /\ members' = members \cup {Id(Head(todo))}
        /\ UNCHANGED <<failed, history>>
     \/ /\ Fault /\ members' \in {members, members \cup {Id(Head(todo))}}
        /\ failed' = failed + 1
  /\ UNCHANGED <<status, done, pc, level, answers, items, read>>
  /\ UnchangedByDiscovery

\* Enough papers, and each of them stored, end the discovery; the last level may
\* have failures as long as enough papers remain.
LevelEnds ==
  /\ pc = "store" /\ todo = <<>>
  /\ LET persisted == Len(items) - failed
     IN  CASE persisted >= MinPapers /\ (level = 3 \/ failed = 0) ->
                Complete("paper_discovery") /\ UNCHANGED status
           [] persisted < MinPapers /\ level = 3 -> Fail /\ UNCHANGED done
           [] OTHER -> /\ pc' = "clear" /\ level' = level + 1
                       /\ UNCHANGED <<status, done, answers, items, todo, failed, read>>
  /\ UNCHANGED <<members, history>>
  /\ UnchangedByDiscovery

\* Faulty Clear: the next level adds to what the one before has stored.
ClearNothing ==
  /\ pc = "clear"
  /\ pc' = "ask"
  /\ UNCHANGED <<durable, jobs, level, answers, items, todo, failed, read, cached, served,
                 history>>

\* Before another level the topic's memberships are deleted.
Clear ==
  /\ pc = "clear"
  /\ members' = {} /\ analysed' = {} /\ analysis' = <<>> /\ pc' = "ask"
  /\ UNCHANGED <<status, done, ranked, planned, gaps, directions, jobs, level, answers, items,
                 todo, failed, read, cached, served, history>>

-------------------------------------------------------------------------------
(* Ranking and analysis *)

\* Any of the members that are queryable may be ranked, in any order.
Rank ==
  /\ pc = "rank"
  /\ \E chosen \in SUBSET members \ {{}} :
       /\ Cardinality(chosen) <= MaxPapers
       /\ ranked' \in SetToSeqs(chosen)
  /\ Complete("ranking")
  /\ UNCHANGED <<status, planned, members, analysed, analysis, gaps, directions, jobs, cached,
                 served, history>>

\* Places of the ranked papers not yet analysed, at most Cap of them.
Left == {n \in DOMAIN ranked : ranked[n] \notin analysed}
Due  == {n \in Left : Cardinality({m \in Left : m <= n}) <= Cap}

\* They are to be analysed in the order of their rank.
Pending ==
  /\ pc = "pending"
  /\ \E order \in SetToSeqs(Due) :
       /\ \A k, l \in DOMAIN order : k < l => order[k] < order[l]
       /\ items' = [k \in DOMAIN order |-> ranked[order[k]]]
  /\ todo' = items' /\ pc' = "submit"
  /\ UNCHANGED <<durable, jobs, level, answers, failed, read, cached, served, history>>

\* One paper's job is queued.
Submit ==
  /\ pc = "submit" /\ todo # <<>>
  /\ jobs' = jobs \cup {[process |-> crashes, paper |-> Head(todo)]}
  /\ todo' = Tail(todo)
  /\ UNCHANGED <<durable, pc, level, answers, items, failed, read, cached, served, history>>

Own(job) == job.process = crashes /\ pc = "submit"

\* A worker executes a job of this process or of an earlier one, whatever became of
\* the run: the model is asked also when the paper is analysed, and its answer replaces
\* what is stored.  When the end of the attempt is not recorded, the job remains.
AnalysisDone(job) ==
  /\ pc # "down" /\ job \in jobs
  /\ jobs' \in {jobs, jobs \ {job}}
  /\ LET row == {job.paper} \cap members
     IN  /\ analysed' = analysed \cup row
         /\ \E answer \in Analyses : analysis' = With(analysis, row, answer)
  /\ UNCHANGED <<status, done, ranked, planned, members, gaps, directions, run, cached, served,
                 history>>

\* A job fails for good; one of this run counts in its batch.
AnalysisFails(job) ==
  /\ pc # "down" /\ job \in jobs
  /\ jobs' = jobs \ {job}
  /\ Fault
  /\ failed' = IF Own(job) THEN failed + 1 ELSE failed
  /\ UNCHANGED <<durable, pc, level, answers, items, todo, read, cached, served>>

\* Faulty AnalysisEnds: it does not wait for the jobs of its batch.
AnalysisEndsEarly ==
  /\ pc = "submit" /\ todo = <<>>
  /\ IF failed = 0 THEN Complete("paper_analysis") /\ UNCHANGED status
                   ELSE Fail /\ UNCHANGED done
  /\ UNCHANGED <<ranked, planned, members, analysed, analysis, gaps, directions, jobs, cached,
                 served, history>>

\* All jobs of the batch have ended.
AnalysisEnds ==
  /\ pc = "submit" /\ todo = <<>> /\ \A job \in jobs : ~Own(job)
  /\ IF failed = 0 THEN Complete("paper_analysis") /\ UNCHANGED status
                   ELSE Fail /\ UNCHANGED done
  /\ UNCHANGED <<ranked, planned, members, analysed, analysis, gaps, directions, jobs, cached,
                 served, history>>

-------------------------------------------------------------------------------
(* Gaps and directions *)

\* Faulty ReadAnalysed: papers that are not analysed are offered too.
ReadMembers ==
  /\ pc = "detect"
  /\ read' = SetToSeq(members) /\ pc' = "answer"
  /\ UNCHANGED <<durable, jobs, level, answers, items, todo, failed, cached, served, history>>

\* The analysed papers are read; there must be some.
ReadAnalysed ==
  /\ pc = "detect" /\ analysed # {}
  /\ read' = SetToSeq(analysed) /\ pc' = "answer"
  /\ UNCHANGED <<durable, jobs, level, answers, items, todo, failed, cached, served, history>>

\* The model answers with gaps that cite papers by their number in the prompt; any
\* number out of range refuses the whole answer.
Gaps == [title : Titles, indices : SUBSET (1 .. Len(read) + 1) \ {{}}]

Resolve(gap) == [title |-> gap.title, evidence |-> {read[i] : i \in gap.indices}]

Answer ==
  /\ pc = "answer"
  /\ \E n \in 1 .. MaxGaps : \E list \in [1 .. n -> Gaps] :
       IF \A i \in 1 .. n : list[i].indices \subseteq DOMAIN read
         THEN /\ items' = [i \in 1 .. n |-> Resolve(list[i])]
              /\ todo' = items' /\ pc' = "gaps"
              /\ UNCHANGED <<status, level, answers, failed, read>>
         ELSE Fail
  /\ UNCHANGED <<done, ranked, planned, members, analysed, analysis, gaps, directions, jobs,
                 cached, served, history>>

\* A gap replaces the row of its title.
CreateResearchGap(gap) == gaps' = With(gaps, {gap.title}, gap.evidence)

\* One gap is stored, or fails, in which case it may have been stored.
StoreGap ==
  /\ pc = "gaps" /\ todo # <<>>
  /\ todo' = Tail(todo)
  /\ \/ CreateResearchGap(Head(todo)) /\ UNCHANGED <<failed, history>>
     \/ /\ Fault /\ failed' = failed + 1
        /\ CreateResearchGap(Head(todo)) \/ UNCHANGED gaps
  /\ UNCHANGED <<status, done, ranked, planned, members, analysed, analysis, directions, jobs, pc,
                 level, answers, items, read, cached, served>>

GapsEnd ==
  /\ pc = "gaps" /\ todo = <<>>
  /\ IF failed = 0 THEN Complete("gap_detection") /\ planned' = items /\ UNCHANGED status
                   ELSE Fail /\ UNCHANGED <<done, planned>>
  /\ UNCHANGED <<ranked, members, analysed, analysis, gaps, directions, jobs, cached, served,
                 history>>

\* Feasibility goes through the gaps of the checkpoint.
Plan ==
  /\ pc = "plan"
  /\ items' = planned /\ todo' = planned /\ pc' = "evaluate"
  /\ UNCHANGED <<durable, jobs, level, answers, failed, read, cached, served, history>>

\* One gap is evaluated and its direction stored, or either fails.
Evaluate ==
  /\ pc = "evaluate" /\ todo # <<>>
  /\ todo' = Tail(todo)
  /\ \/ directions' = directions \cup {Head(todo).title} /\ UNCHANGED <<failed, history>>
     \/ /\ Fault /\ failed' = failed + 1
        /\ directions' \in {directions, directions \cup {Head(todo).title}}
  /\ UNCHANGED <<status, done, ranked, planned, members, analysed, analysis, gaps, jobs, pc,
                 level, answers, items, read, cached, served>>

\* Faulty EvaluationEnds: a gap that could not be evaluated is left out.
EvaluationEndsAnyway ==
  /\ pc = "evaluate" /\ todo = <<>>
  /\ Complete("feasibility_evaluation") /\ UNCHANGED status
  /\ UNCHANGED <<ranked, planned, members, analysed, analysis, gaps, directions, jobs, cached,
                 served, history>>

EvaluationEnds ==
  /\ pc = "evaluate" /\ todo = <<>>
  /\ IF failed = 0 THEN Complete("feasibility_evaluation") /\ UNCHANGED status
                   ELSE Fail /\ UNCHANGED done
  /\ UNCHANGED <<ranked, planned, members, analysed, analysis, gaps, directions, jobs, cached,
                 served, history>>

-------------------------------------------------------------------------------
(* Report *)

\* What the generator assembles from the rows.
Generated == [papers |-> analysed, analyses |-> analysis, gaps |-> gaps,
              directions |-> directions]

\* The report is generated and cached before its checkpoint is written.
GenerateReport ==
  /\ pc = "report"
  /\ cached' = Generated /\ pc' = "cached"
  /\ UNCHANGED <<durable, jobs, level, answers, items, todo, failed, read, served, history>>

ReportEnds ==
  /\ pc = "cached"
  /\ Complete("report_generation")
  /\ UNCHANGED <<status, ranked, planned, members, analysed, analysis, gaps, directions, jobs,
                 cached, served, history>>

\* A client is given the report of a completed run: the cached one, or another one
\* generated and cached.
GetReport ==
  /\ pc # "down" /\ status = "completed"
  /\ cached' = IF cached = NoReport THEN Generated ELSE cached
  /\ served' = cached'
  /\ UNCHANGED <<durable, jobs, run, history>>

Next ==
  \/ Begin \/ End \/ CallFails \/ Crash \/ Recover
  \/ Ask \/ Reconciled \/ StorePaper \/ LevelEnds \/ Clear
  \/ \E source \in Sources : \E q \in DOMAIN answers[source] : SearchEnds(source, q)
  \/ Rank \/ Pending \/ Submit \/ AnalysisEnds
  \/ \E job \in jobs : AnalysisDone(job) \/ AnalysisFails(job)
  \/ ReadAnalysed \/ Answer \/ StoreGap \/ GapsEnd \/ Plan \/ Evaluate \/ EvaluationEnds
  \/ GenerateReport \/ ReportEnds \/ GetReport

Spec == Init /\ [][Next]_vars

-------------------------------------------------------------------------------
(* Properties *)

Evidence == SUBSET PaperIds
Reports == [papers : SUBSET PaperIds,
            analyses : UNION {[some -> Analyses] : some \in SUBSET PaperIds},
            gaps : UNION {[some -> Evidence] : some \in SUBSET Titles},
            directions : SUBSET Titles]

\* Ranked and analysed papers are members of the topic; the checkpoints are those of
\* the first stages.
TypeOK ==
  /\ status \in {"processing", "completed", "failed"}
  /\ done \in {ToSet(SubSeq(Stages, 1, n)) : n \in 0 .. Len(Stages)}
  /\ ToSet(ranked) \subseteq members /\ analysed \subseteq members /\ members \subseteq PaperIds
  /\ analysis \in [analysed -> Analyses]
  /\ DOMAIN gaps \subseteq Titles /\ \A title \in DOMAIN gaps : gaps[title] \in Evidence
  /\ directions \subseteq Titles
  /\ {job.paper : job \in jobs} \subseteq PaperIds
  /\ level \in 1 .. 3 /\ failed \in 0 .. Len(items) /\ Len(todo) <= Len(items)
  /\ cached # NoReport => cached \in Reports
  /\ served # NoReport => served \in Reports

\* Two papers of one discovery have a DOI or an arXiv ID in common only if a later
\* candidate joined them: one search result had named the first of its IDs alone,
\* another one the second (paper_discoverer.go reconcileDiscoveredPapers,
\* docs/ARCH.md:36).
PapersAreDistinct ==
  pc = "store" =>
    LET list == Candidates(answers)
        Has(n, key) == key \in ToSet(Keys(list[n]))
    IN  \A i, j \in DOMAIN items : i # j =>
          \A key \in ToSet(Keys(items[i])) \cap ToSet(Keys(items[j])) :
            \E n \in DOMAIN list : \E other \in ToSet(Keys(list[n])) \ {key} :
              /\ Has(n, key)
              /\ \E m \in 1 .. n - 1 : Has(m, key) /\ ~Has(m, other)
              /\ \E m \in 1 .. n - 1 : Has(m, other) /\ ~Has(m, key)

\* A discovery that is checkpointed has left enough memberships for a recovered run
\* to accept them, and unless an attempt was cut off, only those of its last query
\* level (paper_discoverer.go Discover, pipeline_runner.go Discover and runDiscovery).
DiscoveryKeepsItsPapers ==
  [][done # done' /\ done' = {"paper_discovery"} =>
       /\ Cardinality(members') >= MinPapers
       /\ torn = {} => members' \subseteq {Id(items[i]) : i \in DOMAIN items}]_vars

\* Every paper that a gap of the report cites as evidence is among the papers of the
\* report, and so among its references (report_generator.go formatEvidenceCitations:
\* "the rendered report always points to an entry in its References section").  The
\* rows are consistent (TypeOK).
CitationsResolve ==
  /\ TypeOK
  /\ cached # NoReport =>
       \A title \in DOMAIN cached.gaps : cached.gaps[title] \subseteq cached.papers

\* The report of a completed run has every gap that its gap detection agreed on, each
\* with a direction, and a gap beyond those only if that stage was cut off and
\* attempted again (gap_detector.go persistGaps, feasibility.go Evaluate).
ReportIsComplete ==
  status = "completed" /\ cached # NoReport =>
    LET titles == {planned[i].title : i \in DOMAIN planned}
    IN  /\ cached.directions = titles
        /\ titles \subseteq DOMAIN cached.gaps
        /\ "gap_detection" \notin torn => titles = DOMAIN cached.gaps

\* What a report is about, whatever it says of each paper.
Listed(report) == <<report.papers, report.gaps, report.directions>>

\* Two reports given out for a run, before and after any number of restarts, have the
\* same papers, gaps and directions, and say the same of each paper unless two things
\* have happened: the report has to be generated again in another process, and a stage
\* of analysis was cut off, a job of which is executed late and replaces the analysis
\* of its paper (pipeline_types.go ReportService.Get and Cache, analyzer.go HandleJob).
ReportsAgree ==
  [][served # NoReport =>
       /\ Listed(served') = Listed(served)
       /\ served'.analyses # served.analyses => cached = NoReport /\ "paper_analysis" \in torn]_vars

===============================================================================
