------------------------- MODULE ResearchDataProofs -------------------------
(***************************************************************************)
(* Proofs about ResearchData for any offers, limits, titles, failures and  *)
(* crashes: the papers of a discovery are distinct, it keeps enough of     *)
(* them and only its own, what a report cites is in it, the report of a    *)
(* completed run has every gap agreed on, and two reports are about the    *)
(* same papers, gaps and directions.                                       *)
(*                                                                         *)
(* The argument has two halves.  Reconciling is a fold over the            *)
(* candidates; it is unfolded into the list of its states (EnterFold), and *)
(* what holds of the first n candidates is shown to hold of the next, by   *)
(* induction up to the length of the list.  The rest is an inductive       *)
(* invariant of the run, stage by stage: what a stage has in hand, how     *)
(* many of its items are handled, and what the rows hold of them; the      *)
(* papers that jobs of an earlier process analyse are due or analysed in   *)
(* this one too, so that no paper becomes an analysed one once the stage   *)
(* is done, whatever is then said of it.                                   *)
(***************************************************************************)
EXTENDS ResearchData, FiniteSetTheorems, SequenceTheorems, NaturalsInduction, WellFoundedInduction,
        TLAPS

-------------------------------------------------------------------------------
(* The invariant *)

\* The stages that are done, in their order.
D0 == {}
D1 == {"paper_discovery"}
D2 == {"paper_discovery", "ranking"}
D3 == {"paper_discovery", "ranking", "paper_analysis"}
D4 == {"paper_discovery", "ranking", "paper_analysis", "gap_detection"}
D5 == {"paper_discovery", "ranking", "paper_analysis", "gap_detection", "feasibility_evaluation"}
D6 == D5 \cup {"report_generation"}

\* What the run does next, by the stage it belongs to.
Discovering == {"ask", "search", "store", "clear"}
Analysing   == {"pending", "submit"}
Detecting   == {"detect", "answer", "gaps"}
Evaluating  == {"plan", "evaluate"}
Reporting   == {"report", "cached"}
Idle        == {"next", "down", "pending", "detect", "answer", "plan"}

\* What papers, keys and the items of a stage are made of.
Known == Offers["semantic_scholar"] \cup Offers["arxiv"]
Texts(field) == {None} \cup {p[field] : p \in Known}
Exts  == {p.ext : p \in Known}
Paper == [source : Sources, ext : Exts, doi : Texts("doi"), arxiv : Texts("arxiv"),
          title : Texts("title"), authors : SUBSET UNION {p.authors : p \in Known}]
AllKeys == {"doi", "arxiv", "source"} \X (Texts("doi") \cup Texts("arxiv") \cup (Sources \X Exts))
Gap  == [title : Titles, evidence : SUBSET PaperIds]
Item == Paper \cup PaperIds \cup Gap

\* What lists name, how many items are handled, and what the analysis is about.
Ids(list)      == {Id(list[i]) : i \in DOMAIN list}
TitlesOf(list) == {list[i].title : i \in DOMAIN list}
Handled        == Len(items) - Len(todo)
DuePapers      == {ranked[n] : n \in Due}
OwnJobs        == {job \in jobs : job.process = crashes}

\* Answers of searches that have all ended, and of those that have not.
Answered == [semantic_scholar : Seq({Failed} \cup Seq(Offers["semantic_scholar"])),
             arxiv : Seq({Failed} \cup Seq(Offers["arxiv"]))]
Answering == [semantic_scholar : Seq({None, Failed} \cup Seq(Offers["semantic_scholar"])),
              arxiv : Seq({None, Failed} \cup Seq(Offers["arxiv"]))]
Cut(papers) == SubSeq(papers, 1, IF Len(papers) < MaxPapers THEN Len(papers) ELSE MaxPapers)

\* Types.
Types ==
  /\ status \in {"processing", "completed", "failed"}
  /\ done \in {D0, D1, D2, D3, D4, D5, D6}
  /\ ranked \in Seq(PaperIds) /\ planned \in Seq(Gap)
  /\ members \in SUBSET PaperIds /\ IsFiniteSet(members) /\ analysed \in SUBSET members
  /\ ToSet(ranked) \subseteq members
  /\ gaps = [t \in DOMAIN gaps |-> gaps[t]] /\ DOMAIN gaps \subseteq Titles
  /\ \A t \in DOMAIN gaps : gaps[t] \in SUBSET PaperIds
  /\ directions \in SUBSET Titles
  /\ jobs \in SUBSET [process : Nat, paper : PaperIds] /\ IsFiniteSet(jobs)
  /\ pc \in {"next", "down", "ended", "rank"} \cup Discovering \cup Analysing \cup Detecting
            \cup Evaluating \cup Reporting
  /\ level \in 1 .. 3 /\ items \in Seq(Item) /\ todo \in Seq(Item) /\ failed \in Nat
  /\ crashes \in Nat

\* Where the run stands, the stages before are done.
AtStage ==
  /\ pc \notin {"ended", "down"} => status = "processing"
  /\ pc = "ended" => status # "processing"
  /\ status = "completed" => done = D6
  /\ pc \in Discovering => done = D0
  /\ pc = "rank" => done = D1
  /\ pc \in Analysing => done = D2
  /\ pc \in Detecting => done = D3
  /\ pc \in Evaluating => done = D4
  /\ pc \in Reporting => done = D5

\* What the items of a stage are, and which of them are still to be handled.
ItemsInHand ==
  /\ Len(todo) <= Len(items)
  /\ \A n \in 1 .. Len(todo) : todo[n] = items[Handled + n]
  /\ failed + Len(todo) <= Len(items)
  /\ pc \in Idle => failed = 0
  /\ pc = "store" => items \in Seq(Paper)
  /\ pc = "submit" => items \in Seq(PaperIds)
  /\ pc \in {"gaps", "evaluate"} => items \in Seq(Gap)

\* The papers handled that are members.
Stored == {i \in 1 .. Handled : Id(items[i]) \in members}

\* What a discovery has asked for, been answered and stored.
Discovery ==
  /\ pc = "clear" => level \in 2 .. 3
  /\ pc = "search" => answers \in Answering
  /\ pc = "store" => answers \in Answered /\ items = Cut(Reconcile(answers))
  /\ pc = "store" => Cardinality(Stored) >= Handled - failed
  /\ torn = {} /\ status = "processing" /\ done = D0 /\ pc \in {"next", "down", "ask", "search"}
       => members = {}
  /\ torn = {} /\ pc = "store" => members \subseteq Ids(items)

\* A job is of this process or of an earlier one, and its paper is due or analysed:
\* what an earlier process has queued is what this one has to analyse as well.
JobsInv ==
  /\ done \in {D0, D1} => jobs = {} /\ ranked = <<>>
  /\ \A job \in jobs : job.process <= crashes
  /\ pc \notin {"submit", "ended"} => OwnJobs = {}
  /\ pc = "submit" => Cardinality(OwnJobs) + Len(todo) + failed <= Len(items)
  /\ pc = "submit" => ToSet(items) \subseteq analysed \cup DuePapers
  /\ pc = "submit" => \A job \in jobs : job.paper \in analysed \cup ToSet(items)
  /\ pc = "submit" /\ failed = 0 =>
       \A i \in 1 .. Handled : items[i] \in analysed \/ \E job \in OwnJobs : job.paper = items[i]
  /\ done = D2 /\ pc # "submit" => \A job \in jobs : job.paper \in analysed \cup DuePapers
  /\ done \in {D3, D4, D5, D6} => \A job \in jobs : job.paper \in analysed

\* An analysed paper has an analysis.  Jobs are late, and replace one, only where a
\* stage of analysis was cut off or the run has failed.
AnalysesInv ==
  /\ analysis \in [analysed -> Analyses]
  /\ "paper_analysis" \notin torn /\ status # "failed" =>
       IF pc = "submit" THEN jobs = OwnJobs ELSE jobs = {}

\* Gaps cite what is analysed; those agreed on are stored.
GapsInv ==
  /\ done \in {D0, D1, D2} => DOMAIN gaps = {}
  /\ \A t \in DOMAIN gaps : gaps[t] \subseteq analysed
  /\ pc = "answer" => read \in Seq(analysed)
  /\ pc = "gaps" => \A i \in DOMAIN items : items[i].evidence \subseteq analysed
  /\ done = D3 /\ "gap_detection" \notin torn /\ status = "processing" /\ pc # "gaps" =>
       DOMAIN gaps = {}
  /\ "gap_detection" \notin torn /\ pc = "gaps" => DOMAIN gaps \subseteq TitlesOf(items)
  /\ pc = "gaps" /\ failed = 0 => \A i \in 1 .. Handled : items[i].title \in DOMAIN gaps
  /\ done \in {D4, D5, D6} => TitlesOf(planned) \subseteq DOMAIN gaps
  /\ done \in {D4, D5, D6} /\ "gap_detection" \notin torn => TitlesOf(planned) = DOMAIN gaps

\* Directions are those of the gaps agreed on.
DirectionsInv ==
  /\ done \in {D0, D1, D2, D3} => directions = {}
  /\ done \in {D4, D5, D6} => directions \subseteq TitlesOf(planned)
  /\ done \in {D5, D6} => directions = TitlesOf(planned)
  /\ pc = "evaluate" => items = planned
  /\ pc = "evaluate" /\ failed = 0 => \A i \in 1 .. Handled : items[i].title \in directions

\* A report lists what the rows would give now, and unless a stage of analysis was cut
\* off it is what they would give.  One that was given out is the one that is cached.
ReportInv ==
  /\ cached # NoReport => done \in {D5, D6}
  /\ served # NoReport => status = "completed"
  /\ \A report \in {cached, served} \ {NoReport} :
       report \in Reports /\ Listed(report) = Listed(Generated)
  /\ "paper_analysis" \notin torn /\ status # "failed" =>
       {cached, served} \subseteq {NoReport, Generated}
  /\ cached # NoReport /\ served # NoReport => cached = served

-------------------------------------------------------------------------------
(* Numbers and folds *)

\* A set of numbers has a least element.
LEMMA LeastElement ==
  ASSUME NEW T, T \subseteq Nat, T # {}
  PROVE  \E x \in T : \A y \in T : x <= y
<1>1. IsWellFoundedOn(OpToRel(<,Nat), Nat)
  BY NatLessThanWellFounded
<1>2. PICK x \in T : \A y \in T : ~ (<<y, x>> \in OpToRel(<,Nat))
  BY <1>1, WFMin
<1>3. \A y \in T : ~(y < x)
  BY <1>2 DEF OpToRel
<1> QED
  BY <1>3

\* Induction up to a bound, for a set of numbers.
LEMMA Upwards ==
  ASSUME NEW L \in Nat, NEW Good, 0 \in Good, \A n \in 1 .. L : n - 1 \in Good => n \in Good
  PROVE  0 .. L \subseteq Good
<1> DEFINE Bad == {n \in 0 .. L : n \notin Good}
<1> SUFFICES ASSUME Bad # {} PROVE FALSE
  OBVIOUS
<1>1. Bad \subseteq Nat
  OBVIOUS
<1>2. PICK n \in Bad : \A m \in Bad : n <= m
  <2> HIDE DEF Bad
  <2> QED
    BY <1>1, LeastElement
<1>3. n \in 0 .. L /\ n # 0
  OBVIOUS
<1>4. n - 1 \in 0 .. L /\ n - 1 < n /\ n \in 1 .. L
  BY <1>3
<1>5. n - 1 \in Good
  BY <1>2, <1>4
<1> QED
  BY <1>4, <1>5

\* Min of a set of numbers is in it and bounds it.
LEMMA MinOf ==
  ASSUME NEW T, T \subseteq Nat, T # {}
  PROVE  Min(T) \in T /\ \A y \in T : Min(T) <= y
  BY LeastElement DEF Min

\* The same of Max, for a set below a bound.
LEMMA MaxOf ==
  ASSUME NEW n \in Nat, NEW T, T \subseteq 1 .. n, T # {}
  PROVE  Max(T) \in T /\ \A y \in T : Max(T) >= y
<1> DEFINE D == {d \in Nat : n - d \in T}
<1>1. D # {}
  <2>1. PICK x \in T : TRUE
    OBVIOUS
  <2>2. n - x \in D
    BY <2>1
  <2> QED
    BY <2>2
<1>2. PICK d \in D : \A y \in D : d <= y
  BY <1>1, LeastElement
<1>4. \A y \in T : n - d >= y
  <2> SUFFICES ASSUME NEW y \in T PROVE n - d >= y
    OBVIOUS
  <2>1. n - y \in D
    OBVIOUS
  <2> QED
    BY <1>2, <2>1
<1> QED
  BY <1>4 DEF Max

\* What FoldLeft goes through, for a step given as a function.
Folding(iter, base, step, list) ==
  iter = [s \in SUBSET DOMAIN list |->
            IF s = {} THEN base ELSE step[<<iter[s \ {Max(s)}], list[Max(s)]>>]]

\* There is such a function: it is built up to every length of the list.
LEMMA FoldingExists ==
  ASSUME NEW R, NEW S, NEW base \in R, NEW step \in [R \X S -> R], NEW list \in Seq(S)
  PROVE  \E iter \in [SUBSET DOMAIN list -> R] : Folding(iter, base, step, list)
<1> DEFINE Upto(n, f) ==
             /\ f \in [SUBSET (1 .. n) -> R]
             /\ \A s \in SUBSET (1 .. n) :
                  f[s] = IF s = {} THEN base ELSE step[<<f[s \ {Max(s)}], list[Max(s)]>>]
           Bad == {n \in 0 .. Len(list) : ~ \E f : Upto(n, f)}
<1>1. Bad = {}
  <2> SUFFICES ASSUME Bad # {} PROVE FALSE
    OBVIOUS
  <2>1. PICK n \in Bad : \A m \in Bad : n <= m
    <3>1. Bad \subseteq Nat
      OBVIOUS
    <3> HIDE DEF Bad
    <3> QED
      BY <3>1, LeastElement
  <2>2. n # 0
    <3> SUFFICES ASSUME n = 0 PROVE FALSE
      OBVIOUS
    <3>1. PICK f : f = [s \in SUBSET (1 .. 0) |-> base]
      OBVIOUS
    <3>2. \A s \in SUBSET (1 .. 0) : s = {}
      OBVIOUS
    <3>3. Upto(0, f)
      BY <3>1, <3>2
    <3> QED
      BY <3>3
  <2>3. n \in Nat /\ n - 1 \in 0 .. Len(list) /\ n - 1 \notin Bad /\ n \in 1 .. Len(list)
    <3>1. Len(list) \in Nat /\ n \in 0 .. Len(list)
      BY <2>1
    <3>2. n \in Nat /\ n - 1 \in 0 .. Len(list) /\ n \in 1 .. Len(list)
      BY <2>2, <3>1
    <3>3. \A m \in Bad : n <= m
      BY <2>1
    <3> HIDE DEF Bad
    <3> QED
      BY <3>2, <3>3
  <2>4. PICK f : Upto(n - 1, f)
    BY <2>3
  <2>5. PICK g : g = [s \in SUBSET (1 .. n) |->
                 IF n \in s THEN step[<<f[s \ {n}], list[n]>>] ELSE f[s]]
    OBVIOUS
  <2>a. \A s \in SUBSET (1 .. n) : s \ {n} \in SUBSET (1 .. n - 1)
    OBVIOUS
  <2>b. \A s \in SUBSET (1 .. n) : n \notin s => s \in SUBSET (1 .. n - 1)
    OBVIOUS
  <2>c. g \in [SUBSET (1 .. n) -> R]
    <3> SUFFICES ASSUME NEW s \in SUBSET (1 .. n)
                 PROVE  (IF n \in s THEN step[<<f[s \ {n}], list[n]>>] ELSE f[s]) \in R
      BY <2>5
    <3>1. list[n] \in S
      BY <2>3
    <3>2. f[s \ {n}] \in R
      BY <2>4, <2>a
    <3>3. n \notin s => f[s] \in R
      BY <2>4, <2>b
    <3> QED
      BY <3>1, <3>2, <3>3
  <2>6. ASSUME NEW s \in SUBSET (1 .. n)
        PROVE  g[s] = IF s = {} THEN base ELSE step[<<g[s \ {Max(s)}], list[Max(s)]>>]
    <3>1. CASE n \in s
      <4>1. s \subseteq 1 .. n /\ s # {}
        BY <3>1
      <4>1a. Max(s) \in s /\ Max(s) >= n
        BY <3>1, <4>1, <2>3, MaxOf
      <4>1b. Max(s) \in 1 .. n
        BY <4>1, <4>1a
      <4>2. Max(s) = n
        <5> HIDE DEF Bad, Upto
        <5> QED
          BY <4>1a, <4>1b, <2>3
      <4>3. s \ {n} \in SUBSET (1 .. n) /\ n \notin s \ {n}
        OBVIOUS
      <4>4. g[s \ {n}] = f[s \ {n}]
        BY <2>5, <4>3
      <4>5. g[s] = step[<<f[s \ {n}], list[n]>>]
        BY <2>5, <3>1
      <4> QED
        BY <4>2, <4>4, <4>5, <3>1
    <3>2. CASE n \notin s
      <4>1. s \in SUBSET (1 .. n - 1)
        BY <3>2
      <4>2. g[s] = f[s]
        BY <2>5, <3>2
      <4>3. f[s] = IF s = {} THEN base ELSE step[<<f[s \ {Max(s)}], list[Max(s)]>>]
        BY <2>4, <4>1
      <4>4. g[s \ {Max(s)}] = f[s \ {Max(s)}]
        <5>1. s \ {Max(s)} \in SUBSET (1 .. n) /\ n \notin s \ {Max(s)}
          BY <3>2
        <5> QED
          BY <2>5, <5>1
      <4> QED
        BY <4>2, <4>3, <4>4
    <3> QED
      BY <3>1, <3>2
  <2>7. Upto(n, g)
    BY <2>c, <2>6
  <2> QED
    BY <2>1, <2>7
<1>2. Len(list) \in 0 .. Len(list) /\ DOMAIN list = 1 .. Len(list)
  OBVIOUS
<1>3. PICK f : Upto(Len(list), f)
  BY <1>1, <1>2
<1>4. f = [s \in SUBSET DOMAIN list |-> f[s]]
  BY <1>2, <1>3
<1>5. Folding(f, base, step, list)
  BY <1>2, <1>3, <1>4 DEF Folding
<1> QED
  BY <1>2, <1>3, <1>5

\* The last of the first n.
LEMMA MaxUpto ==
  ASSUME NEW n \in Nat \ {0}
  PROVE  Max(1 .. n) = n /\ (1 .. n) \ {n} = 1 .. n - 1
<1>1. n \in 1 .. n /\ (1 .. n) \ {n} = 1 .. n - 1
  OBVIOUS
<1>2. Max(1 .. n) \in 1 .. n /\ Max(1 .. n) >= n
  BY <1>1, MaxOf
<1> QED
  BY <1>1, <1>2

\* The function that FoldLeft of Enter chooses.
EnterIter(list, iter) == iter = [s \in SUBSET DOMAIN list |->
                 IF s = {} THEN Start ELSE Enter(iter[s \ {Max(s)}], list[Max(s)])]

\* FoldLeft of Enter goes through a list of states, one for every candidate.
LEMMA EnterFold ==
  ASSUME NEW R, NEW S, Start \in R, \A r \in R, c \in S : Enter(r, c) \in R, NEW list \in Seq(S)
  PROVE  \E st \in [0 .. Len(list) -> R] :
           /\ st[0] = Start
           /\ \A n \in 1 .. Len(list) : st[n] = Enter(st[n - 1], list[n])
           /\ st[Len(list)] = FoldLeft(Enter, Start, list)
<1> DEFINE step == [x \in R \X S |-> Enter(x[1], x[2])]
           it == CHOOSE iter : EnterIter(list, iter)
           st == [n \in 0 .. Len(list) |-> it[1 .. n]]
<1>1. step \in [R \X S -> R]
  OBVIOUS
<1>2. PICK f \in [SUBSET DOMAIN list -> R] : Folding(f, Start, step, list)
  BY <1>1, FoldingExists
<1>3. Len(list) \in Nat /\ DOMAIN list = 1 .. Len(list)
  OBVIOUS
<1>4. EnterIter(list, f)
  <2>1. ASSUME NEW s \in SUBSET DOMAIN list, s # {}
        PROVE  step[<<f[s \ {Max(s)}], list[Max(s)]>>] = Enter(f[s \ {Max(s)}], list[Max(s)])
    <3>1. Max(s) \in DOMAIN list
      BY <1>3, <2>1, MaxOf
    <3>2. list[Max(s)] \in S
      BY <3>1
    <3>3. f[s \ {Max(s)}] \in R
      OBVIOUS
    <3> QED
      BY <3>2, <3>3
  <2> HIDE DEF step
  <2>2. \A s \in SUBSET DOMAIN list :
          f[s] = IF s = {} THEN Start ELSE Enter(f[s \ {Max(s)}], list[Max(s)])
    BY <1>2, <2>1 DEF Folding
  <2>3. f = [s \in SUBSET DOMAIN list |-> f[s]]
    OBVIOUS
  <2> QED
    BY <2>2, <2>3, Zenon DEF EnterIter
<1>5. EnterIter(list, it)
  BY <1>4
<1>6. FoldLeft(Enter, Start, list) = it[DOMAIN list]
  BY Zenon DEF FoldLeft, MapThenFoldSet, EnterIter
<1> HIDE DEF it
<1>7. st[0] = Start
  <2>1. 1 .. 0 = {} /\ {} \in SUBSET DOMAIN list
    OBVIOUS
  <2>2. it[{}] = Start
    BY <1>5, <2>1 DEF EnterIter
  <2> QED
    BY <2>1, <2>2, <1>3
<1>8. ASSUME NEW n \in 1 .. Len(list)
      PROVE  st[n] = Enter(st[n - 1], list[n])
  <2>1. 1 .. n \in SUBSET DOMAIN list /\ 1 .. n # {} /\ n \in Nat \ {0} /\ n - 1 \in 0 .. Len(list)
    <3>1. n \in Nat \ {0} /\ n - 1 \in 0 .. Len(list) /\ n \in 1 .. n
      BY <1>3
    <3>2. 1 .. n \subseteq 1 .. Len(list)
      BY <1>3
    <3> QED
      BY <1>3, <3>1, <3>2
  <2>2. it[1 .. n] = Enter(it[(1 .. n) \ {Max(1 .. n)}], list[Max(1 .. n)])
    BY <1>5, <2>1, Zenon DEF EnterIter
  <2>3. it[1 .. n] = Enter(it[1 .. n - 1], list[n])
    BY <2>1, <2>2, MaxUpto
  <2> QED
    BY <2>1, <2>3
<1>9. \A n \in 0 .. Len(list) : st[n] \in R
  <2> DEFINE Good == {n \in 0 .. Len(list) : st[n] \in R}
  <2>1. 0 \in Good
    BY <1>3, <1>7
  <2>2. ASSUME NEW n \in 1 .. Len(list), n - 1 \in Good PROVE n \in Good
    <3>1. st[n - 1] \in R /\ list[n] \in S
      BY <2>2
    <3>2. st[n] \in R
      BY <1>8, <3>1
    <3>3. n \in 0 .. Len(list)
      BY <1>3
    <3> QED
      BY <3>2, <3>3
  <2> HIDE DEF Good
  <2>3. 0 .. Len(list) \subseteq Good
    BY <1>3, <2>1, <2>2, Upwards
  <2> QED
    BY <2>3 DEF Good
<1>10. st[Len(list)] = FoldLeft(Enter, Start, list)
  BY <1>3, <1>6
<1>11. st \in [0 .. Len(list) -> R]
  BY <1>9
<1> HIDE DEF st
<1> QED
  BY <1>7, <1>8, <1>10, <1>11

-------------------------------------------------------------------------------
(* Keys, and a candidate entered *)

\* The keys of a paper by their kind.
DoiKey(p) == <<"doi", p.doi>>
ArxivKey(p) == <<"arxiv", p.arxiv>>
SourceKey(p) == <<"source", <<p.source, p.ext>>>>

\* Two lists of one value make a pair.
LEMMA PairIs ==
  ASSUME NEW x, NEW y
  PROVE  <<x>> \o <<y>> = <<x, y>>
<1> DEFINE S == {x, y}
<1>1. <<x>> \in Seq(S) /\ <<y>> \in Seq(S) /\ <<x, y>> \in Seq(S)
  OBVIOUS
<1>2. Len(<<x>>) = 1 /\ Len(<<y>>) = 1 /\ Len(<<x, y>>) = 2 /\ <<x>>[1] = x /\ <<y>>[1] = y
      /\ <<x, y>>[1] = x /\ <<x, y>>[2] = y
  OBVIOUS
<1> HIDE DEF S
<1>3. /\ <<x>> \o <<y>> \in Seq(S) /\ Len(<<x>> \o <<y>>) = 2
      /\ (<<x>> \o <<y>>)[1] = x /\ (<<x>> \o <<y>>)[2] = y
  BY <1>1, <1>2, ConcatProperties
<1> DEFINE c == <<x>> \o <<y>>
           t == <<x, y>>
<1>4. c \in Seq(S) /\ t \in Seq(S) /\ Len(c) = Len(t) /\ \A i \in 1 .. Len(c) : c[i] = t[i]
  BY <1>1, <1>2, <1>3
<1> HIDE DEF c, t
<1>5. c = t
  BY <1>4, SeqEqual
<1> QED
  BY <1>5 DEF c, t

\* The keys of a paper, in their order.
LEMMA KeysAre ==
  ASSUME NEW p \in Paper
  PROVE  /\ p.doi # None /\ p.arxiv # None => Keys(p) = <<DoiKey(p), ArxivKey(p)>>
         /\ p.doi # None /\ p.arxiv = None => Keys(p) = <<DoiKey(p)>>
         /\ p.doi = None /\ p.arxiv # None => Keys(p) = <<ArxivKey(p)>>
         /\ p.doi = None /\ p.arxiv = None => Keys(p) = <<SourceKey(p)>>
<1>1. \A x, y : <<x>> \o <<y>> = <<x, y>>
  BY PairIs
<1>2. \A x : <<x>> \o <<>> = <<x>> /\ <<>> \o <<x>> = <<x>> /\ <<x>> # <<>>
  OBVIOUS
<1>3. \A x, y : <<x, y>> # <<>> /\ <<>> \o <<>> = <<>>
  OBVIOUS
<1> DEFINE d == DoiKey(p)
           a == ArxivKey(p)
<1>4. Keys(p) = LET doi == IF p.doi = None THEN <<>> ELSE <<d>>
                    arxiv == IF p.arxiv = None THEN <<>> ELSE <<a>>
                IN  IF doi \o arxiv = <<>> THEN <<SourceKey(p)>> ELSE doi \o arxiv
  BY Zenon DEF Keys, DoiKey, ArxivKey, SourceKey
<1> HIDE DEF d, a
<1>5. p.doi # None /\ p.arxiv # None => Keys(p) = <<d, a>>
  BY <1>1, <1>3, <1>4
<1>6. p.doi # None /\ p.arxiv = None => Keys(p) = <<d>>
  BY <1>2, <1>4
<1>7. p.doi = None /\ p.arxiv # None => Keys(p) = <<a>>
  BY <1>2, <1>4
<1>8. p.doi = None /\ p.arxiv = None => Keys(p) = <<SourceKey(p)>>
  BY <1>3, <1>4
<1> QED
  BY <1>5, <1>6, <1>7, <1>8 DEF d, a

\* The keys of a paper, as a set.
LEMMA KeysSet ==
  ASSUME NEW p \in Paper
  PROVE  /\ ToSet(Keys(p)) \subseteq AllKeys /\ ToSet(Keys(p)) # {}
         /\ \A key \in ToSet(Keys(p)) :
              \/ p.doi # None /\ key = DoiKey(p)
              \/ p.arxiv # None /\ key = ArxivKey(p)
              \/ p.doi = None /\ p.arxiv = None /\ key = SourceKey(p)
         /\ p.doi # None => DoiKey(p) \in ToSet(Keys(p))
         /\ p.arxiv # None => ArxivKey(p) \in ToSet(Keys(p))
         /\ p.doi = None /\ p.arxiv = None => SourceKey(p) \in ToSet(Keys(p))
<1>1. \A x : ToSet(<<x>>) = {x}
  BY DEF ToSet
<1>2. \A x, y : ToSet(<<x, y>>) = {x, y}
  BY DEF ToSet
<1>3. DoiKey(p) \in AllKeys /\ ArxivKey(p) \in AllKeys /\ SourceKey(p) \in AllKeys
  BY DEF DoiKey, ArxivKey, SourceKey, AllKeys, Paper
<1> HIDE DEF DoiKey, ArxivKey, SourceKey
<1> QED
  BY <1>1, <1>2, <1>3, KeysAre

\* The states of reconciling: what the indices name is in the list.
States ==
  {s \in [papers : Seq(Paper), byKey : UNION {[some -> Nat] : some \in SUBSET AllKeys},
          byTitle : UNION {[some -> Seq(Nat)] : some \in SUBSET Texts("title")}] :
     /\ \A key \in DOMAIN s.byKey : s.byKey[key] \in 1 .. Len(s.papers)
     /\ \A x \in DOMAIN s.byTitle : s.byTitle[x] \in Seq(1 .. Len(s.papers))}

\* The place of the paper that a candidate joins or becomes.
Joined(s, c) == IF Match(s, c) = 0 THEN Len(s.papers) + 1 ELSE Match(s, c)

\* The paper that a candidate matches, by DOI first, by arXiv ID, by its source's ID;
\* another match is with a paper of another source.
LEMMA MatchIs ==
  ASSUME NEW s \in States, NEW c \in Paper
  PROVE  /\ Match(s, c) \in 0 .. Len(s.papers)
         /\ c.doi # None /\ DoiKey(c) \in DOMAIN s.byKey => Match(s, c) = s.byKey[DoiKey(c)]
         /\ /\ c.doi # None => DoiKey(c) \notin DOMAIN s.byKey
            /\ c.arxiv # None /\ ArxivKey(c) \in DOMAIN s.byKey
            => Match(s, c) = s.byKey[ArxivKey(c)]
         /\ c.doi = None /\ c.arxiv = None /\ SourceKey(c) \in DOMAIN s.byKey
              => Match(s, c) = s.byKey[SourceKey(c)]
         /\ ToSet(Keys(c)) \cap DOMAIN s.byKey = {} =>
              Match(s, c) = 0 \/ s.papers[Match(s, c)].source # c.source
         /\ Match(s, c) = 0 => ToSet(Keys(c)) \cap DOMAIN s.byKey = {}
<1> DEFINE keys == Keys(c)
           known == {n \in DOMAIN keys : keys[n] \in DOMAIN s.byKey}
           entries == At(s.byTitle, c.title, <<>>)
           same == {n \in DOMAIN entries : /\ s.papers[entries[n]].source # c.source
                                           /\ s.papers[entries[n]].authors \cap c.authors # {}}
<1>1. /\ known # {} => Match(s, c) = s.byKey[keys[Min(known)]]
      /\ known = {} /\ same # {} => Match(s, c) = entries[Min(same)]
      /\ known = {} /\ same = {} => Match(s, c) = 0
  BY Zenon DEF Match
<1>2. entries \in Seq(1 .. Len(s.papers)) /\ DOMAIN entries \subseteq Nat
  <2>1. \A x \in DOMAIN s.byTitle : s.byTitle[x] \in Seq(1 .. Len(s.papers))
    BY DEF States
  <2>2. <<>> \in Seq(1 .. Len(s.papers))
    OBVIOUS
  <2>3. entries \in Seq(1 .. Len(s.papers))
    BY <2>1, <2>2, Zenon DEF At
  <2> HIDE DEF entries
  <2> QED
    BY <2>3
<1>3. same # {} => Min(same) \in same
  <2>1. same \subseteq Nat
    BY <1>2
  <2> HIDE DEF same
  <2> QED
    BY <2>1, MinOf
<1>4. same # {} => /\ entries[Min(same)] \in 1 .. Len(s.papers)
                   /\ s.papers[entries[Min(same)]].source # c.source
  <2> SUFFICES ASSUME same # {}
               PROVE  /\ entries[Min(same)] \in 1 .. Len(s.papers)
                      /\ s.papers[entries[Min(same)]].source # c.source
    OBVIOUS
  <2>1. PICK m : m = Min(same)
    OBVIOUS
  <2>2. m \in DOMAIN entries /\ s.papers[entries[m]].source # c.source
    BY <1>3, <2>1
  <2> HIDE DEF entries, same
  <2>3. entries[m] \in 1 .. Len(s.papers)
    BY <1>2, <2>2
  <2> QED
    BY <2>1, <2>2, <2>3
<1>5. DOMAIN keys \subseteq Nat
  BY KeysAre
<1>6. known # {} => Min(known) \in known /\ \A n \in known : Min(known) <= n
  <2>1. known \subseteq Nat
    BY <1>5
  <2> HIDE DEF known
  <2> QED
    BY <2>1, MinOf
<1>7. known # {} => s.byKey[keys[Min(known)]] \in 1 .. Len(s.papers)
  BY <1>6 DEF States
<1>8. known = {} <=> ToSet(keys) \cap DOMAIN s.byKey = {}
  BY DEF ToSet
<1>9. Len(s.papers) \in Nat
  BY DEF States
<1>10. c.doi # None /\ DoiKey(c) \in DOMAIN s.byKey => Match(s, c) = s.byKey[DoiKey(c)]
  <2> SUFFICES ASSUME c.doi # None, DoiKey(c) \in DOMAIN s.byKey
               PROVE  Match(s, c) = s.byKey[DoiKey(c)]
    OBVIOUS
  <2>1. keys[1] = DoiKey(c) /\ 1 \in DOMAIN keys /\ \A n \in DOMAIN keys : n \in {1, 2}
    BY KeysAre
  <2>2. 1 \in known /\ \A n \in known : n \in {1, 2}
    BY <2>1
  <2> HIDE DEF keys, known
  <2>3. Min(known) = 1
    BY <1>6, <2>2
  <2> QED
    BY <1>1, <2>1, <2>2, <2>3
<1>11. /\ c.doi # None => DoiKey(c) \notin DOMAIN s.byKey
       /\ c.arxiv # None /\ ArxivKey(c) \in DOMAIN s.byKey
       => Match(s, c) = s.byKey[ArxivKey(c)]
  <2> SUFFICES ASSUME c.doi # None => DoiKey(c) \notin DOMAIN s.byKey,
                      c.arxiv # None, ArxivKey(c) \in DOMAIN s.byKey
               PROVE  Match(s, c) = s.byKey[ArxivKey(c)]
    OBVIOUS
  <2>1. \A n \in DOMAIN keys : keys[n] = ArxivKey(c) \/ (c.doi # None /\ keys[n] = DoiKey(c))
    BY KeysAre
  <2>2. \E n \in DOMAIN keys : keys[n] = ArxivKey(c)
    BY KeysAre
  <2>3. known # {} /\ \A n \in known : keys[n] = ArxivKey(c)
    BY <2>1, <2>2
  <2> HIDE DEF keys, known
  <2> QED
    BY <1>1, <1>6, <2>3
<1>12. c.doi = None /\ c.arxiv = None /\ SourceKey(c) \in DOMAIN s.byKey
         => Match(s, c) = s.byKey[SourceKey(c)]
  <2> SUFFICES ASSUME c.doi = None, c.arxiv = None, SourceKey(c) \in DOMAIN s.byKey
               PROVE  Match(s, c) = s.byKey[SourceKey(c)]
    OBVIOUS
  <2>1. keys[1] = SourceKey(c) /\ DOMAIN keys = {1}
    BY KeysAre
  <2>2. known # {} /\ \A n \in known : keys[n] = SourceKey(c)
    BY <2>1
  <2> HIDE DEF keys, known
  <2> QED
    BY <1>1, <1>6, <2>2
<1> HIDE DEF keys, known, entries, same
<1>13. Match(s, c) \in 0 .. Len(s.papers)
  BY <1>1, <1>4, <1>7, <1>9
<1>14. ToSet(keys) \cap DOMAIN s.byKey = {} =>
              Match(s, c) = 0 \/ s.papers[Match(s, c)].source # c.source
  BY <1>1, <1>4, <1>8
<1>15. Match(s, c) = 0 => ToSet(keys) \cap DOMAIN s.byKey = {}
  BY <1>1, <1>7, <1>8, <1>9
<1> QED
  BY <1>10, <1>11, <1>12, <1>13, <1>14, <1>15 DEF keys

\* A merged paper keeps what it has and fills in what it lacks.
LEMMA MergeIs ==
  ASSUME NEW p \in Paper, NEW q \in Paper
  PROVE  /\ Merge(p, q) \in Paper
         /\ Merge(p, q).source = p.source /\ Merge(p, q).ext = p.ext
         /\ Merge(p, q).doi = IF p.doi = None THEN q.doi ELSE p.doi
         /\ Merge(p, q).arxiv = IF p.arxiv = None THEN q.arxiv ELSE p.arxiv
<1>1. Missing(p.doi, q.doi) \in Texts("doi") /\ Missing(p.arxiv, q.arxiv) \in Texts("arxiv")
      /\ Missing(p.title, q.title) \in Texts("title")
  BY DEF Missing, Paper
<1>2. p.authors \cup q.authors \in SUBSET UNION {x.authors : x \in Known}
  BY DEF Paper
<1>3. Merge(p, q) = [source |-> p.source, ext |-> p.ext, doi |-> Missing(p.doi, q.doi),
         arxiv |-> Missing(p.arxiv, q.arxiv), title |-> Missing(p.title, q.title),
         authors |-> p.authors \cup q.authors]
  <2> DEFINE d == Missing(p.doi, q.doi)
             a == Missing(p.arxiv, q.arxiv)
             t == Missing(p.title, q.title)
             u == p.authors \cup q.authors
  <2>1. p = [source |-> p.source, ext |-> p.ext, doi |-> p.doi, arxiv |-> p.arxiv,
             title |-> p.title, authors |-> p.authors]
    BY DEF Paper
  <2>2. Merge(p, q) = [p EXCEPT !.doi = d, !.arxiv = a, !.title = t, !.authors = u]
    BY Zenon DEF Merge
  <2> HIDE DEF d, a, t, u
  <2>3. Merge(p, q) = [source |-> p.source, ext |-> p.ext, doi |-> d, arxiv |-> a, title |-> t,
                       authors |-> u]
    BY <2>1, <2>2
  <2> QED
    BY <2>3 DEF d, a, t, u
<1>4. p.source \in Sources /\ p.ext \in Exts
  BY DEF Paper
<1> QED
  BY <1>1, <1>2, <1>3, <1>4 DEF Missing, Paper

\* What entering a candidate does: the paper it joins, the others, the keys.
LEMMA EnterIs ==
  ASSUME NEW s \in States, NEW c \in Paper
  PROVE  LET t == Enter(s, c)
             i == Joined(s, c)
         IN  /\ t \in States
             /\ i \in 1 .. Len(t.papers)
             /\ Len(t.papers) = IF Match(s, c) = 0 THEN Len(s.papers) + 1 ELSE Len(s.papers)
             /\ \A j \in 1 .. Len(s.papers) : j # i => t.papers[j] = s.papers[j]
             /\ Match(s, c) = 0 => i = Len(s.papers) + 1 /\ t.papers[i] = c
             /\ Match(s, c) # 0 => /\ i = Match(s, c) /\ i \in 1 .. Len(s.papers)
                                   /\ t.papers[i] = Merge(s.papers[i], c)
             /\ DOMAIN t.byKey = DOMAIN s.byKey \cup ToSet(Keys(t.papers[i]))
             /\ \A key \in ToSet(Keys(t.papers[i])) : t.byKey[key] = i
             /\ \A key \in DOMAIN s.byKey \ ToSet(Keys(t.papers[i])) : t.byKey[key] = s.byKey[key]
<1> DEFINE t == Enter(s, c)
           i == Joined(s, c)
           m == Match(s, c)
           papers == IF m = 0 THEN Append(s.papers, c)
                              ELSE [s.papers EXCEPT ![i] = Merge(@, c)]
           own == ToSet(Keys(papers[i]))
           title == papers[i].title
           entries == At(s.byTitle, title, <<>>)
           entry == IF i \in ToSet(entries) THEN entries ELSE Append(entries, i)
<1>1. t = [papers |-> papers, byKey |-> With(s.byKey, own, i),
           byTitle |-> With(s.byTitle, {title} \ {None}, entry)]
  BY Zenon DEF Enter, Joined
<1>2. m \in 0 .. Len(s.papers)
  BY MatchIs
<1>3. s.papers \in Seq(Paper) /\ Len(s.papers) \in Nat
  BY DEF States
<1>4. m # 0 => i = m /\ i \in 1 .. Len(s.papers)
  BY <1>2, <1>3 DEF Joined
<1>5. m = 0 => i = Len(s.papers) + 1
  BY DEF Joined
<1> HIDE DEF m, i
<1>6. m # 0 => s.papers[i] \in Paper /\ Merge(s.papers[i], c) \in Paper
  BY <1>3, <1>4, MergeIs
<1>7. /\ papers \in Seq(Paper) /\ i \in 1 .. Len(papers)
      /\ Len(papers) = IF m = 0 THEN Len(s.papers) + 1 ELSE Len(s.papers)
      /\ \A j \in 1 .. Len(s.papers) : j # i => papers[j] = s.papers[j]
      /\ m = 0 => papers[i] = c
      /\ m # 0 => papers[i] = Merge(s.papers[i], c)
  <2>1. CASE m = 0
    BY <1>3, <1>5, <2>1
  <2>2. CASE m # 0
    <3>1. papers = [s.papers EXCEPT ![i] = Merge(s.papers[i], c)]
      BY <2>2
    <3> HIDE DEF papers
    <3> QED
      BY <1>3, <1>4, <1>6, <2>2, <3>1, ExceptSeq
  <2> QED
    BY <2>1, <2>2
<1> HIDE DEF papers
<1>8. own \subseteq AllKeys /\ papers[i] \in Paper
  <2>1. papers[i] \in Paper
    BY <1>7
  <2> QED
    BY <2>1, KeysSet
<1>9. title \in Texts("title")
  BY <1>8 DEF Paper
<1>10. \A j \in 1 .. Len(s.papers) : j \in 1 .. Len(papers)
  BY <1>3, <1>7
<1>11. /\ DOMAIN s.byKey \in SUBSET AllKeys /\ DOMAIN s.byTitle \in SUBSET Texts("title")
       /\ \A key \in DOMAIN s.byKey : s.byKey[key] \in 1 .. Len(s.papers)
       /\ \A x \in DOMAIN s.byTitle : s.byTitle[x] \in Seq(1 .. Len(s.papers))
  BY DEF States
<1>12. /\ t.papers = papers
       /\ t.byKey = [key \in DOMAIN s.byKey \cup own |-> IF key \in own THEN i ELSE s.byKey[key]]
       /\ t.byTitle = [x \in DOMAIN s.byTitle \cup ({title} \ {None}) |->
                         IF x \in {title} \ {None} THEN entry ELSE s.byTitle[x]]
  BY <1>1 DEF With
<1>13. entry \in Seq(1 .. Len(papers))
  <2>1. \A x \in DOMAIN s.byTitle : s.byTitle[x] \in Seq(1 .. Len(papers))
    BY <1>10, <1>11, SeqMonotonic
  <2>2. <<>> \in Seq(1 .. Len(papers))
    OBVIOUS
  <2>3. entries \in Seq(1 .. Len(papers))
    BY <2>1, <2>2, Zenon DEF At
  <2> HIDE DEF entries
  <2>4. Append(entries, i) \in Seq(1 .. Len(papers))
    BY <1>7, <2>3
  <2> QED
    BY <2>3, <2>4
<1> HIDE DEF t, own, title, entries, entry
<1>14. \A key \in DOMAIN t.byKey : t.byKey[key] \in 1 .. Len(papers)
  BY <1>7, <1>10, <1>11, <1>12
<1>15. \A x \in DOMAIN t.byTitle : t.byTitle[x] \in Seq(1 .. Len(papers))
  <2>1. \A x \in DOMAIN s.byTitle : s.byTitle[x] \in Seq(1 .. Len(papers))
    BY <1>10, <1>11, SeqMonotonic
  <2> QED
    BY <1>12, <1>13, <2>1
<1>16. t.byKey \in UNION {[some -> Nat] : some \in SUBSET AllKeys}
  <2>1. DOMAIN s.byKey \cup own \in SUBSET AllKeys
    BY <1>8, <1>11
  <2>2. \A key \in DOMAIN t.byKey : t.byKey[key] \in Nat
    BY <1>14
  <2>3. t.byKey \in [DOMAIN s.byKey \cup own -> Nat]
    BY <1>12, <2>2
  <2> QED
    BY <2>1, <2>3
<1>17. t.byTitle \in UNION {[some -> Seq(Nat)] : some \in SUBSET Texts("title")}
  <2>1. DOMAIN s.byTitle \cup ({title} \ {None}) \in SUBSET Texts("title")
    BY <1>9, <1>11
  <2>2. \A x \in DOMAIN t.byTitle : t.byTitle[x] \in Seq(Nat)
    <3>1. 1 .. Len(papers) \subseteq Nat
      OBVIOUS
    <3> QED
      BY <1>15, <3>1, SeqMonotonic
  <2>3. t.byTitle \in [DOMAIN s.byTitle \cup ({title} \ {None}) -> Seq(Nat)]
    BY <1>12, <2>2
  <2> QED
    BY <2>1, <2>3
<1>18. t \in States
  <2>1. t = [papers |-> t.papers, byKey |-> t.byKey, byTitle |-> t.byTitle]
    BY <1>1 DEF t
  <2> QED
    BY <1>7, <1>12, <1>14, <1>15, <1>16, <1>17, <2>1 DEF States
<1>19. /\ DOMAIN t.byKey = DOMAIN s.byKey \cup own
       /\ \A key \in own : t.byKey[key] = i
       /\ \A key \in DOMAIN s.byKey \ own : t.byKey[key] = s.byKey[key]
  BY <1>12
<1> QED
  BY <1>4, <1>5, <1>7, <1>12, <1>18, <1>19 DEF t, i, m, own

-------------------------------------------------------------------------------
(* Reconciling a list of candidates *)

\* The invariant of reconciling the first n candidates of a list: a paper's keys lead to
\* it, an arXiv ID perhaps to another paper that has it.
Registered(s) ==
  \A i \in 1 .. Len(s.papers) : \A key \in ToSet(Keys(s.papers[i])) :
    key \in DOMAIN s.byKey /\ (key[1] # "arxiv" => s.byKey[key] = i)

\* A key leads to a paper with that ID.
Named(s) ==
  \A key \in DOMAIN s.byKey :
    /\ key[1] = "doi" => key[2] # None /\ s.papers[s.byKey[key]].doi = key[2]
    /\ key[1] = "arxiv" => key[2] # None /\ s.papers[s.byKey[key]].arxiv = key[2]

\* The papers' IDs are those of candidates.
FromList(list, n, s) ==
  \A i \in 1 .. Len(s.papers) :
    /\ \E m \in 1 .. n : list[m].source = s.papers[i].source
    /\ s.papers[i].arxiv # None => \E m \in 1 .. n : list[m].arxiv = s.papers[i].arxiv
    /\ s.papers[i].doi # None /\ s.papers[i].arxiv = None =>
         \E m \in 1 .. n : list[m].doi = s.papers[i].doi /\ list[m].arxiv = None

\* What a candidate with both IDs has left.
BothIds(list, n, s) ==
  \A m \in 1 .. n : list[m].doi # None /\ list[m].arxiv # None =>
    \/ DoiKey(list[m]) \in DOMAIN s.byKey /\ s.papers[s.byKey[DoiKey(list[m])]].arxiv # None
    \/ \E l \in 1 .. n : list[l].arxiv = list[m].arxiv /\ list[l].doi # list[m].doi
    \/ list[m].source = "arxiv" /\ DoiKey(list[m]) \notin DOMAIN s.byKey

\* A candidate that joined what had come under either of its IDs alone.
Joins(list, k, arxiv) ==
  /\ list[k].arxiv = arxiv /\ list[k].doi # None
  /\ \E m \in 1 .. k - 1 : list[m].arxiv = arxiv /\ list[m].doi # list[k].doi
  /\ \E m \in 1 .. k - 1 : list[m].doi = list[k].doi /\ list[m].arxiv # arxiv

\* Papers with the same arXiv ID.
Apart(list, n, s) ==
  \A i, j \in 1 .. Len(s.papers) :
    i # j /\ s.papers[i].arxiv # None /\ s.papers[i].arxiv = s.papers[j].arxiv =>
      \E k \in 1 .. n : Joins(list, k, s.papers[i].arxiv)

\* A paper is named after a candidate, and by no other paper's source and ID.
Identified(list, n, s) ==
  /\ \A i \in 1 .. Len(s.papers) : \E m \in 1 .. n :
       /\ list[m].source = s.papers[i].source /\ list[m].ext = s.papers[i].ext
       /\ ToSet(Keys(list[m])) \subseteq DOMAIN s.byKey
  /\ \A i, j \in 1 .. Len(s.papers) :
       s.papers[i].source = s.papers[j].source /\ s.papers[i].ext = s.papers[j].ext => i = j

\* The list a discovery reconciles.
Ordered(list) ==
  /\ list \in Seq(Paper)
  /\ \A m, n \in 1 .. Len(list) : m < n /\ list[m].source = "arxiv" => list[n].source = "arxiv"
  /\ \A n \in 1 .. Len(list) : list[n].source = "arxiv" => list[n].arxiv # None
  /\ \A m, n \in 1 .. Len(list) :
       list[m].source = list[n].source /\ list[m].ext = list[n].ext => list[m] = list[n]

\* What a key says.
LEMMA KeyParts ==
  ASSUME NEW p
  PROVE  /\ DoiKey(p)[1] = "doi" /\ DoiKey(p)[2] = p.doi
         /\ ArxivKey(p)[1] = "arxiv" /\ ArxivKey(p)[2] = p.arxiv
         /\ SourceKey(p)[1] = "source"
  BY DEF DoiKey, ArxivKey, SourceKey

\* Keys are equal when what they are made from is.
LEMMA KeysEqual ==
  ASSUME NEW p, NEW q
  PROVE  /\ DoiKey(p) = DoiKey(q) <=> p.doi = q.doi
         /\ ArxivKey(p) = ArxivKey(q) <=> p.arxiv = q.arxiv
         /\ SourceKey(p) = SourceKey(q) <=> p.source = q.source /\ p.ext = q.ext
         /\ DoiKey(p) # ArxivKey(q) /\ DoiKey(p) # SourceKey(q) /\ ArxivKey(p) # SourceKey(q)
  BY DEF DoiKey, ArxivKey, SourceKey

\* The papers a candidate does not join stay.
LEMMA Others ==
  ASSUME NEW s \in States, NEW c \in Paper,
         NEW j \in 1 .. Len(Enter(s, c).papers), j # Joined(s, c)
  PROVE  /\ j \in 1 .. Len(s.papers) /\ Enter(s, c).papers[j] = s.papers[j]
         /\ j # Match(s, c)
<1>1. Len(s.papers) \in Nat
  BY DEF States
<1>2. CASE Match(s, c) = 0
  <2>1. Len(Enter(s, c).papers) = Len(s.papers) + 1 /\ Joined(s, c) = Len(s.papers) + 1
    BY <1>2, EnterIs
  <2>2. j \in 1 .. Len(s.papers)
    BY <1>1, <2>1
  <2> QED
    BY <1>2, <2>2, EnterIs
<1>3. CASE Match(s, c) # 0
  <2>1. Len(Enter(s, c).papers) = Len(s.papers) /\ Joined(s, c) = Match(s, c)
    BY <1>3, EnterIs
  <2> QED
    BY <2>1, EnterIs
<1> QED
  BY <1>2, <1>3

\* What a paper has it keeps.
LEMMA EnterKeeps ==
  ASSUME NEW s \in States, NEW c \in Paper, NEW j \in 1 .. Len(s.papers)
  PROVE  LET p == s.papers[j]
             q == Enter(s, c).papers[j]
         IN  /\ p \in Paper /\ q \in Paper
             /\ q.source = p.source /\ q.ext = p.ext
             /\ p.doi # None => q.doi = p.doi
             /\ p.arxiv # None => q.arxiv = p.arxiv
             /\ p.doi = None /\ q.doi # None => q.doi = c.doi /\ j = Match(s, c)
             /\ p.arxiv = None /\ q.arxiv # None => q.arxiv = c.arxiv /\ j = Match(s, c)
             /\ j = Match(s, c) /\ c.arxiv # None => q.arxiv # None
             /\ j = Match(s, c) /\ c.doi # None => q.doi # None
<1> DEFINE p == s.papers[j]
           q == Enter(s, c).papers[j]
<1>1. p \in Paper
  BY DEF States
<1>2. CASE j # Joined(s, c)
  <2>1. q = p
    BY <1>2, EnterIs
  <2>2. j # Match(s, c)
    BY <1>2, MatchIs DEF Joined, States
  <2> HIDE DEF p, q
  <2>3. /\ p \in Paper /\ q \in Paper
        /\ q.source = p.source /\ q.ext = p.ext
        /\ p.doi # None => q.doi = p.doi
        /\ p.arxiv # None => q.arxiv = p.arxiv
        /\ ~(p.doi = None /\ q.doi # None) /\ ~(p.arxiv = None /\ q.arxiv # None)
    BY <1>1, <2>1
  <2> QED
    BY <2>2, <2>3 DEF p, q
<1>3. CASE j = Joined(s, c)
  <2>1. Len(s.papers) \in Nat
    BY DEF States
  <2>2. Match(s, c) = j /\ Match(s, c) # 0
    BY <1>3, <2>1 DEF Joined
  <2>3. q = Merge(p, c)
    BY <1>3, <2>2, EnterIs
  <2> HIDE DEF p, q
  <2> QED
    BY <1>1, <2>2, <2>3, MergeIs DEF p, q
<1> QED
  BY <1>2, <1>3

\* Registered is kept: a paper's keys lead to it, but for arXiv IDs given to two papers.
LEMMA EnterRegistered ==
  ASSUME NEW s \in States, NEW c \in Paper, Registered(s), Named(s)
  PROVE  Registered(Enter(s, c))
<1> DEFINE t == Enter(s, c)
           i == Joined(s, c)
           q == t.papers[i]
<1>0. Len(s.papers) \in Nat /\ q \in Paper
  BY EnterIs DEF States
<1>1. /\ DOMAIN t.byKey = DOMAIN s.byKey \cup ToSet(Keys(q))
      /\ \A key \in ToSet(Keys(q)) : t.byKey[key] = i
      /\ \A key \in DOMAIN s.byKey \ ToSet(Keys(q)) : t.byKey[key] = s.byKey[key]
  BY EnterIs
<1>2. ASSUME NEW j \in 1 .. Len(t.papers), j # i
      PROVE  j \in 1 .. Len(s.papers) /\ t.papers[j] = s.papers[j]
  BY <1>2, Others
<1>3. ASSUME NEW j \in 1 .. Len(s.papers), j # i, NEW key \in ToSet(Keys(s.papers[j])),
             key[1] # "arxiv"
      PROVE  key \notin ToSet(Keys(q))
  <2> SUFFICES ASSUME key \in ToSet(Keys(q)) PROVE FALSE
    OBVIOUS
  <2>1. key \in DOMAIN s.byKey /\ s.byKey[key] = j
    BY <1>3 DEF Registered
  <2>2. CASE q.doi # None /\ key = DoiKey(q)
    <3>1. CASE Match(s, c) = 0
      <4>1. q = c
        BY <3>1, EnterIs
      <4> QED
        BY <2>1, <2>2, <3>1, <4>1, MatchIs
    <3>2. CASE Match(s, c) # 0
      <4>1. i = Match(s, c) /\ i \in 1 .. Len(s.papers)
        BY <3>2, EnterIs
      <4>2. CASE s.papers[i].doi # None
        <5>1. q.doi = s.papers[i].doi /\ s.papers[i] \in Paper
          BY <4>1, <4>2, EnterKeeps
        <5>2. key \in ToSet(Keys(s.papers[i]))
          BY <2>2, <4>2, <5>1, KeysSet, KeysEqual
        <5>3. s.byKey[key] = i
          BY <1>3, <4>1, <5>2 DEF Registered
        <5> QED
          BY <1>3, <2>1, <5>3
      <4>3. CASE s.papers[i].doi = None
        <5>1. q.doi = c.doi
          BY <2>2, <4>1, <4>3, EnterKeeps
        <5>2. key = DoiKey(c)
          BY <2>2, <5>1, KeysEqual
        <5> QED
          BY <1>3, <2>1, <2>2, <4>1, <5>1, <5>2, MatchIs
      <4> QED
        BY <4>2, <4>3
    <3> QED
      BY <3>1, <3>2
  <2>3. CASE q.doi = None /\ q.arxiv = None /\ key = SourceKey(q)
    <3>1. CASE Match(s, c) = 0
      <4>1. q = c
        BY <3>1, EnterIs
      <4> QED
        BY <2>1, <2>3, <3>1, <4>1, MatchIs
    <3>2. CASE Match(s, c) # 0
      <4>1. i = Match(s, c) /\ i \in 1 .. Len(s.papers)
        BY <3>2, EnterIs
      <4>2. /\ s.papers[i] \in Paper /\ s.papers[i].doi = None /\ s.papers[i].arxiv = None
            /\ q.source = s.papers[i].source /\ q.ext = s.papers[i].ext
        BY <2>3, <4>1, EnterKeeps
      <4>2a. SourceKey(q) = SourceKey(s.papers[i])
        BY <4>2, KeysEqual
      <4>3. key \in ToSet(Keys(s.papers[i]))
        BY <2>3, <4>2, <4>2a, KeysSet
      <4>4. s.byKey[key] = i
        BY <1>3, <4>1, <4>3 DEF Registered
      <4> QED
        BY <1>3, <2>1, <4>4
    <3> QED
      BY <3>1, <3>2
  <2>4. CASE key = ArxivKey(q)
    BY <1>3, <2>4, KeyParts
  <2> QED
    BY <1>0, <2>2, <2>3, <2>4, KeysSet
<1>4. ASSUME NEW j \in 1 .. Len(t.papers), NEW key \in ToSet(Keys(t.papers[j]))
      PROVE  key \in DOMAIN t.byKey /\ (key[1] # "arxiv" => t.byKey[key] = j)
  <2>1. CASE j = i
    BY <1>1, <2>1
  <2>2. CASE j # i
    <3>1. j \in 1 .. Len(s.papers) /\ key \in ToSet(Keys(s.papers[j]))
      BY <1>2, <2>2
    <3>2. key \in DOMAIN s.byKey /\ (key[1] # "arxiv" => s.byKey[key] = j)
      BY <3>1 DEF Registered
    <3> QED
      BY <1>1, <1>3, <2>2, <3>1, <3>2
  <2> QED
    BY <2>1, <2>2
<1> QED
  BY <1>4, Zenon DEF Registered

\* Named is kept: the paper a key leads to has that ID.
LEMMA EnterNamed ==
  ASSUME NEW s \in States, NEW c \in Paper, Named(s)
  PROVE  Named(Enter(s, c))
<1> DEFINE t == Enter(s, c)
           i == Joined(s, c)
           q == t.papers[i]
<1>1. /\ DOMAIN t.byKey = DOMAIN s.byKey \cup ToSet(Keys(q))
      /\ \A key \in ToSet(Keys(q)) : t.byKey[key] = i
      /\ \A key \in DOMAIN s.byKey \ ToSet(Keys(q)) : t.byKey[key] = s.byKey[key]
  BY EnterIs
<1>1a. q \in Paper
  BY EnterIs DEF States
<1>2. ASSUME NEW key \in ToSet(Keys(q))
      PROVE  /\ key[1] = "doi" => key[2] # None /\ q.doi = key[2]
             /\ key[1] = "arxiv" => key[2] # None /\ q.arxiv = key[2]
  <2>1. \/ q.doi # None /\ key = DoiKey(q)
        \/ q.arxiv # None /\ key = ArxivKey(q)
        \/ key = SourceKey(q)
    BY <1>1a, KeysSet
  <2> QED
    BY <2>1, KeyParts
<1>3. ASSUME NEW key \in DOMAIN s.byKey
      PROVE  /\ key[1] = "doi" => key[2] # None /\ t.papers[s.byKey[key]].doi = key[2]
             /\ key[1] = "arxiv" => key[2] # None /\ t.papers[s.byKey[key]].arxiv = key[2]
  <2>1. s.byKey[key] \in 1 .. Len(s.papers)
    BY DEF States
  <2> QED
    BY <2>1, EnterKeeps DEF Named
<1>4. ASSUME NEW key \in DOMAIN t.byKey
      PROVE  /\ key[1] = "doi" => key[2] # None /\ t.papers[t.byKey[key]].doi = key[2]
             /\ key[1] = "arxiv" => key[2] # None /\ t.papers[t.byKey[key]].arxiv = key[2]
  BY <1>1, <1>2, <1>3
<1> QED
  BY <1>4, Zenon DEF Named

\* FromList is kept: a paper's IDs are those of candidates.
LEMMA EnterFromList ==
  ASSUME NEW s \in States, NEW list \in Seq(Paper), NEW n \in 1 .. Len(list),
         FromList(list, n - 1, s)
  PROVE  FromList(list, n, Enter(s, list[n]))
<1> DEFINE c == list[n]
           t == Enter(s, c)
<1>1. c \in Paper /\ n \in 1 .. n /\ \A m \in 1 .. n - 1 : m \in 1 .. n
  OBVIOUS
<1>2. ASSUME NEW i \in 1 .. Len(t.papers)
      PROVE  /\ \E m \in 1 .. n : list[m].source = t.papers[i].source
             /\ t.papers[i].arxiv # None => \E m \in 1 .. n : list[m].arxiv = t.papers[i].arxiv
             /\ t.papers[i].doi # None /\ t.papers[i].arxiv = None =>
                  \E m \in 1 .. n : list[m].doi = t.papers[i].doi /\ list[m].arxiv = None
  <2>1. CASE i \in 1 .. Len(s.papers)
    <3> DEFINE p == s.papers[i]
               q == t.papers[i]
    <3>1. /\ q.source = p.source
          /\ p.doi # None => q.doi = p.doi
          /\ p.arxiv # None => q.arxiv = p.arxiv
          /\ p.doi = None /\ q.doi # None => q.doi = c.doi /\ i = Match(s, c)
          /\ p.arxiv = None /\ q.arxiv # None => q.arxiv = c.arxiv /\ i = Match(s, c)
          /\ i = Match(s, c) /\ c.arxiv # None => q.arxiv # None
      BY <1>1, <2>1, EnterKeeps
    <3>2. /\ \E m \in 1 .. n : list[m].source = p.source
          /\ p.arxiv # None => \E m \in 1 .. n : list[m].arxiv = p.arxiv
          /\ p.doi # None /\ p.arxiv = None =>
               \E m \in 1 .. n : list[m].doi = p.doi /\ list[m].arxiv = None
      BY <1>1, <2>1 DEF FromList
    <3> HIDE DEF p, q, t
    <3> QED
      BY <1>1, <3>1, <3>2 DEF q
  <2>2. CASE i \notin 1 .. Len(s.papers)
    <3>1. i = Joined(s, c)
      BY <1>1, <2>2, Others
    <3>2. Match(s, c) = 0
      BY <1>1, <2>2, <3>1, EnterIs
    <3>3. t.papers[i] = c
      BY <1>1, <3>1, <3>2, EnterIs
    <3> QED
      BY <1>1, <3>3
  <2> QED
    BY <2>1, <2>2
<1> QED
  BY <1>2, Zenon DEF FromList

\* Which paper a known DOI leads to does not change.
LEMMA EnterKeepsDoi ==
  ASSUME NEW s \in States, NEW c \in Paper, Registered(s), Named(s),
         NEW key \in DOMAIN s.byKey, key[1] = "doi"
  PROVE  key \in DOMAIN Enter(s, c).byKey /\ Enter(s, c).byKey[key] = s.byKey[key]
<1> DEFINE t == Enter(s, c)
           j == s.byKey[key]
<1>1. /\ key \in DOMAIN t.byKey
      /\ key \notin ToSet(Keys(t.papers[Joined(s, c)])) => t.byKey[key] = j
  BY EnterIs
<1>2. key \in AllKeys /\ j \in 1 .. Len(s.papers)
  BY DEF States
<1>3. s.papers[j] \in Paper /\ s.papers[j].doi # None /\ s.papers[j].doi = key[2]
  BY <1>2, EnterKeeps DEF Named
<1>4. t.papers[j].doi = key[2] /\ t.papers[j].doi # None /\ t.papers[j] \in Paper
  BY <1>2, <1>3, EnterKeeps
<1>5. key = DoiKey(t.papers[j])
  BY <1>2, <1>4 DEF AllKeys, DoiKey
<1>6. key \in ToSet(Keys(t.papers[j])) /\ key[1] # "arxiv"
  BY <1>4, <1>5, KeysSet
<1>7. Registered(t)
  BY EnterRegistered
<1>8. j \in 1 .. Len(t.papers)
  <2>1. Len(s.papers) \in Nat
    BY DEF States
  <2>2. Len(t.papers) = Len(s.papers) \/ Len(t.papers) = Len(s.papers) + 1
    BY EnterIs
  <2> QED
    BY <1>2, <2>1, <2>2
<1> QED
  BY <1>1, <1>6, <1>7, <1>8 DEF Registered

\* BothIds is kept: a candidate with both IDs has given its arXiv ID to its DOI's paper,
\* or another candidate had that arXiv ID without the DOI.
LEMMA EnterBothIds ==
  ASSUME NEW s \in States, NEW list, Ordered(list), NEW n \in 1 .. Len(list),
         Registered(s), Named(s), FromList(list, n - 1, s), BothIds(list, n - 1, s)
  PROVE  BothIds(list, n, Enter(s, list[n]))
<1> DEFINE c == list[n]
           t == Enter(s, c)
           i == Joined(s, c)
           q == t.papers[i]
<1>1. c \in Paper /\ n \in 1 .. n /\ \A m \in 1 .. n - 1 : m \in 1 .. n /\ m < n /\ m \in 1 .. Len(list)
  BY DEF Ordered
<1>2. /\ DOMAIN t.byKey = DOMAIN s.byKey \cup ToSet(Keys(q))
      /\ \A key \in ToSet(Keys(q)) : t.byKey[key] = i
  BY <1>1, EnterIs
<1>3. c.arxiv # None => q.arxiv # None
  BY <1>1, EnterIs, EnterKeeps, ZenonT(40)
<1>4. ASSUME NEW m \in 1 .. n - 1, list[m].doi # None /\ list[m].arxiv # None
      PROVE  \/ DoiKey(list[m]) \in DOMAIN t.byKey /\ t.papers[t.byKey[DoiKey(list[m])]].arxiv # None
             \/ \E l \in 1 .. n : list[l].arxiv = list[m].arxiv /\ list[l].doi # list[m].doi
             \/ list[m].source = "arxiv" /\ DoiKey(list[m]) \notin DOMAIN t.byKey
  <2> DEFINE key == DoiKey(list[m])
  <2>1. CASE key \in DOMAIN s.byKey /\ s.papers[s.byKey[key]].arxiv # None
    <3>1. s.byKey[key] \in 1 .. Len(s.papers) /\ key[1] = "doi"
      BY <2>1, KeyParts DEF States
    <3>2. key \in DOMAIN t.byKey /\ t.byKey[key] = s.byKey[key]
      BY <1>1, <2>1, <3>1, EnterKeepsDoi
    <3>3. t.papers[s.byKey[key]].arxiv # None
      BY <1>1, <2>1, <3>1, EnterKeeps
    <3> QED
      BY <3>2, <3>3
  <2>2. CASE \E l \in 1 .. n - 1 : list[l].arxiv = list[m].arxiv /\ list[l].doi # list[m].doi
    BY <1>1, <2>2
  <2>3. CASE list[m].source = "arxiv" /\ key \notin DOMAIN s.byKey
    <3>1. c.arxiv # None
      BY <1>1, <2>3 DEF Ordered
    <3>2. key \in ToSet(Keys(q)) => t.papers[t.byKey[key]].arxiv # None
      BY <1>2, <1>3, <3>1
    <3> QED
      BY <1>2, <2>3, <3>2
  <2> QED
    BY <1>4, <2>1, <2>2, <2>3 DEF BothIds
<1>5. ASSUME c.doi # None /\ c.arxiv # None
      PROVE  \/ DoiKey(c) \in DOMAIN t.byKey /\ t.papers[t.byKey[DoiKey(c)]].arxiv # None
             \/ \E l \in 1 .. n : list[l].arxiv = c.arxiv /\ list[l].doi # c.doi
             \/ c.source = "arxiv" /\ DoiKey(c) \notin DOMAIN t.byKey
  <2>0. q \in Paper
    BY <1>1, EnterIs DEF States
  <2>1. CASE q.doi = c.doi
    <3>1. DoiKey(c) = DoiKey(q)
      BY <2>1, KeysEqual
    <3>2. DoiKey(c) \in ToSet(Keys(q))
      BY <1>5, <2>0, <2>1, <3>1, KeysSet
    <3> QED
      BY <1>2, <1>3, <1>5, <3>2
  <2>2. CASE q.doi # c.doi
    <3>1. Match(s, c) # 0 /\ i = Match(s, c) /\ i \in 1 .. Len(s.papers)
      BY <1>1, <2>2, EnterIs
    <3>2. s.papers[i].doi # None /\ s.papers[i].doi # c.doi
      BY <1>1, <1>5, <2>2, <3>1, EnterKeeps
    <3>3. DoiKey(c) \notin DOMAIN s.byKey
      <4> SUFFICES ASSUME DoiKey(c) \in DOMAIN s.byKey PROVE FALSE
        OBVIOUS
      <4>1. s.byKey[DoiKey(c)] = i
        BY <1>1, <1>5, <3>1, MatchIs
      <4> QED
        BY <3>2, <4>1, KeyParts DEF Named
    <3>4. DoiKey(c) \notin DOMAIN t.byKey
      BY <1>2, <2>0, <2>2, <3>3, KeysSet, KeysEqual
    <3>5. CASE ArxivKey(c) \in DOMAIN s.byKey
      <4>1. s.byKey[ArxivKey(c)] = i
        BY <1>1, <1>5, <3>1, <3>3, <3>5, MatchIs
      <4>2. s.papers[i].arxiv = c.arxiv
        BY <3>5, <4>1, KeyParts DEF Named
      <4>3. PICK m \in 1 .. n - 1 : list[m].arxiv = c.arxiv
        BY <1>5, <3>1, <4>2 DEF FromList
      <4>4. CASE list[m].doi # c.doi
        BY <1>1, <4>3, <4>4
      <4>5. CASE list[m].doi = c.doi
        <5>1. DoiKey(list[m]) = DoiKey(c)
          BY <4>5, KeysEqual
        <5>2. \/ \E l \in 1 .. n - 1 : list[l].arxiv = list[m].arxiv /\ list[l].doi # list[m].doi
              \/ list[m].source = "arxiv"
          BY <1>5, <3>3, <4>3, <4>5, <5>1 DEF BothIds
        <5>3. list[m].source = "arxiv" => c.source = "arxiv"
          BY <1>1 DEF Ordered
        <5> QED
          BY <1>1, <3>4, <4>3, <4>5, <5>2, <5>3
      <4> QED
        BY <4>4, <4>5
    <3>6. CASE ArxivKey(c) \notin DOMAIN s.byKey
      <4>1. ToSet(Keys(c)) \cap DOMAIN s.byKey = {}
        BY <1>1, <1>5, <3>3, <3>6, KeysSet
      <4>2. s.papers[i].source # c.source
        BY <1>1, <3>1, <4>1, MatchIs
      <4>3. PICK m \in 1 .. n - 1 : list[m].source = s.papers[i].source
        BY <3>1 DEF FromList
      <4>4. list[m].source \in Sources /\ c.source \in Sources
        <5>1. list[m] \in Paper
          BY <1>1 DEF Ordered
        <5> QED
          BY <1>1, <5>1 DEF Paper
      <4>5. c.source = "arxiv"
        BY <1>1, <4>2, <4>3, <4>4 DEF Sources, Ordered
      <4> QED
        BY <3>4, <4>5
    <3> QED
      BY <3>5, <3>6
  <2> QED
    BY <2>1, <2>2
<1>6. ASSUME NEW m \in 1 .. n, list[m].doi # None /\ list[m].arxiv # None
      PROVE  \/ DoiKey(list[m]) \in DOMAIN t.byKey /\ t.papers[t.byKey[DoiKey(list[m])]].arxiv # None
             \/ \E l \in 1 .. n : list[l].arxiv = list[m].arxiv /\ list[l].doi # list[m].doi
             \/ list[m].source = "arxiv" /\ DoiKey(list[m]) \notin DOMAIN t.byKey
  <2>1. m \in 1 .. n - 1 \/ m = n
    OBVIOUS
  <2> QED
    BY <1>4, <1>5, <1>6, <2>1
<1> QED
  BY <1>6, Zenon DEF BothIds

\* Apart is kept: two papers share an arXiv ID only through a candidate that joined.
LEMMA EnterApart ==
  ASSUME NEW s \in States, NEW list, Ordered(list), NEW n \in 1 .. Len(list),
         Registered(s), Named(s), FromList(list, n - 1, s), BothIds(list, n - 1, s),
         Apart(list, n - 1, s)
  PROVE  Apart(list, n, Enter(s, list[n]))
<1> DEFINE c == list[n]
           t == Enter(s, c)
           i == Joined(s, c)
           q == t.papers[i]
<1>1. c \in Paper /\ n \in 1 .. n /\ \A m \in 1 .. n - 1 : m \in 1 .. n
  BY DEF Ordered
<1>2. ASSUME NEW j \in 1 .. Len(t.papers), j # i, t.papers[j].arxiv = q.arxiv, q.arxiv # None
      PROVE  \E k \in 1 .. n : Joins(list, k, q.arxiv)
  <2>1. j \in 1 .. Len(s.papers) /\ t.papers[j] = s.papers[j] /\ j # Match(s, c)
    BY <1>1, <1>2, Others
  <2>2. s.papers[j] \in Paper /\ s.papers[j].arxiv = q.arxiv
    BY <1>1, <1>2, <2>1, EnterKeeps
  <2>3. ArxivKey(s.papers[j]) = ArxivKey(q) /\ ArxivKey(q) \in DOMAIN s.byKey
    BY <1>2, <2>1, <2>2, KeysSet, KeysEqual DEF Registered
  <2>4. CASE Match(s, c) = 0
    <3>1. q = c
      BY <1>1, <2>4, EnterIs
    <3>2. ArxivKey(c) \in ToSet(Keys(c)) \cap DOMAIN s.byKey
      BY <1>1, <1>2, <2>3, <3>1, KeysSet
    <3> QED
      BY <1>1, <2>4, <3>2, MatchIs
  <2>5. CASE Match(s, c) # 0
    <3>1. i = Match(s, c) /\ i \in 1 .. Len(s.papers)
      BY <1>1, <2>5, EnterIs
    <3>2. CASE s.papers[i].arxiv # None
      <4>1. s.papers[i].arxiv = q.arxiv
        BY <1>1, <3>1, <3>2, EnterKeeps
      <4>2. PICK k \in 1 .. n - 1 : Joins(list, k, s.papers[i].arxiv)
        BY <1>2, <2>1, <2>2, <3>1, <3>2, <4>1 DEF Apart
      <4> QED
        BY <1>1, <4>1, <4>2
    <3>3. CASE s.papers[i].arxiv = None
      <4>1. q.arxiv = c.arxiv /\ c.arxiv # None
        BY <1>1, <1>2, <3>1, <3>3, EnterKeeps
      <4>2. ArxivKey(c) \in DOMAIN s.byKey
        BY <2>3, <4>1, KeysEqual
      <4>3. s.papers[s.byKey[ArxivKey(c)]].arxiv = c.arxiv
        BY <4>2, KeyParts DEF Named
      <4>4. c.doi # None /\ DoiKey(c) \in DOMAIN s.byKey
        <5> SUFFICES ASSUME c.doi # None => DoiKey(c) \notin DOMAIN s.byKey PROVE FALSE
          OBVIOUS
        <5>1. Match(s, c) = s.byKey[ArxivKey(c)]
          BY <1>1, <4>1, <4>2, MatchIs
        <5> QED
          BY <3>1, <3>3, <4>1, <4>3, <5>1
      <4>5. s.byKey[DoiKey(c)] = i
        BY <1>1, <3>1, <4>4, MatchIs
      <4>6. s.papers[i].doi = c.doi
        BY <4>4, <4>5, KeyParts DEF Named
      <4>7. PICK alone \in 1 .. n - 1 : list[alone].doi = c.doi /\ list[alone].arxiv = None
        BY <3>1, <3>3, <4>4, <4>6 DEF FromList
      <4>8. PICK m \in 1 .. n - 1 : list[m].arxiv = c.arxiv
        BY <1>2, <2>1, <2>2, <4>1 DEF FromList
      <4>9. \E l \in 1 .. n - 1 : list[l].arxiv = c.arxiv /\ list[l].doi # c.doi
        <5>1. CASE list[m].doi # c.doi
          BY <4>8, <5>1
        <5>2. CASE list[m].doi = c.doi
          <6>1. DoiKey(list[m]) = DoiKey(c)
            BY <5>2, KeysEqual
          <6> QED
            BY <3>3, <4>1, <4>4, <4>5, <4>8, <5>2, <6>1 DEF BothIds
        <5> QED
          BY <5>1, <5>2
      <4>10. Joins(list, n, c.arxiv)
        BY <4>1, <4>4, <4>7, <4>9 DEF Joins
      <4> QED
        BY <1>1, <4>1, <4>10
    <3> QED
      BY <3>2, <3>3
  <2> QED
    BY <2>4, <2>5
<1>3. ASSUME NEW j \in 1 .. Len(t.papers), NEW k \in 1 .. Len(t.papers), j # k,
             t.papers[j].arxiv # None, t.papers[j].arxiv = t.papers[k].arxiv
      PROVE  \E l \in 1 .. n : Joins(list, l, t.papers[j].arxiv)
  <2>1. CASE j = i
    BY <1>2, <1>3, <2>1
  <2>2. CASE k = i
    BY <1>2, <1>3, <2>2
  <2>3. CASE j # i /\ k # i
    <3>1. /\ j \in 1 .. Len(s.papers) /\ t.papers[j] = s.papers[j]
          /\ k \in 1 .. Len(s.papers) /\ t.papers[k] = s.papers[k]
      BY <1>1, <2>3, Others
    <3>2. PICK l \in 1 .. n - 1 : Joins(list, l, s.papers[j].arxiv)
      BY <1>3, <3>1 DEF Apart
    <3> QED
      BY <1>1, <3>1, <3>2
  <2> QED
    BY <2>1, <2>2, <2>3
<1> QED
  BY <1>3, Zenon DEF Apart

\* Identified is kept: no two papers are the same one of the same source.
LEMMA EnterIdentified ==
  ASSUME NEW s \in States, NEW list, Ordered(list), NEW n \in 1 .. Len(list),
         Identified(list, n - 1, s)
  PROVE  Identified(list, n, Enter(s, list[n]))
<1> DEFINE c == list[n]
           t == Enter(s, c)
           i == Joined(s, c)
           q == t.papers[i]
<1>1. /\ c \in Paper /\ n \in 1 .. n
      /\ \A m \in 1 .. n - 1 : m \in 1 .. n /\ m \in 1 .. Len(list)
  BY DEF Ordered
<1>2. DOMAIN t.byKey = DOMAIN s.byKey \cup ToSet(Keys(q))
  BY <1>1, EnterIs
<1>3. ASSUME NEW j \in 1 .. Len(s.papers)
      PROVE  /\ t.papers[j].source = s.papers[j].source /\ t.papers[j].ext = s.papers[j].ext
             /\ \E m \in 1 .. n - 1 : /\ list[m].source = s.papers[j].source
                                      /\ list[m].ext = s.papers[j].ext
                                      /\ ToSet(Keys(list[m])) \subseteq DOMAIN s.byKey
  BY <1>1, EnterKeeps DEF Identified
<1>4. ASSUME NEW j \in 1 .. Len(t.papers), j \notin 1 .. Len(s.papers)
      PROVE  j = i /\ q = c /\ Match(s, c) = 0
  <2>1. j = i
    BY <1>1, <1>4, Others
  <2>2. Match(s, c) = 0
    BY <1>1, <1>4, <2>1, EnterIs
  <2> QED
    BY <1>1, <2>1, <2>2, EnterIs
<1>5. ASSUME NEW j \in 1 .. Len(t.papers)
      PROVE  \E m \in 1 .. n : /\ list[m].source = t.papers[j].source
                               /\ list[m].ext = t.papers[j].ext
                               /\ ToSet(Keys(list[m])) \subseteq DOMAIN t.byKey
  <2>1. CASE j \in 1 .. Len(s.papers)
    BY <1>1, <1>2, <1>3, <2>1
  <2>2. CASE j \notin 1 .. Len(s.papers)
    BY <1>1, <1>2, <1>4, <2>2
  <2> QED
    BY <2>1, <2>2
<1>6. ASSUME NEW j \in 1 .. Len(s.papers), Match(s, c) = 0,
             s.papers[j].source = c.source, s.papers[j].ext = c.ext
      PROVE  FALSE
  <2>1. PICK m \in 1 .. n - 1 : /\ list[m].source = s.papers[j].source
                                /\ list[m].ext = s.papers[j].ext
                                /\ ToSet(Keys(list[m])) \subseteq DOMAIN s.byKey
    BY <1>3
  <2>2. list[m] = c
    BY <1>1, <1>6, <2>1 DEF Ordered
  <2> QED
    BY <1>1, <1>6, <2>1, <2>2, MatchIs, KeysSet
<1>7. ASSUME NEW j \in 1 .. Len(t.papers), NEW k \in 1 .. Len(t.papers),
             t.papers[j].source = t.papers[k].source, t.papers[j].ext = t.papers[k].ext
      PROVE  j = k
  <2>1. CASE j \in 1 .. Len(s.papers) /\ k \in 1 .. Len(s.papers)
    BY <1>3, <1>7, <2>1 DEF Identified
  <2>2. CASE j \in 1 .. Len(s.papers) /\ k \notin 1 .. Len(s.papers)
    BY <1>3, <1>4, <1>6, <1>7, <2>2
  <2>3. CASE j \notin 1 .. Len(s.papers) /\ k \in 1 .. Len(s.papers)
    BY <1>3, <1>4, <1>6, <1>7, <2>3
  <2>4. CASE j \notin 1 .. Len(s.papers) /\ k \notin 1 .. Len(s.papers)
    BY <1>4, <2>4
  <2> QED
    BY <2>1, <2>2, <2>3, <2>4
<1> QED
  BY <1>5, <1>7, Zenon DEF Identified

\* What all of a discovery's candidates are reconciled to.
LEMMA Reconciling ==
  ASSUME NEW list, Ordered(list)
  PROVE  LET s == FoldLeft(Enter, Start, list)
         IN  /\ s \in States /\ Registered(s) /\ Apart(list, Len(list), s)
             /\ Identified(list, Len(list), s)
<1>1. list \in Seq(Paper) /\ Len(list) \in Nat
  BY DEF Ordered
<1>2. Start \in States
  <2>1. <<>> \in UNION {[some -> Nat] : some \in SUBSET AllKeys}
    BY SMTT(30)
  <2>2. <<>> \in UNION {[some -> Seq(Nat)] : some \in SUBSET Texts("title")}
    <3>1. <<>> \in [{} -> Seq(Nat)] /\ {} \in SUBSET Texts("title")
      OBVIOUS
    <3> QED
      BY <3>1
  <2>3. <<>> \in Seq(Paper) /\ DOMAIN <<>> = {}
    OBVIOUS
  <2> QED
    BY <2>1, <2>2, <2>3 DEF Start, States
<1>3. \A s \in States, c \in Paper : Enter(s, c) \in States
  BY EnterIs
<1>4. PICK st \in [0 .. Len(list) -> States] :
           /\ st[0] = Start
           /\ \A n \in 1 .. Len(list) : st[n] = Enter(st[n - 1], list[n])
           /\ st[Len(list)] = FoldLeft(Enter, Start, list)
  BY <1>1, <1>2, <1>3, EnterFold
<1> DEFINE Good == {n \in 0 .. Len(list) :
             /\ Registered(st[n]) /\ Named(st[n]) /\ FromList(list, n, st[n])
             /\ BothIds(list, n, st[n]) /\ Apart(list, n, st[n]) /\ Identified(list, n, st[n])}
<1>5. 0 \in Good
  <2>1. Start.papers = <<>> /\ DOMAIN Start.byKey = {} /\ Len(<<>>) = 0 /\ 1 .. 0 = {}
    BY DEF Start
  <2>2. /\ Registered(Start) /\ Named(Start) /\ FromList(list, 0, Start)
        /\ BothIds(list, 0, Start) /\ Apart(list, 0, Start) /\ Identified(list, 0, Start)
    BY <2>1 DEF Registered, Named, FromList, BothIds, Apart, Identified
  <2> QED
    BY <1>1, <1>4, <2>2
<1>6. ASSUME NEW n \in 1 .. Len(list), n - 1 \in Good PROVE n \in Good
  <2>1. n - 1 \in 0 .. Len(list) /\ n \in 0 .. Len(list) /\ list[n] \in Paper
    BY <1>1
  <2> DEFINE s == st[n - 1]
  <2>2. /\ s \in States /\ Registered(s) /\ Named(s) /\ FromList(list, n - 1, s)
        /\ BothIds(list, n - 1, s) /\ Apart(list, n - 1, s) /\ Identified(list, n - 1, s)
    BY <1>4, <1>6, <2>1
  <2>3. st[n] = Enter(s, list[n])
    BY <1>4
  <2> HIDE DEF s
  <2>4. /\ Registered(st[n]) /\ Named(st[n]) /\ FromList(list, n, st[n])
        /\ BothIds(list, n, st[n]) /\ Apart(list, n, st[n]) /\ Identified(list, n, st[n])
    BY <1>1, <2>1, <2>2, <2>3, EnterRegistered, EnterNamed, EnterFromList, EnterBothIds, EnterApart,
       EnterIdentified
  <2> QED
    BY <2>1, <2>4
<1> HIDE DEF Good
<1>7. 0 .. Len(list) \subseteq Good
  BY <1>1, <1>5, <1>6, Upwards
<1> QED
  BY <1>1, <1>4, <1>7 DEF Good

-------------------------------------------------------------------------------
(* The candidates of a discovery *)

\* The function that FoldLeft of Collect chooses.
CollectIter(list, iter) == iter = [s \in SUBSET DOMAIN list |->
                 IF s = {} THEN <<>> ELSE Collect(iter[s \ {Max(s)}], list[Max(s)])]

\* FoldLeft of Collect goes through a list of lists, one for every answer.
LEMMA CollectFold ==
  ASSUME NEW R, NEW S, <<>> \in R, \A r \in R, c \in S : Collect(r, c) \in R, NEW list \in Seq(S)
  PROVE  \E st \in [0 .. Len(list) -> R] :
           /\ st[0] = <<>>
           /\ \A n \in 1 .. Len(list) : st[n] = Collect(st[n - 1], list[n])
           /\ st[Len(list)] = FoldLeft(Collect, <<>>, list)
<1> DEFINE step == [x \in R \X S |-> Collect(x[1], x[2])]
           it == CHOOSE iter : CollectIter(list, iter)
           st == [n \in 0 .. Len(list) |-> it[1 .. n]]
<1>1. step \in [R \X S -> R]
  OBVIOUS
<1>2. PICK f \in [SUBSET DOMAIN list -> R] : Folding(f, <<>>, step, list)
  BY <1>1, FoldingExists
<1>3. Len(list) \in Nat /\ DOMAIN list = 1 .. Len(list)
  OBVIOUS
<1>4. CollectIter(list, f)
  <2>1. ASSUME NEW s \in SUBSET DOMAIN list, s # {}
        PROVE  step[<<f[s \ {Max(s)}], list[Max(s)]>>] = Collect(f[s \ {Max(s)}], list[Max(s)])
    <3>1. Max(s) \in DOMAIN list
      BY <1>3, <2>1, MaxOf
    <3>2. list[Max(s)] \in S
      BY <3>1
    <3>3. f[s \ {Max(s)}] \in R
      OBVIOUS
    <3> QED
      BY <3>2, <3>3
  <2> HIDE DEF step
  <2>2. \A s \in SUBSET DOMAIN list :
          f[s] = IF s = {} THEN <<>> ELSE Collect(f[s \ {Max(s)}], list[Max(s)])
    BY <1>2, <2>1 DEF Folding
  <2>3. f = [s \in SUBSET DOMAIN list |-> f[s]]
    OBVIOUS
  <2> QED
    BY <2>2, <2>3, Zenon DEF CollectIter
<1>5. CollectIter(list, it)
  BY <1>4
<1>6. FoldLeft(Collect, <<>>, list) = it[DOMAIN list]
  BY Zenon DEF FoldLeft, MapThenFoldSet, CollectIter
<1> HIDE DEF it
<1>7. st[0] = <<>>
  <2>1. 1 .. 0 = {} /\ {} \in SUBSET DOMAIN list
    OBVIOUS
  <2>2. it[{}] = <<>>
    BY <1>5, <2>1 DEF CollectIter
  <2> QED
    BY <2>1, <2>2, <1>3
<1>8. ASSUME NEW n \in 1 .. Len(list)
      PROVE  st[n] = Collect(st[n - 1], list[n])
  <2>1. 1 .. n \in SUBSET DOMAIN list /\ 1 .. n # {} /\ n \in Nat \ {0} /\ n - 1 \in 0 .. Len(list)
    <3>1. n \in Nat \ {0} /\ n - 1 \in 0 .. Len(list) /\ n \in 1 .. n
      BY <1>3
    <3>2. 1 .. n \subseteq 1 .. Len(list)
      BY <1>3
    <3> QED
      BY <1>3, <3>1, <3>2
  <2>2. it[1 .. n] = Collect(it[(1 .. n) \ {Max(1 .. n)}], list[Max(1 .. n)])
    BY <1>5, <2>1, Zenon DEF CollectIter
  <2>3. it[1 .. n] = Collect(it[1 .. n - 1], list[n])
    BY <2>1, <2>2, MaxUpto
  <2> QED
    BY <2>1, <2>3
<1>9. \A n \in 0 .. Len(list) : st[n] \in R
  <2> DEFINE Good == {n \in 0 .. Len(list) : st[n] \in R}
  <2>1. 0 \in Good
    BY <1>3, <1>7
  <2>2. ASSUME NEW n \in 1 .. Len(list), n - 1 \in Good PROVE n \in Good
    <3>1. st[n - 1] \in R /\ list[n] \in S
      BY <2>2
    <3>2. st[n] \in R
      BY <1>8, <3>1
    <3>3. n \in 0 .. Len(list)
      BY <1>3
    <3> QED
      BY <3>2, <3>3
  <2> HIDE DEF Good
  <2>3. 0 .. Len(list) \subseteq Good
    BY <1>3, <2>1, <2>2, Upwards
  <2> QED
    BY <2>3 DEF Good
<1>10. st[Len(list)] = FoldLeft(Collect, <<>>, list)
  BY <1>3, <1>6
<1>11. st \in [0 .. Len(list) -> R]
  BY <1>9
<1> HIDE DEF st
<1> QED
  BY <1>7, <1>8, <1>10, <1>11

\* What the sources know are papers, each by one record.
LEMMA KnownPapers ==
  /\ Known \subseteq Paper
  /\ \A p \in Known : Id(p) \in PaperIds
  /\ \A p \in Known : p.source = "arxiv" => p.arxiv # None
  /\ \A p, q \in Known : p.source = q.source /\ p.ext = q.ext => p = q
<1>1. ASSUME NEW source \in Sources, NEW p \in Offers[source]
      PROVE  /\ p.source = source /\ p \in Paper /\ p \in Known
             /\ source = "arxiv" => p.arxiv # None
  <2>1. p \in Known
    BY DEF Sources, Known
  <2>2. p = [source |-> source, ext |-> p.ext, doi |-> p.doi, arxiv |-> p.arxiv,
             title |-> p.title, authors |-> p.authors]
    BY OffersAssumption
  <2>3. /\ p.ext \in Exts /\ p["doi"] \in Texts("doi") /\ p["arxiv"] \in Texts("arxiv")
        /\ p["title"] \in Texts("title") /\ p.authors \subseteq UNION {x.authors : x \in Known}
    BY <2>1 DEF Exts, Texts
  <2>4. source = "arxiv" => p.arxiv # None
    BY OffersAssumption
  <2>5. p.source = source
    BY <2>2
  <2>6. p \in Paper
    <3> DEFINE e == p.ext
               d == p.doi
               a == p.arxiv
               t == p.title
               u == p.authors
    <3>1. /\ e \in Exts /\ d \in Texts("doi") /\ a \in Texts("arxiv") /\ t \in Texts("title")
          /\ u \in SUBSET UNION {x.authors : x \in Known}
      BY <2>3
    <3>2. p = [source |-> source, ext |-> e, doi |-> d, arxiv |-> a, title |-> t, authors |-> u]
      BY <2>2
    <3> HIDE DEF e, d, a, t, u
    <3> QED
      BY <3>1, <3>2 DEF Paper
  <2> QED
    BY <2>1, <2>4, <2>5, <2>6
<1>2. \A p \in Known : \E source \in Sources : p \in Offers[source]
  BY DEF Known, Sources
<1>3. \A p \in Known : Id(p) \in PaperIds
  BY DEF Known, PaperIds
<1>4. ASSUME NEW p \in Known, NEW q \in Known, p.source = q.source, p.ext = q.ext
      PROVE  p = q
  <2>1. PICK source \in Sources : p \in Offers[source] /\ q \in Offers[source]
    BY <1>1, <1>2, <1>4
  <2> QED
    BY <1>4, <2>1, OffersAssumption
<1> QED
  BY <1>1, <1>2, <1>3, <1>4

\* Papers of arXiv come last.
ByStages(list) ==
  \A m, n \in 1 .. Len(list) : m < n /\ list[m].source = "arxiv" => list[n].source = "arxiv"

\* The candidates come from the sources, those of Semantic Scholar first.
LEMMA CandidatesOrdered ==
  ASSUME NEW asked \in Answered
  PROVE  Ordered(Candidates(asked)) /\ Candidates(asked) \in Seq(Known)
<1> DEFINE A == asked["semantic_scholar"]
           B == asked["arxiv"]
           S == {Failed} \cup Seq(Known)
           R == Seq(Known)
           list == A \o B
<1>1. /\ A \in Seq({Failed} \cup Seq(Offers["semantic_scholar"]))
      /\ B \in Seq({Failed} \cup Seq(Offers["arxiv"]))
  BY DEF Answered
<1>2. Len(A) \in Nat /\ Len(B) \in Nat
  BY <1>1
<1>3. Seq(Offers["semantic_scholar"]) \subseteq Seq(Known) /\ Seq(Offers["arxiv"]) \subseteq Seq(Known)
  BY SeqMonotonic DEF Known
<1>4. A \in Seq(S) /\ B \in Seq(S)
  <2>1. {Failed} \cup Seq(Offers["semantic_scholar"]) \subseteq S /\ {Failed} \cup Seq(Offers["arxiv"]) \subseteq S
    BY <1>3
  <2> HIDE DEF A, B, S
  <2> QED
    BY <1>1, <2>1, SeqMonotonic
<1>5. /\ list \in Seq(S) /\ Len(list) = Len(A) + Len(B)
      /\ \A n \in 1 .. Len(list) : list[n] = IF n <= Len(A) THEN A[n] ELSE B[n - Len(A)]
  <2> HIDE DEF A, B, S
  <2> QED
    BY <1>4, ConcatProperties
<1> HIDE DEF A, B, list
<1>6. ASSUME NEW n \in 1 .. Len(list)
      PROVE  IF n <= Len(A) THEN list[n] \in {Failed} \cup Seq(Offers["semantic_scholar"])
                            ELSE list[n] \in {Failed} \cup Seq(Offers["arxiv"])
  <2>1. CASE n <= Len(A)
    BY <1>1, <1>2, <1>5, <2>1
  <2>2. CASE ~(n <= Len(A))
    <3>1. n - Len(A) \in 1 .. Len(B)
      BY <1>2, <1>5, <2>2
    <3>2. B[n - Len(A)] \in {Failed} \cup Seq(Offers["arxiv"])
      BY <1>1, <3>1
    <3> QED
      BY <1>5, <2>2, <3>2
  <2> QED
    BY <2>1, <2>2
<1>7. <<>> \in R /\ \A r \in R, c \in S : Collect(r, c) \in R
  <2>1. \A r \in R, c \in R : r \o c \in R
    OBVIOUS
  <2>2. <<>> \in R
    OBVIOUS
  <2> HIDE DEF R
  <2>3. \A r \in R, c \in S : c = Failed \/ c \in R
    BY DEF R
  <2> QED
    BY <2>1, <2>2, <2>3 DEF Collect
<1>8. PICK st \in [0 .. Len(list) -> R] :
           /\ st[0] = <<>>
           /\ \A n \in 1 .. Len(list) : st[n] = Collect(st[n - 1], list[n])
           /\ st[Len(list)] = FoldLeft(Collect, <<>>, list)
  <2> HIDE DEF R, S
  <2> QED
    BY <1>5, <1>7, CollectFold
<1> DEFINE Good == {n \in 0 .. Len(list) :
             /\ n <= Len(A) => st[n] \in Seq(Offers["semantic_scholar"])
             /\ ByStages(st[n])}
<1>9. 0 \in Good
  <2>1. <<>> \in Seq(Offers["semantic_scholar"]) /\ Len(<<>>) = 0 /\ 1 .. 0 = {}
    OBVIOUS
  <2> QED
    BY <1>2, <1>5, <1>8, <2>1 DEF ByStages
<1>10. ASSUME NEW n \in 1 .. Len(list), n - 1 \in Good PROVE n \in Good
  <2>1. n - 1 \in 0 .. Len(list) /\ n \in 0 .. Len(list)
    BY <1>2, <1>5
  <2> DEFINE r == st[n - 1]
  <2>2. r \in Seq(Known) /\ ByStages(r) /\ (n - 1 <= Len(A) => r \in Seq(Offers["semantic_scholar"]))
    BY <1>8, <1>10, <2>1
  <2>3. st[n] = Collect(r, list[n])
    BY <1>8
  <2> HIDE DEF r
  <2>4. CASE list[n] = Failed
    <3>1. st[n] = r
      BY <2>3, <2>4 DEF Collect
    <3>2. n <= Len(A) => n - 1 <= Len(A)
      BY <1>2, <2>1
    <3> QED
      BY <2>1, <2>2, <3>1, <3>2
  <2>5. CASE list[n] # Failed /\ n <= Len(A)
    <3>1. n - 1 <= Len(A)
      BY <1>2, <2>5
    <3>2. list[n] \in Seq(Offers["semantic_scholar"])
      BY <1>6, <2>5
    <3>3. st[n] \in Seq(Offers["semantic_scholar"])
      <4>1. st[n] = r \o list[n]
        BY <2>3, <2>5 DEF Collect
      <4> QED
        BY <2>2, <3>1, <3>2, <4>1, ConcatProperties
    <3>4. \A m \in 1 .. Len(st[n]) : st[n][m].source = "semantic_scholar"
      BY <3>3, OffersAssumption DEF Sources
    <3>5. ByStages(st[n])
      BY <3>4 DEF ByStages
    <3> QED
      BY <2>1, <3>3, <3>5
  <2>6. CASE list[n] # Failed /\ ~(n <= Len(A))
    <3>1. list[n] \in Seq(Offers["arxiv"])
      BY <1>6, <2>6
    <3>2. list[n] \in Seq(Known)
      BY <1>3, <3>1
    <3> DEFINE a == list[n]
    <3>3. st[n] = r \o a
      BY <2>3, <2>6 DEF Collect
    <3>4. \A m \in 1 .. Len(a) : a[m].source = "arxiv"
      BY <3>1, OffersAssumption DEF Sources
    <3>5. Len(r) \in Nat /\ Len(a) \in Nat
      BY <2>2, <3>2
    <3>6. /\ Len(r \o a) = Len(r) + Len(a)
          /\ \A i \in 1 .. Len(r) + Len(a) : (r \o a)[i] = IF i <= Len(r) THEN r[i] ELSE a[i - Len(r)]
      BY <2>2, <3>2, ConcatProperties
    <3> HIDE DEF a
    <3>7. ASSUME NEW k \in 1 .. Len(r \o a), NEW m \in 1 .. Len(r \o a), k < m,
                 (r \o a)[k].source = "arxiv"
          PROVE  (r \o a)[m].source = "arxiv"
      <4>1. CASE m <= Len(r)
        <5>1. k \in 1 .. Len(r) /\ m \in 1 .. Len(r)
          BY <3>5, <3>6, <3>7, <4>1
        <5>2. (r \o a)[k] = r[k] /\ (r \o a)[m] = r[m]
          BY <3>5, <3>6, <5>1
        <5> QED
          BY <2>2, <3>7, <5>1, <5>2 DEF ByStages
      <4>2. CASE ~(m <= Len(r))
        <5>1. m - Len(r) \in 1 .. Len(a)
          BY <3>5, <3>6, <4>2
        <5> QED
          BY <3>4, <3>5, <3>6, <4>2, <5>1
      <4> QED
        BY <4>1, <4>2
    <3>8. ByStages(st[n])
      BY <3>3, <3>7 DEF ByStages
    <3> QED
      BY <2>1, <2>6, <3>8
  <2> QED
    BY <2>4, <2>5, <2>6
<1> HIDE DEF Good
<1>11. 0 .. Len(list) \subseteq Good
  <2>1. Len(list) \in Nat
    BY <1>2, <1>5
  <2> QED
    BY <1>9, <1>10, <2>1, Upwards
<1>12. Candidates(asked) \in Seq(Known) /\ ByStages(Candidates(asked))
  <2>1. Len(list) \in 0 .. Len(list)
    BY <1>2, <1>5
  <2>2. Candidates(asked) = st[Len(list)]
    BY <1>8 DEF Candidates, list, A, B
  <2>3. st[Len(list)] \in R
    BY <1>8, <2>1
  <2> QED
    BY <1>11, <2>1, <2>2, <2>3 DEF Good
<1>13. /\ Known \subseteq Paper
       /\ \A p \in Known : p.source = "arxiv" => p.arxiv # None
       /\ \A p, q \in Known : p.source = q.source /\ p.ext = q.ext => p = q
  BY KnownPapers
<1>14. Candidates(asked) \in Seq(Paper)
  BY <1>12, <1>13, SeqMonotonic
<1>15. \A n \in 1 .. Len(Candidates(asked)) : Candidates(asked)[n] \in Known
  BY <1>12
<1> QED
  BY <1>12, <1>13, <1>14, <1>15 DEF Ordered, ByStages

-------------------------------------------------------------------------------
(* The stages and their lists *)

\* The inductive invariant.
IInv == /\ Types /\ AtStage /\ ItemsInHand /\ Discovery /\ JobsInv /\ AnalysesInv /\ GapsInv
        /\ DirectionsInv /\ ReportInv

\* The stages in their order.
LEMMA DonesDiffer ==
  /\ D0 # D1 /\ D0 # D2 /\ D0 # D3 /\ D0 # D4 /\ D0 # D5 /\ D0 # D6
  /\ D1 # D2 /\ D1 # D3 /\ D1 # D4 /\ D1 # D5 /\ D1 # D6
  /\ D2 # D3 /\ D2 # D4 /\ D2 # D5 /\ D2 # D6
  /\ D3 # D4 /\ D3 # D5 /\ D3 # D6 /\ D4 # D5 /\ D4 # D6 /\ D5 # D6
  BY DEF D0, D1, D2, D3, D4, D5, D6

\* A stage that completes is the next one.
LEMMA DonesGrow ==
  /\ D0 \cup {"paper_discovery"} = D1 /\ D1 \cup {"ranking"} = D2
  /\ D2 \cup {"paper_analysis"} = D3 /\ D3 \cup {"gap_detection"} = D4
  /\ D4 \cup {"feasibility_evaluation"} = D5 /\ D5 \cup {"report_generation"} = D6
  BY DEF D0, D1, D2, D3, D4, D5, D6

\* The upcoming stage is the first that is not done.
LEMMA UpcomingIs ==
  /\ done = D0 => Remaining # {} /\ Upcoming = "paper_discovery"
  /\ done = D1 => Remaining # {} /\ Upcoming = "ranking"
  /\ done = D2 => Remaining # {} /\ Upcoming = "paper_analysis"
  /\ done = D3 => Remaining # {} /\ Upcoming = "gap_detection"
  /\ done = D4 => Remaining # {} /\ Upcoming = "feasibility_evaluation"
  /\ done = D5 => Remaining # {} /\ Upcoming = "report_generation"
  /\ done = D6 => Remaining = {}
<1>1. /\ DOMAIN Stages = 1 .. 6 /\ Stages[1] = "paper_discovery" /\ Stages[2] = "ranking"
      /\ Stages[3] = "paper_analysis" /\ Stages[4] = "gap_detection"
      /\ Stages[5] = "feasibility_evaluation" /\ Stages[6] = "report_generation"
  BY DEF Stages
<1>2. Remaining \subseteq 1 .. 6 /\ \A n \in 1 .. 6 : n \in Remaining <=> Stages[n] \notin done
  BY <1>1 DEF Remaining
<1>3. ASSUME NEW k \in 1 .. 6, k \in Remaining, \A n \in 1 .. k - 1 : n \notin Remaining
      PROVE  Upcoming = Stages[k]
  <2>1. Remaining \subseteq Nat /\ Remaining # {}
    BY <1>2, <1>3
  <2>2. Min(Remaining) \in Remaining /\ \A n \in Remaining : Min(Remaining) <= n
    BY <2>1, MinOf
  <2>3. PICK n : n = Min(Remaining)
    OBVIOUS
  <2>4. n \in 1 .. 6 /\ n <= k /\ n \in Remaining
    BY <1>2, <1>3, <2>2, <2>3
  <2>5. n = k
    BY <1>3, <2>4
  <2> QED
    BY <2>3, <2>5 DEF Upcoming
<1>4. \A n \in 1 .. 6 : n \in {1, 2, 3, 4, 5, 6}
  OBVIOUS
<1>5. ASSUME done = D0 PROVE Remaining # {} /\ Upcoming = "paper_discovery"
  <2>1. 1 \in Remaining /\ \A n \in 1 .. 1 - 1 : n \notin Remaining
    BY <1>1, <1>2, <1>5 DEF D0
  <2> QED
    BY <1>1, <1>3, <2>1
<1>6. ASSUME done = D1 PROVE Remaining # {} /\ Upcoming = "ranking"
  <2>1. 2 \in Remaining /\ \A n \in 1 .. 2 - 1 : n \notin Remaining
    BY <1>1, <1>2, <1>6 DEF D1
  <2> QED
    BY <1>1, <1>3, <2>1
<1>7. ASSUME done = D2 PROVE Remaining # {} /\ Upcoming = "paper_analysis"
  <2>1. 3 \in Remaining /\ \A n \in 1 .. 3 - 1 : n \notin Remaining
    <3>1. \A n \in 1 .. 3 - 1 : n \in {1, 2}
      OBVIOUS
    <3> QED
      BY <1>1, <1>2, <1>7, <3>1 DEF D2
  <2> QED
    BY <1>1, <1>3, <2>1
<1>8. ASSUME done = D3 PROVE Remaining # {} /\ Upcoming = "gap_detection"
  <2>1. 4 \in Remaining /\ \A n \in 1 .. 4 - 1 : n \notin Remaining
    <3>1. \A n \in 1 .. 4 - 1 : n \in {1, 2, 3}
      OBVIOUS
    <3> QED
      BY <1>1, <1>2, <1>8, <3>1 DEF D3
  <2> QED
    BY <1>1, <1>3, <2>1
<1>9. ASSUME done = D4 PROVE Remaining # {} /\ Upcoming = "feasibility_evaluation"
  <2>1. 5 \in Remaining /\ \A n \in 1 .. 5 - 1 : n \notin Remaining
    <3>1. \A n \in 1 .. 5 - 1 : n \in {1, 2, 3, 4}
      OBVIOUS
    <3> QED
      BY <1>1, <1>2, <1>9, <3>1 DEF D4
  <2> QED
    BY <1>1, <1>3, <2>1
<1>10. ASSUME done = D5 PROVE Remaining # {} /\ Upcoming = "report_generation"
  <2>1. 6 \in Remaining /\ \A n \in 1 .. 6 - 1 : n \notin Remaining
    <3>1. \A n \in 1 .. 6 - 1 : n \in {1, 2, 3, 4, 5}
      OBVIOUS
    <3> QED
      BY <1>1, <1>2, <1>10, <3>1 DEF D5
  <2> QED
    BY <1>1, <1>3, <2>1
<1>11. ASSUME done = D6 PROVE Remaining = {}
  BY <1>1, <1>2, <1>4, <1>11 DEF D5, D6
<1> QED
  BY <1>5, <1>6, <1>7, <1>8, <1>9, <1>10, <1>11

\* A stage begins where the stages before it are done.
LEMMA BeginIs ==
  ASSUME Types, Begin
  PROVE  \/ done = D0 /\ pc' = "ask"
         \/ done = D1 /\ pc' = "rank"
         \/ done = D2 /\ pc' = "pending"
         \/ done = D3 /\ pc' = "detect"
         \/ done = D4 /\ pc' = "plan"
         \/ done = D5 /\ pc' = "report"
<1>1. /\ First["paper_discovery"] = "ask" /\ First["ranking"] = "rank"
      /\ First["paper_analysis"] = "pending" /\ First["gap_detection"] = "detect"
      /\ First["feasibility_evaluation"] = "plan" /\ First["report_generation"] = "report"
  BY DEF First
<1>2. Remaining # {} /\ pc' = First[Upcoming]
  BY DEF Begin
<1>3. done \in {D0, D1, D2, D3, D4, D5, D6}
  BY DEF Types
<1> QED
  BY <1>1, <1>2, <1>3, UpcomingIs

\* An end comes when all are done, and the stage a crash cuts off is the upcoming one.
LEMMA EndIs ==
  ASSUME Types, End
  PROVE  done = D6
<1>1. Remaining = {} /\ done \in {D0, D1, D2, D3, D4, D5, D6}
  BY DEF Types, End
<1> QED
  BY <1>1, UpcomingIs

\* What the papers of a discovery are.
LEMMA ReconcileIs ==
  ASSUME NEW asked \in Answered
  PROVE  LET papers == Reconcile(asked)
         IN  /\ papers \in Seq(Paper)
             /\ \A i \in DOMAIN papers : Id(papers[i]) \in PaperIds
             /\ \A i, j \in DOMAIN papers : Id(papers[i]) = Id(papers[j]) => i = j
<1> DEFINE list == Candidates(asked)
           s == FoldLeft(Enter, Start, list)
<1>1. Ordered(list) /\ list \in Seq(Known)
  BY CandidatesOrdered
<1>2. s \in States /\ Identified(list, Len(list), s)
  BY <1>1, Reconciling
<1> HIDE DEF list, s
<1>3. s.papers \in Seq(Paper) /\ DOMAIN s.papers = 1 .. Len(s.papers)
  <2>1. s.papers \in Seq(Paper)
    BY <1>2 DEF States
  <2> QED
    BY <2>1
<1>4. \A i \in DOMAIN s.papers : Id(s.papers[i]) \in PaperIds
  <2>1. ASSUME NEW i \in DOMAIN s.papers PROVE Id(s.papers[i]) \in PaperIds
    <3>1. PICK m \in 1 .. Len(list) : list[m].source = s.papers[i].source /\ list[m].ext = s.papers[i].ext
      BY <1>2, <1>3 DEF Identified
    <3>2. list[m] \in Known
      BY <1>1
    <3> QED
      BY <3>1, <3>2, KnownPapers DEF Id
  <2> QED
    BY <2>1
<1>5. \A i, j \in DOMAIN s.papers : Id(s.papers[i]) = Id(s.papers[j]) => i = j
  BY <1>2, <1>3 DEF Identified, Id
<1>6. Reconcile(asked) = s.papers
  BY DEF Reconcile, s, list
<1> QED
  BY <1>3, <1>4, <1>5, <1>6

\* A list cut to MaxPapers is the beginning of it.
LEMMA CutIs ==
  ASSUME NEW S, NEW papers \in Seq(S)
  PROVE  /\ Cut(papers) \in Seq(S) /\ Len(Cut(papers)) <= Len(papers)
         /\ \A i \in DOMAIN Cut(papers) : i \in DOMAIN papers /\ Cut(papers)[i] = papers[i]
<1> DEFINE n == IF Len(papers) < MaxPapers THEN Len(papers) ELSE MaxPapers
<1>1. Len(papers) \in Nat /\ MaxPapers \in Nat
  BY PapersAssumption
<1>2. n \in Nat /\ n <= Len(papers) /\ \A i \in 1 .. n : papers[i] \in S /\ i \in DOMAIN papers
  BY <1>1
<1> HIDE DEF n
<1>3. /\ SubSeq(papers, 1, n) \in Seq(S) /\ Len(SubSeq(papers, 1, n)) = n
      /\ \A i \in 1 .. n : SubSeq(papers, 1, n)[i] = papers[i]
  <2>1. n - 1 + 1 = n /\ (1 <= n \/ n = 0) /\ \A i \in Nat : 1 + i - 1 = i
    BY <1>2
  <2> QED
    BY <1>2, <2>1, SubSeqProperties
<1>4. Cut(papers) = SubSeq(papers, 1, n)
  BY DEF Cut, n
<1> QED
  BY <1>2, <1>3, <1>4

\* When none of the searches is open, all are answered.
LEMMA AnswersComplete ==
  ASSUME answers \in Answering, \A source \in Sources : None \notin ToSet(answers[source])
  PROVE  answers \in Answered
<1>1. ASSUME NEW O, NEW A \in Seq({None, Failed} \cup Seq(O)), None \notin ToSet(A)
      PROVE  A \in Seq({Failed} \cup Seq(O))
  <2>1. Len(A) \in Nat /\ A \in [1 .. Len(A) -> {None, Failed} \cup Seq(O)] /\ DOMAIN A = 1 .. Len(A)
    OBVIOUS
  <2>2. \A n \in 1 .. Len(A) : A[n] \in {Failed} \cup Seq(O)
    BY <1>1, <2>1 DEF ToSet
  <2>3. A \in [1 .. Len(A) -> {Failed} \cup Seq(O)]
    BY <2>1, <2>2
  <2> QED
    BY <2>1, <2>3, SeqDef
<1>2. /\ answers["semantic_scholar"] \in Seq({None, Failed} \cup Seq(Offers["semantic_scholar"]))
      /\ answers["arxiv"] \in Seq({None, Failed} \cup Seq(Offers["arxiv"]))
      /\ None \notin ToSet(answers["semantic_scholar"]) /\ None \notin ToSet(answers["arxiv"])
      /\ answers = [semantic_scholar |-> answers["semantic_scholar"], arxiv |-> answers["arxiv"]]
  BY DEF Answering, Sources
<1>3. /\ answers["semantic_scholar"] \in Seq({Failed} \cup Seq(Offers["semantic_scholar"]))
      /\ answers["arxiv"] \in Seq({Failed} \cup Seq(Offers["arxiv"]))
  BY <1>1, <1>2
<1> QED
  BY <1>2, <1>3 DEF Answered

\* What the searches of a level are reconciled to.
LEMMA ReconciledIs ==
  ASSUME Discovery, Reconciled
  PROVE  /\ answers' = answers /\ answers \in Answered
         /\ items' = Cut(Reconcile(answers)) /\ items' \in Seq(Paper)
         /\ Ids(items') \subseteq PaperIds
<1>1. answers \in Answered
  BY AnswersComplete DEF Discovery, Reconciled
<1>2. answers' = answers /\ items' = Cut(Reconcile(answers))
  BY DEF Reconciled, Cut
<1>3. /\ Reconcile(answers) \in Seq(Paper)
      /\ \A i \in DOMAIN Reconcile(answers) : Id(Reconcile(answers)[i]) \in PaperIds
  BY <1>1, ReconcileIs
<1>4. /\ Cut(Reconcile(answers)) \in Seq(Paper)
      /\ \A i \in DOMAIN Cut(Reconcile(answers)) : Id(Cut(Reconcile(answers))[i]) \in PaperIds
  BY <1>3, CutIs
<1> QED
  BY <1>1, <1>2, <1>4 DEF Ids

\* The papers of a level have different rows.
LEMMA StoredIs ==
  ASSUME Discovery, pc = "store"
  PROVE  /\ items \in Seq(Paper) /\ Ids(items) \subseteq PaperIds
         /\ \A i, j \in DOMAIN items : Id(items[i]) = Id(items[j]) => i = j
<1> DEFINE papers == Reconcile(answers)
<1>1. answers \in Answered /\ items = Cut(papers)
  BY DEF Discovery
<1>2. /\ papers \in Seq(Paper)
      /\ \A i \in DOMAIN papers : Id(papers[i]) \in PaperIds
      /\ \A i, j \in DOMAIN papers : Id(papers[i]) = Id(papers[j]) => i = j
  BY <1>1, ReconcileIs
<1> HIDE DEF papers
<1>3. /\ items \in Seq(Paper)
      /\ \A i \in DOMAIN items : i \in DOMAIN papers /\ items[i] = papers[i]
  BY <1>1, <1>2, CutIs
<1> QED
  BY <1>2, <1>3 DEF Ids

\* Head and Tail of what is to be handled.
LEMMA TodoIs ==
  ASSUME Types, ItemsInHand, todo # <<>>
  PROVE  /\ Len(todo) \in Nat \ {0} /\ Len(items) \in Nat
         /\ Head(todo) = items[Handled + 1] /\ Handled + 1 \in 1 .. Len(items)
         /\ Tail(todo) \in Seq(Item) /\ Len(Tail(todo)) = Len(todo) - 1
         /\ \A n \in 1 .. Len(todo) - 1 : Tail(todo)[n] = items[Handled + 1 + n]
<1>1. todo \in Seq(Item) /\ items \in Seq(Item) /\ Len(todo) <= Len(items)
  BY DEF Types, ItemsInHand
<1>2. Len(todo) \in Nat \ {0} /\ Len(items) \in Nat /\ Handled \in Nat /\ Handled = Len(items) - Len(todo)
  BY <1>1, EmptySeq DEF Handled
<1> HIDE DEF Handled
<1>3. \A n \in 1 .. Len(todo) : todo[n] = items[Handled + n]
  BY DEF ItemsInHand
<1>4. /\ Tail(todo) \in Seq(Item) /\ Len(Tail(todo)) = Len(todo) - 1
      /\ \A n \in 1 .. Len(Tail(todo)) : Tail(todo)[n] = todo[n + 1]
      /\ Head(todo) = todo[1]
  BY <1>1, HeadTailProperties
<1>5. Head(todo) = items[Handled + 1] /\ Handled + 1 \in 1 .. Len(items)
  BY <1>2, <1>3, <1>4
<1>6. ASSUME NEW n \in 1 .. Len(todo) - 1 PROVE Tail(todo)[n] = items[Handled + 1 + n]
  <2>1. n + 1 \in 1 .. Len(todo) /\ n \in 1 .. Len(Tail(todo)) /\ Handled + (n + 1) = Handled + 1 + n
    BY <1>2, <1>4
  <2> QED
    BY <1>3, <1>4, <2>1
<1> QED
  BY <1>2, <1>4, <1>5, <1>6

\* An order of a finite set lists members of it.
LEMMA OrderedSet ==
  ASSUME NEW S, IsFiniteSet(S), NEW f \in SetToSeqs(S)
  PROVE  f \in Seq(S) /\ Len(f) = Cardinality(S) /\ ToSet(f) \subseteq S
<1>1. Cardinality(S) \in Nat
  BY FS_CardinalityType
<1>2. f \in [1 .. Cardinality(S) -> S]
  BY DEF SetToSeqs
<1>3. f \in Seq(S) /\ Len(f) = Cardinality(S)
  BY <1>1, <1>2, SeqDef
<1> QED
  BY <1>2, <1>3 DEF ToSet

\* A paper's places before the first Cap that are not analysed.
LEMMA DueIs ==
  ASSUME Types
  PROVE  /\ IsFiniteSet(Due) /\ Due \subseteq DOMAIN ranked /\ DuePapers \subseteq ToSet(ranked)
         /\ DOMAIN ranked = 1 .. Len(ranked) /\ IsFiniteSet(DOMAIN ranked)
         /\ \A n \in Due : ranked[n] \notin analysed
<1>1. ranked \in Seq(PaperIds)
  BY DEF Types
<1>2. Len(ranked) \in Nat /\ DOMAIN ranked = 1 .. Len(ranked)
  BY <1>1
<1>3. IsFiniteSet(DOMAIN ranked)
  BY <1>2, FS_Interval
<1>4. Due \subseteq DOMAIN ranked /\ \A n \in Due : ranked[n] \notin analysed
  BY DEF Due, Left
<1> QED
  BY <1>2, <1>3, <1>4, FS_Subset DEF DuePapers, ToSet

\* What the analysis is to handle.
LEMMA PendingIs ==
  ASSUME Types, Pending
  PROVE  items' \in Seq(PaperIds) /\ ToSet(items') = DuePapers
<1>1. PICK order \in SetToSeqs(Due) : items' = [k \in DOMAIN order |-> ranked[order[k]]]
  BY DEF Pending
<1>2. IsFiniteSet(Due) /\ Due \subseteq DOMAIN ranked /\ ranked \in Seq(PaperIds)
  BY DueIs DEF Types
<1>3. order \in Seq(Due) /\ Len(order) = Cardinality(Due) /\ Cardinality(Due) \in Nat
  BY <1>2, OrderedSet, FS_CardinalityType
<1>4. DOMAIN order = 1 .. Len(order) /\ \A k \in DOMAIN order : ranked[order[k]] \in PaperIds
  BY <1>2, <1>3
<1>5. items' \in [1 .. Len(order) -> PaperIds]
  BY <1>1, <1>4
<1>6. items' \in Seq(PaperIds)
  BY <1>3, <1>5, SeqDef
<1>7. \A n \in Due : \E k \in DOMAIN order : order[k] = n
  <2>1. order \in [1 .. Cardinality(Due) -> Due] /\ \A i, j \in 1 .. Cardinality(Due) : i # j => order[i] # order[j]
    BY DEF SetToSeqs
  <2>2. order \in Injection(1 .. Cardinality(Due), Due)
    BY <2>1 DEF Injection, IsInjective
  <2>3. Cardinality(1 .. Cardinality(Due)) = Cardinality(Due) /\ IsFiniteSet(1 .. Cardinality(Due))
    BY <1>3, FS_Interval
  <2>4. order \in Surjection(1 .. Cardinality(Due), Due)
    BY <1>2, <2>2, <2>3, FS_Injection
  <2> QED
    BY <1>3, <1>4, <2>4 DEF Surjection
<1>8. ToSet(items') = DuePapers
  <2>1. \A k \in DOMAIN order : order[k] \in Due
    BY <1>3
  <2>2. DOMAIN items' = DOMAIN order /\ \A k \in DOMAIN order : items'[k] = ranked[order[k]]
    BY <1>1
  <2> QED
    BY <1>7, <2>1, <2>2 DEF ToSet, DuePapers
<1> QED
  BY <1>6, <1>8

\* A finite set read as a list.
LEMMA ReadIs ==
  ASSUME NEW S, IsFiniteSet(S)
  PROVE  SetToSeq(S) \in Seq(S)
<1>1. Cardinality(S) \in Nat /\ ExistsBijection(1 .. Cardinality(S), S)
  BY FS_CardinalityType
<1>2. PICK f \in [1 .. Cardinality(S) -> S] : IsInjective(f)
  BY <1>1 DEF ExistsBijection, Bijection, Injection
<1>3. SetToSeq(S) \in [1 .. Cardinality(S) -> S]
  BY <1>2, Zenon DEF SetToSeq
<1> QED
  BY <1>1, <1>3, SeqDef

\* A paper analysed in the meantime makes room: what was due still is, or is analysed.
LEMMA DueRemains ==
  ASSUME Types, analysed \subseteq analysed', ranked' = ranked
  PROVE  DuePapers \subseteq analysed' \cup DuePapers'
<1> DEFINE Before(n) == {m \in Left : m <= n}
           After(n)  == {m \in Left' : m <= n}
<1>1. IsFiniteSet(DOMAIN ranked) /\ DOMAIN ranked = 1 .. Len(ranked)
  BY DueIs
<1>2. Left' \subseteq Left /\ Left \subseteq DOMAIN ranked
  BY DEF Left
<1>3. ASSUME NEW n \in Due, ranked[n] \notin analysed' PROVE n \in Due'
  <2>1. n \in Left /\ Cardinality(Before(n)) <= Cap
    BY <1>3 DEF Due
  <2>2. n \in Left'
    BY <1>3, <2>1 DEF Left
  <2>3. After(n) \subseteq Before(n) /\ Before(n) \subseteq DOMAIN ranked
    BY <1>2
  <2>4. IsFiniteSet(Before(n)) /\ Cardinality(Before(n)) \in Nat
    BY <1>1, <2>3, FS_Subset, FS_CardinalityType
  <2>5. IsFiniteSet(After(n)) /\ Cardinality(After(n)) \in Nat /\ Cardinality(After(n)) <= Cardinality(Before(n))
    BY <2>3, <2>4, FS_Subset, FS_CardinalityType
  <2>6. Cap \in Nat
    BY PapersAssumption
  <2>7. Cardinality(After(n)) <= Cap
    BY <2>1, <2>4, <2>5, <2>6
  <2> QED
    BY <2>2, <2>7 DEF Due
<1>4. DuePapers' = {ranked[n] : n \in Due'}
  BY DEF DuePapers
<1> QED
  BY <1>3, <1>4 DEF DuePapers

-------------------------------------------------------------------------------
(* The steps, as far as several parts of the invariant see them *)

\* What a stage worked with is gone when it ends.
LEMMA Forgotten ==
  ASSUME Forget
  PROVE  /\ items' \in Seq(Item) /\ todo' \in Seq(Item) /\ failed' \in Nat /\ level' \in 1 .. 3
         /\ Len(items') = 0 /\ Len(todo') = 0 /\ failed' = 0
<1>1. items' = <<>> /\ todo' = <<>> /\ failed' = 0 /\ level' = 1
  BY DEF Forget
<1> QED
  BY <1>1

\* How many items there are, are left and are handled.
LEMMA LengthsAre ==
  ASSUME Types, ItemsInHand
  PROVE  /\ Len(items) \in Nat /\ Len(todo) \in Nat /\ Handled \in 0 .. Len(items)
         /\ Handled + Len(todo) = Len(items) /\ DOMAIN items = 1 .. Len(items)
<1>1. items \in Seq(Item) /\ todo \in Seq(Item) /\ Len(todo) <= Len(items)
  BY DEF Types, ItemsInHand
<1>2. Len(items) \in Nat /\ Len(todo) \in Nat /\ DOMAIN items = 1 .. Len(items)
  BY <1>1
<1> QED
  BY <1>1, <1>2 DEF Handled

\* The next item leaves the hand.
LEMMA HandledIs ==
  ASSUME Types, ItemsInHand, todo # <<>>, todo' = Tail(todo), items' = items
  PROVE  /\ todo' \in Seq(Item) /\ Len(todo') \in Nat /\ Len(todo') = Len(todo) - 1
         /\ Handled' = Handled + 1 /\ Handled + 1 \in DOMAIN items /\ Head(todo) = items[Handled + 1]
         /\ \A n \in 1 .. Len(todo') : todo'[n] = items'[Handled' + n]
<1>1. /\ Len(todo) \in Nat \ {0} /\ Len(items) \in Nat
      /\ Head(todo) = items[Handled + 1] /\ Handled + 1 \in 1 .. Len(items)
      /\ todo' \in Seq(Item) /\ Len(todo') = Len(todo) - 1
      /\ \A n \in 1 .. Len(todo) - 1 : todo'[n] = items[Handled + 1 + n]
  BY TodoIs
<1>2. Handled \in 0 .. Len(items) /\ DOMAIN items = 1 .. Len(items)
  BY LengthsAre
<1>3. Handled' = Handled + 1
  BY <1>1 DEF Handled
<1> QED
  BY <1>1, <1>2, <1>3, SMTT(30)

\* Items taken in hand: all of them are still to be handled.
LEMMA TakenIs ==
  ASSUME items' \in Seq(Item), todo' = items'
  PROVE  /\ Len(items') \in Nat /\ Len(todo') = Len(items') /\ Handled' = 0
         /\ \A n \in 1 .. Len(todo') : todo'[n] = items'[Handled' + n]
<1>1. Len(items') \in Nat
  OBVIOUS
<1>2. Handled' = 0
  BY <1>1 DEF Handled
<1>3. \A n \in 1 .. Len(todo') : 0 + n = n
  BY <1>1
<1> QED
  BY <1>1, <1>2, <1>3

\* What the model has answered refers to papers that it was shown.
LEMMA AnswerIs ==
  ASSUME Answer, pc' # "ended", NEW S, read \in Seq(S)
  PROVE  /\ pc' = "gaps" /\ todo' = items' /\ status' = status
         /\ level' = level /\ answers' = answers /\ failed' = failed /\ read' = read
         /\ items' \in Seq([title : Titles, evidence : SUBSET S])
<1>1. PICK n \in 1 .. MaxGaps : \E list \in [1 .. n -> Gaps] :
       IF \A i \in 1 .. n : list[i].indices \subseteq DOMAIN read
         THEN /\ items' = [i \in 1 .. n |-> Resolve(list[i])]
              /\ todo' = items' /\ pc' = "gaps"
              /\ UNCHANGED <<status, level, answers, failed, read>>
         ELSE Fail
  BY DEF Answer
<1>2. PICK list \in [1 .. n -> Gaps] :
        /\ \A i \in 1 .. n : list[i].indices \subseteq DOMAIN read
        /\ items' = [i \in 1 .. n |-> Resolve(list[i])]
        /\ todo' = items' /\ pc' = "gaps"
        /\ UNCHANGED <<status, level, answers, failed, read>>
  BY <1>1 DEF Fail
<1>3. \A i \in 1 .. n : Resolve(list[i]) \in [title : Titles, evidence : SUBSET S]
  <2>1. ASSUME NEW i \in 1 .. n PROVE Resolve(list[i]) \in [title : Titles, evidence : SUBSET S]
    <3>1. list[i].title \in Titles /\ list[i].indices \subseteq DOMAIN read
      BY <1>2 DEF Gaps
    <3>2. \A k \in DOMAIN read : read[k] \in S
      OBVIOUS
    <3>3. {read[k] : k \in list[i].indices} \in SUBSET S
      BY <3>1, <3>2
    <3> QED
      BY <3>1, <3>3 DEF Resolve
  <2> QED
    BY <2>1
<1>4. n \in Nat
  BY BoundsAssumption
<1> DEFINE G == [title : Titles, evidence : SUBSET S]
<1>5. items' \in [1 .. n -> G]
  BY <1>2, <1>3
<1> HIDE DEF G
<1>6. items' \in Seq(G)
  BY <1>4, <1>5, SeqDef
<1> QED
  BY <1>2, <1>6 DEF G

\* A gap is stored under its title.
LEMMA StoredGapIs ==
  ASSUME NEW gap, CreateResearchGap(gap)
  PROVE  /\ gaps' = [t \in DOMAIN gaps' |-> gaps'[t]]
         /\ DOMAIN gaps' = DOMAIN gaps \cup {gap.title}
         /\ \A t \in DOMAIN gaps' : gaps'[t] = IF t = gap.title THEN gap.evidence ELSE gaps[t]
<1>1. gaps' = [t \in DOMAIN gaps \cup {gap.title} |-> IF t \in {gap.title} THEN gap.evidence ELSE gaps[t]]
  BY DEF CreateResearchGap, With
<1> QED
  BY <1>1

\* Ranked papers are members.
LEMMA RankIs ==
  ASSUME Types, Rank
  PROVE  ranked' \in Seq(PaperIds) /\ ToSet(ranked') \subseteq members
<1>1. PICK chosen \in SUBSET members \ {{}} : ranked' \in SetToSeqs(chosen)
  BY DEF Rank
<1>2. IsFiniteSet(chosen)
  BY <1>1, FS_Subset DEF Types
<1>3. ranked' \in Seq(chosen) /\ ToSet(ranked') \subseteq chosen
  BY <1>1, <1>2, OrderedSet
<1>4. chosen \subseteq PaperIds /\ chosen \subseteq members
  BY <1>1 DEF Types
<1> QED
  BY <1>3, <1>4, SeqMonotonic

-------------------------------------------------------------------------------
(* Types *)

\* The lists that stages work with are lists of items.
LEMMA ListsOfItems ==
  /\ \A list \in Seq(Paper) : list \in Seq(Item)
  /\ \A list \in Seq(PaperIds) : list \in Seq(Item)
  /\ \A list \in Seq(Gap) : list \in Seq(Item)
<1>1. Paper \subseteq Item /\ PaperIds \subseteq Item /\ Gap \subseteq Item
  BY DEF Item
<1> QED
  BY <1>1, SeqMonotonic

\* Types at the start.
LEMMA TypesInit == Init => Types
<1> SUFFICES ASSUME Init PROVE Types
  OBVIOUS
<1>1. IsFiniteSet({})
  BY FS_EmptySet
<1>2. /\ <<>> \in Seq(PaperIds) /\ <<>> \in Seq(Gap) /\ <<>> \in Seq(Item) /\ ToSet(<<>>) = {}
      /\ DOMAIN <<>> = {}
  BY DEF ToSet
<1>3. ToSet(ranked) \subseteq members
  BY <1>2 DEF Init
<1>4. <<>> = [t \in {} |-> <<>>[t]]
  OBVIOUS
<1>5. gaps = [t \in DOMAIN gaps |-> gaps[t]] /\ DOMAIN gaps = {}
  BY <1>2, <1>4 DEF Init
<1>6. ranked \in Seq(PaperIds) /\ planned \in Seq(Gap) /\ items \in Seq(Item) /\ todo \in Seq(Item)
  BY <1>2 DEF Init
<1> QED
  BY <1>1, <1>3, <1>5, <1>6 DEF Init, Types, D0, Discovering

\* Types is kept by every step.
LEMMA TypesStep ==
  ASSUME IInv, [Next]_vars
  PROVE  Types'
<1> USE DEF durable, run, history, vars, Discovering, Analysing, Detecting, Evaluating, Reporting
<1>0. Types /\ AtStage /\ ItemsInHand /\ Discovery /\ JobsInv /\ GapsInv
  BY DEF IInv
<1>a. Forget => /\ items' \in Seq(Item) /\ todo' \in Seq(Item) /\ failed' \in Nat
                /\ level' \in 1 .. 3
  BY Forgotten
<1>1. CASE Begin
  <2>1. pc' \in {"ask", "rank", "pending", "detect", "plan", "report"}
    BY <1>0, <1>1, BeginIs
  <2> QED
    BY <1>0, <1>1, <2>1 DEF Begin, Types
<1>2. CASE End
  BY <1>0, <1>2 DEF End, Types
<1>3. CASE CallFails
  BY <1>0, <1>3, <1>a DEF CallFails, Fail, Fault, Types
<1>4. CASE Crash
  BY <1>0, <1>4, <1>a DEF Crash, Types
<1>5. CASE Recover
  <2>1. status' \in {"processing", "completed", "failed"} /\ pc' \in {"ended", "next"}
    BY <1>0, <1>5 DEF Recover, Types
  <2> QED
    BY <1>0, <1>5, <2>1 DEF Recover, Types
<1>6. CASE Ask
  BY <1>0, <1>6 DEF Ask, Types
<1>7. ASSUME NEW source, NEW q, SearchEnds(source, q) PROVE Types'
  BY <1>0, <1>7 DEF SearchEnds, Types
<1>8. CASE Reconciled
  <2>1. items' \in Seq(Item)
    BY <1>0, <1>8, ReconciledIs, ListsOfItems
  <2>2. UNCHANGED <<durable, jobs, level>> /\ todo' = items' /\ failed' = 0 /\ pc' = "store" /\ UNCHANGED crashes
    BY <1>8 DEF Reconciled
  <2> QED
    BY <1>0, <2>1, <2>2 DEF Types
<1>9. CASE StorePaper
  <2>1. todo' \in Seq(Item)
    BY <1>0, <1>9, TodoIs DEF StorePaper
  <2>2. Head(todo) = items[Handled + 1] /\ Handled + 1 \in DOMAIN items
    BY <1>0, <1>9, HandledIs DEF StorePaper
  <2>3. Id(Head(todo)) \in PaperIds
    BY <1>0, <1>9, <2>2, StoredIs DEF StorePaper, Ids
  <2>4. members' \in {members, members \cup {Id(Head(todo))}}
    BY <1>9 DEF StorePaper
  <2>5. members \subseteq members' /\ members' \in SUBSET PaperIds /\ IsFiniteSet(members')
    <3>1. members \in SUBSET PaperIds /\ IsFiniteSet(members)
      BY <1>0 DEF Types
    <3>2. IsFiniteSet(members \cup {Id(Head(todo))})
      BY <3>1, FS_AddElement
    <3> QED
      BY <2>3, <2>4, <3>1, <3>2
  <2>6. /\ UNCHANGED <<status, done, pc, level, items, ranked, planned, analysed, gaps, directions, jobs, crashes>>
        /\ failed' \in {failed, failed + 1}
    BY <1>9 DEF StorePaper, UnchangedByDiscovery, Fault
  <2>7. ToSet(ranked') \subseteq members' /\ analysed' \in SUBSET members'
    BY <1>0, <2>5, <2>6 DEF Types
  <2> QED
    BY <1>0, <2>1, <2>5, <2>6, <2>7 DEF Types
<1>10. CASE LevelEnds
  <2>1. UNCHANGED <<members, ranked, planned, analysed, gaps, directions, jobs, crashes>>
    BY <1>10 DEF LevelEnds, UnchangedByDiscovery
  <2>2. \/ Complete("paper_discovery") /\ UNCHANGED status
        \/ Fail /\ UNCHANGED done
        \/ /\ pc' = "clear" /\ level' = level + 1 /\ level # 3
           /\ UNCHANGED <<status, done, answers, items, todo, failed, read>>
    <3>1. failed \in Nat /\ Len(items) \in Nat /\ MinPapers \in Nat
      BY <1>0, LengthsAre, PapersAssumption DEF Types
    <3> QED
      BY <1>10, <3>1 DEF LevelEnds
  <2>3. CASE Complete("paper_discovery") /\ UNCHANGED status
    <3>1. done' = D1 /\ pc' = "next"
      BY <1>0, <1>10, <2>3, DonesGrow DEF AtStage, Complete, LevelEnds
    <3> QED
      BY <1>0, <1>a, <2>1, <2>3, <3>1 DEF Types, Complete
  <2>4. CASE Fail /\ UNCHANGED done
    BY <1>0, <1>a, <2>1, <2>4 DEF Types, Fail
  <2>5. CASE /\ pc' = "clear" /\ level' = level + 1 /\ level # 3
             /\ UNCHANGED <<status, done, answers, items, todo, failed, read>>
    BY <1>0, <2>1, <2>5 DEF Types
  <2> QED
    BY <2>2, <2>3, <2>4, <2>5
<1>11. CASE Clear
  <2>1. done \in {D0, D1} /\ ranked = <<>>
    BY <1>0, <1>11 DEF Clear, AtStage, JobsInv
  <2>2. IsFiniteSet({}) /\ ToSet(<<>>) = {}
    BY FS_EmptySet DEF ToSet
  <2> QED
    BY <1>0, <1>11, <2>1, <2>2 DEF Clear, Types
<1>12. CASE Rank
  <2>1. ranked' \in Seq(PaperIds) /\ ToSet(ranked') \subseteq members
    BY <1>0, <1>12, RankIs
  <2>2. done' = D2 /\ pc' = "next" /\ Forget
    BY <1>0, <1>12, DonesGrow DEF AtStage, Complete, Rank
  <2>3. UNCHANGED <<status, planned, members, analysed, gaps, directions, jobs, crashes>>
    BY <1>12 DEF Rank
  <2>4. ToSet(ranked') \subseteq members'
    BY <2>1, <2>3
  <2> QED
    BY <1>0, <1>a, <2>1, <2>2, <2>3, <2>4 DEF Types
<1>13. CASE Pending
  <2>1. items' \in Seq(Item)
    BY <1>0, <1>13, PendingIs, ListsOfItems
  <2>2. UNCHANGED <<durable, jobs, level, failed, crashes>> /\ todo' = items' /\ pc' = "submit"
    BY <1>13 DEF Pending
  <2> QED
    BY <1>0, <2>1, <2>2 DEF Types
<1>14. CASE Submit
  <2>1. todo' \in Seq(Item)
    BY <1>0, <1>14, TodoIs DEF Submit
  <2>2. Head(todo) = items[Handled + 1] /\ Handled + 1 \in DOMAIN items /\ items \in Seq(PaperIds)
    BY <1>0, <1>14, HandledIs DEF Submit, ItemsInHand
  <2>3. Head(todo) \in PaperIds
    BY <2>2
  <2>4. jobs' \in SUBSET [process : Nat, paper : PaperIds] /\ IsFiniteSet(jobs')
    <3>1. jobs \in SUBSET [process : Nat, paper : PaperIds] /\ IsFiniteSet(jobs) /\ crashes \in Nat
      BY <1>0 DEF Types
    <3>2. jobs' = jobs \cup {[process |-> crashes, paper |-> Head(todo)]}
      BY <1>14 DEF Submit
    <3>3. IsFiniteSet(jobs')
      BY <3>1, <3>2, FS_AddElement
    <3>4. [process |-> crashes, paper |-> Head(todo)] \in [process : Nat, paper : PaperIds]
      BY <2>3, <3>1
    <3> QED
      BY <3>1, <3>2, <3>3, <3>4
  <2>5. UNCHANGED <<durable, pc, level, items, failed, crashes>>
    BY <1>14 DEF Submit
  <2> QED
    BY <1>0, <2>1, <2>4, <2>5 DEF Types
<1>15. ASSUME NEW job \in jobs, AnalysisDone(job) PROVE Types'
  <2>1. /\ jobs' \in {jobs, jobs \ {job}}
        /\ analysed' = analysed \cup ({job.paper} \cap members)
    BY <1>15 DEF AnalysisDone
  <2>2. jobs' \in SUBSET [process : Nat, paper : PaperIds] /\ IsFiniteSet(jobs')
    BY <1>0, <2>1, FS_RemoveElement DEF Types
  <2>3. UNCHANGED <<status, done, ranked, planned, members, gaps, directions, pc, level, items, todo, failed, crashes>>
    BY <1>15 DEF AnalysisDone
  <2> QED
    BY <1>0, <2>1, <2>2, <2>3 DEF Types
<1>16. ASSUME NEW job \in jobs, AnalysisFails(job) PROVE Types'
  <2>1. jobs' = jobs \ {job} /\ failed' \in {failed, failed + 1}
    BY <1>16 DEF AnalysisFails
  <2>2. jobs' \in SUBSET [process : Nat, paper : PaperIds] /\ IsFiniteSet(jobs')
    BY <1>0, <2>1, FS_RemoveElement DEF Types
  <2>3. UNCHANGED <<durable, pc, level, items, todo, crashes>>
    BY <1>16 DEF AnalysisFails, Fault
  <2> QED
    BY <1>0, <2>1, <2>2, <2>3 DEF Types
<1>17. CASE AnalysisEnds
  <2>1. UNCHANGED <<ranked, planned, members, analysed, gaps, directions, jobs, crashes>>
    BY <1>17 DEF AnalysisEnds
  <2>2. CASE Complete("paper_analysis") /\ UNCHANGED status
    <3>1. done' = D3 /\ pc' = "next"
      BY <1>0, <1>17, <2>2, DonesGrow DEF AtStage, Complete, AnalysisEnds
    <3> QED
      BY <1>0, <1>a, <2>1, <2>2, <3>1 DEF Types, Complete
  <2>3. CASE Fail /\ UNCHANGED done
    BY <1>0, <1>a, <2>1, <2>3 DEF Types, Fail
  <2> QED
    BY <1>17, <2>2, <2>3 DEF AnalysisEnds
<1>18. CASE ReadAnalysed
  BY <1>0, <1>18 DEF ReadAnalysed, Types
<1>19. CASE Answer
  <2>1. UNCHANGED <<done, ranked, planned, members, analysed, gaps, directions, jobs, crashes>>
    BY <1>19 DEF Answer
  <2>2. CASE pc' # "ended"
    <3>1. read \in Seq(PaperIds)
      <4>1. read \in Seq(analysed) /\ analysed \subseteq PaperIds
        BY <1>0, <1>19 DEF Answer, GapsInv, Types
      <4> QED
        BY <4>1, SeqMonotonic
    <3>2. /\ pc' = "gaps" /\ todo' = items' /\ status' = status /\ level' = level /\ failed' = failed
          /\ items' \in Seq([title : Titles, evidence : SUBSET PaperIds])
      BY <1>19, <2>2, <3>1, AnswerIs
    <3>3. items' \in Seq(Item)
      BY <3>2, ListsOfItems DEF Gap
    <3> QED
      BY <1>0, <2>1, <3>2, <3>3 DEF Types
  <2>3. CASE pc' = "ended"
    <3>1. Fail
      BY <1>19, <2>3 DEF Answer
    <3> QED
      BY <1>0, <1>a, <2>1, <3>1 DEF Types, Fail
  <2> QED
    BY <2>2, <2>3
<1>20. CASE StoreGap
  <2>1. todo' \in Seq(Item)
    BY <1>0, <1>20, TodoIs DEF StoreGap
  <2>2. Head(todo) = items[Handled + 1] /\ Handled + 1 \in DOMAIN items /\ items \in Seq(Gap)
    BY <1>0, <1>20, HandledIs DEF StoreGap, ItemsInHand
  <2>3. Head(todo) \in Gap
    BY <2>2
  <2>4. /\ UNCHANGED <<status, done, ranked, planned, members, analysed, directions, jobs, pc, level, items, crashes>>
        /\ failed' \in {failed, failed + 1}
    BY <1>20 DEF StoreGap, Fault
  <2>5. CASE CreateResearchGap(Head(todo))
    <3>1. /\ gaps' = [t \in DOMAIN gaps' |-> gaps'[t]]
          /\ DOMAIN gaps' = DOMAIN gaps \cup {Head(todo).title}
          /\ \A t \in DOMAIN gaps' : gaps'[t] = IF t = Head(todo).title THEN Head(todo).evidence ELSE gaps[t]
      BY <2>5, StoredGapIs
    <3>2. Head(todo).title \in Titles /\ Head(todo).evidence \in SUBSET PaperIds
      BY <2>3 DEF Gap
    <3>3. DOMAIN gaps \subseteq Titles /\ \A t \in DOMAIN gaps : gaps[t] \in SUBSET PaperIds
      BY <1>0 DEF Types
    <3>4. DOMAIN gaps' \subseteq Titles
      BY <3>1, <3>2, <3>3
    <3>5. \A t \in DOMAIN gaps' : gaps'[t] \in SUBSET PaperIds
      BY <3>1, <3>2, <3>3
    <3> QED
      BY <1>0, <2>1, <2>4, <3>1, <3>4, <3>5 DEF Types
  <2>6. CASE UNCHANGED gaps
    BY <1>0, <2>1, <2>4, <2>6 DEF Types
  <2> QED
    BY <1>20, <2>5, <2>6 DEF StoreGap
<1>21. CASE GapsEnd
  <2>1. UNCHANGED <<ranked, members, analysed, gaps, directions, jobs, crashes>>
    BY <1>21 DEF GapsEnd
  <2>2. CASE Complete("gap_detection") /\ planned' = items /\ UNCHANGED status
    <3>1. done' = D4 /\ pc' = "next" /\ planned' \in Seq(Gap)
      BY <1>0, <1>21, <2>2, DonesGrow DEF AtStage, Complete, GapsEnd, ItemsInHand
    <3> QED
      BY <1>0, <1>a, <2>1, <2>2, <3>1 DEF Types, Complete
  <2>3. CASE Fail /\ UNCHANGED <<done, planned>>
    BY <1>0, <1>a, <2>1, <2>3 DEF Types, Fail
  <2> QED
    BY <1>21, <2>2, <2>3 DEF GapsEnd
<1>22. CASE Plan
  <2>1. items' \in Seq(Item)
    BY <1>0, <1>22, ListsOfItems DEF Plan, Types
  <2> QED
    BY <1>0, <1>22, <2>1 DEF Plan, Types
<1>23. CASE Evaluate
  <2>1. todo' \in Seq(Item)
    BY <1>0, <1>23, TodoIs DEF Evaluate
  <2>2. Head(todo) = items[Handled + 1] /\ Handled + 1 \in DOMAIN items /\ items \in Seq(Gap)
    BY <1>0, <1>23, HandledIs DEF Evaluate, ItemsInHand
  <2>3. Head(todo) \in Gap
    BY <2>2
  <2>4. Head(todo).title \in Titles
    BY <2>3 DEF Gap
  <2>5. /\ UNCHANGED <<status, done, ranked, planned, members, analysed, gaps, jobs, pc, level, items, crashes>>
        /\ failed' \in {failed, failed + 1}
        /\ directions' \in {directions, directions \cup {Head(todo).title}}
    BY <1>23 DEF Evaluate, Fault
  <2> QED
    BY <1>0, <2>1, <2>4, <2>5 DEF Types
<1>24. CASE EvaluationEnds
  <2>1. UNCHANGED <<ranked, planned, members, analysed, gaps, directions, jobs, crashes>>
    BY <1>24 DEF EvaluationEnds
  <2>2. CASE Complete("feasibility_evaluation") /\ UNCHANGED status
    <3>1. done' = D5 /\ pc' = "next"
      BY <1>0, <1>24, <2>2, DonesGrow DEF AtStage, Complete, EvaluationEnds
    <3> QED
      BY <1>0, <1>a, <2>1, <2>2, <3>1 DEF Types, Complete
  <2>3. CASE Fail /\ UNCHANGED done
    BY <1>0, <1>a, <2>1, <2>3 DEF Types, Fail
  <2> QED
    BY <1>24, <2>2, <2>3 DEF EvaluationEnds
<1>25. CASE GenerateReport
  BY <1>0, <1>25 DEF GenerateReport, Types
<1>26. CASE ReportEnds
  <2>1. done' = D6 /\ pc' = "next"
    BY <1>0, <1>26, DonesGrow DEF AtStage, Complete, ReportEnds
  <2> QED
    BY <1>0, <1>26, <1>a, <2>1 DEF Types, Complete, ReportEnds
<1>27. CASE GetReport
  BY <1>0, <1>27 DEF GetReport, Types
<1>28. CASE UNCHANGED vars
  BY <1>0, <1>28 DEF Types
<1> QED
  BY <1>1, <1>2, <1>3, <1>4, <1>5, <1>6, <1>7, <1>8, <1>9, <1>10, <1>11, <1>12, <1>13, <1>14,
     <1>15, <1>16, <1>17, <1>18, <1>19, <1>20, <1>21, <1>22, <1>23, <1>24, <1>25, <1>26, <1>27,
     <1>28 DEF Next

-------------------------------------------------------------------------------
(* Where the run stands *)

\* AtStage is kept by every step.
LEMMA AtStageStep ==
  ASSUME IInv, [Next]_vars
  PROVE  AtStage'
<1> USE DEF durable, run, history, vars, Discovering, Analysing, Detecting, Evaluating, Reporting
<1>0. Types /\ AtStage
  BY DEF IInv
<1>1. CASE Begin
  <2>1. \/ done = D0 /\ pc' = "ask"
        \/ done = D1 /\ pc' = "rank"
        \/ done = D2 /\ pc' = "pending"
        \/ done = D3 /\ pc' = "detect"
        \/ done = D4 /\ pc' = "plan"
        \/ done = D5 /\ pc' = "report"
    BY <1>0, <1>1, BeginIs
  <2> QED
    BY <1>0, <1>1, <2>1 DEF Begin, AtStage
<1>2. CASE End
  <2>1. done = D6
    BY <1>0, <1>2, EndIs
  <2> QED
    BY <1>0, <1>2, <2>1 DEF End, AtStage
<1>3. CASE CallFails
  BY <1>0, <1>3 DEF CallFails, Fail, Fault, AtStage
<1>4. CASE Crash
  BY <1>0, <1>4 DEF Crash, AtStage
<1>5. CASE Recover
  <2>1. \/ status # "processing" /\ pc' = "ended" /\ status' = status
        \/ status' = "failed" /\ pc' = "ended"
        \/ status = "processing" /\ pc' = "next" /\ status' = status
    BY <1>5 DEF Recover
  <2>2. done' = done
    BY <1>5 DEF Recover
  <2> QED
    BY <1>0, <2>1, <2>2 DEF AtStage
<1>6. CASE Ask
  BY <1>0, <1>6 DEF Ask, AtStage
<1>7. ASSUME NEW source, NEW q, SearchEnds(source, q) PROVE AtStage'
  BY <1>0, <1>7 DEF SearchEnds, AtStage
<1>8. CASE Reconciled
  BY <1>0, <1>8 DEF Reconciled, AtStage
<1>9. CASE StorePaper
  BY <1>0, <1>9 DEF StorePaper, UnchangedByDiscovery, Fault, AtStage
<1>10. CASE LevelEnds
  <2>1. \/ Complete("paper_discovery") /\ UNCHANGED status
        \/ Fail /\ UNCHANGED done
        \/ pc' = "clear" /\ UNCHANGED <<status, done>>
    BY <1>10 DEF LevelEnds
  <2> QED
    BY <1>0, <1>10, <2>1, DonesDiffer DEF LevelEnds, Complete, Fail, AtStage
<1>11. CASE Clear
  BY <1>0, <1>11 DEF Clear, AtStage
<1>12. CASE Rank
  BY <1>0, <1>12 DEF Rank, Complete, AtStage
<1>13. CASE Pending
  BY <1>0, <1>13 DEF Pending, AtStage
<1>14. CASE Submit
  BY <1>0, <1>14 DEF Submit, AtStage
<1>15. ASSUME NEW job \in jobs, AnalysisDone(job) PROVE AtStage'
  BY <1>0, <1>15 DEF AnalysisDone, AtStage
<1>16. ASSUME NEW job \in jobs, AnalysisFails(job) PROVE AtStage'
  BY <1>0, <1>16 DEF AnalysisFails, Fault, AtStage
<1>17. CASE AnalysisEnds
  BY <1>0, <1>17 DEF AnalysisEnds, Complete, Fail, AtStage
<1>18. CASE ReadAnalysed
  BY <1>0, <1>18 DEF ReadAnalysed, AtStage
<1>19. CASE Answer
  BY <1>0, <1>19 DEF Answer, Fail, AtStage
<1>20. CASE StoreGap
  BY <1>0, <1>20 DEF StoreGap, Fault, AtStage
<1>21. CASE GapsEnd
  BY <1>0, <1>21 DEF GapsEnd, Complete, Fail, AtStage
<1>22. CASE Plan
  BY <1>0, <1>22 DEF Plan, AtStage
<1>23. CASE Evaluate
  BY <1>0, <1>23 DEF Evaluate, Fault, AtStage
<1>24. CASE EvaluationEnds
  BY <1>0, <1>24 DEF EvaluationEnds, Complete, Fail, AtStage
<1>25. CASE GenerateReport
  BY <1>0, <1>25 DEF GenerateReport, AtStage
<1>26. CASE ReportEnds
  BY <1>0, <1>26, DonesGrow DEF ReportEnds, Complete, AtStage
<1>27. CASE GetReport
  BY <1>0, <1>27 DEF GetReport, AtStage
<1>28. CASE UNCHANGED vars
  BY <1>0, <1>28 DEF AtStage
<1> QED
  BY <1>1, <1>2, <1>3, <1>4, <1>5, <1>6, <1>7, <1>8, <1>9, <1>10, <1>11, <1>12, <1>13, <1>14,
     <1>15, <1>16, <1>17, <1>18, <1>19, <1>20, <1>21, <1>22, <1>23, <1>24, <1>25, <1>26, <1>27,
     <1>28 DEF Next

-------------------------------------------------------------------------------
(* Items in hand *)

\* ItemsInHand is kept by every step.
LEMMA ItemsInHandStep ==
  ASSUME IInv, [Next]_vars
  PROVE  ItemsInHand'
<1> USE DEF durable, run, history, vars
<1>0. Types /\ AtStage /\ ItemsInHand /\ Discovery /\ JobsInv /\ GapsInv
  BY DEF IInv
<1>b. /\ Len(items) \in Nat /\ Len(todo) \in Nat /\ failed \in Nat /\ failed + Len(todo) <= Len(items)
      /\ Len(todo) <= Len(items)
  BY <1>0, LengthsAre DEF ItemsInHand, Types
<1>c. ASSUME UNCHANGED <<items, todo, failed>>, pc' \notin {"store", "submit", "gaps", "evaluate"} \/ pc' = pc,
             pc' \in Idle => pc \in Idle
      PROVE  ItemsInHand'
  <2>1. Handled' = Handled
    BY <1>c DEF Handled
  <2> QED
    BY <1>0, <1>c, <2>1 DEF ItemsInHand
<1>d. ASSUME Forget, pc' \notin {"store", "submit", "gaps", "evaluate"} PROVE ItemsInHand'
  <2>1. Len(items') = 0 /\ Len(todo') = 0 /\ failed' = 0
    BY <1>d, Forgotten
  <2> QED
    BY <1>d, <2>1 DEF ItemsInHand
<1>e. ASSUME UNCHANGED <<items, pc>>, todo # <<>>, todo' = Tail(todo), failed' \in {failed, failed + 1},
             pc \notin Idle
      PROVE  ItemsInHand'
  <2>1. /\ Len(todo') = Len(todo) - 1 /\ Len(todo) - 1 \in Nat
        /\ \A n \in 1 .. Len(todo') : todo'[n] = items'[Handled' + n]
    BY <1>0, <1>e, HandledIs
  <2>2. Len(todo') <= Len(items') /\ failed' + Len(todo') <= Len(items')
    <3>1. Len(items') = Len(items) /\ failed' \in {failed, failed + 1}
      BY <1>e
    <3>2. PICK l \in Nat : l = Len(items)
      BY <1>b
    <3>3. PICK k \in Nat : k = Len(todo)
      BY <1>b
    <3>4. PICK k1 \in Nat : k1 = Len(todo') /\ k1 = k - 1
      BY <2>1, <3>3
    <3>5. failed \in Nat /\ failed + k <= l /\ k <= l
      BY <1>b, <3>2, <3>3
    <3>6. PICK f \in Nat : f = failed' /\ (f = failed \/ f = failed + 1)
      BY <3>1, <3>5
    <3>7. k1 = k - 1 /\ f <= failed + 1 /\ failed \in Nat /\ failed + k <= l
      BY <3>4, <3>5, <3>6
    <3>8. f + k1 <= l /\ k1 <= l
      BY <3>7
    <3> QED
      BY <3>1, <3>2, <3>4, <3>6, <3>8
  <2> QED
    BY <1>0, <1>e, <2>1, <2>2 DEF ItemsInHand
<1>f. ASSUME items' \in Seq(Item), todo' = items', failed' = 0,
             pc' = "store" => items' \in Seq(Paper), pc' = "submit" => items' \in Seq(PaperIds),
             pc' \in {"gaps", "evaluate"} => items' \in Seq(Gap)
      PROVE  ItemsInHand'
  <2>1. /\ Len(items') \in Nat /\ Len(todo') = Len(items')
        /\ \A n \in 1 .. Len(todo') : todo'[n] = items'[Handled' + n]
    BY <1>f, TakenIs
  <2> QED
    BY <1>f, <2>1 DEF ItemsInHand
<1>1. CASE Begin
  <2>1. pc' \notin {"store", "submit", "gaps", "evaluate"}
    BY <1>0, <1>1, BeginIs
  <2> QED
    BY <1>1, <1>c, <2>1 DEF Begin, Idle
<1>2. CASE End
  BY <1>2, <1>c DEF End, Idle
<1>3. CASE CallFails
  BY <1>3, <1>d DEF CallFails, Fail
<1>4. CASE Crash
  BY <1>4, <1>d DEF Crash
<1>5. CASE Recover
  <2>1. pc' \in {"ended", "next"} /\ UNCHANGED <<items, todo, failed>> /\ pc = "down"
    BY <1>5 DEF Recover
  <2> QED
    BY <1>c, <2>1 DEF Idle
<1>6. CASE Ask
  BY <1>6, <1>c DEF Ask, Idle
<1>7. ASSUME NEW source, NEW q, SearchEnds(source, q) PROVE ItemsInHand'
  BY <1>7, <1>c DEF SearchEnds
<1>8. CASE Reconciled
  <2>1. items' \in Seq(Paper) /\ items' \in Seq(Item)
    BY <1>0, <1>8, ReconciledIs, ListsOfItems
  <2> QED
    BY <1>8, <1>f, <2>1 DEF Reconciled
<1>9. CASE StorePaper
  <2>1. UNCHANGED <<items, pc>> /\ todo # <<>> /\ todo' = Tail(todo) /\ failed' \in {failed, failed + 1}
        /\ pc \notin Idle
    BY <1>9 DEF StorePaper, Fault, UnchangedByDiscovery, Idle
  <2> QED
    BY <1>e, <2>1
<1>10. CASE LevelEnds
  <2>1. \/ Complete("paper_discovery") \/ Fail
        \/ pc' = "clear" /\ UNCHANGED <<items, todo, failed>>
    BY <1>10 DEF LevelEnds
  <2> QED
    BY <1>c, <1>d, <2>1 DEF Complete, Fail, Idle
<1>11. CASE Clear
  BY <1>11, <1>c DEF Clear, Idle
<1>12. CASE Rank
  BY <1>12, <1>d DEF Rank, Complete
<1>13. CASE Pending
  <2>1. items' \in Seq(PaperIds) /\ items' \in Seq(Item)
    BY <1>0, <1>13, PendingIs, ListsOfItems
  <2>2. failed' = 0
    BY <1>0, <1>13 DEF Pending, ItemsInHand, Idle
  <2> QED
    BY <1>13, <1>f, <2>1, <2>2 DEF Pending
<1>14. CASE Submit
  <2>1. UNCHANGED <<items, pc>> /\ todo # <<>> /\ todo' = Tail(todo) /\ failed' \in {failed, failed + 1}
        /\ pc \notin Idle
    BY <1>14 DEF Submit, Idle
  <2> QED
    BY <1>e, <2>1
<1>15. ASSUME NEW job \in jobs, AnalysisDone(job) PROVE ItemsInHand'
  BY <1>15, <1>c DEF AnalysisDone
<1>16. ASSUME NEW job \in jobs, AnalysisFails(job) PROVE ItemsInHand'
  <2>1. UNCHANGED <<items, todo, pc>>
    BY <1>16 DEF AnalysisFails
  <2>2. CASE failed' = failed
    BY <1>c, <2>1, <2>2
  <2>3. CASE Own(job) /\ failed' = failed + 1
    <3>1. pc = "submit" /\ job \in OwnJobs /\ IsFiniteSet(jobs) /\ OwnJobs \subseteq jobs
      BY <1>0, <1>16, <2>3 DEF Own, OwnJobs, Types
    <3>2. IsFiniteSet(OwnJobs) /\ Cardinality(OwnJobs) \in Nat \ {0}
      BY <3>1, FS_Subset, FS_CardinalityType, FS_EmptySet
    <3>3. failed' + Len(todo) <= Len(items)
      BY <1>0, <1>b, <2>3, <3>1, <3>2 DEF JobsInv
    <3>4. Handled' = Handled
      BY <2>1 DEF Handled
    <3> QED
      BY <1>0, <1>b, <2>1, <2>3, <3>1, <3>3, <3>4 DEF ItemsInHand, Idle
  <2> QED
    BY <1>16, <2>2, <2>3 DEF AnalysisFails
<1>17. CASE AnalysisEnds
  BY <1>17, <1>d DEF AnalysisEnds, Complete, Fail
<1>18. CASE ReadAnalysed
  BY <1>18, <1>c DEF ReadAnalysed, Idle
<1>19. CASE Answer
  <2>1. CASE pc' # "ended"
    <3>1. read \in Seq(PaperIds)
      <4>1. read \in Seq(analysed) /\ analysed \subseteq PaperIds
        BY <1>0, <1>19 DEF Answer, GapsInv, Types
      <4> QED
        BY <4>1, SeqMonotonic
    <3>2. pc' = "gaps" /\ todo' = items' /\ failed' = failed /\ items' \in Seq(Gap)
      BY <1>19, <2>1, <3>1, AnswerIs DEF Gap
    <3>3. failed = 0 /\ items' \in Seq(Item)
      BY <1>0, <1>19, <3>2, ListsOfItems DEF Answer, ItemsInHand, Idle
    <3> QED
      BY <1>f, <3>2, <3>3
  <2>2. CASE pc' = "ended"
    <3>1. Fail
      BY <1>19, <2>2 DEF Answer
    <3> QED
      BY <1>d, <2>2, <3>1 DEF Fail
  <2> QED
    BY <2>1, <2>2
<1>20. CASE StoreGap
  <2>1. UNCHANGED <<items, pc>> /\ todo # <<>> /\ todo' = Tail(todo) /\ failed' \in {failed, failed + 1}
        /\ pc \notin Idle
    BY <1>20 DEF StoreGap, Fault, UnchangedByDiscovery, Idle
  <2> QED
    BY <1>e, <2>1
<1>21. CASE GapsEnd
  BY <1>21, <1>d DEF GapsEnd, Complete, Fail
<1>22. CASE Plan
  <2>1. items' \in Seq(Gap) /\ items' \in Seq(Item)
    BY <1>0, <1>22, ListsOfItems DEF Plan, Types
  <2>2. failed' = 0 /\ pc' = "evaluate" /\ todo' = items'
    BY <1>0, <1>22 DEF Plan, ItemsInHand, Idle
  <2> QED
    BY <1>f, <2>1, <2>2
<1>23. CASE Evaluate
  <2>1. UNCHANGED <<items, pc>> /\ todo # <<>> /\ todo' = Tail(todo) /\ failed' \in {failed, failed + 1}
        /\ pc \notin Idle
    BY <1>23 DEF Evaluate, Fault, UnchangedByDiscovery, Idle
  <2> QED
    BY <1>e, <2>1
<1>24. CASE EvaluationEnds
  BY <1>24, <1>d DEF EvaluationEnds, Complete, Fail
<1>25. CASE GenerateReport
  BY <1>25, <1>c DEF GenerateReport, Idle
<1>26. CASE ReportEnds
  BY <1>26, <1>d DEF ReportEnds, Complete
<1>27. CASE GetReport
  BY <1>27, <1>c DEF GetReport, Idle
<1>28. CASE UNCHANGED vars
  BY <1>28, <1>c
<1> QED
  BY <1>1, <1>2, <1>3, <1>4, <1>5, <1>6, <1>7, <1>8, <1>9, <1>10, <1>11, <1>12, <1>13, <1>14,
     <1>15, <1>16, <1>17, <1>18, <1>19, <1>20, <1>21, <1>22, <1>23, <1>24, <1>25, <1>26, <1>27,
     <1>28 DEF Next

-------------------------------------------------------------------------------
(* Discovery *)

\* At first no search is answered.
LEMMA AskIs ==
  ASSUME Types, Ask
  PROVE  answers' \in Answering
<1>1. NumQueries \in Nat
  BY PapersAssumption DEF Types, NumQueries
<1> DEFINE nothing == [q \in 1 .. NumQueries |-> None]
<1>2. \A S : nothing \in Seq({None, Failed} \cup S)
  <2>1. ASSUME NEW S PROVE nothing \in Seq({None, Failed} \cup S)
    <3>1. nothing \in [1 .. NumQueries -> {None, Failed} \cup S]
      OBVIOUS
    <3> HIDE DEF nothing
    <3> QED
      BY <1>1, <3>1, SeqDef
  <2> QED
    BY <2>1
<1>3. answers' = [source \in Sources |-> nothing]
  BY DEF Ask
<1> HIDE DEF nothing
<1>4. answers' = [semantic_scholar |-> nothing, arxiv |-> nothing]
  BY <1>3 DEF Sources
<1> QED
  BY <1>2, <1>4 DEF Answering

\* An answer is a list of papers of its source, or Failed.
LEMMA SearchIs ==
  ASSUME answers \in Answering, NEW source \in Sources, NEW q \in DOMAIN answers[source],
         SearchEnds(source, q)
  PROVE  answers' \in Answering
<1>1. PICK answer \in {Failed} \cup Lists(Offers[source], Limit(q)) :
         answers' = [answers EXCEPT ![source][q] = answer]
  BY DEF SearchEnds
<1>2. answer \in {Failed} \cup Seq(Offers[source])
  <2>1. ASSUME answer # Failed PROVE answer \in Seq(Offers[source])
    <3>1. PICK chosen \in SUBSET Offers[source] : answer \in SetToSeqs(chosen)
      BY <1>1, <2>1 DEF Lists
    <3>2. IsFiniteSet(chosen)
      BY <3>1, OffersAssumption, FS_Subset
    <3>3. answer \in Seq(chosen)
      BY <3>1, <3>2, OrderedSet
    <3> QED
      BY <3>1, <3>3, SeqMonotonic
  <2> QED
    BY <2>1
<1> DEFINE S(o) == {None, Failed} \cup Seq(Offers[o])
<1>3. /\ answers = [semantic_scholar |-> answers["semantic_scholar"], arxiv |-> answers["arxiv"]]
      /\ answers["semantic_scholar"] \in Seq(S("semantic_scholar"))
      /\ answers["arxiv"] \in Seq(S("arxiv"))
  BY DEF Answering
<1>4. answers[source] \in Seq(S(source)) /\ answer \in S(source)
  BY <1>2, <1>3 DEF Sources
<1> HIDE DEF S
<1>5. [answers[source] EXCEPT ![q] = answer] \in Seq(S(source))
  BY <1>4, ExceptSeq
<1> DEFINE new == [answers[source] EXCEPT ![q] = answer]
<1>6. answers' = [answers EXCEPT ![source] = new]
  BY <1>1
<1> HIDE DEF new
<1>7. new \in Seq(S(source))
  BY <1>5 DEF new
<1>8. answers' \in [semantic_scholar : Seq(S("semantic_scholar")), arxiv : Seq(S("arxiv"))]
  <2>1. CASE source = "semantic_scholar"
    <3>1. answers' = [semantic_scholar |-> new, arxiv |-> answers["arxiv"]]
      BY <1>3, <1>6, <2>1
    <3> QED
      BY <1>3, <1>7, <2>1, <3>1
  <2>2. CASE source = "arxiv"
    <3>1. answers' = [semantic_scholar |-> answers["semantic_scholar"], arxiv |-> new]
      BY <1>3, <1>6, <2>2
    <3> QED
      BY <1>3, <1>7, <2>2, <3>1
  <2> QED
    BY <2>1, <2>2 DEF Sources
<1> QED
  BY <1>8 DEF Answering, S

\* A paper stored counts, and one that fails is counted.
LEMMA StoredCount ==
  ASSUME Types, ItemsInHand, Discovery, StorePaper
  PROVE  /\ Cardinality(Stored') >= Handled' - failed'
         /\ torn = {} => members' \subseteq Ids(items)
<1>1. /\ todo # <<>> /\ todo' = Tail(todo) /\ items' = items /\ pc = "store"
      /\ \/ members' = members \cup {Id(Head(todo))} /\ failed' = failed
         \/ members' \in {members, members \cup {Id(Head(todo))}} /\ failed' = failed + 1
  BY DEF StorePaper, history
<1>2. Handled' = Handled + 1 /\ Handled + 1 \in DOMAIN items /\ Head(todo) = items[Handled + 1]
  BY <1>1, HandledIs
<1>3. Handled \in Nat /\ failed \in Nat
  BY LengthsAre DEF Types
<1>4. Stored \subseteq 1 .. Handled /\ IsFiniteSet(Stored) /\ Cardinality(Stored) \in Nat
      /\ Handled + 1 \notin Stored
  <2>1. Stored \subseteq 1 .. Handled
    BY DEF Stored
  <2>2. IsFiniteSet(1 .. Handled)
    BY <1>3, FS_Interval
  <2>3. IsFiniteSet(Stored)
    BY <2>1, <2>2, FS_Subset
  <2> QED
    BY <1>3, <2>1, <2>3, FS_CardinalityType
<1>5. Stored' \subseteq 1 .. Handled + 1 /\ IsFiniteSet(Stored') /\ Cardinality(Stored') \in Nat
  <2>1. Stored' \subseteq 1 .. Handled + 1
    BY <1>2 DEF Stored
  <2>2. IsFiniteSet(1 .. Handled + 1)
    BY <1>3, FS_Interval
  <2>3. IsFiniteSet(Stored')
    BY <2>1, <2>2, FS_Subset
  <2> QED
    BY <2>1, <2>3, FS_CardinalityType
<1>6. Stored \subseteq Stored'
  <2>1. members \subseteq members'
    BY <1>1
  <2>2. \A i \in 1 .. Handled : i \in 1 .. Handled + 1
    BY <1>3
  <2> QED
    BY <1>1, <1>2, <2>1, <2>2 DEF Stored
<1>7. Cardinality(Stored) >= Handled - failed
  BY <1>1 DEF Discovery
<1>8. Cardinality(Stored) <= Cardinality(Stored')
  BY <1>5, <1>6, FS_Subset
<1>9. Cardinality(Stored') >= Handled' - failed'
  <2>1. CASE members' = members \cup {Id(Head(todo))} /\ failed' = failed
    <3>1. Handled + 1 \in Stored'
      BY <1>1, <1>2, <1>3, <2>1 DEF Stored
    <3>2. Cardinality(Stored \cup {Handled + 1}) = Cardinality(Stored) + 1
      BY <1>4, FS_AddElement
    <3>3. Stored \cup {Handled + 1} \subseteq Stored'
      BY <1>6, <3>1
    <3>4. Cardinality(Stored \cup {Handled + 1}) <= Cardinality(Stored')
      BY <1>5, <3>3, FS_Subset
    <3>5. Cardinality(Stored) + 1 <= Cardinality(Stored')
      BY <3>2, <3>4
    <3> QED
      BY <1>2, <1>3, <1>4, <1>5, <1>7, <2>1, <3>5
  <2>2. CASE failed' = failed + 1
    BY <1>2, <1>3, <1>4, <1>5, <1>7, <1>8, <2>2
  <2> QED
    BY <1>1, <2>1, <2>2
<1>10. torn = {} => members' \subseteq Ids(items)
  <2>1. Id(Head(todo)) \in Ids(items)
    BY <1>2 DEF Ids
  <2> QED
    BY <1>1, <2>1 DEF Discovery
<1> QED
  BY <1>9, <1>10

\* Discovery is kept by every step.
LEMMA DiscoveryStep ==
  ASSUME IInv, [Next]_vars
  PROVE  Discovery'
<1> USE DEF durable, run, history, vars
<1>0. Types /\ AtStage /\ ItemsInHand /\ Discovery /\ JobsInv
  BY DEF IInv
<1>c. ASSUME pc' \notin {"clear", "search", "store", "next", "down", "ask"} PROVE Discovery'
  BY <1>c DEF Discovery
<1>d. ASSUME pc' = "next", done' # D0 PROVE Discovery'
  BY <1>d DEF Discovery
<1>e. ASSUME UNCHANGED <<pc, status, done, members, level, answers, items, todo, torn>>,
             failed' = failed \/ pc # "store"
      PROVE  Discovery'
  <2>1. Stored' = Stored /\ Handled' = Handled
    BY <1>e DEF Stored, Handled
  <2> QED
    BY <1>0, <1>e, <2>1 DEF Discovery
<1>1. CASE Begin
  <2>1. (pc' = "ask" /\ pc = "next") \/ pc' \in {"rank", "pending", "detect", "plan", "report"}
    BY <1>0, <1>1, BeginIs DEF Begin
  <2> QED
    BY <1>0, <1>1, <1>c, <2>1 DEF Begin, Discovery
<1>2. CASE End
  BY <1>2, <1>c DEF End
<1>3. CASE CallFails
  BY <1>3, <1>c DEF CallFails, Fail
<1>4. CASE Crash
  BY <1>0, <1>4 DEF Crash, Discovery, AtStage
<1>5. CASE Recover
  <2>1. \/ pc' = "ended"
        \/ pc = "down" /\ pc' = "next" /\ UNCHANGED <<status, done, members, torn>>
    BY <1>5 DEF Recover
  <2> QED
    BY <1>0, <1>c, <2>1 DEF Discovery
<1>6. CASE Ask
  <2>1. answers' \in Answering
    BY <1>0, <1>6, AskIs
  <2> QED
    BY <1>0, <1>6, <2>1 DEF Ask, Discovery
<1>7. ASSUME NEW source \in Sources, NEW q \in DOMAIN answers[source], SearchEnds(source, q)
      PROVE  Discovery'
  <2>1. pc = "search" /\ pc' = "search" /\ UNCHANGED <<status, done, members, torn>>
    BY <1>7 DEF SearchEnds
  <2>2. answers' \in Answering
    BY <1>0, <1>7, <2>1, SearchIs DEF Discovery
  <2> QED
    BY <1>0, <2>1, <2>2 DEF Discovery
<1>8. CASE Reconciled
  <2>1. answers' \in Answered /\ items' = Cut(Reconcile(answers')) /\ items' \in Seq(Paper)
    BY <1>0, <1>8, ReconciledIs
  <2>2. pc = "search" /\ pc' = "store" /\ todo' = items' /\ failed' = 0 /\ UNCHANGED <<members, torn>>
    BY <1>8 DEF Reconciled
  <2>3. Handled' = 0
    BY <2>1, <2>2, TakenIs, ListsOfItems
  <2>4. Stored' = {} /\ IsFiniteSet({}) /\ Cardinality({}) = 0
    BY <2>3, FS_EmptySet DEF Stored
  <2>5. torn = {} => members = {}
    BY <1>0, <2>2 DEF Discovery, AtStage, Discovering
  <2> QED
    BY <2>1, <2>2, <2>3, <2>4, <2>5 DEF Discovery
<1>9. CASE StorePaper
  <2>1. Cardinality(Stored') >= Handled' - failed' /\ (torn = {} => members' \subseteq Ids(items))
    BY <1>0, <1>9, StoredCount
  <2>2. pc = "store" /\ UNCHANGED <<pc, answers, items, torn>>
    BY <1>9 DEF StorePaper, Fault
  <2> QED
    BY <1>0, <2>1, <2>2 DEF Discovery
<1>10. CASE LevelEnds
  <2>1. \/ Complete("paper_discovery")
        \/ Fail
        \/ pc' = "clear" /\ level' = level + 1 /\ level # 3
    <3>1. failed \in Nat /\ Len(items) \in Nat /\ MinPapers \in Nat
      BY <1>0, LengthsAre, PapersAssumption DEF Types
    <3> QED
      BY <1>10, <3>1 DEF LevelEnds
  <2>2. CASE Complete("paper_discovery")
    BY <1>d, <2>2 DEF Complete, D0
  <2>3. CASE Fail
    BY <1>c, <2>3 DEF Fail
  <2>4. CASE pc' = "clear" /\ level' = level + 1 /\ level # 3
    BY <1>0, <2>4 DEF Discovery, Types
  <2> QED
    BY <2>1, <2>2, <2>3, <2>4
<1>11. CASE Clear
  BY <1>11 DEF Clear, Discovery
<1>12. CASE Rank
  BY <1>12, <1>d DEF Rank, Complete, D0
<1>13. CASE Pending
  BY <1>13, <1>c DEF Pending
<1>14. CASE Submit
  BY <1>14, <1>c DEF Submit
<1>15. ASSUME NEW job \in jobs, AnalysisDone(job) PROVE Discovery'
  BY <1>15, <1>e DEF AnalysisDone
<1>16. ASSUME NEW job \in jobs, AnalysisFails(job) PROVE Discovery'
  BY <1>16, <1>e DEF AnalysisFails, Own, Fault
<1>17. CASE AnalysisEnds
  BY <1>17, <1>c, <1>d DEF AnalysisEnds, Complete, Fail, D0
<1>18. CASE ReadAnalysed
  BY <1>18, <1>c DEF ReadAnalysed
<1>19. CASE Answer
  BY <1>19, <1>c DEF Answer, Fail
<1>20. CASE StoreGap
  BY <1>20, <1>c DEF StoreGap
<1>21. CASE GapsEnd
  BY <1>21, <1>c, <1>d DEF GapsEnd, Complete, Fail, D0
<1>22. CASE Plan
  BY <1>22, <1>c DEF Plan
<1>23. CASE Evaluate
  BY <1>23, <1>c DEF Evaluate
<1>24. CASE EvaluationEnds
  BY <1>24, <1>c, <1>d DEF EvaluationEnds, Complete, Fail, D0
<1>25. CASE GenerateReport
  BY <1>25, <1>c DEF GenerateReport
<1>26. CASE ReportEnds
  BY <1>26, <1>d DEF ReportEnds, Complete, D0
<1>27. CASE GetReport
  BY <1>27, <1>e DEF GetReport
<1>28. CASE UNCHANGED vars
  BY <1>28, <1>e
<1> QED
  BY <1>1, <1>2, <1>3, <1>4, <1>5, <1>6, <1>7, <1>8, <1>9, <1>10, <1>11, <1>12, <1>13, <1>14,
     <1>15, <1>16, <1>17, <1>18, <1>19, <1>20, <1>21, <1>22, <1>23, <1>24, <1>25, <1>26, <1>27,
     <1>28 DEF Next

-------------------------------------------------------------------------------
(* Jobs *)

\* The jobs of this process can be counted.
LEMMA OwnJobsFinite ==
  ASSUME Types
  PROVE  IsFiniteSet(OwnJobs) /\ Cardinality(OwnJobs) \in Nat
<1>1. OwnJobs \subseteq jobs /\ IsFiniteSet(jobs)
  BY DEF OwnJobs, Types
<1>2. IsFiniteSet(OwnJobs)
  BY <1>1, FS_Subset
<1> QED
  BY <1>2, FS_CardinalityType

\* A job that is due or analysed is one of a member.
LEMMA JobsAreMembers ==
  ASSUME Types, JobsInv, pc = "submit" \/ done = D2
  PROVE  \A job \in jobs : job.paper \in analysed \cup DuePapers /\ job.paper \in members
<1>1. \A job \in jobs : job.paper \in analysed \cup DuePapers
  BY DEF JobsInv
<1>2. DuePapers \subseteq members /\ analysed \subseteq members
  BY DueIs DEF Types
<1> QED
  BY <1>1, <1>2

\* A job submitted is one of the items.
LEMMA SubmitJobs ==
  ASSUME Types, ItemsInHand, JobsInv, AtStage, Submit
  PROVE  JobsInv'
<1>1. /\ pc = "submit" /\ pc' = "submit" /\ todo # <<>> /\ todo' = Tail(todo)
      /\ jobs' = jobs \cup {[process |-> crashes, paper |-> Head(todo)]}
      /\ UNCHANGED <<items, failed, done, ranked, analysed, crashes>>
  BY DEF Submit, durable, history
<1> DEFINE new == [process |-> crashes, paper |-> Head(todo)]
<1>2. new.process = crashes /\ new.paper = Head(todo)
  OBVIOUS
<1>3. jobs' = jobs \cup {new}
  BY <1>1
<1> HIDE DEF new
<1>4. /\ Handled' = Handled + 1 /\ Handled + 1 \in DOMAIN items /\ Head(todo) = items[Handled + 1]
      /\ Len(todo') = Len(todo) - 1 /\ Len(todo') \in Nat
  BY <1>1, HandledIs
<1>5. DuePapers' = DuePapers
  BY <1>1 DEF DuePapers, Due, Left
<1>6. done = D2
  BY <1>1 DEF AtStage, Analysing
<1>7. OwnJobs' = OwnJobs \cup {new}
  BY <1>1, <1>2, <1>3 DEF OwnJobs
<1>8. IsFiniteSet(OwnJobs) /\ Cardinality(OwnJobs) \in Nat
  BY OwnJobsFinite
<1>9. Cardinality(OwnJobs') \in {Cardinality(OwnJobs), Cardinality(OwnJobs) + 1}
  BY <1>7, <1>8, FS_AddElement
<1>10. Cardinality(OwnJobs') + Len(todo') + failed <= Len(items)
  <2>1. Len(items) \in Nat /\ failed \in Nat /\ Len(todo) \in Nat
    BY LengthsAre DEF Types
  <2>2. Cardinality(OwnJobs) + Len(todo) + failed <= Len(items)
    BY <1>1 DEF JobsInv
  <2>3. PICK c \in Nat : c = Cardinality(OwnJobs)
    BY <1>8
  <2>4. PICK c1 \in Nat : c1 = Cardinality(OwnJobs') /\ (c1 = c \/ c1 = c + 1)
    BY <1>9, <2>3
  <2>5. PICK k \in Nat : k = Len(todo)
    BY <2>1
  <2>6. PICK k1 \in Nat : k1 = Len(todo')
    BY <1>4
  <2>7. k1 = k - 1
    BY <1>4, <2>5, <2>6
  <2>8. c + k + failed <= Len(items) /\ c1 <= c + 1
    BY <2>2, <2>3, <2>4, <2>5
  <2>9. c1 + k1 + failed <= Len(items)
    BY <2>1, <2>7, <2>8
  <2> QED
    BY <2>4, <2>6, <2>9
<1>11. \A job \in jobs' : job.process <= crashes'
  <2>1. \A job \in jobs : job.process <= crashes
    BY DEF JobsInv
  <2>2. crashes \in Nat
    BY DEF Types
  <2> QED
    BY <1>1, <1>2, <1>3, <2>1, <2>2
<1>12. \A job \in jobs' : job.paper \in analysed \cup ToSet(items)
  <2>1. Head(todo) \in ToSet(items)
    BY <1>4 DEF ToSet
  <2> QED
    BY <1>1, <1>2, <1>3, <2>1 DEF JobsInv
<1>13. failed = 0 => \A i \in 1 .. Handled' :
                      items[i] \in analysed \/ \E job \in OwnJobs' : job.paper = items[i]
  <2>1. SUFFICES ASSUME failed = 0, NEW i \in 1 .. Handled + 1
                 PROVE  items[i] \in analysed \/ \E job \in OwnJobs' : job.paper = items[i]
    BY <1>4
  <2>2. CASE i = Handled + 1
    BY <1>2, <1>4, <1>7, <2>2
  <2>3. CASE i # Handled + 1
    <3>1. i \in 1 .. Handled
      BY <2>1, <2>3, LengthsAre
    <3> QED
      BY <1>1, <1>7, <2>1, <3>1 DEF JobsInv
  <2> QED
    BY <2>2, <2>3
<1>14. ToSet(items) \subseteq analysed \cup DuePapers
  BY <1>1 DEF JobsInv
<1> QED
  BY <1>1, <1>5, <1>6, <1>10, <1>11, <1>12, <1>13, <1>14, DonesDiffer DEF JobsInv

\* A job leaves the queue.
LEMMA JobLeaves ==
  ASSUME Types, ItemsInHand, JobsInv, AtStage, NEW job \in jobs, jobs' = jobs \ {job},
         UNCHANGED <<pc, items, todo, done, ranked, crashes>>,
         \/ failed' = failed /\ analysed' = analysed \cup ({job.paper} \cap members)
         \/ failed' = failed + 1 /\ analysed' = analysed /\ pc = "submit" /\ job.process = crashes
         \/ failed' = failed /\ analysed' = analysed /\ ~(pc = "submit" /\ job.process = crashes)
  PROVE  JobsInv'
<1>1. OwnJobs' = OwnJobs \ {job} /\ jobs # {} /\ Handled' = Handled
  BY DEF OwnJobs, Handled
<1>2. analysed \subseteq analysed'
  OBVIOUS
<1>3. DuePapers \subseteq analysed' \cup DuePapers'
  BY <1>2, DueRemains
<1>4. IsFiniteSet(OwnJobs) /\ Cardinality(OwnJobs) \in Nat
  BY OwnJobsFinite
<1>5. done \notin {D0, D1}
  BY <1>1 DEF JobsInv
<1>6. pc = "submit" => Cardinality(OwnJobs') + Len(todo') + failed' <= Len(items')
  <2>1. SUFFICES ASSUME pc = "submit" PROVE Cardinality(OwnJobs') + Len(todo) + failed' <= Len(items)
    OBVIOUS
  <2>2. Cardinality(OwnJobs) + Len(todo) + failed <= Len(items)
    BY <2>1 DEF JobsInv
  <2>3. Len(items) \in Nat /\ failed \in Nat /\ Len(todo) \in Nat
    BY LengthsAre DEF Types
  <2>4. /\ Cardinality(OwnJobs') = IF job \in OwnJobs THEN Cardinality(OwnJobs) - 1 ELSE Cardinality(OwnJobs)
        /\ Cardinality(OwnJobs') \in Nat
    <3>1. IsFiniteSet(OwnJobs \ {job})
      BY <1>4, FS_RemoveElement
    <3> QED
      BY <1>1, <1>4, <3>1, FS_RemoveElement, FS_CardinalityType
  <2>5. PICK c \in Nat : c = Cardinality(OwnJobs)
    BY <1>4
  <2>6. PICK c1 \in Nat : c1 = Cardinality(OwnJobs')
    BY <2>4
  <2>7. PICK f \in Nat : f = failed' /\ (f = failed \/ (f = failed + 1 /\ job.process = crashes))
    BY <2>3
  <2>8. c + Len(todo) + failed <= Len(items)
    BY <2>2, <2>5
  <2>9. \/ job \in OwnJobs /\ c1 = c - 1
        \/ job \notin OwnJobs /\ c1 = c
    BY <2>4, <2>5, <2>6
  <2>10. \/ f = failed /\ c1 <= c
         \/ f = failed + 1 /\ c1 = c - 1
    <3>1. job.process = crashes => job \in OwnJobs
      BY DEF OwnJobs
    <3> QED
      BY <2>7, <2>9, <3>1
  <2>11. failed \in Nat /\ c1 + f <= c + failed
    BY <2>3, <2>10
  <2>12. c1 + Len(todo) + f <= Len(items)
    BY <2>3, <2>8, <2>11
  <2> QED
    BY <2>6, <2>7, <2>12
<1>7. pc = "submit" => ToSet(items) \subseteq analysed' \cup DuePapers'
  BY <1>2, <1>3 DEF JobsInv
<1>8. pc = "submit" /\ failed' = 0 =>
        \A i \in 1 .. Handled : items[i] \in analysed' \/ \E j \in OwnJobs' : j.paper = items[i]
  <2>1. SUFFICES ASSUME pc = "submit", failed' = 0, NEW i \in 1 .. Handled
                 PROVE  items[i] \in analysed' \/ \E j \in OwnJobs' : j.paper = items[i]
    OBVIOUS
  <2>2. failed = 0 /\ failed' = failed
    <3>1. failed \in Nat
      BY DEF Types
    <3> QED
      BY <2>1, <3>1
  <2>3. CASE items[i] \in analysed
    BY <1>2, <2>3
  <2>4. CASE items[i] \notin analysed
    <3>1. PICK j \in OwnJobs : j.paper = items[i]
      BY <2>1, <2>2, <2>4 DEF JobsInv
    <3>2. CASE j # job
      BY <1>1, <3>1, <3>2
    <3>3. CASE j = job
      <4>1. job.process = crashes /\ job.paper \in members
        BY <2>1, <3>1, <3>3, JobsAreMembers DEF OwnJobs
      <4>2. analysed' = analysed \cup ({job.paper} \cap members)
        BY <2>1, <2>2, <4>1
      <4> QED
        BY <3>1, <3>3, <4>1, <4>2
    <3> QED
      BY <3>2, <3>3
  <2> QED
    BY <2>3, <2>4
<1>9. pc \notin {"submit", "ended"} => OwnJobs' = {}
  BY <1>1 DEF JobsInv
<1>10. pc = "submit" => \A j \in jobs' : j.paper \in analysed' \cup ToSet(items)
  BY <1>2 DEF JobsInv
<1>11. done = D2 /\ pc # "submit" => \A j \in jobs' : j.paper \in analysed' \cup DuePapers'
  BY <1>2, <1>3 DEF JobsInv
<1>12. done \in {D3, D4, D5, D6} => \A j \in jobs' : j.paper \in analysed'
  BY <1>2 DEF JobsInv
<1>13. \A j \in jobs' : j.process <= crashes
  BY DEF JobsInv
<1> QED
  BY <1>1, <1>5, <1>6, <1>7, <1>8, <1>9, <1>10, <1>11, <1>12, <1>13 DEF JobsInv

\* JobsInv is kept by every step.
LEMMA JobsStep ==
  ASSUME IInv, [Next]_vars
  PROVE  JobsInv'
<1> USE DEF durable, run, history, vars
<1>0. Types /\ AtStage /\ ItemsInHand /\ Discovery /\ JobsInv
  BY DEF IInv
<1>c. ASSUME UNCHANGED <<jobs, crashes, done, analysed, ranked>>, pc' # "submit",
             pc' # "ended" => pc \notin {"submit", "ended"}
      PROVE  JobsInv'
  <2>1. DuePapers' = DuePapers /\ OwnJobs' = OwnJobs
    BY <1>c DEF DuePapers, Due, Left, OwnJobs
  <2>2. done = D2 => \A job \in jobs : job.paper \in analysed \cup DuePapers
    BY <1>0, JobsAreMembers
  <2> QED
    BY <1>0, <1>c, <2>1, <2>2 DEF JobsInv
<1>d. ASSUME UNCHANGED <<jobs, crashes, analysed>>, pc' = "next", pc \notin {"submit", "ended"},
             done \in {D3, D4, D5}, done' \in {D4, D5, D6}
      PROVE  JobsInv'
  <2>1. OwnJobs' = OwnJobs
    BY <1>d DEF OwnJobs
  <2> QED
    BY <1>0, <1>d, <2>1, DonesDiffer DEF JobsInv
<1>e. ASSUME UNCHANGED <<jobs, crashes, done, analysed, ranked, pc, items, todo, failed>>
      PROVE  JobsInv'
  <2>1. DuePapers' = DuePapers /\ OwnJobs' = OwnJobs /\ Handled' = Handled
    BY <1>e DEF DuePapers, Due, Left, OwnJobs, Handled
  <2> QED
    BY <1>0, <1>e, <2>1 DEF JobsInv
<1>f. ASSUME UNCHANGED <<jobs, crashes>>, done = D0, done' \in {D0, D1}, ranked' = ranked,
             pc' \notin {"submit", "ended"}
      PROVE  JobsInv'
  <2>1. jobs' = {} /\ ranked' = <<>> /\ OwnJobs' = {}
    BY <1>0, <1>f DEF JobsInv, OwnJobs
  <2> QED
    BY <1>f, <2>1, DonesDiffer DEF JobsInv
<1>1. CASE Begin
  <2>1. pc' \notin {"submit", "ended"} /\ pc = "next"
    BY <1>0, <1>1, BeginIs DEF Begin
  <2> QED
    BY <1>1, <1>c, <2>1 DEF Begin
<1>2. CASE End
  BY <1>2, <1>c DEF End
<1>3. CASE CallFails
  BY <1>3, <1>c DEF CallFails, Fail, Fault
<1>4. CASE Crash
  <2>1. /\ crashes' = crashes + 1 /\ pc' = "down" /\ UNCHANGED <<jobs, done, analysed, ranked>>
        /\ crashes \in Nat
    BY <1>0, <1>4 DEF Crash, Types
  <2>2. \A job \in jobs : job.process <= crashes /\ job.process \in Nat
    BY <1>0 DEF JobsInv, Types
  <2>3. OwnJobs' = {} /\ \A job \in jobs' : job.process <= crashes'
    BY <2>1, <2>2 DEF OwnJobs
  <2>4. DuePapers' = DuePapers
    BY <2>1 DEF DuePapers, Due, Left
  <2>5. done = D2 => \A job \in jobs : job.paper \in analysed \cup DuePapers
    BY <1>0, JobsAreMembers
  <2> QED
    BY <1>0, <2>1, <2>3, <2>4, <2>5 DEF JobsInv
<1>5. CASE Recover
  <2>1. /\ pc' \in {"ended", "next"} /\ pc = "down"
        /\ UNCHANGED <<jobs, crashes, done, analysed, ranked>>
    BY <1>5 DEF Recover
  <2> QED
    BY <1>c, <2>1
<1>6. CASE Ask
  BY <1>6, <1>c DEF Ask
<1>7. ASSUME NEW source, NEW q, SearchEnds(source, q) PROVE JobsInv'
  BY <1>7, <1>e DEF SearchEnds
<1>8. CASE Reconciled
  BY <1>8, <1>c DEF Reconciled
<1>9. CASE StorePaper
  BY <1>0, <1>9, <1>f DEF StorePaper, Fault, UnchangedByDiscovery, AtStage, Discovering
<1>10. CASE LevelEnds
  <2>1. done = D0 /\ pc = "store" /\ UNCHANGED <<jobs, ranked, analysed, crashes>>
    BY <1>0, <1>10 DEF LevelEnds, UnchangedByDiscovery, AtStage, Discovering
  <2>2. \/ Complete("paper_discovery")
        \/ Fail /\ UNCHANGED done
        \/ pc' = "clear" /\ UNCHANGED done
    BY <1>10 DEF LevelEnds
  <2>3. CASE Complete("paper_discovery")
    BY <1>f, <2>1, <2>3, DonesGrow DEF Complete
  <2>4. CASE Fail /\ UNCHANGED done
    BY <1>c, <2>1, <2>4 DEF Fail
  <2>5. CASE pc' = "clear" /\ UNCHANGED done
    BY <1>f, <2>1, <2>5
  <2> QED
    BY <2>2, <2>3, <2>4, <2>5
<1>11. CASE Clear
  BY <1>0, <1>11, <1>f DEF Clear, Fault, UnchangedByDiscovery, AtStage, Discovering
<1>12. CASE Rank
  <2>1. done = D1 /\ done' = D2 /\ pc' = "next" /\ jobs' = jobs
    BY <1>0, <1>12, DonesGrow DEF Rank, Complete, AtStage
  <2>2. jobs = {}
    BY <1>0, <2>1 DEF JobsInv
  <2> QED
    BY <2>1, <2>2, DonesDiffer DEF JobsInv, OwnJobs
<1>13. CASE Pending
  <2>1. ToSet(items') = DuePapers /\ items' \in Seq(Item)
    BY <1>0, <1>13, PendingIs, ListsOfItems
  <2>2. /\ pc = "pending" /\ pc' = "submit" /\ todo' = items'
        /\ UNCHANGED <<jobs, crashes, done, analysed, ranked, failed>>
    BY <1>13 DEF Pending
  <2>3. failed' = 0 /\ done = D2 /\ OwnJobs = {}
    BY <1>0, <2>2 DEF ItemsInHand, Idle, AtStage, Analysing, JobsInv
  <2>4. DuePapers' = DuePapers /\ OwnJobs' = OwnJobs
    BY <2>2 DEF DuePapers, Due, Left, OwnJobs
  <2>5. Handled' = 0 /\ Len(todo') = Len(items') /\ Len(items') \in Nat
    BY <2>1, <2>2, TakenIs
  <2>6. Cardinality(OwnJobs') = 0
    BY <2>3, <2>4, FS_EmptySet
  <2>7. \A job \in jobs : job.paper \in analysed \cup DuePapers
    BY <1>0, <2>2, <2>3 DEF JobsInv
  <2>8. Cardinality(OwnJobs') + Len(todo') + failed' <= Len(items')
    BY <2>3, <2>5, <2>6
  <2>9. ToSet(items') \subseteq analysed' \cup DuePapers'
    BY <2>1, <2>2, <2>4
  <2>10. \A i \in 1 .. Handled' : FALSE
    BY <2>5
  <2> QED
    BY <1>0, <2>1, <2>2, <2>3, <2>4, <2>7, <2>8, <2>9, <2>10, DonesDiffer DEF JobsInv
<1>14. CASE Submit
  BY <1>0, <1>14, SubmitJobs
<1>15. ASSUME NEW job \in jobs, AnalysisDone(job) PROVE JobsInv'
  <2>1. /\ jobs' \in {jobs, jobs \ {job}}
        /\ UNCHANGED <<pc, items, todo, done, ranked, crashes>>
        /\ failed' = failed /\ analysed' = analysed \cup ({job.paper} \cap members)
    BY <1>15 DEF AnalysisDone
  <2>2. CASE jobs' = jobs
    <3>1. OwnJobs' = OwnJobs /\ Handled' = Handled
      BY <2>1, <2>2 DEF OwnJobs, Handled
    <3>2. analysed \subseteq analysed' /\ DuePapers \subseteq analysed' \cup DuePapers'
      BY <1>0, <2>1, DueRemains
    <3> QED
      BY <1>0, <2>1, <2>2, <3>1, <3>2 DEF JobsInv
  <2>3. CASE jobs' = jobs \ {job}
    BY <1>0, <2>1, <2>3, JobLeaves
  <2> QED
    BY <2>1, <2>2, <2>3
<1>16. ASSUME NEW job \in jobs, AnalysisFails(job) PROVE JobsInv'
  <2>1. jobs' = jobs \ {job} /\ UNCHANGED <<pc, items, todo, done, ranked, crashes, analysed>>
    BY <1>16 DEF AnalysisFails, Fault
  <2>2. \/ failed' = failed + 1 /\ pc = "submit" /\ job.process = crashes
        \/ failed' = failed /\ ~(pc = "submit" /\ job.process = crashes)
    BY <1>16 DEF AnalysisFails, Own
  <2> QED
    BY <1>0, <2>1, <2>2, JobLeaves
<1>17. CASE AnalysisEnds
  <2>1. UNCHANGED <<jobs, crashes, analysed, ranked>> /\ pc = "submit" /\ todo = <<>>
    BY <1>17 DEF AnalysisEnds
  <2>2. CASE Complete("paper_analysis") /\ failed = 0
    <3>1. done' = D3 /\ pc' = "next"
      BY <1>0, <2>1, <2>2, DonesGrow DEF AtStage, Analysing, Complete
    <3>2. OwnJobs = {}
      BY <1>17, <2>1 DEF AnalysisEnds, Own, OwnJobs
    <3>3. Handled = Len(items) /\ DOMAIN items = 1 .. Len(items)
      BY <1>0, <2>1, LengthsAre
    <3>4. ToSet(items) \subseteq analysed
      BY <1>0, <2>1, <2>2, <3>2, <3>3 DEF JobsInv, ToSet
    <3>5. \A job \in jobs : job.paper \in analysed
      BY <1>0, <2>1, <3>4 DEF JobsInv
    <3>6. OwnJobs' = {}
      BY <2>1, <3>2 DEF OwnJobs
    <3> QED
      BY <1>0, <2>1, <3>1, <3>5, <3>6, DonesDiffer DEF JobsInv
  <2>3. CASE Fail /\ UNCHANGED done
    BY <1>c, <2>1, <2>3 DEF Fail
  <2> QED
    BY <1>17, <2>2, <2>3 DEF AnalysisEnds
<1>18. CASE ReadAnalysed
  BY <1>18, <1>c DEF ReadAnalysed
<1>19. CASE Answer
  BY <1>19, <1>c DEF Answer, Fail
<1>20. CASE StoreGap
  BY <1>20, <1>c DEF StoreGap, Fault
<1>21. CASE GapsEnd
  <2>1. UNCHANGED <<jobs, crashes, analysed, ranked>> /\ pc \notin {"submit", "ended"}
    BY <1>21 DEF GapsEnd
  <2>2. CASE Complete("gap_detection")
    BY <1>0, <1>21, <1>d, <2>1, <2>2, DonesGrow DEF GapsEnd, AtStage, Detecting, Complete
  <2>3. CASE Fail /\ UNCHANGED done
    BY <1>c, <2>1, <2>3 DEF Fail
  <2> QED
    BY <1>21, <2>2, <2>3 DEF GapsEnd
<1>22. CASE Plan
  BY <1>22, <1>c DEF Plan
<1>23. CASE Evaluate
  BY <1>23, <1>c DEF Evaluate, Fault
<1>24. CASE EvaluationEnds
  <2>1. UNCHANGED <<jobs, crashes, analysed, ranked>> /\ pc \notin {"submit", "ended"}
    BY <1>24 DEF EvaluationEnds
  <2>2. CASE Complete("feasibility_evaluation")
    BY <1>0, <1>24, <1>d, <2>1, <2>2, DonesGrow DEF EvaluationEnds, AtStage, Evaluating, Complete
  <2>3. CASE Fail /\ UNCHANGED done
    BY <1>c, <2>1, <2>3 DEF Fail
  <2> QED
    BY <1>24, <2>2, <2>3 DEF EvaluationEnds
<1>25. CASE GenerateReport
  BY <1>25, <1>c DEF GenerateReport
<1>26. CASE ReportEnds
  BY <1>0, <1>26, <1>d, DonesGrow DEF ReportEnds, AtStage, Reporting, Complete
<1>27. CASE GetReport
  BY <1>27, <1>e DEF GetReport
<1>28. CASE UNCHANGED vars
  BY <1>28, <1>e
<1> QED
  BY <1>1, <1>2, <1>3, <1>4, <1>5, <1>6, <1>7, <1>8, <1>9, <1>10, <1>11, <1>12, <1>13, <1>14,
     <1>15, <1>16, <1>17, <1>18, <1>19, <1>20, <1>21, <1>22, <1>23, <1>24, <1>25, <1>26, <1>27,
     <1>28 DEF Next

-------------------------------------------------------------------------------
(* Gaps *)

\* A gap stored, or failed, is one that the answer had.
LEMMA StoreGapStep ==
  ASSUME Types, AtStage, ItemsInHand, GapsInv, StoreGap
  PROVE  GapsInv'
<1>1. /\ pc = "gaps" /\ pc' = "gaps" /\ todo # <<>> /\ todo' = Tail(todo)
      /\ UNCHANGED <<items, done, planned, analysed, torn, read>>
      /\ \/ CreateResearchGap(Head(todo)) /\ failed' = failed
         \/ failed' = failed + 1 /\ (CreateResearchGap(Head(todo)) \/ UNCHANGED gaps)
  BY DEF StoreGap, Fault, history
<1>2. Handled' = Handled + 1 /\ Handled + 1 \in DOMAIN items /\ Head(todo) = items[Handled + 1]
  BY <1>1, HandledIs
<1>3. done = D3 /\ failed \in Nat /\ Handled \in Nat
  BY <1>1, LengthsAre DEF AtStage, Detecting, Types
<1>4. Head(todo).evidence \subseteq analysed /\ Head(todo).title \in TitlesOf(items)
  BY <1>1, <1>2 DEF GapsInv, TitlesOf
<1>5. CASE CreateResearchGap(Head(todo))
  <2>1. /\ DOMAIN gaps' = DOMAIN gaps \cup {Head(todo).title}
        /\ \A t \in DOMAIN gaps' : gaps'[t] = IF t = Head(todo).title THEN Head(todo).evidence ELSE gaps[t]
    BY <1>5, StoredGapIs
  <2>2. \A t \in DOMAIN gaps' : gaps'[t] \subseteq analysed
    BY <1>4, <2>1 DEF GapsInv
  <2>3. "gap_detection" \notin torn => DOMAIN gaps' \subseteq TitlesOf(items)
    BY <1>1, <1>4, <2>1 DEF GapsInv
  <2>4. failed' = 0 => \A i \in 1 .. Handled' : items[i].title \in DOMAIN gaps'
    <3>1. SUFFICES ASSUME failed' = 0, NEW i \in 1 .. Handled + 1 PROVE items[i].title \in DOMAIN gaps'
      BY <1>2
    <3>2. failed = 0
      BY <1>1, <1>3, <3>1
    <3>3. CASE i = Handled + 1
      BY <1>2, <2>1, <3>3
    <3>4. CASE i # Handled + 1
      <4>1. i \in 1 .. Handled
        BY <1>3, <3>1, <3>4
      <4> QED
        BY <1>1, <2>1, <3>2, <4>1 DEF GapsInv
    <3> QED
      BY <3>3, <3>4
  <2> QED
    BY <1>1, <1>3, <2>2, <2>3, <2>4, DonesDiffer DEF GapsInv
<1>6. CASE UNCHANGED gaps /\ failed' = failed + 1
  <2>1. failed' # 0
    BY <1>3, <1>6
  <2> QED
    BY <1>1, <1>3, <1>6, <2>1, DonesDiffer DEF GapsInv
<1> QED
  BY <1>1, <1>5, <1>6

\* GapsInv is kept by every step.
LEMMA GapsStep ==
  ASSUME IInv, [Next]_vars
  PROVE  GapsInv'
<1> USE DEF durable, run, history, vars
<1>0. Types /\ AtStage /\ ItemsInHand /\ Discovery /\ JobsInv /\ GapsInv
  BY DEF IInv
<1>c. ASSUME UNCHANGED <<done, gaps, planned>>, analysed \subseteq analysed', torn \subseteq torn',
             pc' \notin {"gaps", "answer"},
             status' = "processing" /\ done = D3 /\ "gap_detection" \notin torn'
               => status = "processing" /\ pc # "gaps"
      PROVE  GapsInv'
  BY <1>0, <1>c DEF GapsInv
<1>d. ASSUME UNCHANGED <<gaps, planned, analysed, torn>>, pc' = "next", done \in {D4, D5}, done' \in {D5, D6}
      PROVE  GapsInv'
  BY <1>0, <1>d, DonesDiffer DEF GapsInv
<1>e. ASSUME UNCHANGED <<done, gaps, planned, status, torn, pc, items, todo, read>>,
             failed' = failed \/ pc # "gaps", analysed \subseteq analysed'
      PROVE  GapsInv'
  <2>1. Handled' = Handled
    BY <1>e DEF Handled
  <2>2. pc = "answer" => read' \in Seq(analysed')
    BY <1>0, <1>e, SeqMonotonic DEF GapsInv
  <2> QED
    BY <1>0, <1>e, <2>1, <2>2 DEF GapsInv
<1>f. ASSUME UNCHANGED gaps, done \in {D0, D1, D2}, done' \in {D0, D1, D2, D3}, pc' \notin {"gaps", "answer"}
      PROVE  GapsInv'
  BY <1>0, <1>f, DonesDiffer DEF GapsInv
<1>1. CASE Begin
  <2>1. pc' \notin {"gaps", "answer"} /\ pc = "next"
    BY <1>0, <1>1, BeginIs DEF Begin
  <2> QED
    BY <1>1, <1>c, <2>1 DEF Begin
<1>2. CASE End
  BY <1>2, <1>c DEF End
<1>3. CASE CallFails
  BY <1>3, <1>c DEF CallFails, Fail, Fault
<1>4. CASE Crash
  <2>1. pc = "gaps" => "gap_detection" \in torn'
    BY <1>0, <1>4, UpcomingIs DEF Crash, AtStage, Detecting
  <2>2. torn \subseteq torn'
    BY <1>4 DEF Crash
  <2> QED
    BY <1>4, <1>c, <2>1, <2>2 DEF Crash
<1>5. CASE Recover
  <2>1. /\ pc' \in {"ended", "next"} /\ pc = "down" /\ (status' = status \/ status' = "failed")
        /\ UNCHANGED <<done, gaps, planned, analysed, torn>>
    BY <1>5 DEF Recover
  <2> QED
    BY <1>c, <2>1
<1>6. CASE Ask
  BY <1>0, <1>6, <1>f DEF Ask, UnchangedByDiscovery, AtStage, Discovering
<1>7. ASSUME NEW source, NEW q, SearchEnds(source, q) PROVE GapsInv'
  BY <1>7, <1>e DEF SearchEnds
<1>8. CASE Reconciled
  BY <1>0, <1>8, <1>f DEF Reconciled, UnchangedByDiscovery, AtStage, Discovering
<1>9. CASE StorePaper
  BY <1>0, <1>9, <1>f DEF StorePaper, UnchangedByDiscovery, AtStage, Discovering
<1>10. CASE LevelEnds
  <2>1. done = D0 /\ UNCHANGED gaps
    BY <1>0, <1>10 DEF LevelEnds, UnchangedByDiscovery, AtStage, Discovering
  <2>2. (pc' = "next" /\ done' = D1) \/ (pc' \in {"clear", "ended"} /\ done' = done)
    BY <1>10, <2>1, DonesGrow DEF LevelEnds, Complete, Fail
  <2> QED
    BY <1>f, <2>1, <2>2
<1>11. CASE Clear
  BY <1>0, <1>11, <1>f DEF Clear, UnchangedByDiscovery, AtStage, Discovering
<1>12. CASE Rank
  BY <1>0, <1>12, <1>f, DonesGrow DEF Rank, Complete, AtStage
<1>13. CASE Pending
  BY <1>0, <1>13, <1>f DEF Pending, AtStage, Analysing
<1>14. CASE Submit
  BY <1>0, <1>14, <1>f DEF Submit, AtStage, Analysing
<1>15. ASSUME NEW job \in jobs, AnalysisDone(job) PROVE GapsInv'
  BY <1>15, <1>e DEF AnalysisDone
<1>16. ASSUME NEW job \in jobs, AnalysisFails(job) PROVE GapsInv'
  BY <1>16, <1>e DEF AnalysisFails, Own, Fault
<1>17. CASE AnalysisEnds
  <2>1. done = D2 /\ UNCHANGED gaps
    BY <1>0, <1>17 DEF AnalysisEnds, AtStage, Analysing
  <2>2. (pc' = "next" /\ done' = D3) \/ (pc' = "ended" /\ done' = done)
    BY <1>17, <2>1, DonesGrow DEF AnalysisEnds, Complete, Fail
  <2> QED
    BY <1>f, <2>1, <2>2
<1>18. CASE ReadAnalysed
  <2>1. read' \in Seq(analysed')
    <3>1. IsFiniteSet(analysed)
      BY <1>0, FS_Subset DEF Types
    <3> QED
      BY <1>18, <3>1, ReadIs DEF ReadAnalysed
  <2> QED
    BY <1>0, <1>18, <2>1 DEF ReadAnalysed, GapsInv
<1>19. CASE Answer
  <2>1. pc = "answer" /\ UNCHANGED <<done, gaps, planned, analysed, torn>>
    BY <1>19 DEF Answer
  <2>2. done = D3 /\ status = "processing" /\ read \in Seq(analysed)
    BY <1>0, <2>1 DEF AtStage, Detecting, GapsInv
  <2>3. CASE pc' # "ended"
    <3>1. pc' = "gaps" /\ todo' = items' /\ items' \in Seq([title : Titles, evidence : SUBSET analysed])
      BY <1>19, <2>2, <2>3, AnswerIs
    <3>2. items' \in Seq(Item)
      <4>1. analysed \subseteq PaperIds
        BY <1>0 DEF Types
      <4>2. [title : Titles, evidence : SUBSET analysed] \subseteq Item
        BY <4>1 DEF Item, Gap
      <4> QED
        BY <3>1, <4>2, SeqMonotonic
    <3>3. Handled' = 0
      BY <3>1, <3>2, TakenIs
    <3>4. \A i \in DOMAIN items' : items'[i].evidence \subseteq analysed
      <4> DEFINE G == [title : Titles, evidence : SUBSET analysed]
      <4>1. items' \in Seq(G)
        BY <3>1
      <4>2. \A g \in G : g.evidence \subseteq analysed
        OBVIOUS
      <4> HIDE DEF G
      <4>3. \A i \in DOMAIN items' : items'[i] \in G
        BY <4>1
      <4> QED
        BY <4>2, <4>3
    <3>5. "gap_detection" \notin torn => DOMAIN gaps = {}
      BY <1>0, <2>1, <2>2 DEF GapsInv
    <3>6. \A i \in 1 .. Handled' : FALSE
      BY <3>3
    <3> QED
      BY <1>0, <2>1, <2>2, <3>1, <3>4, <3>5, <3>6, DonesDiffer DEF GapsInv
  <2>4. CASE pc' = "ended"
    <3>1. Fail
      BY <1>19, <2>4 DEF Answer
    <3> QED
      BY <1>c, <2>1, <2>4, <3>1 DEF Fail
  <2> QED
    BY <2>3, <2>4
<1>20. CASE StoreGap
  BY <1>0, <1>20, StoreGapStep
<1>21. CASE GapsEnd
  <2>1. done = D3 /\ UNCHANGED <<gaps, analysed, torn>> /\ pc = "gaps" /\ todo = <<>>
    BY <1>0, <1>21 DEF GapsEnd, AtStage, Detecting
  <2>2. CASE Complete("gap_detection") /\ planned' = items /\ failed = 0
    <3>1. pc' = "next" /\ done' = D4
      BY <2>1, <2>2, DonesGrow DEF Complete
    <3>2. Handled = Len(items) /\ DOMAIN items = 1 .. Len(items)
      BY <1>0, <2>1, LengthsAre
    <3>3. TitlesOf(items) \subseteq DOMAIN gaps
      BY <1>0, <2>1, <2>2, <3>2 DEF GapsInv, TitlesOf
    <3>4. "gap_detection" \notin torn => DOMAIN gaps \subseteq TitlesOf(items)
      BY <1>0, <2>1 DEF GapsInv
    <3> QED
      BY <1>0, <2>1, <2>2, <3>1, <3>3, <3>4, DonesDiffer DEF GapsInv
  <2>3. CASE Fail /\ UNCHANGED <<done, planned>>
    BY <1>c, <2>1, <2>3 DEF Fail
  <2> QED
    BY <1>21, <2>2, <2>3 DEF GapsEnd
<1>22. CASE Plan
  <2>1. done \in {D4, D5} /\ pc' \notin {"gaps", "answer"}
    BY <1>0, <1>22 DEF Plan, AtStage, Evaluating, Reporting
  <2> QED
    BY <1>22, <1>c, <2>1, DonesDiffer DEF Plan, Fault
<1>23. CASE Evaluate
  <2>1. done \in {D4, D5} /\ pc' \notin {"gaps", "answer"}
    BY <1>0, <1>23 DEF Evaluate, AtStage, Evaluating, Reporting
  <2> QED
    BY <1>23, <1>c, <2>1, DonesDiffer DEF Evaluate, Fault
<1>24. CASE EvaluationEnds
  <2>1. UNCHANGED <<gaps, planned, analysed, torn>> /\ done = D4
    BY <1>0, <1>24 DEF EvaluationEnds, AtStage, Evaluating
  <2>2. CASE Complete("feasibility_evaluation")
    BY <1>d, <2>1, <2>2, DonesGrow DEF Complete
  <2>3. CASE Fail /\ UNCHANGED done
    BY <1>c, <2>1, <2>3 DEF Fail
  <2> QED
    BY <1>24, <2>2, <2>3 DEF EvaluationEnds
<1>25. CASE GenerateReport
  <2>1. done \in {D4, D5} /\ pc' \notin {"gaps", "answer"}
    BY <1>0, <1>25 DEF GenerateReport, AtStage, Evaluating, Reporting
  <2> QED
    BY <1>25, <1>c, <2>1, DonesDiffer DEF GenerateReport, Fault
<1>26. CASE ReportEnds
  BY <1>0, <1>26, <1>d, DonesGrow DEF ReportEnds, AtStage, Reporting, Complete
<1>27. CASE GetReport
  BY <1>27, <1>e DEF GetReport
<1>28. CASE UNCHANGED vars
  BY <1>28, <1>e
<1> QED
  BY <1>1, <1>2, <1>3, <1>4, <1>5, <1>6, <1>7, <1>8, <1>9, <1>10, <1>11, <1>12, <1>13, <1>14,
     <1>15, <1>16, <1>17, <1>18, <1>19, <1>20, <1>21, <1>22, <1>23, <1>24, <1>25, <1>26, <1>27,
     <1>28 DEF Next

-------------------------------------------------------------------------------
(* Directions *)

\* A direction stored, or failed, is one of a gap agreed on.
LEMMA EvaluateStep ==
  ASSUME Types, AtStage, ItemsInHand, DirectionsInv, Evaluate
  PROVE  DirectionsInv'
<1>1. /\ pc = "evaluate" /\ pc' = "evaluate" /\ todo # <<>> /\ todo' = Tail(todo)
      /\ UNCHANGED <<items, done, planned>>
      /\ \/ directions' = directions \cup {Head(todo).title} /\ failed' = failed
         \/ /\ failed' = failed + 1
            /\ directions' \in {directions, directions \cup {Head(todo).title}}
  BY DEF Evaluate, Fault, history
<1>2. Handled' = Handled + 1 /\ Handled + 1 \in DOMAIN items /\ Head(todo) = items[Handled + 1]
  BY <1>1, HandledIs
<1>3. done = D4 /\ failed \in Nat /\ Handled \in Nat /\ items = planned
  BY <1>1, LengthsAre DEF AtStage, Evaluating, Types, DirectionsInv
<1>4. Head(todo).title \in TitlesOf(planned)
  BY <1>2, <1>3 DEF TitlesOf
<1>5. directions \subseteq TitlesOf(planned)
  BY <1>3 DEF DirectionsInv
<1>6. failed' = 0 => \A i \in 1 .. Handled' : items[i].title \in directions'
  <2>1. SUFFICES ASSUME failed' = 0, NEW i \in 1 .. Handled + 1 PROVE items[i].title \in directions'
    BY <1>2
  <2>2. failed = 0 /\ directions' = directions \cup {Head(todo).title}
    BY <1>1, <1>3, <2>1
  <2>3. CASE i = Handled + 1
    BY <1>2, <2>2, <2>3
  <2>4. CASE i # Handled + 1
    <3>1. i \in 1 .. Handled
      BY <1>3, <2>1, <2>4
    <3> QED
      BY <1>1, <2>2, <3>1 DEF DirectionsInv
  <2> QED
    BY <2>3, <2>4
<1> QED
  BY <1>1, <1>3, <1>4, <1>5, <1>6, DonesDiffer DEF DirectionsInv

\* DirectionsInv is kept by every step.
LEMMA DirectionsStep ==
  ASSUME IInv, [Next]_vars
  PROVE  DirectionsInv'
<1> USE DEF durable, run, history, vars
<1>0. Types /\ AtStage /\ ItemsInHand /\ DirectionsInv
  BY DEF IInv
<1>c. ASSUME UNCHANGED <<done, planned, directions>>, pc' # "evaluate" PROVE DirectionsInv'
  BY <1>0, <1>c DEF DirectionsInv
<1>d. ASSUME UNCHANGED directions, done \in {D0, D1, D2, D3}, done' \in {D0, D1, D2, D3, D4}, pc' # "evaluate"
      PROVE  DirectionsInv'
  BY <1>0, <1>d, DonesDiffer DEF DirectionsInv
<1>e. ASSUME UNCHANGED <<done, planned, directions, pc, items, todo>>, failed' = failed \/ pc # "evaluate"
      PROVE  DirectionsInv'
  <2>1. Handled' = Handled
    BY <1>e DEF Handled
  <2> QED
    BY <1>0, <1>e, <2>1 DEF DirectionsInv
<1>1. CASE Begin
  <2>1. pc' # "evaluate"
    BY <1>0, <1>1, BeginIs
  <2> QED
    BY <1>1, <1>c, <2>1 DEF Begin
<1>2. CASE End
  BY <1>2, <1>c DEF End
<1>3. CASE CallFails
  BY <1>3, <1>c DEF CallFails, Fail
<1>4. CASE Crash
  BY <1>4, <1>c DEF Crash
<1>5. CASE Recover
  <2>1. pc' \in {"ended", "next"} /\ UNCHANGED <<done, planned, directions>>
    BY <1>5 DEF Recover
  <2> QED
    BY <1>c, <2>1
<1>6. CASE Ask
  BY <1>6, <1>c DEF Ask
<1>7. ASSUME NEW source, NEW q, SearchEnds(source, q) PROVE DirectionsInv'
  BY <1>7, <1>e DEF SearchEnds
<1>8. CASE Reconciled
  BY <1>8, <1>c DEF Reconciled
<1>9. CASE StorePaper
  BY <1>9, <1>c DEF StorePaper, UnchangedByDiscovery
<1>10. CASE LevelEnds
  <2>1. done = D0 /\ UNCHANGED directions
    BY <1>0, <1>10 DEF LevelEnds, UnchangedByDiscovery, AtStage, Discovering
  <2>2. done' \in {D0, D1} /\ pc' \in {"next", "ended", "clear"}
    BY <1>10, <2>1, DonesGrow DEF LevelEnds, Complete, Fail
  <2> QED
    BY <1>d, <2>1, <2>2
<1>11. CASE Clear
  BY <1>11, <1>c DEF Clear
<1>12. CASE Rank
  <2>1. done = D1 /\ UNCHANGED directions
    BY <1>0, <1>12 DEF Rank, AtStage, Discovering
  <2>2. done' \in {D1, D2} /\ pc' \in {"next", "ended", "clear"}
    BY <1>12, <2>1, DonesGrow DEF Rank, Complete, Fail
  <2> QED
    BY <1>d, <2>1, <2>2
<1>13. CASE Pending
  BY <1>13, <1>c DEF Pending
<1>14. CASE Submit
  BY <1>14, <1>c DEF Submit
<1>15. ASSUME NEW job \in jobs, AnalysisDone(job) PROVE DirectionsInv'
  BY <1>15, <1>e DEF AnalysisDone
<1>16. ASSUME NEW job \in jobs, AnalysisFails(job) PROVE DirectionsInv'
  BY <1>16, <1>e DEF AnalysisFails, Own, Fault
<1>17. CASE AnalysisEnds
  <2>1. done = D2 /\ UNCHANGED directions
    BY <1>0, <1>17 DEF AnalysisEnds, AtStage, Analysing
  <2>2. done' \in {D2, D3} /\ pc' \in {"next", "ended", "clear"}
    BY <1>17, <2>1, DonesGrow DEF AnalysisEnds, Complete, Fail
  <2> QED
    BY <1>d, <2>1, <2>2
<1>18. CASE ReadAnalysed
  BY <1>18, <1>c DEF ReadAnalysed
<1>19. CASE Answer
  BY <1>19, <1>c DEF Answer, Fail
<1>20. CASE StoreGap
  BY <1>20, <1>c DEF StoreGap
<1>21. CASE GapsEnd
  <2>1. done = D3 /\ UNCHANGED directions
    BY <1>0, <1>21 DEF GapsEnd, AtStage, Detecting
  <2>2. done' \in {D3, D4} /\ pc' \in {"next", "ended", "clear"}
    BY <1>21, <2>1, DonesGrow DEF GapsEnd, Complete, Fail
  <2> QED
    BY <1>d, <2>1, <2>2
<1>22. CASE Plan
  <2>1. /\ done = D4 /\ items' = planned /\ todo' = planned /\ UNCHANGED <<done, planned, directions>>
        /\ items' \in Seq(Item)
    BY <1>0, <1>22, ListsOfItems DEF Plan, AtStage, Evaluating, Types
  <2>2. Handled' = 0
    BY <2>1, TakenIs
  <2>3. \A i \in 1 .. Handled' : FALSE
    BY <2>2
  <2> QED
    BY <1>0, <2>1, <2>3, DonesDiffer DEF DirectionsInv
<1>23. CASE Evaluate
  BY <1>0, <1>23, EvaluateStep
<1>24. CASE EvaluationEnds
  <2>1. done = D4 /\ UNCHANGED <<directions, planned>> /\ pc = "evaluate" /\ todo = <<>>
    BY <1>0, <1>24 DEF EvaluationEnds, AtStage, Evaluating
  <2>2. CASE Complete("feasibility_evaluation") /\ failed = 0
    <3>1. done' = D5 /\ pc' = "next"
      BY <2>1, <2>2, DonesGrow DEF Complete
    <3>2. Handled = Len(items) /\ DOMAIN items = 1 .. Len(items) /\ items = planned
      BY <1>0, <2>1, LengthsAre DEF DirectionsInv
    <3>3. TitlesOf(planned) \subseteq directions
      BY <1>0, <2>1, <2>2, <3>2 DEF DirectionsInv, TitlesOf
    <3>4. directions \subseteq TitlesOf(planned)
      BY <1>0, <2>1 DEF DirectionsInv
    <3> QED
      BY <2>1, <3>1, <3>3, <3>4, DonesDiffer DEF DirectionsInv
  <2>3. CASE Fail /\ UNCHANGED done
    BY <1>c, <2>1, <2>3 DEF Fail
  <2> QED
    BY <1>24, <2>2, <2>3 DEF EvaluationEnds
<1>25. CASE GenerateReport
  BY <1>25, <1>c DEF GenerateReport
<1>26. CASE ReportEnds
  <2>1. done = D5 /\ done' = D6 /\ UNCHANGED <<directions, planned>> /\ pc' = "next"
    BY <1>0, <1>26, DonesGrow DEF ReportEnds, AtStage, Reporting, Complete
  <2> QED
    BY <1>0, <2>1, DonesDiffer DEF DirectionsInv
<1>27. CASE GetReport
  BY <1>27, <1>e DEF GetReport
<1>28. CASE UNCHANGED vars
  BY <1>28, <1>e
<1> QED
  BY <1>1, <1>2, <1>3, <1>4, <1>5, <1>6, <1>7, <1>8, <1>9, <1>10, <1>11, <1>12, <1>13, <1>14,
     <1>15, <1>16, <1>17, <1>18, <1>19, <1>20, <1>21, <1>22, <1>23, <1>24, <1>25, <1>26, <1>27,
     <1>28 DEF Next

-------------------------------------------------------------------------------
(* Late jobs *)

\* The empty function has values in any set.
LEMMA EmptyFunction == \A S : <<>> \in [{} -> S]
<1>1. <<>> = [t \in {} |-> <<>>[t]]
  OBVIOUS
<1> QED
  BY <1>1

\* AnalysesInv is kept by every step.
LEMMA AnalysesStep ==
  ASSUME IInv, [Next]_vars
  PROVE  AnalysesInv'
<1> USE DEF durable, run, history, vars
<1>0. Types /\ AtStage /\ AnalysesInv
  BY DEF IInv
<1>c. ASSUME UNCHANGED <<analysed, analysis, jobs>>, torn \subseteq torn', pc # "submit",
             pc' # "submit", status' \in {status, "failed", "completed"}, status # "failed" \/ status' = status
      PROVE  AnalysesInv'
  BY <1>0, <1>c DEF AnalysesInv
<1>d. ASSUME UNCHANGED <<analysed, analysis>>, status' = "failed" PROVE AnalysesInv'
  BY <1>0, <1>d DEF AnalysesInv
<1>e. ASSUME UNCHANGED <<analysed, analysis, status, torn, pc, crashes>>, jobs' \subseteq jobs
      PROVE  AnalysesInv'
  BY <1>0, <1>e DEF AnalysesInv, OwnJobs
<1>1. CASE Begin
  <2>1. pc' # "submit"
    BY <1>0, <1>1, BeginIs
  <2> QED
    BY <1>1, <1>c, <2>1 DEF Begin
<1>2. CASE End
  BY <1>0, <1>2, <1>c DEF End, AtStage
<1>3. CASE CallFails
  BY <1>3, <1>d DEF CallFails, Fail
<1>4. CASE Crash
  <2>1. UNCHANGED <<analysed, analysis, jobs, status>> /\ torn \subseteq torn' /\ pc' = "down"
    BY <1>4 DEF Crash
  <2>2. CASE pc = "submit"
    <3>1. Upcoming = "paper_analysis"
      BY <1>0, <2>2, UpcomingIs DEF AtStage, Analysing
    <3>2. "paper_analysis" \in torn'
      BY <1>4, <2>2, <3>1 DEF Crash
    <3> QED
      BY <1>0, <2>1, <3>2 DEF AnalysesInv
  <2>3. CASE pc # "submit"
    BY <1>c, <2>1, <2>3
  <2> QED
    BY <2>2, <2>3
<1>5. CASE Recover
  <2>1. /\ UNCHANGED <<analysed, analysis, jobs, torn>> /\ pc = "down" /\ pc' \in {"ended", "next"}
        /\ status' = status \/ status' = "failed"
    BY <1>5 DEF Recover
  <2> QED
    BY <1>c, <1>d, <2>1
<1>6. CASE Ask
  BY <1>6, <1>c DEF Ask
<1>7. ASSUME NEW source, NEW q, SearchEnds(source, q) PROVE AnalysesInv'
  BY <1>7, <1>c DEF SearchEnds
<1>8. CASE Reconciled
  BY <1>8, <1>c DEF Reconciled
<1>9. CASE StorePaper
  BY <1>9, <1>c DEF StorePaper, Fault, UnchangedByDiscovery
<1>10. CASE LevelEnds
  <2>1. UNCHANGED <<analysed, analysis, jobs, torn>> /\ pc = "store"
    BY <1>10 DEF LevelEnds, UnchangedByDiscovery
  <2>2. \/ status' = status /\ pc' \in {"next", "clear"}
        \/ status' = "failed"
    BY <1>10 DEF LevelEnds, Complete, Fail
  <2> QED
    BY <1>c, <1>d, <2>1, <2>2
<1>11. CASE Clear
  <2>1. analysed' = {} /\ analysis' = <<>> /\ UNCHANGED <<jobs, torn, status>> /\ pc = "clear" /\ pc' = "ask"
    BY <1>11 DEF Clear
  <2>2. <<>> \in [{} -> Analyses]
    BY EmptyFunction
  <2> QED
    BY <1>0, <2>1, <2>2 DEF AnalysesInv
<1>12. CASE Rank
  BY <1>12, <1>c DEF Rank, Complete
<1>13. CASE Pending
  BY <1>0, <1>13 DEF Pending, AnalysesInv, OwnJobs
<1>14. CASE Submit
  <2>1. /\ UNCHANGED <<analysed, analysis, torn, status, crashes, pc>> /\ pc = "submit"
        /\ jobs' = jobs \cup {[process |-> crashes, paper |-> Head(todo)]}
    BY <1>14 DEF Submit
  <2> QED
    BY <1>0, <2>1 DEF AnalysesInv, OwnJobs
<1>15. ASSUME NEW job \in jobs, AnalysisDone(job) PROVE AnalysesInv'
  <2> DEFINE row == {job.paper} \cap members
  <2>1. /\ UNCHANGED <<torn, status, crashes, pc>> /\ jobs' \subseteq jobs
        /\ analysed' = analysed \cup row
    BY <1>15 DEF AnalysisDone
  <2>2. PICK answer \in Analyses : analysis' = With(analysis, row, answer)
    BY <1>15 DEF AnalysisDone
  <2>3. analysis' \in [analysed' -> Analyses]
    BY <1>0, <2>1, <2>2 DEF AnalysesInv, With
  <2> QED
    BY <1>0, <2>1, <2>3 DEF AnalysesInv, OwnJobs
<1>16. ASSUME NEW job \in jobs, AnalysisFails(job) PROVE AnalysesInv'
  BY <1>16, <1>e DEF AnalysisFails, Fault
<1>17. CASE AnalysisEnds
  <2>1. UNCHANGED <<analysed, analysis, jobs, torn>> /\ pc = "submit" /\ OwnJobs = {}
    BY <1>17 DEF AnalysisEnds, Own, OwnJobs
  <2>2. status' = "failed" \/ (status' = status /\ pc' = "next")
    BY <1>17 DEF AnalysisEnds, Complete, Fail
  <2> QED
    BY <1>0, <1>d, <2>1, <2>2 DEF AnalysesInv
<1>18. CASE ReadAnalysed
  BY <1>18, <1>c DEF ReadAnalysed
<1>19. CASE Answer
  <2>1. UNCHANGED <<analysed, analysis, jobs, torn>> /\ pc = "answer"
    BY <1>19 DEF Answer
  <2>2. status' = "failed" \/ (status' = status /\ pc' = "gaps")
    BY <1>19 DEF Answer, Fail
  <2> QED
    BY <1>c, <1>d, <2>1, <2>2
<1>20. CASE StoreGap
  BY <1>20, <1>c DEF StoreGap, Fault
<1>21. CASE GapsEnd
  BY <1>21, <1>c, <1>d DEF GapsEnd, Complete, Fail
<1>22. CASE Plan
  BY <1>22, <1>c DEF Plan
<1>23. CASE Evaluate
  BY <1>23, <1>c DEF Evaluate, Fault
<1>24. CASE EvaluationEnds
  BY <1>24, <1>c, <1>d DEF EvaluationEnds, Complete, Fail
<1>25. CASE GenerateReport
  BY <1>25, <1>c DEF GenerateReport
<1>26. CASE ReportEnds
  BY <1>26, <1>c DEF ReportEnds, Complete
<1>27. CASE GetReport
  BY <1>0, <1>27, <1>c, <1>e DEF GetReport
<1>28. CASE UNCHANGED vars
  BY <1>28, <1>e
<1> QED
  BY <1>1, <1>2, <1>3, <1>4, <1>5, <1>6, <1>7, <1>8, <1>9, <1>10, <1>11, <1>12, <1>13, <1>14,
     <1>15, <1>16, <1>17, <1>18, <1>19, <1>20, <1>21, <1>22, <1>23, <1>24, <1>25, <1>26, <1>27,
     <1>28 DEF Next

-------------------------------------------------------------------------------
(* The report *)

\* What is generated is a report.
LEMMA ReportTypes == Types /\ AnalysesInv => Generated \in Reports
<1> SUFFICES ASSUME Types, AnalysesInv PROVE Generated \in Reports
  OBVIOUS
<1>1. gaps \in [DOMAIN gaps -> SUBSET PaperIds] /\ DOMAIN gaps \in SUBSET Titles
  BY DEF Types
<1>2. gaps \in UNION {[some -> Evidence] : some \in SUBSET Titles}
  BY <1>1 DEF Evidence
<1>3. analysed \in SUBSET PaperIds /\ directions \in SUBSET Titles
  BY DEF Types
<1>4. analysis \in UNION {[some -> Analyses] : some \in SUBSET PaperIds}
  BY <1>3 DEF AnalysesInv
<1> QED
  BY <1>2, <1>3, <1>4 DEF Generated, Reports

\* ReportInv is kept by every step.
LEMMA ReportStep ==
  ASSUME IInv, [Next]_vars
  PROVE  ReportInv'
<1> USE DEF durable, run, history, vars
<1>0. Types /\ AtStage /\ JobsInv /\ AnalysesInv /\ ReportInv
  BY DEF IInv
<1>a. status # "completed" => served = NoReport
  BY <1>0 DEF ReportInv
<1>b. done \notin {D5, D6} => cached = NoReport /\ served = NoReport
  BY <1>0 DEF ReportInv, AtStage
<1>c. ASSUME UNCHANGED <<analysed, analysis, gaps, directions, cached, served>>, torn \subseteq torn',
             done' = done \/ done' \in {D5, D6},
             status' = status \/ (status = "processing" /\ status' \in {"completed", "failed"})
      PROVE  ReportInv'
  <2>1. Generated' = Generated
    BY <1>c DEF Generated
  <2> QED
    BY <1>0, <1>a, <1>c, <2>1 DEF ReportInv
<1>d. ASSUME UNCHANGED <<cached, served>>, done \notin {D5, D6} PROVE ReportInv'
  BY <1>b, <1>d DEF ReportInv
<1>1. CASE Begin
  BY <1>0, <1>1, <1>c DEF Begin, AtStage
<1>2. CASE End
  BY <1>0, <1>2, <1>c DEF End, AtStage
<1>3. CASE CallFails
  BY <1>0, <1>3, <1>c DEF CallFails, Fail, Fault, AtStage, Discovering, Analysing, Detecting,
     Evaluating, Reporting
<1>4. CASE Crash
  <2>1. /\ cached' = NoReport /\ torn \subseteq torn'
        /\ UNCHANGED <<analysed, analysis, gaps, directions, served, status>>
    BY <1>4 DEF Crash
  <2>2. Generated' = Generated
    BY <2>1 DEF Generated
  <2> QED
    BY <1>0, <2>1, <2>2 DEF ReportInv
<1>5. CASE Recover
  <2>1. /\ UNCHANGED <<analysed, analysis, gaps, directions, cached, served, done, torn>>
        /\ (status' = status \/ (status = "processing" /\ status' = "failed"))
    BY <1>5 DEF Recover
  <2> QED
    BY <1>c, <2>1
<1>6. CASE Ask
  BY <1>0, <1>6, <1>c DEF Ask, AtStage
<1>7. ASSUME NEW source, NEW q, SearchEnds(source, q) PROVE ReportInv'
  BY <1>7, <1>c DEF SearchEnds
<1>8. CASE Reconciled
  BY <1>0, <1>8, <1>c DEF Reconciled, AtStage
<1>9. CASE StorePaper
  BY <1>0, <1>9, <1>d, DonesDiffer DEF StorePaper, UnchangedByDiscovery, AtStage, Discovering
<1>10. CASE LevelEnds
  BY <1>0, <1>10, <1>d, DonesDiffer DEF LevelEnds, UnchangedByDiscovery, AtStage, Discovering
<1>11. CASE Clear
  BY <1>0, <1>11, <1>d, DonesDiffer DEF Clear, AtStage, Discovering
<1>12. CASE Rank
  BY <1>0, <1>12, <1>d, DonesDiffer DEF Rank, AtStage, Discovering
<1>13. CASE Pending
  BY <1>0, <1>13, <1>c DEF Pending, AtStage
<1>14. CASE Submit
  BY <1>0, <1>14, <1>c DEF Submit, AtStage
<1>15. ASSUME NEW job \in jobs, AnalysisDone(job) PROVE ReportInv'
  <2>1. /\ UNCHANGED <<gaps, directions, cached, served, done, status, torn, pc>>
        /\ analysed' = analysed \cup ({job.paper} \cap members)
    BY <1>15 DEF AnalysisDone
  <2>2. CASE done \in {D5, D6}
    <3>1. analysed' = analysed
      BY <1>0, <1>15, <2>1, <2>2 DEF JobsInv
    <3>2. Listed(Generated)' = Listed(Generated)
      BY <2>1, <3>1 DEF Listed, Generated
    <3>3. "paper_analysis" \in torn \/ status = "failed"
      <4>1. pc # "submit"
        BY <1>0, <2>2, DonesDiffer DEF AtStage, Analysing
      <4> QED
        BY <1>0, <1>15, <4>1 DEF AnalysesInv
    <3> QED
      BY <1>0, <2>1, <3>2, <3>3 DEF ReportInv, Reports
  <2>3. CASE done \notin {D5, D6}
    BY <1>d, <2>1, <2>3
  <2> QED
    BY <2>2, <2>3
<1>16. ASSUME NEW job \in jobs, AnalysisFails(job) PROVE ReportInv'
  BY <1>16, <1>c DEF AnalysisFails, Fault
<1>17. CASE AnalysisEnds
  BY <1>0, <1>17, <1>d, DonesDiffer DEF AnalysisEnds, AtStage, Analysing
<1>18. CASE ReadAnalysed
  BY <1>0, <1>18, <1>c DEF ReadAnalysed, AtStage
<1>19. CASE Answer
  BY <1>0, <1>19, <1>d, DonesDiffer DEF Answer, AtStage, Detecting
<1>20. CASE StoreGap
  BY <1>0, <1>20, <1>d, DonesDiffer DEF StoreGap, AtStage, Detecting
<1>21. CASE GapsEnd
  BY <1>0, <1>21, <1>d, DonesDiffer DEF GapsEnd, AtStage, Detecting
<1>22. CASE Plan
  BY <1>0, <1>22, <1>c DEF Plan, AtStage
<1>23. CASE Evaluate
  BY <1>0, <1>23, <1>d, DonesDiffer DEF Evaluate, AtStage, Evaluating
<1>24. CASE EvaluationEnds
  BY <1>0, <1>24, <1>d, DonesDiffer DEF EvaluationEnds, AtStage, Evaluating
<1>25. CASE GenerateReport
  <2>1. /\ UNCHANGED <<analysed, analysis, gaps, directions, served, done, status, torn>>
        /\ cached' = Generated /\ done = D5 /\ status = "processing"
    BY <1>0, <1>25 DEF GenerateReport, AtStage, Reporting
  <2>2. Generated' = Generated /\ served = NoReport
    BY <1>a, <2>1 DEF Generated
  <2>3. Generated \in Reports
    BY <1>0, ReportTypes
  <2>4. Reports' = Reports
    BY DEF Reports, Evidence
  <2> QED
    BY <1>0, <2>1, <2>2, <2>3, <2>4 DEF ReportInv
<1>26. CASE ReportEnds
  <2>1. /\ UNCHANGED <<analysed, analysis, gaps, directions, cached, served, status, torn>>
        /\ done' = D6
    BY <1>0, <1>26, DonesGrow DEF ReportEnds, AtStage, Reporting, Complete
  <2> QED
    BY <1>c, <2>1
<1>27. CASE GetReport
  <2>1. /\ UNCHANGED <<analysed, analysis, gaps, directions, done, status, torn>>
        /\ status = "completed"
        /\ cached' = (IF cached = NoReport THEN Generated ELSE cached) /\ served' = cached'
    BY <1>27 DEF GetReport
  <2>2. Generated' = Generated /\ done = D6
    BY <1>0, <2>1 DEF Generated, AtStage
  <2>3. Generated \in Reports
    BY <1>0, ReportTypes
  <2>4. CASE cached = NoReport
    BY <2>1, <2>2, <2>3, <2>4 DEF ReportInv
  <2>5. CASE cached # NoReport
    BY <1>0, <2>1, <2>2, <2>5 DEF ReportInv
  <2> QED
    BY <2>4, <2>5
<1>28. CASE UNCHANGED vars
  BY <1>28, <1>c
<1> QED
  BY <1>1, <1>2, <1>3, <1>4, <1>5, <1>6, <1>7, <1>8, <1>9, <1>10, <1>11, <1>12, <1>13, <1>14,
     <1>15, <1>16, <1>17, <1>18, <1>19, <1>20, <1>21, <1>22, <1>23, <1>24, <1>25, <1>26, <1>27,
     <1>28 DEF Next

-------------------------------------------------------------------------------
(* The invariant holds *)

\* The run starts in the invariant.
LEMMA InitInv == Init => IInv
<1> SUFFICES ASSUME Init PROVE IInv
  OBVIOUS
<1>1. Types
  BY TypesInit
<1>2. items = <<>> /\ todo = <<>> /\ failed = 0 /\ Len(<<>>) = 0
  BY DEF Init
<1>3. AtStage
  BY DEF Init, AtStage, D0, Discovering, Analysing, Detecting, Evaluating, Reporting
<1>4. ItemsInHand
  BY <1>2 DEF Init, ItemsInHand
<1>5. Discovery
  BY DEF Init, Discovery
<1>6. JobsInv
  BY DonesDiffer DEF Init, JobsInv, OwnJobs, D0
<1>7. GapsInv
  <2>1. DOMAIN gaps = {} /\ done = D0 /\ pc = "next"
    BY DEF Init, D0
  <2> QED
    BY <2>1, DonesDiffer DEF GapsInv
<1>8. DirectionsInv
  <2>1. directions = {} /\ done = D0 /\ pc = "next"
    BY DEF Init, D0
  <2> QED
    BY <2>1, DonesDiffer DEF DirectionsInv
<1>9. ReportInv
  BY DEF Init, ReportInv
<1>10. AnalysesInv
  <2>1. analysed = {} /\ analysis = <<>> /\ jobs = {} /\ pc = "next"
    BY DEF Init
  <2>2. <<>> \in [{} -> Analyses]
    BY EmptyFunction
  <2> QED
    BY <2>1, <2>2 DEF AnalysesInv
<1> QED
  BY <1>1, <1>3, <1>4, <1>5, <1>6, <1>7, <1>8, <1>9, <1>10 DEF IInv

\* Every step keeps the invariant.
LEMMA StepInv == IInv /\ [Next]_vars => IInv'
<1> SUFFICES ASSUME IInv, [Next]_vars PROVE IInv'
  OBVIOUS
<1>1. Types' /\ AtStage' /\ ItemsInHand' /\ Discovery'
  BY TypesStep, AtStageStep, ItemsInHandStep, DiscoveryStep
<1>2. JobsInv' /\ AnalysesInv' /\ GapsInv' /\ DirectionsInv' /\ ReportInv'
  BY JobsStep, AnalysesStep, GapsStep, DirectionsStep, ReportStep
<1> QED
  BY <1>1, <1>2 DEF IInv

\* The inductive invariant holds in every reachable state.
THEOREM Invariant == Spec => []IInv
<1>1. Init => IInv
  BY InitInv
<1>2. IInv /\ [Next]_vars => IInv'
  BY StepInv
<1> QED
  BY <1>1, <1>2, PTL DEF Spec

-------------------------------------------------------------------------------
(* The properties *)

\* Whether a key of one paper is a key of another.
LEMMA HasKey ==
  ASSUME NEW p \in Paper, NEW q
  PROVE  /\ q.arxiv # None => (ArxivKey(q) \in ToSet(Keys(p)) <=> p.arxiv = q.arxiv)
         /\ q.doi # None => (DoiKey(q) \in ToSet(Keys(p)) <=> p.doi = q.doi)
<1>1. /\ DoiKey(p) = DoiKey(q) <=> p.doi = q.doi
      /\ ArxivKey(p) = ArxivKey(q) <=> p.arxiv = q.arxiv
      /\ ArxivKey(q) # DoiKey(p) /\ ArxivKey(q) # SourceKey(p)
      /\ DoiKey(q) # ArxivKey(p) /\ DoiKey(q) # SourceKey(p)
  BY KeysEqual
<1>2. /\ \A key \in ToSet(Keys(p)) : key \in {DoiKey(p), ArxivKey(p), SourceKey(p)}
      /\ p.doi # None => DoiKey(p) \in ToSet(Keys(p))
      /\ p.arxiv # None => ArxivKey(p) \in ToSet(Keys(p))
  BY KeysSet
<1> QED
  BY <1>1, <1>2

\* In the invariant two papers share a key only if a candidate joined their IDs.
LEMMA DistinctInv == IInv => PapersAreDistinct
<1> SUFFICES ASSUME IInv, pc = "store" PROVE PapersAreDistinct
  BY DEF PapersAreDistinct
<1> DEFINE list == Candidates(answers)
           s == FoldLeft(Enter, Start, list)
<1>1. answers \in Answered /\ items = Cut(Reconcile(answers))
  BY DEF IInv, Discovery
<1>2. Ordered(list) /\ list \in Seq(Paper)
  BY <1>1, CandidatesOrdered DEF Ordered
<1>3. s \in States /\ Registered(s) /\ Apart(list, Len(list), s)
  BY <1>2, Reconciling
<1>4. Reconcile(answers) = s.papers
  BY DEF Reconcile
<1> HIDE DEF list, s
<1>5. s.papers \in Seq(Paper) /\ Len(s.papers) \in Nat /\ DOMAIN s.papers = 1 .. Len(s.papers)
  <2>1. s.papers \in Seq(Paper)
    BY <1>3 DEF States
  <2> QED
    BY <2>1
<1>6. \A i \in DOMAIN items : i \in 1 .. Len(s.papers) /\ items[i] = s.papers[i] /\ items[i] \in Paper
  BY <1>1, <1>4, <1>5, CutIs
<1>7. Len(list) \in Nat /\ DOMAIN list = 1 .. Len(list) /\ \A n \in DOMAIN list : list[n] \in Paper
  BY <1>2
<1>8. ASSUME NEW i \in DOMAIN items, NEW j \in DOMAIN items, i # j,
             NEW key \in ToSet(Keys(items[i])) \cap ToSet(Keys(items[j]))
      PROVE  \E n \in DOMAIN list : \E other \in ToSet(Keys(list[n])) \ {key} :
               /\ key \in ToSet(Keys(list[n]))
               /\ \E m \in 1 .. n - 1 : key \in ToSet(Keys(list[m])) /\ other \notin ToSet(Keys(list[m]))
               /\ \E m \in 1 .. n - 1 : other \in ToSet(Keys(list[m])) /\ key \notin ToSet(Keys(list[m]))
  <2> DEFINE p == items[i]
             q == items[j]
  <2>1. p \in Paper /\ q \in Paper /\ p = s.papers[i] /\ q = s.papers[j]
        /\ i \in 1 .. Len(s.papers) /\ j \in 1 .. Len(s.papers)
    BY <1>6
  <2>2. key[1] = "arxiv"
    BY <1>3, <1>8, <2>1 DEF Registered
  <2>3. key = ArxivKey(p) /\ p.arxiv # None
    BY <1>8, <2>1, <2>2, KeysSet, KeyParts
  <2>4. q.arxiv = p.arxiv
    BY <1>8, <2>1, <2>3, HasKey
  <2>5. PICK k \in 1 .. Len(list) : Joins(list, k, p.arxiv)
    BY <1>3, <1>8, <2>1, <2>3, <2>4 DEF Apart
  <2> HIDE DEF p, q
  <2> DEFINE other == DoiKey(list[k])
  <2>6. list[k].arxiv = p.arxiv /\ list[k].doi # None /\ list[k] \in Paper
    BY <1>7, <2>5 DEF Joins
  <2>7. other \in ToSet(Keys(list[k])) /\ other # key /\ key \in ToSet(Keys(list[k]))
    BY <2>3, <2>6, HasKey, KeysEqual
  <2>8. PICK m \in 1 .. k - 1 : list[m].arxiv = p.arxiv /\ list[m].doi # list[k].doi
    BY <2>5 DEF Joins
  <2>9. PICK l \in 1 .. k - 1 : list[l].doi = list[k].doi /\ list[l].arxiv # p.arxiv
    BY <2>5 DEF Joins
  <2>10. m \in DOMAIN list /\ l \in DOMAIN list /\ k \in DOMAIN list
    BY <1>7, <2>5, <2>8, <2>9
  <2>11. list[m] \in Paper /\ list[l] \in Paper
    BY <1>7, <2>10
  <2>12. key \in ToSet(Keys(list[m])) /\ other \notin ToSet(Keys(list[m]))
    BY <2>3, <2>6, <2>8, <2>11, HasKey
  <2>13. other \in ToSet(Keys(list[l])) /\ key \notin ToSet(Keys(list[l]))
    BY <2>3, <2>6, <2>9, <2>11, HasKey
  <2> HIDE DEF other
  <2> QED
    BY <2>7, <2>10, <2>12, <2>13
<1> QED
  BY <1>8 DEF PapersAreDistinct, list

\* Two papers of one discovery share an identifier only if a later candidate, which
\* has two identifiers, joined what was known by one of them each (paper_discoverer.go
\* reconcileDiscoveredPapers).
THEOREM PapersAreDistinctHolds == Spec => []PapersAreDistinct
<1>1. IInv => PapersAreDistinct
  BY DistinctInv
<1> QED
  BY <1>1, Invariant, PTL

\* The sets of done stages are those of the checkpoints.
LEMMA StageSets == {D0, D1, D2, D3, D4, D5, D6} \subseteq {ToSet(SubSeq(Stages, 1, n)) : n \in 0 .. Len(Stages)}
<1>1. /\ Stages \in Seq(D6) /\ Len(Stages) = 6 /\ Stages[1] = "paper_discovery"
      /\ Stages[2] = "ranking" /\ Stages[3] = "paper_analysis" /\ Stages[4] = "gap_detection"
      /\ Stages[5] = "feasibility_evaluation" /\ Stages[6] = "report_generation"
  BY DEF Stages, D5, D6
<1>2. ASSUME NEW n \in 0 .. 6 PROVE ToSet(SubSeq(Stages, 1, n)) = {Stages[i] : i \in 1 .. n}
  <2>1. n - 1 + 1 = n /\ (1 <= n \/ n = 0) /\ \A i \in Nat : 1 + i - 1 = i
    OBVIOUS
  <2>2. \A i \in 1 .. n : Stages[i] \in D6 /\ i \in 1 .. Len(Stages)
    <3>1. n \in Nat /\ n <= 6
      OBVIOUS
    <3>2. \A i \in 1 .. n : i \in 1 .. 6
      BY <3>1
    <3>3. \A i \in 1 .. Len(Stages) : Stages[i] \in D6
      <4>1. Stages \in Seq(D6)
        BY <1>1
      <4> HIDE DEF Stages
      <4> QED
        BY <4>1, ElementOfSeq
    <3>4. Len(Stages) = 6
      BY <1>1
    <3> QED
      BY <3>2, <3>3, <3>4
  <2>3. /\ SubSeq(Stages, 1, n) \in Seq(D6) /\ Len(SubSeq(Stages, 1, n)) = n
        /\ \A i \in 1 .. n : SubSeq(Stages, 1, n)[i] = Stages[i]
    BY <1>1, <2>1, <2>2, SubSeqProperties
  <2>4. DOMAIN SubSeq(Stages, 1, n) = 1 .. n
    BY <2>3
  <2> QED
    BY <2>3, <2>4 DEF ToSet
<1>3. \A i \in 1 .. 0 : FALSE
  OBVIOUS
<1>4. /\ \A i : i \in 1 .. 1 <=> i \in {1} /\ i \in Nat
      /\ \A i : i \in 1 .. 2 <=> i \in {1, 2} /\ i \in Nat
      /\ \A i : i \in 1 .. 3 <=> i \in {1, 2, 3} /\ i \in Nat
      /\ \A i : i \in 1 .. 4 <=> i \in {1, 2, 3, 4} /\ i \in Nat
      /\ \A i : i \in 1 .. 5 <=> i \in {1, 2, 3, 4, 5} /\ i \in Nat
      /\ \A i : i \in 1 .. 6 <=> i \in {1, 2, 3, 4, 5, 6} /\ i \in Nat
  OBVIOUS
<1>5. /\ D0 = {Stages[i] : i \in 1 .. 0} /\ D1 = {Stages[i] : i \in 1 .. 1}
      /\ D2 = {Stages[i] : i \in 1 .. 2}
  BY <1>1, <1>3, <1>4 DEF D0, D1, D2
<1>6. D3 = {Stages[i] : i \in 1 .. 3} /\ D4 = {Stages[i] : i \in 1 .. 4}
  BY <1>1, <1>4 DEF D3, D4
<1>7. D5 = {Stages[i] : i \in 1 .. 5} /\ D6 = {Stages[i] : i \in 1 .. 6}
  BY <1>1, <1>4 DEF D5, D6
<1>8. /\ ToSet(SubSeq(Stages, 1, 0)) = D0 /\ ToSet(SubSeq(Stages, 1, 1)) = D1
      /\ ToSet(SubSeq(Stages, 1, 2)) = D2 /\ ToSet(SubSeq(Stages, 1, 3)) = D3
      /\ ToSet(SubSeq(Stages, 1, 4)) = D4 /\ ToSet(SubSeq(Stages, 1, 5)) = D5
      /\ ToSet(SubSeq(Stages, 1, 6)) = D6
  BY <1>2, <1>5, <1>6, <1>7
<1>9. {0, 1, 2, 3, 4, 5, 6} \subseteq 0 .. Len(Stages)
  BY <1>1
<1> QED
  BY <1>8, <1>9

\* The invariant implies the type invariant that the runs check.
LEMMA TypeInv == IInv => TypeOK
<1> SUFFICES ASSUME IInv PROVE TypeOK
  OBVIOUS
<1>1. Types /\ ItemsInHand /\ AnalysesInv /\ ReportInv
  BY DEF IInv
<1>2. done \in {ToSet(SubSeq(Stages, 1, n)) : n \in 0 .. Len(Stages)}
  BY <1>1, StageSets DEF Types
<1>3. {job.paper : job \in jobs} \subseteq PaperIds
  BY <1>1 DEF Types
<1>4. failed \in 0 .. Len(items) /\ Len(todo) <= Len(items)
  <2>1. Len(items) \in Nat /\ Len(todo) \in Nat /\ failed \in Nat
    BY <1>1, LengthsAre DEF Types
  <2>2. failed + Len(todo) <= Len(items) /\ Len(todo) <= Len(items)
    BY <1>1 DEF ItemsInHand
  <2> QED
    BY <2>1, <2>2
<1>5. (cached # NoReport => cached \in Reports) /\ (served # NoReport => served \in Reports)
  BY <1>1 DEF ReportInv
<1>6. \A t \in DOMAIN gaps : gaps[t] \in Evidence
  BY <1>1 DEF Types, Evidence
<1> QED
  BY <1>1, <1>2, <1>3, <1>4, <1>5, <1>6 DEF TypeOK, Types, AnalysesInv

\* Whatever indices the model answers with, a gap of the report cites only papers of
\* the report, and so entries of its references; the rows are well typed
\* (gap_detector.go resolveGapReferences, report_generator.go formatEvidenceCitations).
THEOREM CitationsResolveHolds == Spec => []CitationsResolve
<1>1. IInv => CitationsResolve
  <2> SUFFICES ASSUME IInv PROVE CitationsResolve
    OBVIOUS
  <2>1. TypeOK
    BY TypeInv
  <2>2. ASSUME cached # NoReport, NEW title \in DOMAIN cached.gaps
        PROVE  cached.gaps[title] \subseteq cached.papers
    <3>1. Listed(cached) = Listed(Generated)
      BY <2>2 DEF IInv, ReportInv
    <3>2. cached.gaps = gaps /\ cached.papers = analysed
      BY <3>1 DEF Generated, Listed
    <3> QED
      BY <2>2, <3>2 DEF IInv, GapsInv
  <2> QED
    BY <2>1, <2>2 DEF CitationsResolve
<1> QED
  BY <1>1, Invariant, PTL

\* The report of a completed run has every gap agreed on, each with its direction, and
\* no other unless that stage was cut off (gap_detector.go persistGaps, feasibility.go
\* Evaluate, pipeline_runner.go runFeasibility).
THEOREM ReportIsCompleteHolds == Spec => []ReportIsComplete
<1>1. IInv => ReportIsComplete
  <2> SUFFICES ASSUME IInv, status = "completed", cached # NoReport
               PROVE  /\ cached.directions = TitlesOf(planned)
                      /\ TitlesOf(planned) \subseteq DOMAIN cached.gaps
                      /\ "gap_detection" \notin torn => TitlesOf(planned) = DOMAIN cached.gaps
    BY DEF ReportIsComplete, TitlesOf
  <2>1. done = D6 /\ Listed(cached) = Listed(Generated)
    BY DEF IInv, AtStage, ReportInv
  <2>2. cached.directions = directions /\ cached.gaps = gaps
    BY <2>1 DEF Generated, Listed
  <2>3. directions = TitlesOf(planned)
    BY <2>1 DEF IInv, DirectionsInv
  <2>4. /\ TitlesOf(planned) \subseteq DOMAIN gaps
        /\ "gap_detection" \notin torn => TitlesOf(planned) = DOMAIN gaps
    BY <2>1 DEF IInv, GapsInv
  <2> QED
    BY <2>2, <2>3, <2>4
<1> QED
  BY <1>1, Invariant, PTL

\* Two reports given out for a run have the same papers, gaps and directions.  They say
\* the same of each paper unless the report was lost with its process, and a stage of
\* analysis was cut off whose jobs are executed late (pipeline_types.go
\* ReportService.Get and Cache, pipeline_runner.go PendingPapers, analyzer.go HandleJob).
THEOREM ReportsAgreeHolds == Spec => ReportsAgree
<1> DEFINE Agreeing == served # NoReport =>
             /\ Listed(served') = Listed(served)
             /\ served'.analyses # served.analyses => cached = NoReport /\ "paper_analysis" \in torn
<1>1. IInv /\ [Next]_vars => [Agreeing]_vars
  <2> SUFFICES ASSUME IInv, Next, served # NoReport
               PROVE  served' = served \/ (GetReport /\ Agreeing)
    BY DEF vars
  <2> USE DEF durable, run, history
  <2>1. /\ status = "completed" /\ Listed(served) = Listed(Generated)
        /\ cached # NoReport => cached = served
        /\ "paper_analysis" \notin torn => served = Generated
    BY DEF IInv, ReportInv
  <2>2. CASE GetReport
    <3>1. served' = IF cached = NoReport THEN Generated ELSE cached
      BY <2>2 DEF GetReport
    <3> QED
      BY <2>1, <2>2, <3>1
  <2>3. CASE Begin \/ End \/ CallFails \/ Crash \/ Recover \/ Ask \/ Reconciled
    BY <2>3 DEF Begin, End, CallFails, Crash, Recover, Ask, Reconciled
  <2>4. CASE StorePaper \/ LevelEnds \/ Clear \/ Rank \/ Pending \/ Submit \/ AnalysisEnds
    BY <2>4 DEF StorePaper, LevelEnds, Clear, Rank, Pending, Submit, AnalysisEnds, UnchangedByDiscovery
  <2>5. CASE ReadAnalysed \/ Answer \/ StoreGap \/ GapsEnd \/ Plan \/ Evaluate \/ EvaluationEnds
    BY <2>5 DEF ReadAnalysed, Answer, StoreGap, GapsEnd, Plan, Evaluate, EvaluationEnds
  <2>6. CASE GenerateReport \/ ReportEnds
    BY <2>6 DEF GenerateReport, ReportEnds
  <2>7. ASSUME NEW source, NEW q, SearchEnds(source, q) PROVE served' = served
    BY <2>7 DEF SearchEnds
  <2>8. ASSUME NEW job, AnalysisDone(job) \/ AnalysisFails(job) PROVE served' = served
    BY <2>8 DEF AnalysisDone, AnalysisFails
  <2> QED
    BY <2>2, <2>3, <2>4, <2>5, <2>6, <2>7, <2>8 DEF Next
<1> QED
  BY <1>1, Invariant, PTL DEF Spec, ReportsAgree

\* The papers counted as stored are different members.
LEMMA StoredAreMembers ==
  ASSUME Types, ItemsInHand, Discovery, pc = "store"
  PROVE  Cardinality(members) \in Nat /\ Cardinality(Stored) \in Nat
         /\ Cardinality(Stored) <= Cardinality(members)
<1>1. \A i, j \in DOMAIN items : Id(items[i]) = Id(items[j]) => i = j
  BY StoredIs
<1>2. Handled \in 0 .. Len(items) /\ DOMAIN items = 1 .. Len(items) /\ Len(items) \in Nat
  BY LengthsAre
<1>3. Stored \subseteq DOMAIN items /\ \A i \in Stored : Id(items[i]) \in members
  BY <1>2 DEF Stored
<1> DEFINE f == [i \in Stored |-> Id(items[i])]
<1>4. f \in [Stored -> members] /\ DOMAIN f = Stored /\ \A i, j \in Stored : f[i] = f[j] => i = j
  BY <1>1, <1>3
<1> HIDE DEF f
<1>5. f \in Injection(Stored, members)
  BY <1>4 DEF Injection, IsInjective
<1>6. IsFiniteSet(members)
  BY DEF Types
<1>7. IsFiniteSet(Stored) /\ Cardinality(Stored) <= Cardinality(members)
  BY <1>5, <1>6, FS_Injection
<1> QED
  BY <1>6, <1>7, FS_CardinalityType

\* A discovery that is checkpointed leaves enough memberships for a recovered run, and
\* unless an attempt was cut off only its last level's (paper_discoverer.go Discover,
\* pipeline_runner.go Discover and runDiscovery).
THEOREM DiscoveryKeepsItsPapersHolds == Spec => DiscoveryKeepsItsPapers
<1> DEFINE Kept == done # done' /\ done' = {"paper_discovery"} =>
                     /\ Cardinality(members') >= MinPapers
                     /\ torn = {} => members' \subseteq {Id(items[i]) : i \in DOMAIN items}
<1>1. IInv /\ [Next]_vars => [Kept]_vars
  <2> SUFFICES ASSUME IInv, Next, done # done', done' = D1
               PROVE  /\ Cardinality(members') >= MinPapers
                      /\ torn = {} => members' \subseteq Ids(items)
    BY DEF vars, D1, Ids
  <2> USE DEF durable, run, history
  <2>0. Types /\ AtStage /\ ItemsInHand /\ Discovery
    BY DEF IInv
  <2>1. CASE LevelEnds
    <3>1. pc = "store" /\ todo = <<>> /\ members' = members
      BY <2>1 DEF LevelEnds
    <3>2. Len(items) - failed >= MinPapers
      BY <2>1 DEF LevelEnds, Fail
    <3>3. Handled = Len(items) /\ Len(items) \in Nat /\ failed \in Nat /\ MinPapers \in Nat
      BY <2>0, <3>1, LengthsAre, PapersAssumption DEF Types
    <3>4. Cardinality(Stored) >= Handled - failed
      BY <2>0, <3>1 DEF Discovery
    <3>5. /\ Cardinality(members) \in Nat /\ Cardinality(Stored) \in Nat
          /\ Cardinality(Stored) <= Cardinality(members)
      BY <2>0, <3>1, StoredAreMembers
    <3>6. Cardinality(members) >= MinPapers
      BY <3>2, <3>3, <3>4, <3>5
    <3>7. torn = {} => members \subseteq Ids(items)
      BY <2>0, <3>1 DEF Discovery
    <3> QED
      BY <3>1, <3>6, <3>7
  <2>2. CASE Begin \/ End \/ CallFails \/ Crash \/ Recover \/ Ask \/ Reconciled
    BY <2>2 DEF Begin, End, CallFails, Fail, Crash, Recover, Ask, Reconciled
  <2>3. CASE StorePaper \/ Clear \/ Pending \/ Submit \/ ReadAnalysed \/ Answer \/ StoreGap
    BY <2>3 DEF StorePaper, Clear, Pending, Submit, ReadAnalysed, Answer, StoreGap
  <2>4. CASE Plan \/ Evaluate \/ GenerateReport \/ GetReport
    BY <2>4 DEF Plan, Evaluate, GenerateReport, GetReport
  <2>5. CASE Rank
    BY <2>5 DEF Rank, Complete, D1
  <2>6. CASE AnalysisEnds
    BY <2>6 DEF AnalysisEnds, Complete, Fail, D1
  <2>7. CASE GapsEnd
    BY <2>7 DEF GapsEnd, Complete, Fail, D1
  <2>8. CASE EvaluationEnds
    BY <2>8 DEF EvaluationEnds, Complete, Fail, D1
  <2>9. CASE ReportEnds
    BY <2>9 DEF ReportEnds, Complete, D1
  <2>10. ASSUME NEW source, NEW q, SearchEnds(source, q) PROVE done' = done
    BY <2>10 DEF SearchEnds
  <2>11. ASSUME NEW job, AnalysisDone(job) \/ AnalysisFails(job) PROVE done' = done
    BY <2>11 DEF AnalysisDone, AnalysisFails
  <2> QED
    BY <2>1, <2>2, <2>3, <2>4, <2>5, <2>6, <2>7, <2>8, <2>9, <2>10, <2>11 DEF Next
<1> QED
  BY <1>1, Invariant, PTL DEF Spec, DiscoveryKeepsItsPapers

===============================================================================
