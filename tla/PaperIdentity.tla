---------------------------- MODULE PaperIdentity ----------------------------
(***************************************************************************)
(* How the answers of the paper searches become one list of papers.  A     *)
(* paper is a record                                                       *)
(*   [source, ext, doi, arxiv, title, authors]                             *)
(* whose doi, arxiv and title are None when missing; they stand for the    *)
(* normalized values, title for the normalized title with the year.        *)
(***************************************************************************)
EXTENDS Integers, FiniteSets, SequencesExt

CONSTANTS
  None,     \* no value
  Failed    \* the answer of a search that returned an error

\* The keys a paper is looked up by: DOI and arXiv ID, or the source's own ID.
Keys(p) ==
  LET doi == IF p.doi = None THEN <<>> ELSE <<<<"doi", p.doi>>>>
      arxiv == IF p.arxiv = None THEN <<>> ELSE <<<<"arxiv", p.arxiv>>>>
  IN  IF doi \o arxiv = <<>> THEN <<<<"source", <<p.source, p.ext>>>>>> ELSE doi \o arxiv

Missing(value, other) == IF value = None THEN other ELSE value

\* The first paper wins; the second one fills in what it lacks.
Merge(p, q) == [p EXCEPT !.doi = Missing(@, q.doi), !.arxiv = Missing(@, q.arxiv),
                         !.title = Missing(@, q.title), !.authors = @ \cup q.authors]

(* Reconciling goes through the candidates with the list of papers so far and the
   two indices into it: by key, and by title and year in order of entry. *)
Start == [papers |-> <<>>, byKey |-> <<>>, byTitle |-> <<>>]

At(f, x, default) == IF x \in DOMAIN f THEN f[x] ELSE default

\* f with the value at each of some arguments.
With(f, some, value) == [x \in DOMAIN f \cup some |-> IF x \in some THEN value ELSE f[x]]

\* Faulty Match: only the first of a candidate's keys is looked up.
MatchByFirstKey(s, c) ==
  IF Head(Keys(c)) \in DOMAIN s.byKey THEN s.byKey[Head(Keys(c))] ELSE 0

\* The first key that is known decides, then title, year and a shared author with
\* a paper of another source; 0 when the candidate is new.
Match(s, c) ==
  LET keys    == Keys(c)
      known   == {n \in DOMAIN keys : keys[n] \in DOMAIN s.byKey}
      entries == At(s.byTitle, c.title, <<>>)
      same    == {n \in DOMAIN entries : /\ s.papers[entries[n]].source # c.source
                                         /\ s.papers[entries[n]].authors \cap c.authors # {}}
  IN  CASE known # {}              -> s.byKey[keys[Min(known)]]
        [] known = {} /\ same # {} -> entries[Min(same)]
        [] known = {} /\ same = {} -> 0

\* A candidate joins the paper it matches, or is a paper of its own; the keys of
\* the resulting paper are registered again.
Enter(s, c) ==
  LET match   == Match(s, c)
      i       == IF match = 0 THEN Len(s.papers) + 1 ELSE match
      papers  == IF match = 0 THEN Append(s.papers, c)
                              ELSE [s.papers EXCEPT ![i] = Merge(@, c)]
      title   == papers[i].title
      entries == At(s.byTitle, title, <<>>)
  IN  [papers  |-> papers,
       byKey   |-> With(s.byKey, ToSet(Keys(papers[i])), i),
       byTitle |-> With(s.byTitle, {title} \ {None},
                        IF i \in ToSet(entries) THEN entries ELSE Append(entries, i))]

\* All candidates in the order they are entered: those of Semantic Scholar before
\* those of arXiv, each in the order of the queries.  answers[source] holds the
\* answer of every query.
Collect(list, answer) == IF answer = Failed THEN list ELSE list \o answer

Candidates(answers) ==
  FoldLeft(Collect, <<>>, answers["semantic_scholar"] \o answers["arxiv"])

Reconcile(answers) == FoldLeft(Enter, Start, Candidates(answers)).papers

===============================================================================
