--------------------------- MODULE MCResearchData ---------------------------
(* Constants of ResearchData for TLC. *)
EXTENDS ResearchData, TLC
CONSTANTS g1, g2, a1, a2

Paper(source, ext, doi, arxiv, authors) ==
  [source |-> source, ext |-> ext, doi |-> doi, arxiv |-> arxiv, title |-> "t", authors |-> authors]

\* One work under several identities: Semantic Scholar lists it by its DOI, by both IDs
\* and by its arXiv ID, arXiv names both; a second work has neither ID at Semantic
\* Scholar, and is matched by title, year and author only.
OneWorkAndAnother ==
  [semantic_scholar |-> {Paper("semantic_scholar", "s1", "d", None, {"x"}),
                         Paper("semantic_scholar", "s2", "d", "a", {"x"}),
                         Paper("semantic_scholar", "s3", None, "a", {"x"}),
                         Paper("semantic_scholar", "s4", None, None, {"y"})},
   arxiv            |-> {Paper("arxiv", "a", "d", "a", {"x"}),
                         Paper("arxiv", "b", None, "b", {"y"})}]

TwoTwoOne == <<2, 2, 1>>
Symmetry == Permutations({g1, g2}) \cup Permutations({a1, a2})
=============================================================================
