---------------------------- MODULE MCPipelineRun ----------------------------
(* PipelineRun on the program's own number of stages. *)
EXTENDS PipelineRun

\* query_expansion, paper_discovery, ranking, paper_analysis, gap_detection,
\* feasibility_evaluation, report_generation
MCStages == 7
===============================================================================
