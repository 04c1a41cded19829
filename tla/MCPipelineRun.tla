--------------------------- MODULE MCPipelineRun ---------------------------
(* PipelineRun with few executions and faults. *)
EXTENDS PipelineRun
=============================================================================
