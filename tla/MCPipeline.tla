----------------------------- MODULE MCPipeline -----------------------------
(* Small instances of Pipeline for TLC.  Every constant of Pipeline gets its *)
(* value in the .cfg; Faults is a set of strings.                            *)
EXTENDS PipelineInvariant
=============================================================================
