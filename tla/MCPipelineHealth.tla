--------------------------- MODULE MCPipelineHealth ---------------------------
(* Instances of PipelineHealth for TLC; the bounds are in the configurations. *)
EXTENDS PipelineHealth
===============================================================================
