----------------------------- MODULE MCPipeline -----------------------------
(* Pipeline for TLC; Pipeline.cfg gives the constants. *)
EXTENDS Pipeline
=============================================================================
