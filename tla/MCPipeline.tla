----------------------------- MODULE MCPipeline -----------------------------
(***************************************************************************)
(* Small instances of Pipeline; the configurations give the bounds.        *)
(***************************************************************************)
EXTENDS Pipeline
=============================================================================
