----------------------------- MODULE MCPipeline -----------------------------
(***************************************************************************)
(* Instances of Pipeline that TLC can check; the constants are given by    *)
(* the configurations.                                                     *)
(***************************************************************************)
EXTENDS Pipeline
=============================================================================
