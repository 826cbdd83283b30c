--------------------------- MODULE MCOrchestrator ---------------------------
(* Instances of Orchestrator for TLC.                                      *)
EXTENDS OrchestratorProps

CONSTANTS a, b, x     \* ids; x names no subtask in some plans
=============================================================================
