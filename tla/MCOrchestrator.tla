--------------------------- MODULE MCOrchestrator ---------------------------
(* Orchestrator for TLC: the .cfg files give the bounds.                    *)
EXTENDS Orchestrator
=============================================================================
