----------------------------- MODULE MCOrchestrator -----------------------------
(***************************************************************************)
(* A batch of three programs, over files that are absent or left from an      *)
(* earlier batch, with no, one and two cores.                                *)
(***************************************************************************)
EXTENDS Orchestrator

MCCoreCounts == {0, 1, 2}
MCVerdicts == {0, 1}
================================================================================
