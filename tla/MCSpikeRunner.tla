----------------------------- MODULE MCSpikeRunner -----------------------------
(***************************************************************************)
(* Three PCs and two FP registers behind a pipe of two tokens: the dumps are *)
(* four times what the pipe holds, and may be cut anywhere.                  *)
(***************************************************************************)
EXTENDS SpikeRunner

MCVerdicts == {0, 1}
================================================================================
