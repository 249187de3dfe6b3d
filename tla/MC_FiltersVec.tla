--------------------------- MODULE MC_FiltersVec ---------------------------
(* A two-bit PID space, so that the vector grows past PIDs never inserted, *)
(* two filters and up to three queued edits.                               *)
EXTENDS FiltersVec

MCPids == 0..3
=============================================================================
