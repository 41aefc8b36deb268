--------------------------- MODULE MCServiceUnit ---------------------------
(* ServiceUnit for TLC, with all four checks: those of the example's         *)
(* composition root, and the write path check.                               *)
EXTENDS ServiceUnit

AllChecks == <<"directory", "files", "write_path", "secret">>
=============================================================================
