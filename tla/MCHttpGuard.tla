---------------------------- MODULE MCHttpGuard -----------------------------
(* HttpGuard for TLC: two requests with every header _candidate tells apart, *)
(* so that one can be verified while the other has a session that never ends.*)
EXTENDS HttpGuard
=============================================================================
