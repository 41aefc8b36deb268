--------------------------- MODULE MCStoreLock ----------------------------
(* StoreLock for TLC: three callers, enough for one to hold the lock while *)
(* two wait, and commits enough for every one of them to follow another.   *)
EXTENDS StoreLock
=============================================================================
