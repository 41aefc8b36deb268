-------------------------- MODULE MCEventRecord ---------------------------
(* EventRecord for TLC.  RingLimit and RejectionLimit keep the order of the *)
(* code's 1024 and 20 (the cap is smaller than the ring) and the gap that   *)
(* lets other events rotate rejections out.                                 *)
EXTENDS EventRecord, TLC

\* Verifier threads are interchangeable; the run has no liveness.
VerifierSymmetry == Permutations(Verifiers)
=============================================================================
