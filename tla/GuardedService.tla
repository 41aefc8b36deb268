--------------------------- MODULE GuardedService ---------------------------
(* What serve_http promises those who connect: a caller is admitted only     *)
(* when it shows the secret in force and only while the session manager is   *)
(* open, the manager does not close on somebody it admitted, and nobody is   *)
(* left hanging.                                                             *)

CONSTANT Requests

VARIABLES
    phase,     \* of the session manager: "before", "open", "over"
    entitled,  \* the requests that show the secret in force
    fate       \* of each request

vars == <<phase, entitled, fate>>

Init ==
    /\ phase = "before"
    /\ entitled \in SUBSET Requests
    /\ fate = [r \in Requests |-> "away"]

Becomes(r, from, to) ==
    fate[r] = from /\ fate' = [fate EXCEPT ![r] = to] /\ UNCHANGED <<phase, entitled>>

Arrive(r) == Becomes(r, "away", "waiting")

Admit(r)  == phase = "open" /\ r \in entitled /\ Becomes(r, "waiting", "admitted")

Refuse(r) == r \notin entitled /\ Becomes(r, "waiting", "refused")

Serve(r)  == phase = "open" /\ Becomes(r, "admitted", "served")

\* Connections nobody has answered go with the listener.
Drop(S) ==
    /\ S # {} /\ \A r \in S : fate[r] = "waiting"
    /\ fate' = [r \in Requests |-> IF r \in S THEN "dropped" ELSE fate[r]]
    /\ UNCHANGED <<phase, entitled>>

Open == phase = "before" /\ phase' = "open" /\ UNCHANGED <<entitled, fate>>

Close ==
    /\ phase = "open" /\ \A r \in Requests : fate[r] # "admitted"
    /\ phase' = "over"
    /\ UNCHANGED <<entitled, fate>>

Next ==
    \/ Open \/ Close
    \/ \E r \in Requests : Arrive(r) \/ Admit(r) \/ Refuse(r) \/ Serve(r)
    \/ \E S \in SUBSET Requests : Drop(S)

Spec == Init /\ [][Next]_vars
=============================================================================
