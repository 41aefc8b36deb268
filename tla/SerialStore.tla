---------------------------- MODULE SerialStore ---------------------------
(* What store_lock promises its callers: load-refresh-commit sections are   *)
(* serial, so a commit always replaces exactly the document it was computed *)
(* from, and a section that dies or raises leaves the document as it was.   *)
EXTENDS Integers

CONSTANT Holders     \* threads and processes that enter the section

VARIABLES
    inside,          \* who is in the section
    document         \* how many commits the stored document carries

Init == inside = {} /\ document = 0

Enter(p) == inside = {} /\ inside' = {p} /\ UNCHANGED document

Commit(p) == p \in inside /\ inside' = {} /\ document' = document + 1

\* The section is left without a commit: it raised, or its holder died.
Abandon(p) == p \in inside /\ inside' = {} /\ UNCHANGED document

Next == \E p \in Holders : Enter(p) \/ Commit(p) \/ Abandon(p)

Spec == Init /\ [][Next]_<<inside, document>>
=============================================================================
