----------------------------- MODULE StoreLock ----------------------------
(***************************************************************************)
(* store_lock of mcp_packaging.store_modes: an advisory flock held across  *)
(* the load-refresh-commit section.  Every caller opens the lock file for  *)
(* itself, so two threads of one process exclude each other as two         *)
(* processes do; the lock belongs to the open file and goes with its last  *)
(* descriptor, whether close() or the death of the process closes it.      *)
(*                                                                         *)
(* The section itself is the consumer's (load, refresh, commit): external. *)
(***************************************************************************)
EXTENDS Integers, FiniteSets

CONSTANTS
    Holders,      \* threads and processes that use the store
    MaxCommits    \* bound: commits

VARIABLES
    pc,           \* where each caller is
    lock,         \* whose open file holds the flock; empty or a singleton
    loaded,       \* what each caller's section loaded
    document      \* the stored document, as the number of commits it carries

vars == <<pc, lock, loaded, document>>

InSection == {p \in Holders : pc[p] \in {"load", "refresh"}}

Init ==
    /\ pc = [p \in Holders |-> "outside"]
    /\ lock = {}
    /\ loaded = [p \in Holders |-> 0]
    /\ document = 0

\* os.open with O_CREAT: before the try, and it holds nothing yet.
Open(p) ==
    /\ pc[p] = "outside" /\ document < MaxCommits
    /\ pc' = [pc EXCEPT ![p] = "opened"]
    /\ UNCHANGED <<lock, loaded, document>>

\* [mutant] A shared lock.
LockShared(p) ==
    /\ pc[p] = "opened"
    /\ lock' = lock \cup {p}
    /\ pc' = [pc EXCEPT ![p] = "load"]
    /\ UNCHANGED <<loaded, document>>

\* flock(LOCK_EX) blocks until no other open file holds the lock.
Lock(p) ==
    /\ pc[p] = "opened" /\ lock = {}
    /\ lock' = {p}
    /\ pc' = [pc EXCEPT ![p] = "load"]
    /\ UNCHANGED <<loaded, document>>

\* [mutant] A flock that failed is ignored.
LockFailureIgnored(p) ==
    /\ pc[p] = "opened"
    /\ pc' = [pc EXCEPT ![p] = "load"]
    /\ UNCHANGED <<lock, loaded, document>>

\* flock raises: the finally closes a descriptor that holds nothing.
LockFails(p) ==
    /\ pc[p] = "opened"
    /\ pc' = [pc EXCEPT ![p] = "closing"]
    /\ UNCHANGED <<lock, loaded, document>>

Load(p) ==
    /\ pc[p] = "load"
    /\ loaded' = [loaded EXCEPT ![p] = document]
    /\ pc' = [pc EXCEPT ![p] = "refresh"]
    /\ UNCHANGED <<lock, document>>

\* The commit publishes what was computed from the loaded document.
Commit(p) ==
    /\ pc[p] = "refresh"
    /\ document' = loaded[p] + 1
    /\ pc' = [pc EXCEPT ![p] = "closing"]
    /\ UNCHANGED <<lock, loaded>>

\* The block raises; the finally still runs.
SectionRaises(p) ==
    /\ p \in InSection
    /\ pc' = [pc EXCEPT ![p] = "closing"]
    /\ UNCHANGED <<lock, loaded, document>>

\* [mutant] No finally: the descriptor, and the lock with it, is never closed.
CloseLeaks(p) ==
    /\ pc[p] = "closing"
    /\ pc' = [pc EXCEPT ![p] = "outside"]
    /\ UNCHANGED <<lock, loaded, document>>

\* os.close in the finally.
Close(p) ==
    /\ pc[p] = "closing"
    /\ lock' = lock \ {p}
    /\ pc' = [pc EXCEPT ![p] = "outside"]
    /\ UNCHANGED <<loaded, document>>

\* The process dies; the kernel closes the descriptor for it.
Die(p) ==
    /\ pc[p] # "outside"
    /\ lock' = lock \ {p}
    /\ pc' = [pc EXCEPT ![p] = "outside"]
    /\ UNCHANGED <<loaded, document>>

Next == \E p \in Holders :
            \/ Open(p) \/ Lock(p) \/ LockFails(p) \/ Close(p)
            \/ Load(p) \/ Commit(p) \/ SectionRaises(p) \/ Die(p)

\* A section that was entered ends, and the kernel gives a free lock to one of
\* those waiting - to which one, it does not promise.
Fairness ==
    /\ WF_vars(\E p \in Holders : Lock(p))
    /\ \A p \in Holders : WF_vars(Load(p) \/ Commit(p)) /\ WF_vars(Close(p))

Spec == Init /\ [][Next]_vars /\ Fairness

-----------------------------------------------------------------------------
TypeOK ==
    /\ pc \in [Holders -> {"outside", "opened", "load", "refresh", "closing"}]
    /\ lock \subseteq Holders
    /\ loaded \in [Holders -> Nat]
    /\ document \in Nat

\* The section is exclusive, and what a caller loaded in it stays what is
\* stored until that caller commits.
SectionIsSerial ==
    /\ \A p, q \in InSection : p = q
    /\ \A p \in InSection : lock = {p}
    /\ \A p \in Holders : pc[p] = "refresh" => loaded[p] = document

\* The lock implements the serial store: no interleaving of openings, raises,
\* deaths and commits loses an update.
Serial == INSTANCE SerialStore WITH inside <- InSection
ImplementsSerialStore == Serial!Spec

\* A lock whose holder raised or died is not held for ever: whenever somebody
\* waits for it, somebody enters, or everyone who waited gave up.
WaitersAreServed ==
    (\E p \in Holders : pc[p] = "opened")
        ~> (InSection # {} \/ \A p \in Holders : pc[p] # "opened")
=============================================================================
