---------------------------- MODULE EventRecord ----------------------------
(***************************************************************************)
(* The bounded event record of mcp_packaging.events, and the one client    *)
(* that decides from it: _record_rejection of mcp_packaging.bearer.        *)
(*                                                                         *)
(* An event is a dict that two places hold at once: the deque _recorded    *)
(* (the ring) and the thread that still has to print it.  emit_event       *)
(* appends under the lock and prints after the lock is released;           *)
(* _record_rejection reads the ring under the lock, releases it, and only  *)
(* then emits or counts.  Each critical section is one action here, and    *)
(* every thread may be between two of them.                                *)
(*                                                                         *)
(* The other fields of an event are left out: nothing decides on them.     *)
(***************************************************************************)
EXTENDS Integers, Sequences, FiniteSets

CONSTANTS
    Threads,         \* threads of the process that may emit an event
    Verifiers,       \* those that run verify_bearer_token on a refused caller
    RingLimit,       \* RECORDED_EVENT_LIMIT
    RejectionLimit,  \* RECORDED_REJECTION_LIMIT
    MaxEvents,       \* bound: events ever emitted
    MaxArrived       \* bound: refused callers between two resets

ASSUME ThreadsAssumption == IsFiniteSet(Threads) /\ Verifiers \subseteq Threads
ASSUME LimitsAssumption  == RingLimit \in Nat \ {0} /\ RejectionLimit \in Nat \ {0}

VARIABLES
    events,    \* every event dict emitted so far, evicted ones included
    first,     \* the ring is events[first .. Len(events)]
    base,      \* first event after the last reset_recorded_events
    arrived,   \* refused callers since then (a history variable)
    pc,        \* where each thread is
    writing,   \* the event a thread at "write" is about to print
    journal    \* lines on standard error: the event, and the count it showed

vars == <<events, first, base, arrived, pc, writing, journal>>

Rejection == "http.auth.rejected"
Other     == "tool.call"
Names     == {Rejection, Other}

-----------------------------------------------------------------------------
(* The ring. *)

\* Rejections of a stretch of the record.
RejectionsIn(lo, hi) == {i \in lo..hi : i \in DOMAIN events /\ events[i].name = Rejection}

\* recorded_events(AUTH_REJECTED)
RecordedRejections == RejectionsIn(first, Len(events))

\* Verifiers that have read the cap and not yet appended.
AboutToEmit == {v \in Verifiers : pc[v] = "emit"}

\* The oldest event left after an append to a deque of maxlen RingLimit.
OldestAfterAppend ==
    IF Len(events) + 1 - first < RingLimit THEN first ELSE first + 1

-----------------------------------------------------------------------------
Init ==
    /\ events = << >>
    /\ first = 1
    /\ base = 1
    /\ arrived = 0
    /\ pc = [t \in Threads |-> "idle"]
    /\ writing = [t \in Threads |-> 0]
    /\ journal = << >>

\* [mutant] The event is recorded and its journal line forgotten.
RecordWithoutLine(t, name) ==
    /\ events' = Append(events, [name |-> name, suppressed |-> 0])
    /\ first' = OldestAfterAppend
    /\ pc' = [pc EXCEPT ![t] = "idle"]
    /\ UNCHANGED <<base, arrived, writing, journal>>

\* The locked half of emit_event; the thread still owes the journal a line.
Record(t, name) ==
    /\ events' = Append(events, [name |-> name, suppressed |-> 0])
    /\ first' = OldestAfterAppend
    /\ writing' = [writing EXCEPT ![t] = Len(events) + 1]
    /\ pc' = [pc EXCEPT ![t] = "write"]
    /\ UNCHANGED <<base, arrived, journal>>

HasRoom == Len(events) + Cardinality(AboutToEmit) < MaxEvents

\* [mutant] The cap is compared with <=.
RefuseOneTooMany(v) ==
    /\ pc[v] = "idle"
    /\ arrived < MaxArrived /\ HasRoom
    /\ arrived' = arrived + 1
    /\ pc' = [pc EXCEPT ![v] =
                IF Cardinality(RecordedRejections) <= RejectionLimit
                THEN "emit" ELSE "note"]
    /\ UNCHANGED <<events, first, base, writing, journal>>

\* A caller is refused: the cap is read, and the decision outlives the lock.
Refuse(v) ==
    /\ pc[v] = "idle"
    /\ arrived < MaxArrived /\ HasRoom
    /\ arrived' = arrived + 1
    /\ pc' = [pc EXCEPT ![v] =
                IF Cardinality(RecordedRejections) < RejectionLimit
                THEN "emit" ELSE "note"]
    /\ UNCHANGED <<events, first, base, writing, journal>>

EmitRejection(v) == pc[v] = "emit" /\ Record(v, Rejection)

EmitOther(t) == pc[t] = "idle" /\ HasRoom /\ Record(t, Other)

Newest(S) == {i \in S : \A j \in S : j <= i}

\* One further rejection is held, counted onto each event of S.
Suppress(v, S) ==
    /\ pc[v] = "note"
    /\ events' = [i \in DOMAIN events |->
                    IF i \in S THEN [events[i] EXCEPT !.suppressed = @ + 1]
                    ELSE events[i]]
    /\ pc' = [pc EXCEPT ![v] = "idle"]
    /\ UNCHANGED <<first, base, arrived, writing, journal>>

\* [mutants] The wanted name never matches; the loop does not return at the
\* first match; it searches dicts that left the ring; the line is re-emitted.
NoteNothing(v)        == Suppress(v, {})
NoteEveryRejection(v) == Suppress(v, RecordedRejections)
NoteEvictedToo(v)     == Suppress(v, Newest(RejectionsIn(1, Len(events))))
NoteReemits(v) ==
    /\ pc[v] = "note"
    /\ \E i \in Newest(RecordedRejections) :
          /\ events' = [events EXCEPT ![i].suppressed = @ + 1]
          /\ writing' = [writing EXCEPT ![v] = i]
    /\ pc' = [pc EXCEPT ![v] = "write"]
    /\ UNCHANGED <<first, base, arrived, journal>>

\* note_suppressed_event: onto the newest rejection in the ring.  When the
\* ring holds none the loop falls through and the arrival is counted nowhere.
Note(v) == Suppress(v, Newest(RecordedRejections))

\* _write_to_the_journal, outside the lock: the dict is rendered as it is now.
Write(t) ==
    /\ pc[t] = "write"
    /\ journal' = Append(journal, [event |-> writing[t],
                                   suppressed |-> events[writing[t]].suppressed])
    /\ pc' = [pc EXCEPT ![t] = "idle"]
    /\ UNCHANGED <<events, first, base, arrived, writing>>

\* reset_recorded_events, called between scenarios: no thread is mid-way.
Reset ==
    /\ \A t \in Threads : pc[t] = "idle"
    /\ first' = Len(events) + 1
    /\ base' = Len(events) + 1
    /\ arrived' = 0
    /\ UNCHANGED <<events, pc, writing, journal>>

Next ==
    \/ \E v \in Verifiers : Refuse(v) \/ EmitRejection(v) \/ Note(v)
    \/ \E t \in Threads : EmitOther(t) \/ Write(t)
    \/ Reset

Spec == Init /\ [][Next]_vars

-----------------------------------------------------------------------------
Event == [name : Names, suppressed : Nat]
Line  == [event : Nat \ {0}, suppressed : Nat]

\* Types; and the ring never holds more than RECORDED_EVENT_LIMIT events.
TypeOK ==
    /\ events \in Seq(Event)
    /\ first \in 1..(Len(events) + 1)
    /\ base \in 1..first
    /\ Len(events) + 1 - first <= RingLimit
    /\ arrived \in Nat
    /\ pc \in [Threads -> {"idle", "emit", "note", "write"}]
    /\ writing \in [Threads -> 0..Len(events)]
    /\ \A t \in Threads : pc[t] = "write" => writing[t] # 0
    /\ journal \in Seq(Line)

\* The cap of _record_rejection is a check-then-act across two critical
\* sections, so it is exact for one verifier and may be overshot by one
\* rejection for every further thread that verifies at the same time - never
\* by more, whatever rotates out of the ring in between.
CapHolds ==
    Cardinality(RecordedRejections) + Cardinality(AboutToEmit)
        <= RejectionLimit + Cardinality(Verifiers) - 1

\* The cap holds for the journal too, as a rate: no RingLimit consecutive
\* events of one boot contain more rejections than the cap and its overshoot,
\* although rotation lets a boot write the cap over and over.
WindowCapHolds ==
    \A i \in 1..Len(events) :
        i >= base =>
            LET last == IF i + RingLimit - 1 < Len(events)
                        THEN i + RingLimit - 1 ELSE Len(events)
            IN  Cardinality(RejectionsIn(i, last))
                    <= RejectionLimit + Cardinality(Verifiers) - 1

\* What the events of S say arrived: each stands for itself and for the arrivals
\* counted onto it, and has one mark <<event, arrival>> for each of these.
Marks(S) == UNION {{i} \X (0..events[i].suppressed) : i \in S}
Accounted(S) == Cardinality(Marks(S))

\* Refused callers a verifier has not yet written or counted.
InFlight == Cardinality({v \in Verifiers : pc[v] \in {"emit", "note"}})

\* Written plus held equals what arrived, at every instant, for as long as the
\* ring has not rotated anything out since it was last reset.
AccountingIdentity ==
    first = base => Accounted(RecordedRejections) + InFlight = arrived

\* Once it has rotated the identity may fail in one direction only: the record
\* loses arrivals and never invents one, evicted events included.
NeverOvercounted ==
    Accounted(RejectionsIn(base, Len(events))) + InFlight <= arrived

\* Every event is printed exactly once: what the journal lacks is exactly what
\* some thread still has in hand, and nothing is re-emitted.
EachEventWrittenOnce ==
    \A i \in 1..Len(events) :
        Cardinality({k \in 1..Len(journal) : journal[k].event = i})
            = IF \E t \in Threads : pc[t] = "write" /\ writing[t] = i THEN 0 ELSE 1

\* With one verifier the journal line of a rejection is printed before any
\* suppression is counted onto it, so no line ever shows a count.
JournalShowsNoSuppression ==
    \A k \in 1..Len(journal) : journal[k].suppressed = 0

\* An event that left the ring is final: no later suppression reaches a dict
\* that recorded_events can no longer return.
EvictedEventsAreFinal ==
    [][\A i \in 1..Len(events) : i < first => events'[i] = events[i]]_vars
=============================================================================
