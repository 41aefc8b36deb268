------------------------ MODULE EventRecord_proofs ------------------------
(* Proofs about EventRecord, for every set of threads and every limit.     *)
EXTENDS EventRecord, FiniteSetTheorems, WellFoundedInduction, TLAPS

(* The rejections of a stretch are finitely many, and those of a shorter   *)
(* stretch are no more (RejectionsIn).                                     *)
LEMMA RejectionsFinite ==
    ASSUME NEW lo \in Int, NEW hi \in Int
    PROVE  /\ IsFiniteSet(RejectionsIn(lo, hi))
           /\ Cardinality(RejectionsIn(lo, hi)) \in Nat
           /\ \A S \in SUBSET RejectionsIn(lo, hi) :
                /\ IsFiniteSet(S)
                /\ Cardinality(S) \in Nat
                /\ Cardinality(S) <= Cardinality(RejectionsIn(lo, hi))
<1>1. IsFiniteSet(lo..hi) BY FS_Interval
<1>2. RejectionsIn(lo, hi) \in SUBSET (lo..hi) BY DEF RejectionsIn
<1>3. IsFiniteSet(RejectionsIn(lo, hi)) BY <1>1, <1>2, FS_Subset
<1>4. QED BY <1>3, FS_Subset, FS_CardinalityType

(* Verifiers about to emit are finitely many, at most all of them. *)
LEMMA AboutToEmitBound ==
    ASSUME NEW S \in SUBSET Verifiers
    PROVE  /\ IsFiniteSet(S) /\ IsFiniteSet(Verifiers)
           /\ Cardinality(S) \in Nat /\ Cardinality(Verifiers) \in Nat
           /\ Cardinality(S) <= Cardinality(Verifiers)
<1>1. IsFiniteSet(Verifiers) BY ThreadsAssumption, FS_Subset
<1>2. QED BY <1>1, FS_Subset, FS_CardinalityType

(* note_suppressed_event keeps the length of the record and every name. *)
LEMMA NoteShape ==
    ASSUME TypeOK, NEW v \in Verifiers, Note(v)
    PROVE  /\ events' \in Seq(Event) /\ Len(events') = Len(events)
           /\ \A i \in 1..Len(events) : events'[i].name = events[i].name
<1> DEFINE newest(i) == i \in Newest(RecordedRejections)
           noted(i)  == IF newest(i) THEN [events[i] EXCEPT !.suppressed = @ + 1]
                        ELSE events[i]
<1>1. DOMAIN events = 1..Len(events) /\ Len(events) \in Nat BY DEF TypeOK
<1>2. \A i \in 1..Len(events) : events[i] \in Event BY DEF TypeOK
<1>3. \A i \in 1..Len(events) : noted(i) \in Event /\ noted(i).name = events[i].name
  <2> HIDE DEF newest
  <2> QED BY <1>2 DEF Event
<1>4. events' = [i \in 1..Len(events) |-> noted(i)] BY <1>1 DEF Note, Suppress
<1> HIDE DEF noted, newest
<1>5. events' \in Seq(Event) /\ Len(events') = Len(events)
  BY <1>1, <1>3, <1>4
<1>6. QED BY <1>3, <1>4, <1>5

-----------------------------------------------------------------------------
(* Every step keeps the types, and the ring within RECORDED_EVENT_LIMIT.   *)
LEMMA TypeStep == TypeOK /\ [Next]_vars => TypeOK'
<1> SUFFICES ASSUME TypeOK, [Next]_vars PROVE TypeOK'
    OBVIOUS
<1> USE DEF TypeOK
<1>1. ASSUME NEW t \in Threads, NEW name \in Names, Record(t, name)
      PROVE  TypeOK'
  <2>1. Len(events') = Len(events) + 1 /\ events' \in Seq(Event)
    BY <1>1 DEF Record, Event
  <2>2. /\ first' \in 1..(Len(events') + 1)
        /\ base' \in 1..first'
        /\ Len(events') + 1 - first' <= RingLimit
    BY <1>1, <2>1, LimitsAssumption DEF Record, OldestAfterAppend
  <2>3. /\ writing' \in [Threads -> 0..Len(events')]
        /\ \A u \in Threads : pc'[u] = "write" => writing'[u] # 0
    BY <1>1, <2>1 DEF Record
  <2>4. QED BY <1>1, <2>1, <2>2, <2>3 DEF Record
<1>2. ASSUME NEW v \in Verifiers, Refuse(v) PROVE TypeOK'
  BY <1>2, ThreadsAssumption DEF Refuse
<1>3. ASSUME NEW v \in Verifiers, EmitRejection(v) PROVE TypeOK'
  BY <1>1, <1>3, ThreadsAssumption DEF EmitRejection, Names
<1>4. ASSUME NEW v \in Verifiers, Note(v) PROVE TypeOK'
  <2>1. Len(events') = Len(events) /\ events' \in Seq(Event)
    BY <1>4, NoteShape
  <2>2. QED BY <1>4, <2>1, ThreadsAssumption DEF Note, Suppress
<1>5. ASSUME NEW t \in Threads, EmitOther(t) PROVE TypeOK'
  BY <1>1, <1>5 DEF EmitOther, Names
<1>6. ASSUME NEW t \in Threads, Write(t) PROVE TypeOK'
  <2>1. writing[t] \in Nat \ {0} /\ events[writing[t]] \in Event
    BY <1>6 DEF Write
  <2>2. [event |-> writing[t], suppressed |-> events[writing[t]].suppressed] \in Line
    BY <2>1 DEF Line, Event
  <2>3. QED BY <1>6, <2>2 DEF Write
<1>7. CASE Reset
  BY <1>7, LimitsAssumption DEF Reset
<1>8. CASE UNCHANGED vars
  BY <1>8 DEF vars
<1>9. QED BY <1>2, <1>3, <1>4, <1>5, <1>6, <1>7, <1>8 DEF Next

(* The record and its journal are always well typed. *)
THEOREM TypeCorrect == Spec => []TypeOK
<1>1. Init => TypeOK
  BY LimitsAssumption DEF Init, TypeOK
<1>2. QED BY <1>1, TypeStep, PTL DEF Spec

-----------------------------------------------------------------------------
(* Appending one event adds at most that event to the rejections of any    *)
(* stretch that ends with it, and none to a stretch that ends before it.   *)
LEMMA RecordShape ==
    ASSUME TypeOK, NEW t \in Threads, NEW name \in Names, Record(t, name)
    PROVE  /\ events' \in Seq(Event) /\ Len(events') = Len(events) + 1
           /\ \A i \in 1..Len(events) : events'[i] = events[i]
           /\ events'[Len(events) + 1].name = name
           /\ first' \in Nat \ {0} /\ first <= first'
<1> QED BY DEF Record, TypeOK, Event, OldestAfterAppend

LEMMA RecordedAfterRecord ==
    ASSUME TypeOK, NEW t \in Threads, NEW name \in Names, Record(t, name)
    PROVE  RecordedRejections' \subseteq
             RecordedRejections
               \cup (IF name = Rejection THEN {Len(events) + 1} ELSE {})
<1> SUFFICES ASSUME NEW i \in RecordedRejections', i \notin RecordedRejections
             PROVE  name = Rejection /\ i = Len(events) + 1
    OBVIOUS
<1>1. /\ DOMAIN events = 1..Len(events) /\ Len(events) \in Nat
      /\ DOMAIN events' = 1..(Len(events) + 1)
      /\ first \in Nat \ {0}
  BY RecordShape DEF TypeOK
<1>2. /\ i \in first'..(Len(events) + 1) /\ i \in DOMAIN events'
      /\ events'[i].name = Rejection
  BY RecordShape DEF RecordedRejections, RejectionsIn
<1>3. CASE i \in 1..Len(events)
  <2>1. events[i].name = Rejection /\ i \in first..Len(events)
    BY <1>1, <1>2, <1>3, RecordShape
  <2>2. QED BY <1>1, <1>3, <2>1 DEF RecordedRejections, RejectionsIn
<1>4. CASE i = Len(events) + 1
  BY <1>2, <1>4, RecordShape
<1>5. QED BY <1>1, <1>2, <1>3, <1>4

(* The rejections of the ring are finitely many, before and after a step.  *)
LEMMA RecordedFinite ==
    ASSUME TypeOK
    PROVE  /\ IsFiniteSet(RecordedRejections)
           /\ Cardinality(RecordedRejections) \in Nat
           /\ \A S \in SUBSET RecordedRejections :
                Cardinality(S) \in Nat /\ Cardinality(S) <= Cardinality(RecordedRejections)
<1> first \in Int /\ Len(events) \in Int BY DEF TypeOK
<1> QED BY RejectionsFinite DEF RecordedRejections

(* A step that lets nobody else decide to emit, and adds no rejection to    *)
(* the ring, keeps the cap.                                                *)
LEMMA CapKeptWhenSmaller ==
    ASSUME TypeOK, TypeOK', CapHolds,
           RecordedRejections' \subseteq RecordedRejections,
           AboutToEmit' \subseteq AboutToEmit
    PROVE  CapHolds'
<1>1. /\ Cardinality(RecordedRejections') \in Nat
      /\ Cardinality(RecordedRejections) \in Nat
      /\ Cardinality(RecordedRejections') <= Cardinality(RecordedRejections)
  BY RecordedFinite
<1>2. AboutToEmit \in SUBSET Verifiers BY DEF AboutToEmit
<1>3. /\ Cardinality(AboutToEmit) \in Nat /\ Cardinality(AboutToEmit') \in Nat
      /\ Cardinality(AboutToEmit') <= Cardinality(AboutToEmit)
  BY <1>2, AboutToEmitBound, FS_Subset, FS_CardinalityType
<1>4. Cardinality(Verifiers) \in Nat BY AboutToEmitBound
<1>5. QED BY <1>1, <1>3, <1>4, LimitsAssumption DEF CapHolds

(* The cap and its overshoot are inductive: a verifier decides to emit only *)
(* below the cap, and every other verifier can have decided before it.      *)
LEMMA CapStep == TypeOK /\ TypeOK' /\ CapHolds /\ [Next]_vars => CapHolds'
<1> SUFFICES ASSUME TypeOK, TypeOK', CapHolds, [Next]_vars PROVE CapHolds'
    OBVIOUS
<1>1. ASSUME NEW v \in Verifiers, Refuse(v) PROVE CapHolds'
  <2>1. RecordedRejections' = RecordedRejections
    BY <1>1 DEF Refuse, RecordedRejections, RejectionsIn
  <2>2. CASE Cardinality(RecordedRejections) < RejectionLimit
    <3>1. AboutToEmit' \in SUBSET Verifiers BY DEF AboutToEmit
    <3>2. /\ Cardinality(AboutToEmit') \in Nat /\ Cardinality(Verifiers) \in Nat
          /\ Cardinality(AboutToEmit') <= Cardinality(Verifiers)
      BY <3>1, AboutToEmitBound
    <3>3. QED BY <2>1, <2>2, <3>2, RecordedFinite, LimitsAssumption DEF CapHolds
  <2>3. CASE ~(Cardinality(RecordedRejections) < RejectionLimit)
    <3>1. AboutToEmit' \subseteq AboutToEmit
      BY <1>1, <2>3, ThreadsAssumption DEF Refuse, AboutToEmit, TypeOK
    <3>2. QED BY <2>1, <3>1, CapKeptWhenSmaller
  <2>4. QED BY <2>2, <2>3
<1>2. ASSUME NEW v \in Verifiers, EmitRejection(v) PROVE CapHolds'
  <2>1. Record(v, Rejection) /\ pc[v] = "emit" /\ v \in Threads /\ Rejection \in Names
    BY <1>2, ThreadsAssumption DEF EmitRejection, Names
  <2>2. AboutToEmit \in SUBSET Verifiers /\ v \in AboutToEmit
    BY <2>1 DEF AboutToEmit
  <2>3. AboutToEmit' = AboutToEmit \ {v}
    BY <2>1, ThreadsAssumption DEF Record, AboutToEmit, TypeOK
  <2>4. Cardinality(AboutToEmit') = Cardinality(AboutToEmit) - 1
    BY <2>2, <2>3, AboutToEmitBound, FS_RemoveElement
  <2>5. RecordedRejections' \subseteq RecordedRejections \cup {Len(events) + 1}
    BY <2>1, RecordedAfterRecord
  <2>6. /\ IsFiniteSet(RecordedRejections \cup {Len(events) + 1})
        /\ Cardinality(RecordedRejections \cup {Len(events) + 1})
              <= Cardinality(RecordedRejections) + 1
    BY RecordedFinite, FS_AddElement, SMTT(30)
  <2>7. /\ Cardinality(RecordedRejections') \in Nat
        /\ Cardinality(RecordedRejections') <= Cardinality(RecordedRejections) + 1
    <3>1. /\ Cardinality(RecordedRejections') \in Nat
          /\ Cardinality(RecordedRejections')
               <= Cardinality(RecordedRejections \cup {Len(events) + 1})
      BY <2>5, <2>6, FS_Subset, FS_CardinalityType
    <3>2. Cardinality(RecordedRejections \cup {Len(events) + 1}) \in Nat
      BY <2>6, FS_CardinalityType
    <3>3. QED BY <2>6, <3>1, <3>2, RecordedFinite
  <2>8. Cardinality(AboutToEmit) \in Nat /\ Cardinality(Verifiers) \in Nat
    BY <2>2, AboutToEmitBound
  <2>9. QED BY <2>4, <2>7, <2>8, RecordedFinite, LimitsAssumption DEF CapHolds
<1>3. ASSUME NEW v \in Verifiers, Note(v) PROVE CapHolds'
  <2>1. AboutToEmit' \subseteq AboutToEmit
    BY <1>3, ThreadsAssumption DEF Note, Suppress, AboutToEmit, TypeOK
  <2>2. DOMAIN events = 1..Len(events) /\ DOMAIN events' = 1..Len(events)
    BY <1>3, NoteShape, SMTT(30) DEF TypeOK
  <2>3. RecordedRejections' \subseteq RecordedRejections
    BY <1>3, <2>2, NoteShape DEF Note, Suppress, RecordedRejections, RejectionsIn
  <2>4. QED BY <2>1, <2>3, CapKeptWhenSmaller
<1>4. ASSUME NEW t \in Threads, EmitOther(t) PROVE CapHolds'
  <2>1. Record(t, Other) /\ Other \in Names /\ Other # Rejection
    BY <1>4 DEF EmitOther, Names, Other, Rejection
  <2>2. RecordedRejections' \subseteq RecordedRejections
    BY <2>1, RecordedAfterRecord
  <2>3. AboutToEmit' \subseteq AboutToEmit
    BY <1>4, ThreadsAssumption DEF EmitOther, Record, AboutToEmit, TypeOK
  <2>4. QED BY <2>2, <2>3, CapKeptWhenSmaller
<1>5. ASSUME NEW t \in Threads, Write(t) PROVE CapHolds'
  <2>1. AboutToEmit' \subseteq AboutToEmit
    BY <1>5, ThreadsAssumption DEF Write, AboutToEmit, TypeOK
  <2>2. RecordedRejections' \subseteq RecordedRejections
    BY <1>5 DEF Write, RecordedRejections, RejectionsIn
  <2>3. QED BY <2>1, <2>2, CapKeptWhenSmaller
<1>6. CASE Reset
  <2>1. RecordedRejections' \subseteq RecordedRejections
    BY <1>6 DEF Reset, RecordedRejections, RejectionsIn, TypeOK
  <2>2. AboutToEmit' \subseteq AboutToEmit
    BY <1>6 DEF Reset, AboutToEmit
  <2>3. QED BY <2>1, <2>2, CapKeptWhenSmaller
<1>7. CASE UNCHANGED vars
  BY <1>7, CapKeptWhenSmaller DEF vars, RecordedRejections, RejectionsIn, AboutToEmit
<1>8. QED BY <1>1, <1>2, <1>3, <1>4, <1>5, <1>6, <1>7 DEF Next

(* Whatever the threads, the ring and the cap: _record_rejection never lets *)
(* the record exceed RECORDED_REJECTION_LIMIT by more than one rejection    *)
(* per further verifier, so for one verifier the cap is exact.              *)
THEOREM CapCorrect == Spec => []CapHolds
<1>1. Init => TypeOK
  BY LimitsAssumption DEF Init, TypeOK
<1>2. Init => CapHolds
  <2> SUFFICES ASSUME Init PROVE CapHolds OBVIOUS
  <2>1. RecordedRejections = {} /\ AboutToEmit = {}
    BY ThreadsAssumption DEF Init, RecordedRejections, RejectionsIn, AboutToEmit
  <2>2. Cardinality(Verifiers) \in Nat BY AboutToEmitBound
  <2>3. QED BY <2>1, <2>2, FS_EmptySet, LimitsAssumption DEF CapHolds
<1>3. QED BY <1>1, <1>2, TypeStep, CapStep, PTL DEF Spec

-----------------------------------------------------------------------------
(* note_suppressed_event searches the ring only, and emit_event only        *)
(* appends: a dict that left the ring is never changed again.               *)
THEOREM EvictedFinal == Spec => EvictedEventsAreFinal
<1> DEFINE Final == \A i \in 1..Len(events) : i < first => events'[i] = events[i]
<1>1. Init => TypeOK
  BY LimitsAssumption DEF Init, TypeOK
<1>2. TypeOK /\ [Next]_vars => [Final]_vars
  <2> SUFFICES ASSUME TypeOK, Next PROVE Final
    BY DEF vars
  <2>1. ASSUME NEW t \in Threads, NEW name \in Names, Record(t, name) PROVE Final
    BY <2>1, RecordShape
  <2>2. ASSUME NEW v \in Verifiers, Refuse(v) PROVE Final
    BY <2>2 DEF Refuse
  <2>3. ASSUME NEW v \in Verifiers, EmitRejection(v) PROVE Final
    BY <2>1, <2>3, ThreadsAssumption DEF EmitRejection, Names
  <2>4. ASSUME NEW v \in Verifiers, Note(v) PROVE Final
    <3> SUFFICES ASSUME NEW i \in 1..Len(events), i < first
                 PROVE  events'[i] = events[i]
      OBVIOUS
    <3>1. i \in DOMAIN events BY DEF TypeOK
    <3>2. i \notin RecordedRejections
      BY DEF RecordedRejections, RejectionsIn, TypeOK
    <3>3. QED BY <2>4, <3>1, <3>2, Zenon DEF Note, Suppress, Newest
  <2>5. ASSUME NEW t \in Threads, EmitOther(t) PROVE Final
    BY <2>1, <2>5 DEF EmitOther, Names
  <2>6. ASSUME NEW t \in Threads, Write(t) PROVE Final
    BY <2>6 DEF Write
  <2>7. CASE Reset
    BY <2>7 DEF Reset
  <2>8. QED BY <2>2, <2>3, <2>4, <2>5, <2>6, <2>7 DEF Next
<1>3. QED BY <1>1, <1>2, TypeStep, PTL DEF Spec, EvictedEventsAreFinal
-----------------------------------------------------------------------------
(* Once something has rotated out, the ring is full and stays so. *)
RingFull == first > base => Len(events) + 1 - first = RingLimit

LEMMA RingFullStep == TypeOK /\ RingFull /\ [Next]_vars => RingFull'
<1> SUFFICES ASSUME TypeOK, RingFull, [Next]_vars PROVE RingFull'
    OBVIOUS
<1> USE DEF TypeOK, RingFull
<1>1. ASSUME NEW t \in Threads, NEW name \in Names, Record(t, name) PROVE RingFull'
  <2>1. Len(events') = Len(events) + 1 /\ base' = base
    BY <1>1, RecordShape DEF Record
  <2>2. /\ first' = IF Len(events) + 1 - first < RingLimit THEN first ELSE first + 1
        /\ first \in Nat /\ base \in Nat /\ base <= first /\ Len(events) \in Nat
        /\ Len(events) + 1 - first <= RingLimit
    BY <1>1 DEF Record, OldestAfterAppend
  <2>3. first > base => Len(events) + 1 - first = RingLimit
    OBVIOUS
  <2>4. first' > base => Len(events) + 2 - first' = RingLimit
    BY <2>2, <2>3, LimitsAssumption
  <2>5. QED BY <2>1, <2>2, <2>4
<1>2. ASSUME NEW v \in Verifiers, Refuse(v) PROVE RingFull'
  BY <1>2 DEF Refuse
<1>3. ASSUME NEW v \in Verifiers, EmitRejection(v) PROVE RingFull'
  BY <1>1, <1>3, ThreadsAssumption DEF EmitRejection, Names
<1>4. ASSUME NEW v \in Verifiers, Note(v) PROVE RingFull'
  BY <1>4, NoteShape DEF Note, Suppress
<1>5. ASSUME NEW t \in Threads, EmitOther(t) PROVE RingFull'
  BY <1>1, <1>5 DEF EmitOther, Names
<1>6. ASSUME NEW t \in Threads, Write(t) PROVE RingFull'
  BY <1>6 DEF Write
<1>7. CASE Reset
  BY <1>7 DEF Reset
<1>8. CASE UNCHANGED vars
  BY <1>8 DEF vars
<1>9. QED BY <1>2, <1>3, <1>4, <1>5, <1>6, <1>7, <1>8 DEF Next

(* The window that starts at event i. *)
LastOf(i) == IF i + RingLimit - 1 < Len(events) THEN i + RingLimit - 1 ELSE Len(events)
Overshoot == RejectionLimit + Cardinality(Verifiers) - 1

LEMMA WindowsAre ==
    WindowCapHolds <=>
        \A i \in 1..Len(events) :
            i >= base => Cardinality(RejectionsIn(i, LastOf(i))) <= Overshoot
<1> QED BY DEF WindowCapHolds, LastOf, Overshoot

(* What leaves the names of the events alone leaves every window alone. *)
LEMMA WindowsKept ==
    ASSUME TypeOK, TypeOK', WindowCapHolds, base' >= base, Len(events') = Len(events),
           \A i \in 1..Len(events) : events'[i].name = events[i].name
    PROVE  WindowCapHolds'
<1>1. DOMAIN events = 1..Len(events) /\ DOMAIN events' = 1..Len(events)
  BY DEF TypeOK
<1> SUFFICES ASSUME NEW i \in 1..Len(events), i >= base'
             PROVE  Cardinality(RejectionsIn(i, LastOf(i))') <= Overshoot
    BY WindowsAre DEF Overshoot, LastOf, WindowCapHolds
<1>2. RejectionsIn(i, LastOf(i))' = RejectionsIn(i, LastOf(i))
  BY <1>1 DEF RejectionsIn, LastOf
<1>3. i >= base BY DEF TypeOK
<1>4. QED BY <1>2, <1>3, WindowsAre

(* An append opens no window that is not the ring itself. *)
LEMMA WindowsAfterRecord ==
    ASSUME TypeOK, TypeOK', RingFull, WindowCapHolds, CapHolds',
           NEW t \in Threads, NEW name \in Names, Record(t, name)
    PROVE  WindowCapHolds'
<1>1. /\ Len(events') = Len(events) + 1 /\ Len(events) \in Nat /\ base' = base
      /\ DOMAIN events = 1..Len(events) /\ DOMAIN events' = 1..(Len(events) + 1)
      /\ \A i \in 1..Len(events) : events'[i] = events[i]
  BY RecordShape DEF TypeOK, Record
<1> SUFFICES ASSUME NEW i \in 1..(Len(events) + 1), i >= base
             PROVE  Cardinality(RejectionsIn(i, LastOf(i))') <= Overshoot
    BY <1>1 DEF Overshoot, LastOf, WindowCapHolds
<1>2. CASE i + RingLimit - 1 < Len(events) + 1
  <2>1. i \in 1..Len(events) /\ LastOf(i) = i + RingLimit - 1 /\ LastOf(i)' = i + RingLimit - 1
    BY <1>1, <1>2, LimitsAssumption DEF LastOf
  <2>2. RejectionsIn(i, LastOf(i))' = RejectionsIn(i, LastOf(i))
    <3>1. LastOf(i) <= Len(events) BY <1>1, <1>2, <2>1, LimitsAssumption
    <3>2. \A j \in i..LastOf(i) : j \in DOMAIN events /\ j \in DOMAIN events' /\ events'[j] = events[j]
      BY <1>1, <2>1, <3>1, LimitsAssumption
    <3>3. QED BY <2>1, <3>2 DEF RejectionsIn
  <2>3. QED BY <2>1, <2>2, WindowsAre
<1>3. CASE ~(i + RingLimit - 1 < Len(events) + 1)
  <2>1. LastOf(i)' = Len(events')
    BY <1>1, <1>3 DEF LastOf
  <2>2. first' <= i
    BY <1>1, <1>3, LimitsAssumption DEF Record, OldestAfterAppend, RingFull, TypeOK
  <2>3. RejectionsIn(i, LastOf(i))' \in SUBSET RecordedRejections'
    <3>1. DOMAIN events' = 1..Len(events') /\ first' \in Nat /\ Len(events') \in Nat /\ i \in Nat
      BY <1>1 DEF TypeOK
    <3>2. \A j \in i..Len(events') : j \in first'..Len(events')
      BY <2>2, <3>1
    <3>3. QED BY <2>1, <3>2 DEF RejectionsIn, RecordedRejections
  <2>4. /\ Cardinality(RecordedRejections') \in Nat
        /\ Cardinality(RejectionsIn(i, LastOf(i))') \in Nat
        /\ Cardinality(RejectionsIn(i, LastOf(i))') <= Cardinality(RecordedRejections')
    <3>1. IsFiniteSet(RecordedRejections')
      <4>1. first' \in Int /\ Len(events') \in Int BY DEF TypeOK
      <4>2. RecordedRejections' \in SUBSET (first'..Len(events'))
        BY DEF RecordedRejections, RejectionsIn
      <4>3. QED BY <4>1, <4>2, FS_Interval, FS_Subset
    <3>2. QED BY <2>3, <3>1, FS_Subset, FS_CardinalityType
  <2>5. /\ Cardinality(AboutToEmit') \in Nat /\ Cardinality(Verifiers) \in Nat
    BY AboutToEmitBound DEF AboutToEmit
  <2>6. QED BY <2>4, <2>5, LimitsAssumption DEF CapHolds, Overshoot
<1>4. QED BY <1>2, <1>3

LEMMA WindowStep ==
    TypeOK /\ TypeOK' /\ RingFull /\ CapHolds' /\ WindowCapHolds /\ [Next]_vars => WindowCapHolds'
<1> SUFFICES ASSUME TypeOK, TypeOK', RingFull, CapHolds', WindowCapHolds, [Next]_vars
             PROVE  WindowCapHolds'
    OBVIOUS
<1>1. \A i \in 1..Len(events) : events[i].name = events[i].name
  OBVIOUS
<1>2. base \in Nat /\ Len(events) \in Nat
  BY DEF TypeOK
<1>3. ASSUME NEW v \in Verifiers, Refuse(v) PROVE WindowCapHolds'
  BY <1>2, <1>3, WindowsKept DEF Refuse
<1>4. ASSUME NEW v \in Verifiers, EmitRejection(v) PROVE WindowCapHolds'
  BY <1>4, WindowsAfterRecord, ThreadsAssumption DEF EmitRejection, Names
<1>5. ASSUME NEW v \in Verifiers, Note(v) PROVE WindowCapHolds'
  BY <1>2, <1>5, NoteShape, WindowsKept DEF Note, Suppress
<1>6. ASSUME NEW t \in Threads, EmitOther(t) PROVE WindowCapHolds'
  BY <1>6, WindowsAfterRecord DEF EmitOther, Names
<1>7. ASSUME NEW t \in Threads, Write(t) PROVE WindowCapHolds'
  BY <1>2, <1>7, WindowsKept DEF Write
<1>8. CASE Reset
  BY <1>2, <1>8, WindowsKept DEF Reset, TypeOK
<1>9. CASE UNCHANGED vars
  BY <1>2, <1>9, WindowsKept DEF vars
<1>10. QED BY <1>3, <1>4, <1>5, <1>6, <1>7, <1>8, <1>9 DEF Next

(* No RingLimit consecutive events of one boot hold more rejections than    *)
(* RECORDED_REJECTION_LIMIT and its overshoot, for every ring and cap.      *)
THEOREM WindowCap == Spec => []WindowCapHolds
<1>1. Init => TypeOK /\ RingFull /\ WindowCapHolds
  BY LimitsAssumption DEF Init, TypeOK, RingFull, WindowCapHolds
<1>2. QED BY <1>1, TypeCorrect, CapCorrect, RingFullStep, WindowStep, PTL DEF Spec

-----------------------------------------------------------------------------
(* The journal: a thread at "write" has an event nobody else has in hand    *)
(* and no line shows; every other event has its one line.                   *)
LinesOf(i) == {k \in 1..Len(journal) : journal[k].event = i}
InHand(i)  == \E t \in Threads : pc[t] = "write" /\ writing[t] = i

JournalInv ==
    /\ \A t, u \in Threads :
         pc[t] = "write" /\ pc[u] = "write" /\ writing[t] = writing[u] => t = u
    /\ \A k \in 1..Len(journal) : journal[k].event \in 1..Len(events)
    /\ \A i \in 1..Len(events) :
         /\ InHand(i) => LinesOf(i) = {}
         /\ ~InHand(i) => \E k \in 1..Len(journal) : LinesOf(i) = {k}

LEMMA JournalKept ==
    ASSUME TypeOK, JournalInv, UNCHANGED <<journal, writing>>, Len(events') = Len(events),
           \A t \in Threads : pc'[t] = "write" <=> pc[t] = "write"
    PROVE  JournalInv'
<1> QED BY SMTT(30) DEF JournalInv, LinesOf, InHand

LEMMA JournalAfterRecord ==
    ASSUME TypeOK, JournalInv, NEW t \in Threads, NEW name \in Names,
           pc[t] # "write", Record(t, name)
    PROVE  JournalInv'
<1>1. /\ Len(events') = Len(events) + 1 /\ Len(events) \in Nat /\ journal' = journal
      /\ pc' = [pc EXCEPT ![t] = "write"] /\ writing' = [writing EXCEPT ![t] = Len(events) + 1]
      /\ pc \in [Threads -> {"idle", "emit", "note", "write"}]
      /\ writing \in [Threads -> 0..Len(events)]
  BY RecordShape DEF Record, TypeOK
<1>2. ASSUME NEW i, i = Len(events) + 1 PROVE InHand(i)' /\ LinesOf(i)' = {}
  BY <1>1, <1>2 DEF InHand, LinesOf, JournalInv
<1>3. \A i \in 1..Len(events) : InHand(i)' <=> InHand(i)
  BY <1>1 DEF InHand
<1>4. \A i \in 1..Len(events) : LinesOf(i)' = LinesOf(i)
  BY <1>1 DEF LinesOf
<1>5. \A u, w \in Threads :
        pc'[u] = "write" /\ pc'[w] = "write" /\ writing'[u] = writing'[w] => u = w
  BY <1>1 DEF JournalInv
<1>6. \A k \in 1..Len(journal') : journal'[k].event \in 1..Len(events')
  BY <1>1 DEF JournalInv
<1>7. \A i \in 1..Len(events') :
        /\ InHand(i)' => LinesOf(i)' = {}
        /\ ~InHand(i)' => \E k \in 1..Len(journal') : LinesOf(i)' = {k}
  <2> SUFFICES ASSUME NEW i \in 1..(Len(events) + 1)
               PROVE  /\ InHand(i)' => LinesOf(i)' = {}
                      /\ ~InHand(i)' => \E k \in 1..Len(journal) : LinesOf(i)' = {k}
      BY <1>1
  <2>1. CASE i \in 1..Len(events)
    BY <1>3, <1>4, <2>1 DEF JournalInv
  <2>2. CASE i = Len(events) + 1
    BY <1>2, <2>2
  <2>3. QED BY <1>1, <2>1, <2>2
<1>8. QED BY <1>5, <1>6, <1>7 DEF JournalInv

LEMMA JournalAfterWrite ==
    ASSUME TypeOK, JournalInv, NEW t \in Threads, Write(t)
    PROVE  JournalInv'
<1> DEFINE j == writing[t]
           n == Len(journal) + 1
<1>1. /\ events' = events /\ writing' = writing /\ pc[t] = "write"
      /\ pc' = [pc EXCEPT ![t] = "idle"] /\ j \in 1..Len(events)
      /\ pc \in [Threads -> {"idle", "emit", "note", "write"}]
      /\ Len(journal) \in Nat
  BY DEF Write, TypeOK
<1>2. /\ Len(journal') = n /\ journal'[n].event = j
      /\ \A k \in 1..Len(journal) : journal'[k] = journal[k]
  BY DEF Write, TypeOK
<1> HIDE DEF n
<1>3. n = Len(journal) + 1 BY DEF n
<1>4. ~InHand(j)' /\ LinesOf(j)' = {n}
  <2>1. LinesOf(j) = {} BY <1>1 DEF JournalInv, InHand
  <2>2. ~InHand(j)' BY <1>1 DEF JournalInv, InHand
  <2>3. QED BY <1>1, <1>2, <1>3, <2>1, <2>2 DEF LinesOf
<1>5. ASSUME NEW i \in 1..Len(events), i # j
      PROVE  (InHand(i)' <=> InHand(i)) /\ LinesOf(i)' = LinesOf(i)
  BY <1>1, <1>2, <1>3, <1>5 DEF InHand, LinesOf
<1>6. \A i \in 1..Len(events') :
        /\ InHand(i)' => LinesOf(i)' = {}
        /\ ~InHand(i)' => \E k \in 1..Len(journal') : LinesOf(i)' = {k}
  <2> SUFFICES ASSUME NEW i \in 1..Len(events)
               PROVE  /\ InHand(i)' => LinesOf(i)' = {}
                      /\ ~InHand(i)' => \E k \in 1..n : LinesOf(i)' = {k}
      BY <1>1, <1>2
  <2>1. CASE i = j
    BY <1>1, <1>3, <1>4, <2>1
  <2>2. CASE i # j
    BY <1>1, <1>3, <1>5, <2>2 DEF JournalInv
  <2>3. QED BY <2>1, <2>2
<1>7. \A u, w \in Threads :
        pc'[u] = "write" /\ pc'[w] = "write" /\ writing'[u] = writing'[w] => u = w
  BY <1>1 DEF JournalInv
<1>8. \A k \in 1..Len(journal') : journal'[k].event \in 1..Len(events')
  BY <1>1, <1>2, <1>3 DEF JournalInv
<1>9. QED BY <1>6, <1>7, <1>8 DEF JournalInv

LEMMA JournalStep == TypeOK /\ JournalInv /\ [Next]_vars => JournalInv'
<1> SUFFICES ASSUME TypeOK, JournalInv, [Next]_vars PROVE JournalInv'
    OBVIOUS
<1>1. pc \in [Threads -> {"idle", "emit", "note", "write"}]
  BY DEF TypeOK
<1>2. ASSUME NEW v \in Verifiers, Refuse(v) PROVE JournalInv'
  BY <1>1, <1>2, JournalKept, ThreadsAssumption DEF Refuse
<1>3. ASSUME NEW v \in Verifiers, EmitRejection(v) PROVE JournalInv'
  BY <1>3, JournalAfterRecord, ThreadsAssumption DEF EmitRejection, Names
<1>4. ASSUME NEW v \in Verifiers, Note(v) PROVE JournalInv'
  BY <1>1, <1>4, NoteShape, JournalKept, ThreadsAssumption DEF Note, Suppress
<1>5. ASSUME NEW t \in Threads, EmitOther(t) PROVE JournalInv'
  BY <1>5, JournalAfterRecord DEF EmitOther, Names
<1>6. ASSUME NEW t \in Threads, Write(t) PROVE JournalInv'
  BY <1>6, JournalAfterWrite
<1>7. CASE Reset
  BY <1>7, JournalKept DEF Reset
<1>8. CASE UNCHANGED vars
  BY <1>8, JournalKept DEF vars
<1>9. QED BY <1>2, <1>3, <1>4, <1>5, <1>6, <1>7, <1>8 DEF Next

(* Whatever interleaves between the lock and the journal, every event is    *)
(* printed once and none twice, for every set of threads.                   *)
THEOREM WrittenOnce == Spec => []EachEventWrittenOnce
<1>1. Init => JournalInv
  BY DEF Init, JournalInv
<1>2. JournalInv => EachEventWrittenOnce
  <2> SUFFICES ASSUME JournalInv, NEW i \in 1..Len(events)
               PROVE  Cardinality(LinesOf(i)) = IF InHand(i) THEN 0 ELSE 1
      BY DEF EachEventWrittenOnce, LinesOf, InHand
  <2>1. CASE InHand(i)
    <3>1. LinesOf(i) = {} BY <2>1 DEF JournalInv
    <3>2. QED BY <2>1, <3>1, FS_EmptySet
  <2>2. CASE ~InHand(i)
    <3>1. PICK k \in 1..Len(journal) : LinesOf(i) = {k} BY <2>2 DEF JournalInv
    <3>2. QED BY <2>2, <3>1, FS_Singleton
  <2>3. QED BY <2>1, <2>2
<1>3. QED BY <1>1, <1>2, TypeCorrect, JournalStep, PTL DEF Spec
-----------------------------------------------------------------------------
(* The accounting.  What was rejected since the last reset, and the         *)
(* verifiers that have a refused caller in hand.                            *)
Since   == RejectionsIn(base, Len(events))
Pending == {v \in Verifiers : pc[v] \in {"emit", "note"}}

\* Nothing is invented; nothing is lost before the ring rotates, because a
\* verifier that counts a caller still finds a rejection to count it onto.
AccountInv ==
    /\ IsFiniteSet(Marks(Since))
    /\ Accounted(Since) + InFlight <= arrived
    /\ first = base =>
         /\ Accounted(Since) + InFlight = arrived
         /\ (\E v \in Verifiers : pc[v] = "note") => Since # {}

(* Every non-empty set of numbers has a least one, and every non-empty set  *)
(* of numbers of a range a greatest.                                        *)
LEMMA LeastNatural ==
    ASSUME NEW T \in SUBSET Nat, T # {}
    PROVE  \E n \in T : \A m \in T : n <= m
<1> DEFINE R == OpToRel(<, Nat)
<1>1. IsWellFoundedOn(R, Nat)
  BY NatLessThanWellFounded
<1>2. \A x, y \in Nat : x < y => <<x, y>> \in R
  BY DEF OpToRel
<1> HIDE DEF R
<1>3. PICK n \in T : \A m \in T : ~(<<m, n>> \in R)
  BY <1>1, WFMin
<1>4. \A m \in T : ~(m < n)
  BY <1>2, <1>3
<1>5. QED BY <1>4

LEMMA GreatestOfRange ==
    ASSUME NEW a \in Int, NEW b \in Int, NEW T \in SUBSET (a..b), T # {}
    PROVE  \E n \in T : \A m \in T : m <= n
<1> DEFINE D == {d \in Nat : b - d \in T}
<1>1. \A m \in T : m \in Int /\ b - m \in D
  OBVIOUS
<1>2. PICK d \in D : \A e \in D : d <= e
  BY <1>1, LeastNatural
<1>3. \A m \in T : d <= b - m
  BY <1>1, <1>2
<1>4. b - d \in T /\ d \in Nat
  BY <1>2
<1>5. \A m \in T : m <= b - d
  BY <1>1, <1>3, <1>4
<1>6. QED BY <1>4, <1>5

(* A search from the newest event finds exactly one rejection, if there is  *)
(* one at all (note_suppressed_event).                                      *)
LEMMA NewestIsOne ==
    ASSUME TypeOK
    PROVE  \/ RecordedRejections = {} /\ Newest(RecordedRejections) = {}
           \/ \E i \in RecordedRejections : Newest(RecordedRejections) = {i}
<1>1. first \in Int /\ Len(events) \in Int
  BY DEF TypeOK
<1>2. RecordedRejections \in SUBSET (first..Len(events))
  BY DEF RecordedRejections, RejectionsIn
<1>3. CASE RecordedRejections = {}
  BY <1>3 DEF Newest
<1>4. CASE RecordedRejections # {}
  <2>1. PICK i \in RecordedRejections : \A j \in RecordedRejections : j <= i
    BY <1>1, <1>2, <1>4, GreatestOfRange
  <2>2. \A j \in RecordedRejections : j \in Int
    BY <1>1, <1>2
  <2>3. \A k \in RecordedRejections : (\A j \in RecordedRejections : j <= k) <=> k = i
    BY <2>1, <2>2
  <2>4. Newest(RecordedRejections) = {i}
    BY <2>1, <2>3, Zenon DEF Newest
  <2>5. QED BY <2>4
<1>5. QED BY <1>3, <1>4

(* A mark is an event of the set and an arrival that event stands for.      *)
LEMMA MarkIs ==
    \A S, m : m \in Marks(S) <=> \E i \in S : \E k \in 0..events[i].suppressed : m = <<i, k>>
<1> QED BY DEF Marks

(* What no step touched stands for what it stood for.                       *)
LEMMA MarksKept ==
    ASSUME NEW S, NEW T, T = S, \A i \in S : events'[i].suppressed = events[i].suppressed
    PROVE  Marks(T)' = Marks(S)
<1> QED BY DEF Marks

LEMMA PendingFinite ==
    /\ IsFiniteSet(Pending) /\ Cardinality(Pending) \in Nat /\ InFlight = Cardinality(Pending)
<1>1. IsFiniteSet(Verifiers) BY AboutToEmitBound
<1>2. IsFiniteSet(Pending) BY <1>1, FS_Subset DEF Pending
<1>3. QED BY <1>2, FS_CardinalityType DEF Pending, InFlight

(* As long as nothing rotated out, the ring holds everything since a reset. *)
LEMMA RingIsSince == first = base => RecordedRejections = Since
<1> QED BY DEF RecordedRejections, Since

(* The numbers of a step that takes one caller out of hand and counts it    *)
(* with one mark more.                                                      *)
LEMMA CountedOnce ==
    ASSUME AccountInv, arrived \in Nat, arrived' = arrived,
           NEW v \in Pending, Pending' = Pending \ {v},
           NEW m, m \notin Marks(Since), Marks(Since)' = Marks(Since) \cup {m},
           first' = base' => first = base, Since' # {}
    PROVE  AccountInv'
<1> DEFINE M == Marks(Since)
<1>1. IsFiniteSet(M) /\ Cardinality(M) \in Nat /\ Accounted(Since) = Cardinality(M)
  BY FS_CardinalityType DEF AccountInv, Accounted
<1>2. /\ IsFiniteSet(M \cup {m}) /\ Cardinality(M \cup {m}) = Cardinality(M) + 1
  BY <1>1, FS_AddElement
<1>3. IsFiniteSet(Pending') /\ Cardinality(Pending') = Cardinality(Pending) - 1
  BY PendingFinite, FS_RemoveElement
<1>4. InFlight' = Cardinality(Pending') /\ Accounted(Since)' = Cardinality(M \cup {m})
  BY DEF InFlight, Pending, Accounted
<1> HIDE DEF M
<1>5. Accounted(Since)' + InFlight' = Accounted(Since) + InFlight
  BY <1>1, <1>2, <1>3, <1>4, PendingFinite
<1>6. IsFiniteSet(Marks(Since)')
  BY <1>2 DEF M
<1>7. QED BY <1>5, <1>6 DEF AccountInv

(* A step that counts nobody and takes nobody out of hand.                  *)
LEMMA NothingCounted ==
    ASSUME AccountInv, arrived' = arrived, Marks(Since)' = Marks(Since),
           \A v \in Verifiers : pc'[v] = pc[v] \/ {pc[v], pc'[v]} \subseteq {"idle", "write"},
           first' = base' => first = base, Since # {} => Since' # {}
    PROVE  AccountInv'
<1>1. Pending' = Pending
  BY DEF Pending
<1>2. InFlight' = InFlight
  BY <1>1 DEF InFlight, Pending
<1>3. Accounted(Since)' = Accounted(Since)
  BY DEF Accounted
<1>4. (\E v \in Verifiers : pc'[v] = "note") => \E v \in Verifiers : pc[v] = "note"
  OBVIOUS
<1>5. QED BY <1>2, <1>3, <1>4 DEF AccountInv

(* What an append leaves of the rejections since the last reset.            *)
LEMMA SinceAfterRecord ==
    ASSUME TypeOK, NEW t \in Threads, NEW name \in Names, Record(t, name)
    PROVE  /\ Since' = Since \cup (IF name = Rejection THEN {Len(events) + 1} ELSE {})
           /\ Len(events) + 1 \notin Since
           /\ Since \subseteq 1..Len(events)
           /\ first' = base' => first = base
<1>1. /\ DOMAIN events = 1..Len(events) /\ DOMAIN events' = 1..(Len(events) + 1)
      /\ Len(events') = Len(events) + 1 /\ Len(events) \in Nat
      /\ base' = base /\ base \in 1..(Len(events) + 1)
  BY RecordShape DEF TypeOK, Record
<1>2. Since \subseteq 1..Len(events)
  BY <1>1 DEF Since, RejectionsIn
<1>3. ASSUME NEW i \in 1..Len(events) PROVE i \in Since' <=> i \in Since
  BY <1>1, <1>3, RecordShape DEF Since, RejectionsIn
<1>4. ASSUME NEW i, i = Len(events) + 1 PROVE i \in Since' <=> name = Rejection
  BY <1>1, <1>4, RecordShape DEF Since, RejectionsIn
<1>5. Since' \subseteq 1..(Len(events) + 1)
  BY <1>1 DEF Since, RejectionsIn
<1>6. Since' = Since \cup (IF name = Rejection THEN {Len(events) + 1} ELSE {})
  <2>1. 1..(Len(events) + 1) = (1..Len(events)) \cup {Len(events) + 1}
    BY <1>1
  <2>2. QED BY <1>2, <1>3, <1>4, <1>5, <2>1, Zenon
<1>7. first' = base' => first = base
  BY <1>1 DEF Record, OldestAfterAppend, TypeOK
<1>8. Len(events) + 1 \notin 1..Len(events)
  BY <1>1
<1>9. QED BY <1>2, <1>6, <1>7, <1>8

(* note_suppressed_event either finds nothing, and then the ring has        *)
(* rotated, or adds one mark to one rejection.                              *)
LEMMA MarksAfterNote ==
    ASSUME TypeOK, NEW v \in Verifiers, Note(v)
    PROVE  /\ Since' = Since
           /\ \/ RecordedRejections = {} /\ Marks(Since)' = Marks(Since)
              \/ \E m : m \notin Marks(Since) /\ Marks(Since)' = Marks(Since) \cup {m}
<1>1. /\ DOMAIN events = 1..Len(events) /\ DOMAIN events' = 1..Len(events)
      /\ Len(events') = Len(events) /\ base' = base /\ base \in Nat /\ base <= first
      /\ first \in Nat /\ Len(events) \in Nat
  BY NoteShape DEF TypeOK, Note, Suppress
<1>2. Since' = Since
  BY <1>1, NoteShape DEF Since, RejectionsIn
<1>3. RecordedRejections \subseteq Since /\ Since \subseteq DOMAIN events
  BY <1>1 DEF RecordedRejections, Since, RejectionsIn
<1>4. CASE RecordedRejections = {} /\ Newest(RecordedRejections) = {}
  <2>1. \A j \in DOMAIN events : events'[j] = events[j]
    BY <1>4 DEF Note, Suppress
  <2>2. Marks(Since)' = Marks(Since)
    BY <1>2, <1>3, <2>1, MarksKept
  <2>3. QED BY <1>2, <1>4, <2>2
<1>5. ASSUME NEW i \in RecordedRejections, Newest(RecordedRejections) = {i}
      PROVE  \E m : m \notin Marks(Since) /\ Marks(Since)' = Marks(Since) \cup {m}
  <2> DEFINE s == events[i].suppressed
             m == <<i, s + 1>>
  <2>1. i \in Since /\ i \in DOMAIN events /\ s \in Nat
    <3>1. i \in Since /\ i \in 1..Len(events)
      BY <1>1, <1>3
    <3>2. events[i] \in Event
      BY <3>1 DEF TypeOK
    <3>3. QED BY <1>1, <3>1, <3>2 DEF Event
  <2>2. /\ events'[i].suppressed = s + 1
        /\ \A j \in DOMAIN events : j # i => events'[j] = events[j]
    <3>1. /\ events'[i] = [events[i] EXCEPT !.suppressed = @ + 1]
          /\ \A j \in DOMAIN events : j # i => events'[j] = events[j]
      BY <1>5, <2>1, Zenon DEF Note, Suppress
    <3>2. events[i] \in Event
      BY <1>1, <2>1 DEF TypeOK
    <3>3. QED BY <3>1, <3>2 DEF Event
  <2>3. 0..(s + 1) = (0..s) \cup {s + 1} /\ s + 1 \notin 0..s
    BY <2>1
  <2> HIDE DEF s
  <2>4. m \notin Marks(Since)
    BY <2>3, MarkIs DEF s
  <2>5. ASSUME NEW x
        PROVE  x \in Marks(Since)' <=> x \in Marks(Since) \cup {m}
    <3>1. x \in Marks(Since)' <=> \E j \in Since : \E k \in 0..events'[j].suppressed : x = <<j, k>>
      BY <1>2 DEF Marks
    <3>2. x \in Marks(Since) <=> \E j \in Since : \E k \in 0..events[j].suppressed : x = <<j, k>>
      BY MarkIs
    <3>3. QED BY <1>3, <2>1, <2>2, <2>3, <3>1, <3>2, Zenon DEF s
  <2>6. QED BY <2>4, <2>5
<1>6. QED BY <1>2, <1>4, <1>5, NewestIsOne

LEMMA AccountStep == TypeOK /\ AccountInv /\ [Next]_vars => AccountInv'
<1> SUFFICES ASSUME TypeOK, AccountInv, [Next]_vars PROVE AccountInv'
    OBVIOUS
<1>1. /\ pc \in [Threads -> {"idle", "emit", "note", "write"}] /\ Verifiers \subseteq Threads
      /\ arrived \in Nat
  BY ThreadsAssumption DEF TypeOK
<1>2. ASSUME NEW v \in Verifiers, Refuse(v) PROVE AccountInv'
  <2>1. Pending' = Pending \cup {v} /\ v \notin Pending
    BY <1>1, <1>2 DEF Refuse, Pending
  <2>2. InFlight' = InFlight + 1
    <3>1. Cardinality(Pending \cup {v}) = Cardinality(Pending) + 1
      BY <2>1, PendingFinite, FS_AddElement
    <3>2. InFlight' = Cardinality(Pending') BY DEF InFlight, Pending
    <3>3. QED BY <2>1, <3>1, <3>2, PendingFinite
  <2>3. Since' = Since /\ Marks(Since)' = Marks(Since) /\ Accounted(Since)' = Accounted(Since)
    BY <1>2 DEF Refuse, Since, RejectionsIn, Marks, Accounted
  <2>4. first = base /\ (\E w \in Verifiers : pc'[w] = "note") => Since # {}
    <3> SUFFICES ASSUME first = base, Since = {}, NEW w \in Verifiers, pc'[w] = "note"
                 PROVE  FALSE
        BY <2>3
    <3>1. pc[w] # "note"
      BY DEF AccountInv
    <3>2. Cardinality(RecordedRejections) < RejectionLimit
      BY RingIsSince, FS_EmptySet, LimitsAssumption
    <3>3. QED BY <1>1, <1>2, <3>1, <3>2 DEF Refuse
  <2>5. Accounted(Since) \in Nat /\ InFlight \in Nat
    BY PendingFinite, FS_CardinalityType DEF AccountInv, Accounted
  <2>6. arrived' = arrived + 1 /\ first' = first /\ base' = base
    BY <1>2 DEF Refuse
  <2>7. QED BY <1>1, <2>2, <2>3, <2>4, <2>5, <2>6 DEF AccountInv
<1>3. ASSUME NEW v \in Verifiers, EmitRejection(v) PROVE AccountInv'
  <2> DEFINE n == Len(events) + 1
  <2>1. Record(v, Rejection) /\ pc[v] = "emit" /\ v \in Threads /\ Rejection \in Names
    BY <1>1, <1>3 DEF EmitRejection, Names
  <2>2. Since' = Since \cup {n} /\ n \notin Since /\ (first' = base' => first = base)
    BY <2>1, SinceAfterRecord
  <2>3. Pending' = Pending \ {v} /\ v \in Pending /\ arrived' = arrived
    BY <1>1, <2>1 DEF Record, Pending
  <2>4. <<n, 0>> \notin Marks(Since)
    BY <2>2, MarkIs
  <2>5. Marks(Since)' = Marks(Since) \cup {<<n, 0>>}
    <3>1. \A j \in Since : events'[j] = events[j]
      BY <2>1, RecordShape, SinceAfterRecord
    <3>2. events'[n].suppressed = 0
      BY <2>1 DEF Record, TypeOK
    <3>3. 0..0 = {0}
      OBVIOUS
    <3> HIDE DEF n
    <3>4. ASSUME NEW x
          PROVE  x \in Marks(Since)' <=> x \in Marks(Since) \cup {<<n, 0>>}
      <4>1. x \in Marks(Since)' <=> \E j \in Since' : \E k \in 0..events'[j].suppressed : x = <<j, k>>
        BY DEF Marks
      <4>2. x \in Marks(Since) <=> \E j \in Since : \E k \in 0..events[j].suppressed : x = <<j, k>>
        BY MarkIs
      <4>3. QED BY <2>2, <3>1, <3>2, <3>3, <4>1, <4>2, Zenon
    <3>5. QED BY <3>4
  <2> HIDE DEF n
  <2>6. QED BY <1>1, <2>2, <2>3, <2>4, <2>5, CountedOnce
<1>4. ASSUME NEW v \in Verifiers, Note(v) PROVE AccountInv'
  <2>1. /\ Pending' = Pending \ {v} /\ v \in Pending /\ arrived' = arrived
        /\ first' = first /\ base' = base
    BY <1>1, <1>4 DEF Note, Suppress, Pending
  <2>2. Since' = Since
    BY <1>4, MarksAfterNote
  <2>3. first = base => Since # {} /\ RecordedRejections = Since
    BY <1>4, RingIsSince DEF AccountInv, Note, Suppress
  <2>4. CASE RecordedRejections = {} /\ Marks(Since)' = Marks(Since)
    <3>1. first # base
      BY <2>3, <2>4
    <3>2. InFlight' = InFlight - 1
      <4>1. Cardinality(Pending \ {v}) = Cardinality(Pending) - 1
        BY <2>1, PendingFinite, FS_RemoveElement
      <4>2. InFlight' = Cardinality(Pending') BY DEF InFlight, Pending
      <4>3. QED BY <2>1, <4>1, <4>2, PendingFinite
    <3>3. Accounted(Since)' = Accounted(Since) /\ Accounted(Since) \in Nat /\ InFlight \in Nat
      BY <2>4, PendingFinite, FS_CardinalityType DEF AccountInv, Accounted
    <3>4. QED BY <1>1, <2>1, <2>4, <3>1, <3>2, <3>3 DEF AccountInv
  <2>5. ASSUME NEW m, m \notin Marks(Since), Marks(Since)' = Marks(Since) \cup {m}
        PROVE  AccountInv'
    <3>1. Since' # {}
      BY <2>2, <2>5, MarkIs DEF Marks
    <3>2. QED BY <1>1, <2>1, <2>5, <3>1, CountedOnce
  <2>6. QED BY <1>4, <2>4, <2>5, MarksAfterNote
<1>5. ASSUME NEW t \in Threads, EmitOther(t) PROVE AccountInv'
  <2>1. Record(t, Other) /\ pc[t] = "idle" /\ Other \in Names /\ Other # Rejection
    BY <1>5 DEF EmitOther, Names, Other, Rejection
  <2>2. Since' = Since /\ Since \subseteq 1..Len(events) /\ (first' = base' => first = base)
    BY <2>1, SinceAfterRecord
  <2>3. Marks(Since)' = Marks(Since)
    BY <2>1, <2>2, RecordShape, MarksKept
  <2>4. QED BY <1>1, <2>1, <2>2, <2>3, NothingCounted DEF Record
<1>6. ASSUME NEW t \in Threads, Write(t) PROVE AccountInv'
  <2>1. Since' = Since /\ Marks(Since)' = Marks(Since)
    BY <1>6 DEF Write, Since, RejectionsIn, Marks
  <2>2. QED BY <1>1, <1>6, <2>1, NothingCounted DEF Write
<1>7. CASE Reset
  <2>1. Since' = {} /\ Marks(Since)' = {} /\ Pending' = {} /\ arrived' = 0
    BY <1>1, <1>7 DEF Reset, Since, RejectionsIn, Marks, Pending, TypeOK
  <2>2. Accounted(Since)' = 0 /\ InFlight' = 0 /\ IsFiniteSet({})
    BY <2>1, FS_EmptySet DEF Accounted, InFlight, Pending
  <2>3. ~\E v \in Verifiers : pc'[v] = "note"
    BY <2>1 DEF Pending
  <2>4. QED BY <2>1, <2>2, <2>3 DEF AccountInv
<1>8. CASE UNCHANGED vars
  <2>1. Since' = Since /\ Marks(Since)' = Marks(Since)
    BY <1>8 DEF vars, Since, RejectionsIn, Marks
  <2>2. QED BY <1>8, <2>1, NothingCounted DEF vars
<1>9. QED BY <1>2, <1>3, <1>4, <1>5, <1>6, <1>7, <1>8 DEF Next

LEMMA AccountCorrect == Spec => []AccountInv
<1>1. Init => AccountInv
  <2> SUFFICES ASSUME Init PROVE AccountInv OBVIOUS
  <2>1. Since = {} /\ Marks(Since) = {} /\ Pending = {} /\ arrived = 0
    BY ThreadsAssumption DEF Init, Since, RejectionsIn, Marks, Pending
  <2>2. Accounted(Since) = 0 /\ InFlight = 0 /\ IsFiniteSet({})
    BY <2>1, FS_EmptySet DEF Accounted, InFlight, Pending
  <2>3. ~\E v \in Verifiers : pc[v] = "note"
    BY <2>1 DEF Pending
  <2>4. QED BY <2>1, <2>2, <2>3 DEF AccountInv
<1>2. QED BY <1>1, AccountStep, TypeCorrect, PTL DEF Spec

(* However many verifiers race between reading the cap, appending and       *)
(* counting: until the ring rotates, what it says arrived is what arrived.  *)
THEOREM Accounting == Spec => []AccountingIdentity
<1>1. AccountInv => AccountingIdentity
  BY RingIsSince DEF AccountInv, AccountingIdentity
<1>2. QED BY <1>1, AccountCorrect, PTL

(* And whatever rotated out in between: no arrival is ever counted twice.   *)
THEOREM NeverOver == Spec => []NeverOvercounted
<1>1. AccountInv => NeverOvercounted
  BY DEF AccountInv, NeverOvercounted, Since
<1>2. QED BY <1>1, AccountCorrect, PTL
=============================================================================
