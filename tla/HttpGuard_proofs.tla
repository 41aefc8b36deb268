-------------------------- MODULE HttpGuard_proofs --------------------------
(* For any number of requests: nobody who is admitted meets a session        *)
(* manager that is not open, serve_http leaves nothing half-listening, and   *)
(* guard, lifespan and listener implement the guarded service.               *)
EXTENDS HttpGuard, EventRecord_proofs

\* Where serve_http is, uvicorn is too.
PlaceInv ==
    /\ at \in {"bind", "build", "notify", "run", "close"} => server = "down"
    /\ at = "serve" => server # "down"
    /\ at = "over" => server \in {"down", "stopped"} /\ listener # "listening"
    /\ at = "bind" <=> listener = "none" /\ at # "over"
    /\ at \in {"notify", "run", "serve"} => check
    /\ at \in {"bind", "build", "notify"} => ~ready
    /\ ready => check /\ listener # "none"

\* The manager is open from before the first request to after the last one.
LifespanInv ==
    /\ server = "down" => lifespan = "none" /\ sessions = "closed"
    /\ server = "starting" => \/ lifespan = "none" /\ sessions = "closed"
                              \/ lifespan = "inside" /\ sessions = "open"
    /\ server \in {"serving", "draining"} => lifespan = "inside" /\ sessions = "open"
    /\ server = "stopping" => \/ lifespan = "inside" /\ sessions = "open"
                              \/ lifespan = "left" /\ sessions = "over"
    /\ server = "stopped" => sessions # "open"

RequestInv ==
    \A r \in Requests :
        /\ request[r] \in {"guard", "refused", "inside"} => server \in {"serving", "draining"}
        /\ request[r] = "queued" => listener = "listening"
        /\ request[r] = "answered" => server \notin {"down", "starting"}
        /\ answer[r] = "server_error" => header[r] = NotHttp

\* Who is refused did not show the secret in force, and an answer is the end.
AnswerInv ==
    \A r \in Requests :
        /\ request[r] = "refused" => r \notin Entitled
        /\ answer[r] # "none" <=> request[r] = "answered"

\* A lifespan that failed did so before anybody was taken.
FailureInv ==
    /\ lifespan = "failed" =>
         server = "stopped" /\ \A r \in Requests : request[r] \in {"away", "queued", "lost"}
    /\ ended = "returned" => lifespan = "failed"

ServiceInv == ServiceTypeOK /\ PlaceInv /\ LifespanInv /\ RequestInv /\ AnswerInv /\ FailureInv

\* The verifier passes exactly the callers that show the secret in force; the
\* presented dummy shows nothing, since the two dummies never compare equal.
LEMMA ReasonNone ==
    ASSUME NEW h \in Headers \ {NotHttp}, NEW secret \in Secrets
    PROVE  Reason(h, secret) = "none" <=> <<h, secret>> \in Shows
  BY DEF Reason, Candidate, Comparable, Shows, Headers, Secrets, Absent, WrongScheme, BlankToken,
         DummyPresented, DummyExpected, Secret, Padded, Accented, AccentedLatin1, AccentedUtf8,
         Unset, NotHttp

\* Who asks for something other than http shows nothing.
LEMMA NotHttpShowsNothing == \A r \in Requests : header[r] = NotHttp => r \notin Entitled
  BY DEF Entitled, Shows, NotHttp, Secret, Padded, AccentedLatin1, DummyExpected

LEMMA NobodyElse ==
    ASSUME ServiceTypeOK, NEW r \in Requests, header[r] # NotHttp
    PROVE  Reason(header[r], expected) = "none" <=> r \in Entitled
  BY ReasonNone DEF ServiceTypeOK, Entitled

LEMMA InitInv == GuardInit => ServiceInv
  BY DEF GuardInit, ServiceInv, ServiceTypeOK, PlaceInv, LifespanInv, RequestInv, AnswerInv,
         FailureInv

\* serve_http's own steps, up to handing the listener to uvicorn.
LEMMA ServingPreserves == ServiceInv /\ Serving => ServiceInv'
  <1> SUFFICES ASSUME ServiceInv, Serving PROVE ServiceInv'
    OBVIOUS
  <1> USE DEF ServiceInv, ServiceTypeOK, PlaceInv, LifespanInv, RequestInv, AnswerInv, FailureInv, Entitled,
              lifeVars, callVars
  <1>1. CASE Bind
    BY <1>1 DEF Bind
  <1>2. CASE BuildApplication
    BY <1>2 DEF BuildApplication
  <1>3. CASE NotifyReady
    BY <1>3 DEF NotifyReady
  <1>4. CASE Run
    BY <1>4 DEF Run
  <1>5. CASE Close
    BY <1>5 DEF Close, CloseListener, HowItEnded
  <1> QED
    BY <1>1, <1>2, <1>3, <1>4, <1>5 DEF Serving

\* uvicorn opens the manager, serves, drains and closes it again.
LEMMA LifespanPreserves ==
    ServiceInv /\ (Lifespan \/ LifespanFails \/ Signal \/ SignalWhileStarting) => ServiceInv'
  <1> SUFFICES ASSUME ServiceInv, Lifespan \/ LifespanFails \/ Signal \/ SignalWhileStarting PROVE ServiceInv'
    OBVIOUS
  <1> USE DEF ServiceInv, ServiceTypeOK, PlaceInv, LifespanInv, RequestInv, AnswerInv, FailureInv, Entitled,
              serveVars, callVars
  <1>1. CASE EnterSessionManager
    BY <1>1 DEF EnterSessionManager
  <1>2. CASE SendStartupComplete
    BY <1>2 DEF SendStartupComplete
  <1>3. CASE Drained
    BY <1>3 DEF Drained
  <1>4. CASE LeaveSessionManager
    BY <1>4 DEF LeaveSessionManager
  <1>5. CASE SendShutdownComplete
    BY <1>5 DEF SendShutdownComplete
  <1>6. CASE Signal
    BY <1>6 DEF Signal, CloseListener
  <1>7. CASE SignalWhileStarting
    BY <1>7 DEF SignalWhileStarting
  <1>8. CASE LifespanFails
    BY <1>8 DEF LifespanFails
  <1> QED
    BY <1>1, <1>2, <1>3, <1>4, <1>5, <1>6, <1>7, <1>8 DEF Lifespan

\* A request moves one step; what the verifier records is EventRecord's.
LEMMA RequestPreserves ==
    ASSUME NEW r \in Requests, ServiceInv,
           Connect(r) \/ Guard(r) \/ CallTool(r) \/ Respond(r)
    PROVE  ServiceInv'
  <1> USE DEF ServiceInv, ServiceTypeOK, PlaceInv, LifespanInv, RequestInv, AnswerInv, FailureInv, Entitled,
              serveVars, lifeVars, callVars, To
  <1>1. CASE Connect(r)
    BY <1>1 DEF Connect
  <1>2. CASE Take(r)
    BY <1>2 DEF Take
  <1>3. CASE RefuseCaller(r)
    BY <1>3, NobodyElse DEF RefuseCaller, Verifies
  <1>4. CASE SendRefusal(r)
    BY <1>4 DEF SendRefusal
  <1>5. CASE HandOn(r)
    <2>1. sessions = "open"
      BY <1>5 DEF HandOn, Verifies
    <2> QED
      BY <1>5, <2>1 DEF HandOn, Verifies
  <1>6. CASE CallTool(r)
    BY <1>6 DEF CallTool
  <1>7. CASE Respond(r)
    BY <1>7 DEF Respond
  <1>8. CASE PassUnverified(r)
    BY <1>8 DEF PassUnverified
  <1> QED
    BY <1>1, <1>2, <1>3, <1>4, <1>5, <1>6, <1>7, <1>8 DEF Guard

LEMMA ServiceCorrect == GuardSpec => []ServiceInv
  <1>1. ServiceInv /\ [GuardNext]_guardVars => ServiceInv'
    <2> SUFFICES ASSUME ServiceInv, [GuardNext]_guardVars PROVE ServiceInv'
      OBVIOUS
    <2>1. CASE Serving
      BY <2>1, ServingPreserves
    <2>2. CASE Lifespan \/ LifespanFails \/ Signal \/ SignalWhileStarting
      BY <2>2, LifespanPreserves
    <2>3. ASSUME NEW r \in Requests, Connect(r) \/ Guard(r) \/ CallTool(r) \/ Respond(r)
          PROVE  ServiceInv'
      BY <2>3, RequestPreserves
    <2>4. CASE UNCHANGED <<serveVars, lifeVars, callVars>>
      BY <2>4 DEF ServiceInv, ServiceTypeOK, PlaceInv, LifespanInv, RequestInv, AnswerInv, FailureInv,
                  Entitled, serveVars, lifeVars, callVars
    <2>5. FinishRecording \/ UNCHANGED guardVars => UNCHANGED <<serveVars, lifeVars, callVars>>
      BY DEF FinishRecording, guardVars
    <2> QED
      BY <2>1, <2>2, <2>3, <2>4, <2>5 DEF GuardNext
  <1> QED
    BY <1>1, InitInv, PTL DEF GuardSpec

\* Whoever shows the secret is handed to a manager that is open and stays open
\* until it is answered, for any number of requests and whenever the signal comes.
THEOREM SessionsOpen == GuardSpec => []SessionsOpenForEveryCaller
  <1>1. ServiceInv => SessionsOpenForEveryCaller
    BY DEF ServiceInv, LifespanInv, RequestInv, SessionsOpenForEveryCaller
  <1> QED
    BY <1>1, ServiceCorrect, PTL

\* However serve_http ends, nothing is left listening, open or waiting.
THEOREM NothingLeft == GuardSpec => []NothingHalfListening
  <1>1. ServiceInv => NothingHalfListening
    BY DEF ServiceInv, ServiceTypeOK, PlaceInv, LifespanInv, RequestInv, AnswerInv, FailureInv,
       NothingHalfListening
  <1> QED
    BY <1>1, ServiceCorrect, PTL


-----------------------------------------------------------------------------
(* The guarded service. *)

Fates == [r \in Requests |-> Fate(r)]

\* What moves no request and not the manager is no step of the service.
LEMMA Stutters ==
    ASSUME UNCHANGED <<expected, header, sessions, request, answer>>
    PROVE  UNCHANGED Service!vars
  BY DEF Service!vars, Phase, Entitled, Fate

\* Closing the listener drops those who wait in the backlog, or nobody.
LEMMA ClosingDrops ==
    ASSUME ServiceInv, CloseListener, UNCHANGED <<expected, sessions>>
    PROVE  [Service!Next]_(Service!vars)
  <1> DEFINE S == {r \in Requests : request[r] = "queued"}
  <1>1. Phase' = Phase /\ Entitled' = Entitled
    BY DEF CloseListener, Phase, Entitled
  <1>2. Fates' = [r \in Requests |-> IF r \in S THEN "dropped" ELSE Fates[r]]
    BY DEF CloseListener, Fates, Fate, ServiceInv, ServiceTypeOK
  <1>3. \A r \in S : Fates[r] = "waiting"
    BY DEF Fates, Fate
  <1>4. CASE S = {}
    BY <1>1, <1>2, <1>4 DEF Fates, Service!vars
  <1>5. CASE S # {}
    <2>1. Service!Drop(S)
      BY <1>1, <1>2, <1>3, <1>5 DEF Service!Drop, Fates
    <2> QED
      BY <2>1 DEF Service!Next
  <1> QED
    BY <1>4, <1>5

\* The manager opens, and closes only when nobody is inside.
LEMMA ManagerMoves ==
    ASSUME ServiceInv, UNCHANGED <<expected, header, request, answer>>,
           \/ sessions = "closed" /\ sessions' = "open"
           \/ sessions = "open" /\ sessions' = "over" /\ server \notin {"serving", "draining"}
    PROVE  Service!Next
  <1>1. Entitled' = Entitled /\ Fates' = Fates
    BY DEF Entitled, Fates, Fate
  <1>2. CASE sessions = "closed" /\ sessions' = "open"
    <2>1. Service!Open
      BY <1>1, <1>2 DEF Service!Open, Phase, Fates
    <2> QED
      BY <2>1 DEF Service!Next
  <1>3. CASE sessions = "open" /\ sessions' = "over" /\ server \notin {"serving", "draining"}
    <2>1. \A r \in Requests : Fates[r] # "admitted"
      BY <1>3 DEF Fates, Fate, ServiceInv, ServiceTypeOK, RequestInv
    <2>2. Service!Close
      BY <1>1, <1>3, <2>1 DEF Service!Close, Phase, Fates
    <2> QED
      BY <2>2 DEF Service!Next
  <1> QED
    BY <1>2, <1>3

\* One request moves: the fates move with it.
LEMMA RequestMoves ==
    ASSUME ServiceInv, NEW r \in Requests,
           Connect(r) \/ Guard(r) \/ CallTool(r) \/ Respond(r)
    PROVE  [Service!Next]_(Service!vars)
  <1> USE DEF ServiceInv, ServiceTypeOK, To, serveVars, lifeVars, callVars
  <1>1. CASE Connect(r)
    <2>1. Service!Arrive(r)
      BY <1>1 DEF Connect, Service!Arrive, Service!Becomes, Phase, Entitled, Fate
    <2> QED
      BY <2>1 DEF Service!Next
  <1>2. CASE Take(r)
    BY <1>2 DEF Take, Service!vars, Phase, Entitled, Fate
  <1>3. CASE RefuseCaller(r)
    <2>1. Phase' = Phase /\ Entitled' = Entitled
      BY <1>3 DEF RefuseCaller, Phase, Entitled
    <2>2. Fates' = Fates
      BY <1>3 DEF RefuseCaller, Verifies, Fates, Fate
    <2> QED
      BY <2>1, <2>2 DEF Service!vars, Fates
  <1>4. CASE SendRefusal(r)
    <2>1. r \notin Entitled
      BY <1>4 DEF SendRefusal, AnswerInv
    <2>2. Service!Refuse(r)
      BY <1>4, <2>1 DEF SendRefusal, Service!Refuse, Service!Becomes, Phase, Entitled, Fate
    <2> QED
      BY <2>2 DEF Service!Next
  <1>5. CASE HandOn(r)
    <2>1. sessions = "open" /\ r \in Entitled
      BY <1>5, NobodyElse DEF HandOn, Verifies, RequestInv, LifespanInv
    <2>2. Service!Admit(r)
      BY <1>5, <2>1, ZenonT(40) DEF HandOn, Verifies, Service!Admit, Service!Becomes, Phase, Entitled, Fate
    <2> QED
      BY <2>2 DEF Service!Next
  <1>6. CASE CallTool(r)
    BY <1>6, Stutters DEF CallTool
  <1>7. CASE Respond(r)
    <2>1. sessions = "open"
      BY <1>7 DEF Respond, RequestInv, LifespanInv
    <2>2. Service!Serve(r)
      BY <1>7, <2>1 DEF Respond, Service!Serve, Service!Becomes, Phase, Entitled, Fate
    <2> QED
      BY <2>2 DEF Service!Next
  <1>8. CASE PassUnverified(r)
    <2>1. r \notin Entitled
      BY <1>8, NotHttpShowsNothing DEF PassUnverified
    <2>2. Service!Refuse(r)
      BY <1>8, <2>1 DEF PassUnverified, Service!Refuse, Service!Becomes, Phase, Entitled, Fate
    <2> QED
      BY <2>2 DEF Service!Next
  <1> QED
    BY <1>1, <1>2, <1>3, <1>4, <1>5, <1>6, <1>7, <1>8 DEF Guard

\* Every step of serve_http, uvicorn and the guard is a step of the service, or none.
LEMMA Simulates == ServiceInv /\ [GuardNext]_guardVars => [Service!Next]_(Service!vars)
  <1> SUFFICES ASSUME ServiceInv, [GuardNext]_guardVars PROVE [Service!Next]_(Service!vars)
    OBVIOUS
  <1>1. CASE Bind \/ BuildApplication \/ NotifyReady \/ Run
    <2>1. UNCHANGED <<expected, header, sessions, request, answer>>
      BY <1>1 DEF Bind, BuildApplication, NotifyReady, Run, lifeVars, callVars
    <2> QED
      BY <2>1, Stutters
  <1>2. CASE Close
    BY <1>2, ClosingDrops DEF Close, lifeVars
  <1>3. CASE EnterSessionManager
    <2>1. sessions = "closed"
      BY <1>3 DEF EnterSessionManager, ServiceInv, LifespanInv
    <2> QED
      BY <1>3, <2>1, ManagerMoves DEF EnterSessionManager, serveVars, callVars
  <1>4. CASE SendStartupComplete \/ LifespanFails \/ Drained \/ SendShutdownComplete
    <2>1. UNCHANGED <<expected, header, sessions, request, answer>>
      BY <1>4 DEF SendStartupComplete, LifespanFails, Drained, SendShutdownComplete, serveVars, callVars
    <2> QED
      BY <2>1, Stutters
  <1>5. CASE LeaveSessionManager
    <2>1. sessions = "open"
      BY <1>5 DEF LeaveSessionManager, ServiceInv, LifespanInv
    <2> QED
      BY <1>5, <2>1, ManagerMoves DEF LeaveSessionManager, serveVars, callVars
  <1>6. CASE Signal
    BY <1>6, ClosingDrops DEF Signal
  <1>7. CASE SignalWhileStarting
    <2>1. CASE sessions = "open"
      BY <1>7, <2>1, ManagerMoves DEF SignalWhileStarting, serveVars, callVars
    <2>2. CASE sessions # "open"
      BY <1>7, <2>2, Stutters DEF SignalWhileStarting, serveVars, callVars
    <2> QED
      BY <2>1, <2>2
  <1>8. CASE FinishRecording \/ UNCHANGED guardVars
    <2>1. UNCHANGED <<expected, header, sessions, request, answer>>
      BY <1>8 DEF FinishRecording, guardVars, serveVars, lifeVars, callVars
    <2> QED
      BY <2>1, Stutters
  <1>9. ASSUME NEW r \in Requests, Connect(r) \/ Guard(r) \/ CallTool(r) \/ Respond(r)
        PROVE  [Service!Next]_(Service!vars)
    BY <1>9, RequestMoves
  <1> QED
    BY <1>1, <1>2, <1>3, <1>4, <1>5, <1>6, <1>7, <1>8, <1>9 DEF GuardNext, Serving, Lifespan

\* A caller is admitted only when its header shows what the verifier compares
\* with - the secret in force or, where none is configured, its stand-in - and
\* only to an open manager, and the manager never closes on somebody it
\* admitted: for any number of requests, whatever they present.
THEOREM Refines == GuardSpec => ImplementsGuardedService
  <1>1. GuardInit => Service!Init
    BY DEF GuardInit, Service!Init, Phase, Entitled, Fate
  <1> QED
    BY <1>1, Simulates, ServiceCorrect, PTL DEF GuardSpec, ImplementsGuardedService, Service!Spec

-----------------------------------------------------------------------------
\* What the guarded service is worth to those who run it: a tool was handed to
\* nobody whose header did not show what the verifier compares with, nobody who
\* showed it was refused, and the session manager is gone only when everybody
\* it was opened for has been answered.
OnlyTheEntitled ==
    /\ \A r \in Requests :
         /\ Fates[r] \in {"admitted", "served"} => r \in Entitled /\ Phase # "before"
         /\ Fates[r] = "refused" => r \notin Entitled
    /\ Phase = "over" => \A r \in Requests : Fates[r] # "admitted"

Settled == {"served", "refused", "dropped"}

\* An answer is given once: nothing that follows changes what a caller was told.
AnswersAreFinal ==
    [][\A r \in Requests : Fates[r] \in Settled => Fates'[r] = Fates[r]]_guardVars

\* The service keeps both, step by step, wherever it runs.
LEMMA AbstractStep ==
    ASSUME [Service!Next]_(Service!vars)
    PROVE  /\ OnlyTheEntitled => OnlyTheEntitled'
           /\ \A r \in Requests : Fates[r] \in Settled => Fates'[r] = Fates[r]
  <1> USE DEF OnlyTheEntitled, Settled
  <1>1. CASE Service!Open \/ Service!Close
    BY <1>1, Zenon DEF Service!Open, Service!Close, Fates
  <1>2. ASSUME NEW r \in Requests, NEW from, NEW to, Service!Becomes(r, from, to)
        PROVE  /\ Phase' = Phase /\ Entitled' = Entitled /\ Fates[r] = from /\ Fates'[r] = to
               /\ \A q \in Requests : q # r => Fates'[q] = Fates[q]
    BY <1>2 DEF Service!Becomes, Fates
  <1>3. ASSUME NEW r \in Requests, Service!Arrive(r) \/ Service!Admit(r) \/ Service!Refuse(r) \/ Service!Serve(r)
        PROVE  /\ OnlyTheEntitled => OnlyTheEntitled'
               /\ \A q \in Requests : Fates[q] \in Settled => Fates'[q] = Fates[q]
    <2> HIDE DEF Fates
    <2>1. CASE Service!Arrive(r)
      BY <2>1, <1>2 DEF Service!Arrive
    <2>2. CASE Service!Admit(r)
      BY <2>2, <1>2 DEF Service!Admit
    <2>3. CASE Service!Refuse(r)
      BY <2>3, <1>2 DEF Service!Refuse
    <2>4. CASE Service!Serve(r)
      BY <2>4, <1>2 DEF Service!Serve
    <2> QED
      BY <1>3, <2>1, <2>2, <2>3, <2>4
  <1>4. ASSUME NEW S \in SUBSET Requests, Service!Drop(S)
        PROVE  /\ OnlyTheEntitled => OnlyTheEntitled'
               /\ \A q \in Requests : Fates[q] \in Settled => Fates'[q] = Fates[q]
    <2>1. /\ Phase' = Phase /\ Entitled' = Entitled
          /\ \A q \in Requests : Fates'[q] = IF q \in S THEN "dropped" ELSE Fates[q]
          /\ \A q \in S : Fates[q] = "waiting"
      BY <1>4 DEF Service!Drop, Fates
    <2> QED
      BY <2>1
  <1>5. CASE UNCHANGED Service!vars
    BY <1>5 DEF Service!vars, Fates
  <1> QED
    BY <1>1, <1>3, <1>4, <1>5 DEF Service!Next

\* For any number of requests, any header or none, any scope and any secret or
\* none, however the server ends.
THEOREM Entitlement == GuardSpec => []OnlyTheEntitled /\ AnswersAreFinal
  <1>1. Service!Init => OnlyTheEntitled
    BY DEF Service!Init, OnlyTheEntitled, Fates
  <1>2. OnlyTheEntitled /\ [Service!Next]_(Service!vars) => OnlyTheEntitled'
    BY AbstractStep
  <1>3. [Service!Next]_(Service!vars)
          => [\A r \in Requests : Fates[r] \in Settled => Fates'[r] = Fates[r]]_guardVars
    BY AbstractStep
  <1> QED
    BY <1>1, <1>2, <1>3, Refines, PTL DEF ImplementsGuardedService, Service!Spec, AnswersAreFinal

-----------------------------------------------------------------------------
\* Behind the guard the record takes only its own steps: one for each refusal
\* and each tool call, and none while the loop does anything else.
LEMMA RecordStep == [GuardNext]_guardVars => [Next]_vars
  <1> SUFFICES ASSUME [GuardNext]_guardVars PROVE [Next]_vars
      OBVIOUS
  <1>1. CASE Serving
    BY <1>1 DEF Serving, Bind, BuildApplication, NotifyReady, Run, Close
  <1>2. CASE Lifespan \/ LifespanFails \/ Signal \/ SignalWhileStarting
    BY <1>2 DEF Lifespan, EnterSessionManager, SendStartupComplete, LifespanFails, Drained,
                LeaveSessionManager, SendShutdownComplete, Signal, SignalWhileStarting
  <1>3. CASE FinishRecording
    BY <1>3, LoopAssumption DEF FinishRecording, Next
  <1>4. ASSUME NEW r \in Requests, Connect(r) \/ Respond(r)
        PROVE  UNCHANGED vars
    BY <1>4 DEF Connect, Respond
  <1>5. ASSUME NEW r \in Requests, Guard(r)
        PROVE  [Next]_vars
    BY <1>5, LoopAssumption DEF Guard, Take, RefuseCaller, SendRefusal, HandOn, PassUnverified, Next
  <1>6. ASSUME NEW r \in Requests, CallTool(r)
        PROVE  Next
    BY <1>6, LoopAssumption DEF CallTool, Next
  <1>7. CASE UNCHANGED guardVars
    BY <1>7 DEF guardVars
  <1> QED
    BY <1>1, <1>2, <1>3, <1>4, <1>5, <1>6, <1>7 DEF GuardNext

\* serve_http implements the event record, so what holds of emit_event and
\* _record_rejection for every interleaving holds behind the guard.
THEOREM ImplementsEventRecord == GuardSpec => Spec
  <1>1. GuardInit => Init
    BY DEF GuardInit
  <1> QED
    BY <1>1, RecordStep, PTL DEF GuardSpec, Spec

\* The call, its requests and its record are always well typed, and the ring
\* never holds more than RECORDED_EVENT_LIMIT events.
THEOREM GuardTypeCorrect == GuardSpec => []GuardTypeOK
  <1>1. TypeOK /\ ServiceInv => GuardTypeOK
    BY DEF ServiceInv, GuardTypeOK
  <1> QED
    BY <1>1, ImplementsEventRecord, TypeCorrect, ServiceCorrect, PTL

\* Never a rejection more in the ring than RECORDED_REJECTION_LIMIT.
ExactCap == Cardinality(RecordedRejections) <= RejectionLimit

\* The server verifies on its one event loop, so behind the guard the cap of
\* _record_rejection is exact.
THEOREM CapIsExact == GuardSpec => []ExactCap
  <1>1. TypeOK /\ CapHolds => ExactCap
    <2> SUFFICES ASSUME TypeOK, CapHolds PROVE ExactCap
        OBVIOUS
    <2>1. Cardinality(Verifiers) = 1
      BY LoopAssumption, FS_Singleton
    <2>2. Cardinality(AboutToEmit) \in Nat
      BY AboutToEmitBound DEF AboutToEmit
    <2> QED
      BY <2>1, <2>2, RecordedFinite, LimitsAssumption DEF CapHolds, ExactCap
  <1> QED
    BY <1>1, ImplementsEventRecord, TypeCorrect, CapCorrect, PTL

-----------------------------------------------------------------------------
\* What the one verifier has in hand nobody has counted anything onto.
CleanInv ==
    /\ pc[Loop] = "write" => events[writing[Loop]].suppressed = 0
    /\ JournalShowsNoSuppression

LEMMA CleanStep == TypeOK /\ CleanInv /\ [Next]_vars => CleanInv'
  <1> SUFFICES ASSUME TypeOK, CleanInv, [Next]_vars PROVE CleanInv'
    OBVIOUS
  <1>1. pc \in [{Loop} -> {"idle", "emit", "note", "write"}] /\ Loop \in Threads /\ Loop \in Verifiers
    BY LoopAssumption DEF TypeOK
  <1>2. ASSUME NEW name \in Names, Record(Loop, name) PROVE CleanInv'
    <2>1. /\ events' = Append(events, [name |-> name, suppressed |-> 0]) /\ journal' = journal
          /\ writing' = [writing EXCEPT ![Loop] = Len(events) + 1]
          /\ writing \in [{Loop} -> 0..Len(events)] /\ events \in Seq(Event)
      BY <1>2, LoopAssumption DEF Record, TypeOK
    <2>2. events'[writing'[Loop]].suppressed = 0
      BY <2>1
    <2> QED
      BY <2>1, <2>2 DEF CleanInv, JournalShowsNoSuppression
  <1>3. CASE Refuse(Loop)
    BY <1>1, <1>3 DEF Refuse, CleanInv, JournalShowsNoSuppression
  <1>4. CASE EmitRejection(Loop)
    BY <1>2, <1>4 DEF EmitRejection, Names
  <1>5. CASE Note(Loop)
    BY <1>1, <1>5 DEF Note, Suppress, CleanInv, JournalShowsNoSuppression
  <1>6. CASE EmitOther(Loop)
    BY <1>2, <1>6 DEF EmitOther, Names
  <1>7. CASE Write(Loop)
    <2> DEFINE line == [event |-> writing[Loop], suppressed |-> events[writing[Loop]].suppressed]
    <2>1. /\ journal' = Append(journal, line) /\ journal \in Seq(Line)
          /\ line \in Line /\ line.suppressed = 0 /\ pc'[Loop] = "idle"
      <3>1. writing[Loop] \in Nat \ {0} /\ events[writing[Loop]] \in Event
        BY <1>1, <1>7 DEF Write, TypeOK
      <3>2. line \in Line
        BY <3>1 DEF Event, Line
      <3> QED
        BY <1>1, <1>7, <3>2 DEF Write, CleanInv, TypeOK
    <2> HIDE DEF line
    <2>2. \A k \in 1..Len(journal') : journal'[k].suppressed = 0
      BY <2>1 DEF CleanInv, JournalShowsNoSuppression
    <2> QED
      BY <2>1, <2>2 DEF CleanInv, JournalShowsNoSuppression
  <1>8. CASE Reset
    BY <1>1, <1>8 DEF Reset, CleanInv, JournalShowsNoSuppression
  <1>9. CASE UNCHANGED vars
    BY <1>9 DEF vars, CleanInv, JournalShowsNoSuppression
  <1>10. \/ Refuse(Loop) \/ EmitRejection(Loop) \/ Note(Loop) \/ EmitOther(Loop) \/ Write(Loop)
         \/ Reset \/ UNCHANGED vars
    BY LoopAssumption DEF Next
  <1> QED
    BY <1>3, <1>4, <1>5, <1>6, <1>7, <1>8, <1>9, <1>10

\* Behind the guard every line is printed before anything is counted onto its
\* event, so no line of the journal ever shows a count.
THEOREM LinesAreClean == GuardSpec => []JournalShowsNoSuppression
  <1>1. Init => CleanInv
    BY LoopAssumption DEF Init, CleanInv, JournalShowsNoSuppression
  <1>2. CleanInv => JournalShowsNoSuppression
    BY DEF CleanInv
  <1>3. GuardInit => Init
    BY DEF GuardInit
  <1> QED
    BY <1>1, <1>2, <1>3, CleanStep, ImplementsEventRecord, TypeCorrect, PTL DEF GuardSpec, Spec

-----------------------------------------------------------------------------
\* The callers told they are unauthorized, or about to be: exactly those the
\* record was told of, because nobody calls reset_recorded_events while serving.
Refused == {r \in Requests : request[r] = "refused" \/ answer[r] = "unauthorized"}

RefusedInv == IsFiniteSet(Refused) /\ Cardinality(Refused) = arrived

\* Which steps leave both alone.
LEMMA RefusedKept ==
    ASSUME RefusedInv, arrived' = arrived,
           \A r \in Requests : /\ request'[r] = "refused" <=> request[r] = "refused"
                               /\ answer'[r] = "unauthorized" <=> answer[r] = "unauthorized"
    PROVE  RefusedInv'
  <1>1. Refused' = Refused
    BY DEF Refused
  <1> QED
    BY <1>1 DEF RefusedInv

LEMMA RefusedStep == ServiceInv /\ RefusedInv /\ [GuardNext]_guardVars => RefusedInv'
  <1> SUFFICES ASSUME ServiceInv, RefusedInv, [GuardNext]_guardVars PROVE RefusedInv'
    OBVIOUS
  <1> USE DEF ServiceInv, ServiceTypeOK, AnswerInv, serveVars, lifeVars, callVars, vars
  <1>1. CASE Serving
    BY <1>1, RefusedKept DEF Serving, Bind, BuildApplication, NotifyReady, Run, Close, CloseListener
  <1>2. CASE Lifespan \/ LifespanFails \/ Signal \/ SignalWhileStarting
    BY <1>2, RefusedKept DEF Lifespan, EnterSessionManager, SendStartupComplete, LifespanFails, Drained,
                LeaveSessionManager, SendShutdownComplete, Signal, SignalWhileStarting, CloseListener
  <1>3. CASE FinishRecording
    BY <1>3, RefusedKept DEF FinishRecording, EmitRejection, Record, Note, Suppress, Write
  <1>4. ASSUME NEW r \in Requests,
               Connect(r) \/ Take(r) \/ HandOn(r) \/ PassUnverified(r) \/ Respond(r)
        PROVE  RefusedInv'
    BY <1>4, RefusedKept DEF Connect, Take, HandOn, PassUnverified, Verifies, Respond, To
  <1>5. ASSUME NEW r \in Requests, CallTool(r)
        PROVE  RefusedInv'
    BY <1>5, RefusedKept DEF CallTool, EmitOther, Record
  <1>6. ASSUME NEW r \in Requests, RefuseCaller(r)
        PROVE  RefusedInv'
    <2>1. Refused' = Refused \cup {r} /\ r \notin Refused /\ arrived' = arrived + 1
      BY <1>6 DEF RefuseCaller, Verifies, Refuse, To, Refused
    <2>2. IsFiniteSet(Refused) /\ Cardinality(Refused) = arrived
      BY DEF RefusedInv
    <2>3. IsFiniteSet(Refused \cup {r}) /\ Cardinality(Refused \cup {r}) = arrived + 1
      BY <2>1, <2>2, FS_AddElement
    <2> QED
      BY <2>1, <2>3 DEF RefusedInv
  <1>7. ASSUME NEW r \in Requests, SendRefusal(r)
        PROVE  RefusedInv'
    <2>1. Refused' = Refused /\ arrived' = arrived
      BY <1>7 DEF SendRefusal, To, Refused
    <2> QED
      BY <2>1 DEF RefusedInv
  <1>8. CASE UNCHANGED guardVars
    BY <1>8, RefusedKept DEF guardVars
  <1> QED
    BY <1>1, <1>2, <1>3, <1>4, <1>5, <1>6, <1>7, <1>8 DEF GuardNext, Guard

\* A refusal is on the record before it is on the wire, for any number of
\* requests: the record of this server accounts for exactly those it refused.
THEOREM Recorded == GuardSpec => []RefusalsAreRecorded
  <1>1. GuardInit => RefusedInv
    <2> SUFFICES ASSUME GuardInit PROVE RefusedInv
      OBVIOUS
    <2>1. Refused = {} /\ arrived = 0
      BY DEF GuardInit, Init, Refused
    <2> QED
      BY <2>1, FS_EmptySet DEF RefusedInv
  <1>2. RefusedInv /\ AccountingIdentity => RefusalsAreRecorded
    BY DEF RefusedInv, AccountingIdentity, RefusalsAreRecorded, Refused
  <1> QED
    BY <1>1, <1>2, RefusedStep, ServiceCorrect, ImplementsEventRecord, Accounting, PTL DEF GuardSpec
=============================================================================
