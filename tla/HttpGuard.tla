------------------------------ MODULE HttpGuard -----------------------------
(***************************************************************************)
(* One call of serve_http: bind, build, notify, run, close; the session    *)
(* manager's lifespan; and the requests that meet the guard in front of it.*)
(*                                                                         *)
(* Everything below serve_http runs on one event loop.  The verifier has   *)
(* no await in it, so the loop runs nothing else until it returned: that is*)
(* the one verifier of EventRecord, whose steps are reused here.  uvicorn  *)
(* is external: it opens the lifespan before it takes a connection, and    *)
(* closes it after the last request was answered.                          *)
(*                                                                         *)
(* A scope is http, or another type the guard does not verify; a header is *)
(* what _header_value and _candidate tell apart, and responses are what a  *)
(* caller tells apart.                                                     *)
(***************************************************************************)
EXTENDS EventRecord

CONSTANTS
    Loop,        \* the thread of the event loop
    Requests     \* requests that may arrive

ASSUME LoopAssumption == Threads = {Loop} /\ Verifiers = {Loop}

Absent         == "absent"
WrongScheme    == "wrong_scheme"
BlankToken     == "blank_token"
DummyPresented == "dummy_presented"   \* _DUMMY_PRESENTED
DummyExpected  == "dummy_expected"    \* _DUMMY_EXPECTED
Secret         == "secret"
Padded         == "padded_secret"     \* the secret between blanks
Accented       == "accented"          \* a secret beyond ASCII, but within latin-1
AccentedLatin1 == "accented_latin1"   \* its bytes in either encoding
AccentedUtf8   == "accented_utf8"
Unset          == ""
NotHttp        == "not_http"          \* a scope of another type: no header is read
Headers == {Absent, WrongScheme, BlankToken, DummyPresented, DummyExpected, "wrong_token",
            Secret, Padded, AccentedLatin1, AccentedUtf8, NotHttp}
Secrets == {Secret, Padded, Accented, Unset}

VARIABLES
    \* What serve_http was called with.
    check,       \* whether a verifier was supplied
    expected,    \* the secret it verifies against
    manager,     \* the service manager at ready_address: none, there or gone
    \* serve_http.
    at, ended,
    listener,
    ready,       \* READY=1 was sent
    \* The server, the lifespan coroutine and the session manager.
    server, lifespan, sessions,
    \* The requests, and what each presents.
    header, request, answer

serveVars == <<check, expected, manager, at, ended, listener, ready>>
lifeVars  == <<server, lifespan, sessions>>
callVars  == <<header, request, answer>>
guardVars == <<vars, serveVars, lifeVars, callVars>>

GuardInit ==
    /\ Init
    /\ check \in BOOLEAN /\ expected \in Secrets /\ manager \in {"none", "there", "gone"}
    /\ at = "bind" /\ ended = "none" /\ listener = "none" /\ ready = FALSE
    /\ server = "down" /\ lifespan = "none" /\ sessions = "closed"
    /\ header \in [Requests -> Headers]
    /\ request = [r \in Requests |-> "away"]
    /\ answer = [r \in Requests |-> "none"]

-----------------------------------------------------------------------------
(* verify_bearer_token, apart from the record it keeps. *)

\* A header that already fails still yields something to compare; a token is
\* stripped of its blanks, and the secret in force is not.  The header is decoded
\* as latin-1 and both sides are compared as UTF-8, so a secret beyond ASCII is
\* shown by its latin-1 bytes; its UTF-8 bytes decode to another text.
Candidate(h) ==
    CASE h = Absent -> [compare |-> DummyPresented, failed |-> "missing_header"]
      [] h \in {WrongScheme, BlankToken} ->
            [compare |-> DummyPresented, failed |-> "malformed_header"]
      [] h = Padded -> [compare |-> Secret, failed |-> "none"]
      [] h = AccentedLatin1 -> [compare |-> Accented, failed |-> "none"]
      [] OTHER -> [compare |-> h, failed |-> "none"]

\* [mutant] The two dummies are one.
ComparableToTheDummy(secret) == IF secret = Unset THEN DummyPresented ELSE secret

Comparable(secret) == IF secret = Unset THEN DummyExpected ELSE secret

Reason(h, secret) ==
    IF Candidate(h).failed # "none" THEN Candidate(h).failed
    ELSE IF Candidate(h).compare = Comparable(secret) THEN "none" ELSE "bad_token"

-----------------------------------------------------------------------------
(* serve_http. *)

\* Connections still in the backlog go with the listener.
CloseListener ==
    /\ listener' = "closed"
    /\ request' = [r \in Requests |-> IF request[r] = "queued" THEN "lost" ELSE request[r]]
    /\ UNCHANGED <<header, answer>>

\* A bind that fails closes its own socket and is outside the try.
Bind ==
    /\ at = "bind"
    /\ \/ at' = "build" /\ listener' = "listening" /\ ended' = ended
       \/ at' = "over" /\ listener' = "none" /\ ended' = "BindFailure"
    /\ UNCHANGED <<vars, check, expected, manager, ready, lifeVars, callVars>>

BuildApplication ==
    /\ at = "build"
    /\ IF check THEN at' = "notify" /\ ended' = ended
                ELSE at' = "close" /\ ended' = "CallerCheckRequired"
    /\ UNCHANGED <<vars, check, expected, manager, listener, ready, lifeVars, callVars>>

NotifyReady ==
    /\ at = "notify"
    /\ IF manager = "gone" THEN at' = "close" /\ ended' = "OSError"
                           ELSE at' = "run" /\ ended' = ended
    /\ ready' = (manager = "there")
    /\ UNCHANGED <<vars, check, expected, manager, listener, lifeVars, callVars>>

Run ==
    /\ at = "run"
    /\ at' = "serve" /\ server' = "starting"
    /\ UNCHANGED <<vars, check, expected, manager, ended, listener, ready,
                   lifespan, sessions, callVars>>

\* uvicorn.Server.run returns; after a signal it raises the signal again.
HowItEnded == CASE ended # "none"        -> ended
                [] lifespan = "failed"   -> "returned"
                [] OTHER                 -> "signalled"

\* [mutant] No finally: only a call that served closes the listener.
CloseAfterServing ==
    /\ at = "close" \/ (at = "serve" /\ server = "stopped")
    /\ at' = "over" /\ ended' = HowItEnded
    /\ IF ended = "none" THEN CloseListener ELSE UNCHANGED <<listener, callVars>>
    /\ UNCHANGED <<vars, check, expected, manager, ready, lifeVars>>

\* The finally, whether something was raised or uvicorn is done; where the signal
\* ends the process the kernel closes the listener.
Close ==
    /\ at = "close" \/ (at = "serve" /\ server = "stopped")
    /\ at' = "over" /\ ended' = HowItEnded
    /\ CloseListener
    /\ UNCHANGED <<vars, check, expected, manager, ready, lifeVars>>

-----------------------------------------------------------------------------
(* uvicorn and the lifespan coroutine. *)

LoopFree == pc[Loop] = "idle"

\* [mutant] lifespan="off": nobody opens the session manager.
ServeWithoutLifespan ==
    /\ server = "starting" /\ lifespan = "none"
    /\ lifespan' = "inside"
    /\ UNCHANGED <<vars, serveVars, server, sessions, callVars>>

\* lifespan.startup: the manager's own context is entered.
EnterSessionManager ==
    /\ server = "starting" /\ lifespan = "none"
    /\ lifespan' = "inside" /\ sessions' = "open"
    /\ UNCHANGED <<vars, serveVars, server, callVars>>

\* The context cannot be entered: uvicorn logs it and returns, and neither it nor
\* serve_http raises anything, although READY=1 may be out.
LifespanFails ==
    /\ server = "starting" /\ lifespan = "none"
    /\ lifespan' = "failed" /\ server' = "stopped"
    /\ UNCHANGED <<vars, serveVars, sessions, callVars>>

\* [mutant] The coroutine waits for lifespan.shutdown before it answers startup.
CompleteOnlyAtShutdown ==
    /\ server = "stopping" /\ lifespan = "inside"
    /\ server' = "serving"
    /\ UNCHANGED <<vars, serveVars, lifespan, sessions, callVars>>

\* lifespan.startup.complete: uvicorn begins to take connections.
SendStartupComplete ==
    /\ server = "starting" /\ lifespan = "inside"
    /\ server' = "serving"
    /\ UNCHANGED <<vars, serveVars, lifespan, sessions, callVars>>

\* A termination signal: the listener goes first, requests under way are kept.
Signal ==
    /\ server = "serving"
    /\ server' = "draining"
    /\ CloseListener
    /\ UNCHANGED <<vars, check, expected, manager, at, ended, ready, lifespan, sessions>>

\* The same during startup: the lifespan coroutine is cancelled.
SignalWhileStarting ==
    /\ server = "starting"
    /\ server' = "stopped"
    /\ sessions' = IF sessions = "open" THEN "over" ELSE sessions
    /\ UNCHANGED <<vars, serveVars, lifespan, callVars>>

Drained ==
    /\ server = "draining" /\ LoopFree
    /\ \A r \in Requests : request[r] \notin {"guard", "refused", "inside"}
    /\ server' = "stopping"
    /\ UNCHANGED <<vars, serveVars, lifespan, sessions, callVars>>

\* [mutant] The loop of the coroutine does not break.
LoopNeverBreaks ==
    /\ server = "stopping" /\ lifespan = "inside"
    /\ UNCHANGED guardVars

\* lifespan.shutdown: the loop of the coroutine breaks and the context is left.
LeaveSessionManager ==
    /\ server = "stopping" /\ lifespan = "inside"
    /\ lifespan' = "left" /\ sessions' = "over"
    /\ UNCHANGED <<vars, serveVars, server, callVars>>

SendShutdownComplete ==
    /\ server = "stopping" /\ lifespan = "left"
    /\ server' = "stopped"
    /\ UNCHANGED <<vars, serveVars, lifespan, sessions, callVars>>

-----------------------------------------------------------------------------
(* A request. *)

To(r, where) == request' = [request EXCEPT ![r] = where]

\* The kernel queues a connection from the moment the socket listens.
Connect(r) ==
    /\ listener = "listening" /\ request[r] = "away"
    /\ To(r, "queued")
    /\ UNCHANGED <<vars, serveVars, lifeVars, header, answer>>

Take(r) ==
    /\ server = "serving" /\ LoopFree /\ request[r] = "queued"
    /\ To(r, "guard")
    /\ UNCHANGED <<vars, serveVars, lifeVars, header, answer>>

\* The guard calls the verifier for an http scope, and for no other.
Verifies(r) == LoopFree /\ request[r] = "guard" /\ header[r] # NotHttp

\* [mutant] The refusal is answered without being verified to its end.
RefuseUnrecorded(r) ==
    /\ Verifies(r) /\ Reason(header[r], expected) # "none"
    /\ To(r, "refused")
    /\ UNCHANGED <<vars, serveVars, lifeVars, header, answer>>

\* The verifier refuses; from here to its return the loop runs nothing else.
RefuseCaller(r) ==
    /\ Verifies(r) /\ Reason(header[r], expected) # "none"
    /\ Refuse(Loop)
    /\ To(r, "refused")
    /\ UNCHANGED <<serveVars, lifeVars, header, answer>>

FinishRecording ==
    /\ EmitRejection(Loop) \/ Note(Loop) \/ Write(Loop)
    /\ UNCHANGED <<serveVars, lifeVars, callVars>>

SendRefusal(r) ==
    /\ LoopFree /\ request[r] = "refused" /\ answer[r] = "none"
    /\ To(r, "answered") /\ answer' = [answer EXCEPT ![r] = "unauthorized"]
    /\ UNCHANGED <<vars, serveVars, lifeVars, header>>

\* Handed on: handle_request raises unless the manager's task group is there.
HandOn(r) ==
    /\ Verifies(r) /\ Reason(header[r], expected) = "none"
    /\ IF sessions = "open"
       THEN To(r, "inside") /\ answer' = answer
       ELSE To(r, "answered") /\ answer' = [answer EXCEPT ![r] = "server_error"]
    /\ UNCHANGED <<vars, serveVars, lifeVars, header>>

\* A scope of another type is handed on without a verdict.  The manager speaks
\* http alone and raises on it, whether or not it is open.
PassUnverified(r) ==
    /\ LoopFree /\ request[r] = "guard" /\ header[r] = NotHttp
    /\ To(r, "answered") /\ answer' = [answer EXCEPT ![r] = "server_error"]
    /\ UNCHANGED <<vars, serveVars, lifeVars, header>>

\* A tool called in a session emits its own event; MaxEvents keeps room for
\* the refusals still to come.
CallTool(r) ==
    /\ request[r] = "inside"
    /\ Len(events) + Cardinality(Requests) < MaxEvents
    /\ EmitOther(Loop)
    /\ UNCHANGED <<serveVars, lifeVars, callVars>>

Respond(r) ==
    /\ LoopFree /\ request[r] = "inside"
    /\ To(r, "answered") /\ answer' = [answer EXCEPT ![r] = "handled"]
    /\ UNCHANGED <<vars, serveVars, lifeVars, header>>

-----------------------------------------------------------------------------
Serving == Bind \/ BuildApplication \/ NotifyReady \/ Run \/ Close
Lifespan == EnterSessionManager \/ SendStartupComplete \/ Drained
              \/ LeaveSessionManager \/ SendShutdownComplete
Guard(r) == Take(r) \/ RefuseCaller(r) \/ SendRefusal(r) \/ HandOn(r) \/ PassUnverified(r)

GuardNext ==
    \/ Serving \/ Lifespan \/ LifespanFails \/ Signal \/ SignalWhileStarting
    \/ FinishRecording
    \/ \E r \in Requests : Connect(r) \/ Guard(r) \/ CallTool(r) \/ Respond(r)

\* The process runs on, and the loop gets round to every task that can run.
\* Nobody need connect or signal, and a session may stay open for ever.
GuardSpec == GuardInit /\ [][GuardNext]_guardVars
               /\ WF_guardVars(Serving) /\ WF_guardVars(Lifespan)
               /\ WF_guardVars(FinishRecording)
               /\ \A r \in Requests : WF_guardVars(Guard(r))

-----------------------------------------------------------------------------
\* The types of what serve_http, the lifespan and the requests share.
ServiceTypeOK ==
    /\ check \in BOOLEAN /\ expected \in Secrets /\ manager \in {"none", "there", "gone"}
    /\ header \in [Requests -> Headers]
    /\ at \in {"bind", "build", "notify", "run", "serve", "close", "over"}
    /\ ended \in {"none", "signalled", "returned", "BindFailure", "CallerCheckRequired", "OSError"}
    /\ listener \in {"none", "listening", "closed"} /\ ready \in BOOLEAN
    /\ server \in {"down", "starting", "serving", "draining", "stopping", "stopped"}
    /\ lifespan \in {"none", "inside", "left", "failed"} /\ sessions \in {"closed", "open", "over"}
    /\ request \in [Requests -> {"away", "queued", "guard", "refused", "inside", "answered", "lost"}]
    /\ answer \in [Requests -> {"none", "unauthorized", "handled", "server_error"}]

GuardTypeOK == TypeOK /\ ServiceTypeOK

\* serve_http leaves nothing half-listening, however it ends: no listener, no
\* session manager, no connection nobody will answer; and what it told the
\* service manager was said of a guarded application behind a listener.  A call
\* that returns although nobody stopped it, which main ends with status 0 for and
\* the manager does not restart, has answered nobody.
NothingHalfListening ==
    /\ at = "over" =>
         /\ listener # "listening" /\ sessions # "open"
         /\ \A r \in Requests : request[r] \in {"away", "answered", "lost"}
    /\ ready => check /\ listener # "none"
    /\ ended = "returned" => \A r \in Requests : answer[r] = "none"

\* Nobody who holds the secret gets a server error: the manager is open from
\* the first request handed on to the end of the last one.  Who gets one asked
\* for something other than http, and is not let in either.
SessionsOpenForEveryCaller ==
    \A r \in Requests :
        /\ request[r] = "inside" => sessions = "open"
        /\ answer[r] = "server_error" => header[r] = NotHttp

\* A refusal is on the record before it is on the wire: until the ring rotates,
\* what it accounts for is exactly the refusals answered or about to be.
RefusalsAreRecorded ==
    first = base =>
        Accounted(RecordedRejections) + InFlight
          = Cardinality({r \in Requests : request[r] = "refused"
                                            \/ answer[r] = "unauthorized"})

\* The requests a header of which shows what the verifier compares with: the
\* secret in force, and where none is configured the fixed value that stands in
\* for it.  No header shows a secret that begins or ends with a blank, although
\* the probe passes it.
Shows == {<<Secret, Secret>>, <<Padded, Secret>>, <<AccentedLatin1, Accented>>,
          <<DummyExpected, Unset>>}
Entitled == {r \in Requests : <<header[r], expected>> \in Shows}

Fate(r) == CASE request[r] = "away" -> "away"
             [] request[r] \in {"queued", "guard", "refused"} -> "waiting"
             [] request[r] = "inside" -> "admitted"
             [] request[r] = "lost" -> "dropped"
             [] request[r] = "answered" /\ answer[r] = "handled" -> "served"
             [] request[r] = "answered" /\ answer[r] # "handled" -> "refused"

Phase == CASE sessions = "closed" -> "before"
           [] sessions = "open" -> "open"
           [] OTHER -> "over"

\* Guard, lifespan and listener together implement the guarded service.
Service == INSTANCE GuardedService WITH
    phase <- Phase,
    entitled <- Entitled,
    fate <- [r \in Requests |-> Fate(r)]
ImplementsGuardedService == Service!Spec

\* A connection is answered, handed on or reset, even while sessions that are
\* open never end: anything waiting on this unit waits on something real.
EveryConnectionIsMet ==
    \A r \in Requests :
        request[r] = "queued" ~> request[r] \in {"inside", "answered", "lost"}

\* A termination signal ends the call once the sessions under way have ended.
SignalledServerReturns ==
    server = "draining" ~> (at = "over" \/ \E r \in Requests : request[r] = "inside")
=============================================================================
