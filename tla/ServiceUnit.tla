---------------------------- MODULE ServiceUnit ----------------------------
(***************************************************************************)
(* One service: the systemd unit mkServiceModule writes, the process it    *)
(* starts (the composition root's main), the startup probe that process    *)
(* runs, and the listener serve_http takes.                                *)
(*                                                                         *)
(* The process is: wire, probe, bind, build, notify, serve, drain or close. *)
(* The manager is what the unit file asks of systemd: Type=notify,         *)
(* LoadCredential, StateDirectory, Restart=on-failure and the start limit. *)
(* Time is left out but for the start-limit window, which elapses only     *)
(* while nothing is being restarted: a unit that fails restarts within     *)
(* seconds of a 300 s window.                                              *)
(***************************************************************************)
EXTENDS StartupProbe

CONSTANTS
    StartLimitBurst,   \* starts the manager allows in one window
    MaxUpsets          \* bound: how often another process takes the endpoint, or the
                       \* manager's socket does not take the notification

ASSUME BurstAssumption  == StartLimitBurst \in Nat \ {0}
ASSUME UpsetsAssumption == MaxUpsets \in Nat

VARIABLES
    unit,        \* what the manager says of the unit
    starts,      \* starts counted in the current start-limit window
    credential,  \* the credentials file on the host: missing, undecodable or readable
    proc,        \* where the process is
    ending,      \* what serve_http is leaving with, once it is on its way out
    exitStatus,  \* how it last ended: 0, 1, 78, or what the manager reports
    notified,    \* READY=1 sent and not yet read by the manager
    endpoint,    \* who holds the address and port
    upsets       \* how often either of the two happened

unitVars == <<unit, starts, credential, proc, ending, exitStatus, notified, endpoint, upsets>>
vars     == <<probeVars, unitVars>>

EXIT_STARTUP_REFUSED == "78"
Alive == proc # "none"

UnitInit ==
    /\ Init
    /\ unit = "boot" /\ starts = 0
    /\ credential \in {"missing", "undecodable", "readable"}
    /\ proc = "none" /\ ending = "none" /\ exitStatus = "none" /\ notified = FALSE
    /\ endpoint = "free" /\ upsets = 0

-----------------------------------------------------------------------------
(* The manager. *)

\* StateDirectory= creates the state area, private; on one that exists it may
\* or may not tighten the mode of the directory itself.
PrepareStateArea ==
    \/ /\ store.kind = "absent"
       /\ store' = [store EXCEPT !.kind = "directory"]
    \/ /\ store.kind = "directory"
       /\ \E shared \in {FALSE, store.dirShared} :
             store' = [store EXCEPT !.dirShared = shared]
    \/ /\ store.kind \in {"link", "file"}
       /\ UNCHANGED store

\* A start within the limit.  Without the credentials file LoadCredential
\* fails the start before ExecStart, and on-failure applies to that too.
ManagerStart ==
    /\ unit \in {"boot", "auto_restart"} /\ starts < StartLimitBurst
    /\ starts' = starts + 1
    /\ PrepareStateArea
    /\ IF credential # "missing"
       THEN unit' = "activating" /\ proc' = "wire" /\ exitStatus' = exitStatus
       ELSE unit' = "auto_restart" /\ proc' = proc /\ exitStatus' = "credentials"
    /\ UNCHANGED <<world, origin, runState, told, kills, credential, ending, notified, endpoint, upsets>>

\* [mutants] A limit of one start fewer; a unit that never gives up.
StartLimitTooLow ==
    /\ unit \in {"boot", "auto_restart"} /\ starts >= StartLimitBurst - 1
    /\ unit' = "failed"
    /\ UNCHANGED <<probeVars, starts, credential, proc, ending, exitStatus, notified, endpoint, upsets>>
StartLimitForgets ==
    /\ unit \in {"boot", "auto_restart"} /\ starts >= StartLimitBurst
    /\ starts' = 0
    /\ UNCHANGED <<probeVars, unit, credential, proc, ending, exitStatus, notified, endpoint, upsets>>

StartLimitHit ==
    /\ unit \in {"boot", "auto_restart"} /\ starts >= StartLimitBurst
    /\ unit' = "failed"
    /\ UNCHANGED <<probeVars, starts, credential, proc, ending, exitStatus, notified, endpoint, upsets>>

ReadNotification ==
    /\ notified
    /\ notified' = FALSE
    /\ unit' = IF unit = "activating" THEN "active" ELSE unit
    /\ UNCHANGED <<probeVars, starts, credential, proc, ending, exitStatus, endpoint, upsets>>

WindowElapses ==
    /\ unit \in {"active", "inactive", "failed"} /\ starts > 0
    /\ starts' = 0
    /\ UNCHANGED <<probeVars, unit, credential, proc, ending, exitStatus, notified, endpoint, upsets>>

OperatorStart ==
    /\ unit \in {"inactive", "failed"} /\ starts < StartLimitBurst
    /\ unit' = "boot"
    /\ UNCHANGED <<probeVars, starts, credential, proc, ending, exitStatus, notified, endpoint, upsets>>

\* The process is gone: the kernel takes back what it still held, and
\* Restart=on-failure restarts whatever did not end in success - a refusal as
\* much as a crash.  The signal that asked a process to stop is a success.
Exit(status) ==
    /\ proc' = "none" /\ ending' = "none" /\ exitStatus' = status
    /\ notified' = FALSE
    /\ unit' = IF status \in {"0", "stopped"} THEN "inactive" ELSE "auto_restart"
    /\ endpoint' = IF endpoint = "self" THEN "free" ELSE endpoint
    /\ UNCHANGED <<starts, credential, upsets>>

-----------------------------------------------------------------------------
(* The process: main() and serve_http(). *)

\* A credentials file that is no text raises out of main, before any probe.
Wire ==
    /\ proc = "wire"
    /\ \/ /\ credential = "readable"
          /\ Start
          /\ proc' = "probe"
          /\ UNCHANGED <<unit, starts, credential, ending, exitStatus, notified, endpoint, upsets>>
       \/ /\ credential = "undecodable"
          /\ Exit("1")
          /\ UNCHANGED probeVars

Probe ==
    /\ proc = "probe"
    /\ ProbeStep
    /\ UNCHANGED unitVars

\* [mutants] Serving after a refusal; readiness before the socket is taken.
ServeAnyway ==
    /\ proc = "probe" /\ at = "idle" /\ outcome \in {"passed", "refused"}
    /\ proc' = "bind"
    /\ UNCHANGED <<probeVars, unit, starts, credential, ending, exitStatus, notified, endpoint, upsets>>
ReadyBeforeBind ==
    /\ proc = "probe" /\ at = "idle" /\ outcome = "passed"
    /\ proc' = "bind" /\ notified' = TRUE
    /\ UNCHANGED <<probeVars, unit, starts, credential, ending, exitStatus, endpoint, upsets>>

\* run_startup_probe returned.
ProbePassed ==
    /\ proc = "probe" /\ at = "idle" /\ outcome = "passed"
    /\ proc' = "bind"
    /\ UNCHANGED <<probeVars, unit, starts, credential, ending, exitStatus, notified, endpoint, upsets>>

\* [mutant] A refusal ends like any traceback.
RefusalLooksLikeACrash ==
    /\ proc = "probe" /\ at = "idle" /\ outcome \in {"refused", "escaped"}
    /\ Exit("1")
    /\ UNCHANGED probeVars

\* It raised: StartupRefused is a status of its own, anything else a traceback.
ProbeRaised ==
    /\ proc = "probe" /\ at = "idle" /\ outcome \in {"refused", "escaped"}
    /\ Exit(IF outcome = "refused" THEN EXIT_STARTUP_REFUSED ELSE "1")
    /\ UNCHANGED probeVars

\* The socket is taken first; BindFailure is caught by nobody.
Bind ==
    /\ proc = "bind"
    /\ \/ /\ endpoint = "free"
          /\ endpoint' = "self" /\ proc' = "build"
          /\ UNCHANGED <<unit, starts, credential, ending, exitStatus, notified, upsets>>
       \/ /\ endpoint = "other"
          /\ Exit("1")
    /\ UNCHANGED probeVars

BuildApplication ==
    /\ proc = "build"
    /\ proc' = "notify"
    /\ UNCHANGED <<probeVars, unit, starts, credential, ending, exitStatus, notified, endpoint, upsets>>

\* READY=1 is sent, or the manager's socket refuses it: an OSError, which takes
\* the finally on its way out.
NotifyReady ==
    /\ proc = "notify"
    /\ \/ /\ notified' = TRUE /\ proc' = "serving"
          /\ UNCHANGED <<ending, upsets>>
       \/ /\ upsets < MaxUpsets /\ upsets' = upsets + 1
          /\ proc' = "closing" /\ ending' = "1"
          /\ UNCHANGED notified
    /\ UNCHANGED <<probeVars, unit, starts, credential, exitStatus, endpoint>>

\* Serving ends by a signal, on which uvicorn closes the sockets it was given
\* and waits for the requests under way; or because the lifespan could not be
\* opened, and then uvicorn.run returns with the listener as it was.
Signalled ==
    /\ proc = "serving"
    /\ proc' = "draining" /\ endpoint' = "free"
    /\ UNCHANGED <<probeVars, unit, starts, credential, ending, exitStatus, notified, upsets>>

LifespanFails ==
    /\ proc = "serving"
    /\ proc' = "closing" /\ ending' = "0"
    /\ UNCHANGED <<probeVars, unit, starts, credential, exitStatus, notified, endpoint, upsets>>

\* The last request is gone, and uvicorn raises the signal again: the process
\* dies of it.  A session that stays open holds this up for ever.
Drained ==
    /\ proc = "draining"
    /\ Exit("stopped")
    /\ UNCHANGED probeVars

\* The finally of serve_http, and after it the end of main.
Close ==
    /\ proc = "closing"
    /\ proc' = "exiting" /\ endpoint' = "free"
    /\ UNCHANGED <<probeVars, unit, starts, credential, ending, exitStatus, notified, upsets>>

End ==
    /\ proc = "exiting"
    /\ Exit(ending)
    /\ UNCHANGED probeVars

-----------------------------------------------------------------------------
(* What happens to both. *)

\* The end of the probe's run, when one is under way; only the store survives.
LoseProcess ==
    \/ Kill
    \/ /\ at = "idle" /\ kills < MaxKills
       /\ kills' = kills + 1
       /\ UNCHANGED <<world, store, runState, origin, told>>

Crash == Alive /\ LoseProcess /\ Exit("signal")

PowerCut ==
    /\ LoseProcess
    /\ unit' = "boot" /\ starts' = 0
    /\ proc' = "none" /\ ending' = "none" /\ exitStatus' = "none"
    /\ notified' = FALSE /\ endpoint' = "free"
    /\ UNCHANGED <<credential, upsets>>

RivalTakes ==
    /\ endpoint = "free" /\ upsets < MaxUpsets
    /\ endpoint' = "other" /\ upsets' = upsets + 1
    /\ UNCHANGED <<probeVars, unit, starts, credential, proc, ending, exitStatus, notified>>

RivalReleases ==
    /\ endpoint = "other"
    /\ endpoint' = "free"
    /\ UNCHANGED <<probeVars, unit, starts, credential, proc, ending, exitStatus, notified, upsets>>

Manager == ManagerStart \/ StartLimitHit \/ ReadNotification
Process == Wire \/ Probe \/ ProbePassed \/ ProbeRaised \/ Bind \/ BuildApplication
             \/ NotifyReady \/ Close \/ End

UnitNext ==
    \/ Manager \/ WindowElapses \/ OperatorStart
    \/ Process \/ Signalled \/ LifespanFails \/ Drained
    \/ Crash \/ PowerCut
    \/ RivalTakes \/ RivalReleases

\* The manager goes on restarting and the process goes on to serve, or to end
\* once it is closing; nobody is obliged to stop it, to end the session a
\* stopping server waits for, to start it by hand or to free the endpoint.
UnitSpec == UnitInit /\ [][UnitNext]_vars
              /\ WF_vars(ManagerStart) /\ WF_vars(StartLimitHit)
              /\ WF_vars(ReadNotification) /\ WF_vars(Process)

-----------------------------------------------------------------------------
UnitTypeOK ==
    /\ TypeOK
    /\ unit \in {"boot", "activating", "active", "auto_restart", "inactive", "failed"}
    /\ starts \in 0..StartLimitBurst
    /\ credential \in {"missing", "undecodable", "readable"}
    /\ proc \in {"none", "wire", "probe", "bind", "build", "notify", "serving",
                "draining", "closing", "exiting"}
    /\ ending \in {"none", "0", "1"}
    /\ exitStatus \in {"none", "0", "1", EXIT_STARTUP_REFUSED, "credentials", "signal", "stopped"}
    /\ notified \in BOOLEAN
    /\ endpoint \in {"free", "self", "other"}
    /\ upsets \in 0..MaxUpsets

\* Wire, then probe, then serve: this service holds a listener only while the
\* process whose probe passed is alive, on a store that is what the probe
\* promised, with a credential the manager delivered; and a process that
\* comes to bind never finds the listener of the one before it in its way.
ListeningMeansProbed ==
    endpoint = "self" =>
        /\ proc \in {"build", "notify", "serving", "closing"}
        /\ credential = "readable"
        /\ at = "idle" /\ outcome = "passed"
        /\ PassMeansSound

\* `systemctl is-active` is not a lie: the manager reports active only while
\* the process behind the unit holds its listener - or no longer holds it,
\* being on its way out after it served: signalled and draining, or past the
\* finally.  It is never active on the way to a listener, and never without a
\* process.
ActiveMeansListening ==
    unit = "active" => Alive /\ (endpoint = "self" \/ proc \in {"draining", "exiting"})

\* The status tells a refused start from a crash: 78 exactly when this start
\* ended in a refusal whose event was emitted.
StatusTellsRefusalFromCrash ==
    ~Alive /\ exitStatus \in {"0", "1", EXIT_STARTUP_REFUSED} =>
        (exitStatus = EXIT_STARTUP_REFUSED) <=> (outcome = "refused" /\ emitted = <<refusal>>)

Quiet == [](kills = 0 /\ upsets = 0)

\* A store that is shared in both ways costs exactly the starts the limit
\* allows: with nothing else wrong the process serves, without an operator,
\* before the manager gives up.
RepairableUnitComesUp ==
    Quiet => ((unit = "boot" /\ starts = 0 /\ credential = "readable" /\ secret = "good"
                /\ store.kind \in {"absent", "directory"} /\ medium = "sound"
                /\ (sweep = "raises" => removal = "works")
                /\ (\A e \in Entries : chmod[e] = "sticks"))
              ~> proc = "serving")

\* A unit nothing can fix by restarting stops trying, and stays failed where
\* an operator can see it, rather than flapping.
UnfixableUnitStopsTrying ==
    (unit = "boot" /\ ( \/ credential # "readable" \/ secret # "good"
                        \/ store.kind \in {"link", "file"}
                        \/ \E f \in store.shared : chmod[f] # "sticks"))
        ~> unit = "failed"
=============================================================================
