-------------------------- MODULE CompositionRoot --------------------------
(***************************************************************************)
(* The example's main: wire, probe, serve - by several processes at once.  *)
(* A stdio session is started by each client that wants one and the service*)
(* by its manager; all of them probe, and repair, the one store they are   *)
(* pointed at, and the probe takes no lock.                                *)
(*                                                                         *)
(* Every call that reads or changes the store is a step of its own, so     *)
(* what one process listed, another may have changed by the time it is     *)
(* visited.  An entry is whether it is there and grants anything to group  *)
(* or other.  The files of a listing are visited in any order: their names *)
(* decide it, and they are not modelled.                                   *)
(***************************************************************************)
EXTENDS Naturals, Sequences, FiniteSets

CONSTANTS
    Sessions,    \* the processes
    Files,       \* names of regular files directly in the store
    Paths,       \* where a credentials file may be looked for
    Unset,       \* the empty path: neither option nor variable was given
    Asked,       \* the command lines and environments each may be started with
    MaxUpsets    \* bound: files shared or removed, processes killed, READY lost

NoFile     == "none"
AbsentFile == "credentials_file_absent"
Checks     == {AbsentFile, "store_absent", "store_not_a_directory", "mode_not_honoured", "store_shared",
               "store_file_shared", "token_absent", "token_too_short"}
Statuses   == {"none", "0", "1", "78", "signal"}
Transports == {"stdio", "http"}
Options    == [transport : Transports, option : Paths, variable : Paths]

ASSUME PathsAssumption  == Unset \in Paths
ASSUME AskedAssumption  == Asked \in [Sessions -> SUBSET Options]
ASSUME UpsetsAssumption == MaxUpsets \in Nat
ASSUME NamesAssumption  == "free" \notin Sessions /\ NoFile \notin Files

\* What a path holds for _read_text: nothing it can open, bytes it cannot decode,
\* a file without the key or with a blank value, a secret below the floor, a good one.
Contents == {"gone", "undecodable", "keyless", "short", "good"}

VARIABLES
    kind, chmod, content, asked,   \* the host; no step changes it
    dirShared, files,              \* the store
    port,                          \* who holds the address and port
    proc,                          \* the processes
    lost,                          \* starts each lost before it served, on a host that could
    shares, removals, failures     \* what others did to store and processes

host   == <<kind, chmod, content, asked>>
store  == <<dirShared, files>>
upsets == <<shares, removals, failures>>
vars   == <<host, store, port, proc, lost, upsets>>

Places == {"away", "wire", "directory", "chmod_directory", "verify_directory", "list", "look",
           "stat", "chmod", "verify", "secret", "serve", "notify", "serving", "draining"}

Processes == [at : Places, todo : SUBSET Files, entry : Files \union {NoFile}, seen : BOOLEAN,
              emitted : Seq(Checks), status : Statuses, mended : BOOLEAN, loose : BOOLEAN]

\* loose: since it was started, somebody gave a file in the store away.
Fresh(at) == [at |-> at, todo |-> {}, entry |-> NoFile, seen |-> FALSE, emitted |-> << >>,
              status |-> "none", mended |-> FALSE, loose |-> FALSE]

Init ==
    /\ kind \in {"absent", "link", "file", "directory"}
    /\ chmod \in {"sticks", "lies", "denied"}
    /\ content \in [Paths -> Contents] /\ content[Unset] = "gone"
    /\ asked \in [Sessions -> Options] /\ \A p \in Sessions : asked[p] \in Asked[p]
    /\ dirShared \in BOOLEAN /\ files \in [Files -> {"gone", "private", "shared"}]
    /\ kind # "directory" => ~dirShared /\ \A f \in Files : files[f] = "gone"
    /\ port = "free"
    /\ proc = [p \in Sessions |-> Fresh("away")]
    /\ lost = [p \in Sessions |-> 0]
    /\ shares = 0 /\ removals = 0 /\ failures = 0

-----------------------------------------------------------------------------
(* parse_arguments, and where the secret comes from. *)

http_selected(p)    == asked[p].transport = "http"
credentials_file(p) == IF asked[p].option # Unset THEN asked[p].option ELSE asked[p].variable
Text(p)             == content[credentials_file(p)]
SecretOf(p)         == IF Text(p) \in {"short", "good"} THEN Text(p) ELSE "absent"

\* A host on which p has nothing to complain of that another start does not mend,
\* and nobody to share its port with.
Servable(p) ==
    /\ kind = "directory" /\ chmod = "sticks"
    /\ IF http_selected(p)
       THEN Text(p) = "good" /\ \A q \in Sessions : http_selected(q) => q = p
       ELSE Text(p) # "undecodable"

At(p, where)    == proc[p].at = where
Served(p)       == proc[p].at \in {"serving", "draining"}
On(p, where, f) == At(p, where) /\ proc[p].entry = f
Listing         == {f \in Files : files[f] # "gone"}

Become(p, r)  == proc' = [proc EXCEPT ![p] = r] /\ UNCHANGED <<port, lost>>
Go(p, where)  == Become(p, [proc[p] EXCEPT !.at = where])

\* The process ends; its listener, if it still has one, is closed on the way.
End(p, status, emitted) ==
    /\ proc' = [proc EXCEPT ![p] = [Fresh("away") EXCEPT !.status = status, !.emitted = emitted]]
    /\ port' = IF port = p THEN "free" ELSE port
    /\ lost' = IF Servable(p) /\ ~Served(p) THEN [lost EXCEPT ![p] = @ + 1] ELSE lost

Exit(p, status) == End(p, status, proc[p].emitted)

\* StartupRefused: run() emits one event and raises, main returns 78.
Refuse(p, check) == End(p, "78", Append(proc[p].emitted, check))

-----------------------------------------------------------------------------
(* main *)

\* A client opens a session, or the manager starts the service.
Launch(p) ==
    /\ At(p, "away")
    /\ Become(p, Fresh("wire"))
    /\ UNCHANGED <<host, store, upsets>>

\* _credentials: an OSError is an event and no secret, a decoding error nobody's.
Wire(p) ==
    /\ At(p, "wire")
    /\ \/ /\ Text(p) = "gone"
          /\ Become(p, [proc[p] EXCEPT !.at = "directory", !.emitted = Append(@, AbsentFile)])
       \/ Text(p) = "undecodable" /\ Exit(p, "1")
       \/ Text(p) \notin {"gone", "undecodable"} /\ Go(p, "directory")
    /\ UNCHANGED <<host, store, upsets>>

\* private_directory_check: what is not a directory, then what it grants.
CheckDirectory(p) ==
    /\ At(p, "directory")
    /\ \/ kind = "absent" /\ Refuse(p, "store_absent")
       \/ kind \in {"link", "file"} /\ Refuse(p, "store_not_a_directory")
       \/ kind = "directory" /\ Go(p, IF dirShared THEN "chmod_directory" ELSE "list")
    /\ UNCHANGED <<host, store, upsets>>

ChmodDirectory(p) ==
    /\ At(p, "chmod_directory")
    /\ \/ /\ chmod = "sticks"
          /\ dirShared' = FALSE
          /\ Become(p, [proc[p] EXCEPT !.at = "verify_directory", !.mended = TRUE])
       \/ chmod = "lies"   /\ Go(p, "verify_directory") /\ UNCHANGED dirShared
       \/ chmod = "denied" /\ Exit(p, "1") /\ UNCHANGED dirShared
    /\ UNCHANGED <<host, files, upsets>>

\* [mutant] "papers over": repaired, and on to the next check.
VerifyAndGoOn(p) ==
    /\ At(p, "verify_directory")
    /\ IF dirShared THEN Refuse(p, "mode_not_honoured") ELSE Go(p, "list")
    /\ UNCHANGED <<host, store, upsets>>

VerifyDirectory(p) ==
    /\ At(p, "verify_directory")
    /\ Refuse(p, IF dirShared THEN "mode_not_honoured" ELSE "store_shared")
    /\ UNCHANGED <<host, store, upsets>>

-----------------------------------------------------------------------------
(* private_files_check *)

\* shared_files: one listing, and then a stat of every file on it.
List(p) ==
    /\ At(p, "list")
    /\ Become(p, [proc[p] EXCEPT !.at = "look", !.todo = Listing])
    /\ UNCHANGED <<host, store, upsets>>

Look(p, f) ==
    /\ At(p, "look") /\ f \in proc[p].todo /\ files[f] # "gone"
    /\ Become(p, [proc[p] EXCEPT !.todo = @ \ {f}, !.seen = @ \/ files[f] = "shared"])
    /\ UNCHANGED <<host, store, upsets>>

\* [mutant] A shared file is refused and left as it was found.
LookedAndRefuse(p) ==
    /\ At(p, "look") /\ proc[p].todo = {}
    /\ IF proc[p].seen
       THEN Refuse(p, "store_file_shared")
       ELSE Go(p, IF http_selected(p) THEN "secret" ELSE "serve")
    /\ UNCHANGED <<host, store, upsets>>

\* Nothing shared: on to the next check, which stdio does not have.  Otherwise
\* enforce_file_modes lists the store again.
Looked(p) ==
    /\ At(p, "look") /\ proc[p].todo = {}
    /\ IF proc[p].seen
       THEN Become(p, [proc[p] EXCEPT !.at = "stat", !.todo = Listing, !.seen = FALSE])
       ELSE Go(p, IF http_selected(p) THEN "secret" ELSE "serve")
    /\ UNCHANGED <<host, store, upsets>>

\* _make_private: the stat, the chmod and the stat that reads it back.
Stat(p, f) ==
    /\ At(p, "stat") /\ f \in proc[p].todo /\ files[f] # "gone"
    /\ IF files[f] = "private"
       THEN Become(p, [proc[p] EXCEPT !.todo = @ \ {f}])
       ELSE Become(p, [proc[p] EXCEPT !.at = "chmod", !.entry = f])
    /\ UNCHANGED <<host, store, upsets>>

Chmod(p, f) ==
    /\ On(p, "chmod", f) /\ files[f] # "gone"
    /\ \/ /\ chmod = "sticks"
          /\ files' = [files EXCEPT ![f] = "private"]
          /\ Become(p, [proc[p] EXCEPT !.at = "verify", !.mended = TRUE])
       \/ chmod = "lies"   /\ Go(p, "verify") /\ UNCHANGED files
       \/ chmod = "denied" /\ Exit(p, "1") /\ UNCHANGED files
    /\ UNCHANGED <<host, dirShared, upsets>>

\* [mutant] The call returned, so the mode is taken to have stuck.
TakeItOnTrust(p, f) ==
    /\ On(p, "verify", f) /\ files[f] # "gone"
    /\ Become(p, [proc[p] EXCEPT !.at = "stat", !.todo = @ \ {f}, !.entry = NoFile])
    /\ UNCHANGED <<host, store, upsets>>

\* ModeNotHonoured is not caught here.
Verify(p, f) ==
    /\ On(p, "verify", f) /\ files[f] # "gone"
    /\ IF files[f] = "shared"
       THEN Exit(p, "1")
       ELSE Become(p, [proc[p] EXCEPT !.at = "stat", !.todo = @ \ {f}, !.entry = NoFile])
    /\ UNCHANGED <<host, store, upsets>>

\* A file that was listed is not there any more: FileNotFoundError, which
\* private_files_check does not catch either.
Vanished(p, f) ==
    /\ files[f] = "gone"
    /\ \/ At(p, "look") /\ f \in proc[p].todo
       \/ At(p, "stat") /\ f \in proc[p].todo
       \/ On(p, "chmod", f)
       \/ On(p, "verify", f)
    /\ Exit(p, "1")
    /\ UNCHANGED <<host, store, upsets>>

RefuseSharedFiles(p) ==
    /\ At(p, "stat") /\ proc[p].todo = {}
    /\ Refuse(p, "store_file_shared")
    /\ UNCHANGED <<host, store, upsets>>

-----------------------------------------------------------------------------
(* shared_secret_check, and serving *)

\* [mutant] A secret that is not there is left to the verifier.
CheckLengthOnly(p) ==
    /\ At(p, "secret")
    /\ \/ SecretOf(p) = "short" /\ Refuse(p, "token_too_short")
       \/ SecretOf(p) # "short" /\ Go(p, "serve")
    /\ UNCHANGED <<host, store, upsets>>

CheckSecret(p) ==
    /\ At(p, "secret")
    /\ \/ SecretOf(p) = "absent" /\ Refuse(p, "token_absent")
       \/ SecretOf(p) = "short"  /\ Refuse(p, "token_too_short")
       \/ SecretOf(p) = "good"   /\ Go(p, "serve")
    /\ UNCHANGED <<host, store, upsets>>

Upsettable == shares + removals + failures < MaxUpsets

\* serve_stdio needs nothing; serve_http takes the port, or raises BindFailure.
ServeStdio(p) ==
    /\ At(p, "serve") /\ ~http_selected(p)
    /\ Go(p, "serving")
    /\ UNCHANGED <<host, store, upsets>>

ServeHttp(p) ==
    /\ At(p, "serve") /\ http_selected(p)
    /\ IF port = "free"
       THEN /\ port' = p
            /\ proc' = [proc EXCEPT ![p].at = "notify"]
            /\ UNCHANGED lost
       ELSE Exit(p, "1")
    /\ UNCHANGED <<host, store, upsets>>

\* notify_ready: an OSError of its connect or sendall ends main, by way of the
\* finally that closes the listener.
NotifyReady(p) ==
    /\ At(p, "notify")
    /\ \/ Go(p, "serving") /\ UNCHANGED failures
       \/ Upsettable /\ Exit(p, "1") /\ failures' = failures + 1
    /\ UNCHANGED <<host, store, shares, removals>>

\* On a signal uvicorn closes the sockets it was given, waits for the requests
\* under way, and raises the signal again.
Signalled(p) ==
    /\ At(p, "serving") /\ http_selected(p)
    /\ port' = "free"
    /\ proc' = [proc EXCEPT ![p].at = "draining"]
    /\ UNCHANGED <<host, store, lost, upsets>>

\* The client closes its stream, or the lifespan cannot be opened, and main
\* returns; serving raises; or the last request of a server told to stop is gone.
ServeEnds(p) ==
    /\ \/ At(p, "serving") /\ \E status \in {"0", "1"} : Exit(p, status)
       \/ At(p, "draining") /\ Exit(p, "signal")
    /\ UNCHANGED <<host, store, upsets>>

-----------------------------------------------------------------------------
(* What others do: a consumer's durable write, an operator, a kill. *)

\* A working copy, private by the call that creates it.
WriteFile(f) ==
    /\ kind = "directory" /\ files[f] = "gone"
    /\ files' = [files EXCEPT ![f] = "private"]
    /\ UNCHANGED <<host, dirShared, port, proc, lost, upsets>>

RemoveFile(f) ==
    /\ Upsettable /\ files[f] # "gone"
    /\ files' = [files EXCEPT ![f] = "gone"]
    /\ removals' = removals + 1
    /\ UNCHANGED <<host, dirShared, port, proc, lost, shares, failures>>

ShareFile(f) ==
    /\ Upsettable /\ kind = "directory" /\ files[f] # "shared"
    /\ files' = [files EXCEPT ![f] = "shared"]
    /\ shares' = shares + 1
    /\ proc' = [p \in Sessions |-> [proc[p] EXCEPT !.loose = ~At(p, "away")]]
    /\ UNCHANGED <<host, dirShared, port, lost, removals, failures>>

Kill(p) ==
    /\ Upsettable /\ ~At(p, "away")
    /\ Exit(p, "signal")
    /\ failures' = failures + 1
    /\ UNCHANGED <<host, store, shares, removals>>

Main(p) ==
    \/ Wire(p) \/ CheckDirectory(p) \/ ChmodDirectory(p) \/ VerifyDirectory(p)
    \/ List(p) \/ Looked(p) \/ RefuseSharedFiles(p) \/ CheckSecret(p)
    \/ ServeStdio(p) \/ ServeHttp(p) \/ NotifyReady(p)
    \/ \E f \in Files : Look(p, f) \/ Stat(p, f) \/ Chmod(p, f) \/ Verify(p, f) \/ Vanished(p, f)

Next ==
    \/ \E p \in Sessions : Launch(p) \/ Main(p) \/ Signalled(p) \/ ServeEnds(p) \/ Kill(p)
    \/ \E f \in Files : WriteFile(f) \/ RemoveFile(f) \/ ShareFile(f)

Spec == Init /\ [][Next]_vars

-----------------------------------------------------------------------------
TypeOK ==
    /\ kind \in {"absent", "link", "file", "directory"} /\ chmod \in {"sticks", "lies", "denied"}
    /\ content \in [Paths -> Contents] /\ asked \in [Sessions -> Options]
    /\ dirShared \in BOOLEAN /\ files \in [Files -> {"gone", "private", "shared"}]
    /\ port \in Sessions \union {"free"}
    /\ proc \in [Sessions -> Processes]
    /\ lost \in [Sessions -> Nat] /\ shares \in Nat /\ removals \in Nat /\ failures \in Nat

LastEvent(p) == proc[p].emitted[Len(proc[p].emitted)]

\* Wire, then probe, then serve, however many do so at once: what serves does so
\* from a private store, unless somebody gave a file away since it was started;
\* it repaired nothing on its way, and over http it has the secret and, until it
\* is told to stop, the port.
ServingIsSound ==
    \A p \in Sessions : Served(p) =>
        /\ kind = "directory" /\ ~dirShared /\ ~proc[p].mended
        /\ proc[p].loose \/ \A f \in Files : files[f] # "shared"
        /\ http_selected(p) => SecretOf(p) = "good" /\ (At(p, "serving") => port = p)

\* "So the next start is safe": when a process is refused for a shared store the
\* store is private, whoever repaired it and whatever others do meanwhile; and
\* what the process repaired itself is what it is refused for.
RefusalMeansMended ==
    [][\A p \in Sessions : ~At(p, "away") /\ proc'[p].status = "78" =>
        LET check == LastEvent(p)'
        IN  /\ check = "store_shared" => ~dirShared
            /\ check = "store_file_shared" =>
                 proc[p].loose \/ \A f \in Files : files[f] # "shared"
            /\ proc[p].mended => check \in {"store_shared", "store_file_shared"}]_vars

\* However many sessions repair one store together, each loses at most two starts
\* of its own before it serves, and one for whatever others did, a manager that
\* does not take READY included: where nobody interferes the start limit of three
\* is enough for the service.
StartsLostAreFew == \A p \in Sessions : lost[p] <= 2 + shares + removals + failures

\* The events of a start and its end agree: 78 exactly if the last one names a
\* check that refused, and a process that serves has emitted none - but for the
\* missing credentials file, which a stdio session does without.
EventsTellTheEnd ==
    \A p \in Sessions :
        LET emitted == proc[p].emitted
            refusal == emitted # << >> /\ LastEvent(p) # AbsentFile
        IN  /\ At(p, "away") => (proc[p].status = "78" <=> refusal)
            /\ Served(p) /\ emitted # << >> =>
                 ~http_selected(p) /\ emitted = <<AbsentFile>> /\ Text(p) = "gone"
=============================================================================
