# A verification project for mcp-packaging

`mcp-packaging` is the shared layer under a fleet of MCP servers: a Python package
(`src/mcp_packaging`) that holds what every server does before and around its tools, and Nix
factories (`nix/lib`) that turn one record of facts into a package, a hardened systemd unit and
its checks. This directory holds TLA+ modules of the parts of that layer that keep state or run
concurrently, TLC configurations that check them on small instances, and TLAPS proofs of their
most important properties for every value of the constants. Paths below are relative to the
repository root.

## 1. Inventory

| Part | State it keeps | Operations | What makes it correct |
|---|---|---|---|
| Event record, `src/mcp_packaging/events.py` | a deque of at most 1024 event dicts, one lock; the journal (standard error) | `emit_event`, `recorded_events`, `note_suppressed_event`, `reset_recorded_events` | every event is printed once; the ring is bounded; written plus held equals what arrived |
| Caller check, `src/mcp_packaging/bearer.py` | none of its own: it decides from the event record | `verify_bearer_token`, `_record_rejection`, the ASGI guard | the cap on recorded refusals; one refusal for every class |
| Startup probe, `src/mcp_packaging/startup_probe.py` | the results so far; the store it repairs, sweeps and writes | `run`, four check constructors | the verdict is that of the first faulty check; a pass means the store is sound; what was repaired is reported |
| Store modes, `src/mcp_packaging/store_modes.py` | modes of the store directory and its files; an advisory lock | `shared_files`, `enforce_*_modes`, `store_lock` | a mode is read back and never assumed; load-refresh-commit sections are serial |
| HTTP transport, `src/mcp_packaging/transport.py` | the listening socket, the session manager's lifetime | `bind`, `build_http_application`, `notify_ready`, `serve_http`, `serve_stdio` | no listener without the steps before it; READY only once accepting; nothing left half-listening, even where the lifespan fails |
| Composition root, `examples/example-mcp/src/example_mcp/entrypoint.py` | none of its own; every process it is started in shares the store | `main`: wire, probe, serve, over stdio or http | a refusal is never served, has an exit status of its own and tells what happened; processes that repair one store together do not undo each other |
| Managed service, `nix/lib/mkServiceModule.nix` | the unit's state, its start counter | start, restart, give up | retries what a retry can fix, stops at what it cannot |
| Port claims, `nix/lib/portClaims.nix` | a register of endpoints, at evaluation | contribute, assert | two services on one endpoint are refused before they are built |
| Credentials file, `src/mcp_packaging/credentials_file.py` | none | `parse`, `require` | which value a service runs on |
| Fleet gate hook, `hooks/fleet-gate-hook` | none | choose and run repository hooks | a gate that could not run is never a silent success |
| Session probe, `nix/lib/mkSessionProbe.nix` | one client session | initialize, list, call | the protocol steps in order |
| Hardening table, `nix/lib/hardening.nix` | none | declared, rendered, unchecked directives | every declared directive is checked or named as unchecked |
| Builders, checks, example tools | none | evaluated once | nothing over time |

How they interact. systemd starts the process with the credential and the state directory in
place; a client that wants a stdio session starts the same `main` for itself, on the same store.
`main` parses the credentials file, runs the probe over a list of checks, and either returns 78 or
serves. The probe calls the store-mode repairs and emits `STARTUP_REFUSED` into the
event record. `serve_http` binds, builds the guarded application, tells the manager it is ready
and serves; the guard calls `verify_bearer_token`, which reads the event record to decide whether
a refusal is written or counted. A consumer's credential store takes `store_lock` around every
load-refresh-commit. When the process ends, its status decides what systemd does next.

What is hard here.

- *Concurrency*: the event record is shared by every thread; a dict is in the ring and in the
  hands of the thread that prints it at once; the cap is read in one critical section and acted on
  in another. The store lock is shared by threads and processes that may raise or die inside it.
  The probe takes no lock: what it listed may be repaired, shared or gone when it is visited.
- *Crashes*: a process or machine may stop between any two of the probe's changes to the store,
  and the next start finds whatever was left.
- *Partial failure*: a repair of several files may fail half-way; a sweep may raise after it removed
  something; a clean-up may fail on the way out of a refusal or of a pass; the manager's socket may be
  gone when readiness is said; the hook may find a gate that cannot be executed.
- *Retries and limits*: systemd restarts a refusal as it restarts a crash, at most three times in
  300 seconds - exactly what a store shared in both ways needs.
- *Ordering*: wire, probe, bind, build, notify, serve, drain or close.

`PROJECT.json` lists each hazard at its line with the properties that would catch it.

## 2. Modules

| Module | Models | Kind |
|---|---|---|
| `EventRecord` | `events.py`, `_record_rejection` | component |
| `EventRecord_proofs` | | proofs |
| `StartupProbe` | `startup_probe.py`, the mode repairs of `store_modes.py` | component |
| `ServiceUnit` | `mkServiceModule.nix`'s unit, `main`, `serve_http`; extends `StartupProbe` | composition |
| `ServiceUnit_proofs` | the unit and, before it, the probe it extends | proofs |
| `CompositionRoot` | `main` by several processes on one store: `entrypoint.py`, with the checks and repairs it wires step by step | composition |
| `CompositionRoot_proofs` | | proofs |
| `SerialStore` | what `store_lock` promises | abstract specification |
| `StoreLock` | `store_lock` | implements `SerialStore` |
| `StoreLock_proofs` | | proofs |
| `GuardedService` | what `serve_http` promises those who connect | abstract specification |
| `HttpGuard` | `transport.py` over http, the guard of `bearer.py`; extends `EventRecord` | composition, implements `GuardedService` |
| `HttpGuard_proofs` | extends `EventRecord_proofs` | proofs |
| `EndpointClaims` | `portClaims.nix`, the options and assertions of `mkServiceModule.nix`, `bind` | component |
| `EndpointClaims_proofs` | | proofs |
| `FleetGateHook` | `hooks/fleet-gate-hook` | component |
| `FleetGateHook_proofs` | | proofs |
| `CredentialsFile` | `credentials_file.py` | algorithm |
| `CredentialsFile_proofs` | | proofs |
| `MC*` | constants for TLC | model checking |

An operator marked `[mutant]` in a comment is the same step with a plausible bug in it. No
specification uses it. Replacing the step it stands beside by it must break a named property; that
is how a property is known to depend on the code. `PROJECT.json` ("mutants") lists the pairs, and
its "map" gives the source lines of every definition.

### EventRecord

An event is a dict, and what matters is its identity: `events` is every dict ever emitted in
order, the ring is `events[first .. Len(events)]`, and a thread at `"write"` still holds the one it
is about to print. `emit_event` is two actions, `Record` under the lock and `Write` after it;
`_record_rejection` is `Refuse` (read the cap) and then `EmitRejection` or `Note`. Every thread may
stand between two of them. An event keeps its name and its suppressed count; the remaining fields
decide nothing. `arrived` counts refused callers since the last reset and is a history variable.
`reset_recorded_events` is called between scenarios, when no thread is mid-way.

### StartupProbe

A filesystem entry is its name and whether it grants anything to group or other (`SHARED_BITS`).
The world is what the probe cannot change: what `chmod` does to an entry (it sticks, it lies - returns
and changes nothing - or it is denied), how the store takes a write, whether a file can always be removed
from it, the injected sweep, and the secret. Every call that changes the store is one action, so `Kill`
may fall between any two. `Accept`, `RefuseStart` and `Escape` are the three ways a check leaves the
runner: a result, a `StartupRefused`, anything else. `changed`, `found`, `origin`, `told` and `kills` are
history variables. `enforce_store_modes` is the directory repair followed by the file repairs; the probe
calls the two parts, and so does the model.

The checks may be injected in any order, so each has to say what it does on a store that is not there:
`LookAtFiles` escapes, as `iterdir` raises, and `WriteSentinel` is refused as a broken write path; a link
to a directory is listed and written through. The sweep and the durable write are injected by the
consumer: external, and modelled by the outcomes `write_path_check` distinguishes. `Sweeps` is what may be
injected - nothing, a sweep that lets a failed removal out, or one that suppresses it - and `Removals`
whether an unlink may fail at all. Where it may, the sweep may leave debris, and so may the `finally` of
the check: its `unlink` is suppressed whatever raises, so a run may pass with the sentinel still in the
store (`CleanUp`).

### ServiceUnit

Four parties: the manager (`ManagerStart`, `StartLimitHit`, `ReadNotification`, `WindowElapses`,
`OperatorStart`), the process (`Wire` to `End`, with the whole of `StartupProbe` as `Probe`), rivals
for the endpoint, and whatever kills the process or the machine. systemd itself is external and
modelled from what the unit file asks of it: `Type=notify`, `LoadCredential`, `StateDirectory`,
`Restart=on-failure`, `StartLimitBurst`. Its choices are left open where the unit file does not
settle them: `StateDirectory=` may or may not tighten the mode of a directory that exists, so a store
may arrive private that was found shared. A credentials file that is missing fails the start before the
process exists; one that is no text ends `main` before the probe, with status 1.

The listener goes before the process does. On a signal uvicorn closes the sockets it was given and drains
(`Signalled`, `Drained`), for as long as a session stays open; a lifespan that cannot be opened returns with
the listener as it was, and the `finally` of `serve_http` closes it (`LifespanFails`, `Close`) before `main`
ends (`End`). A notification the manager's socket does not take is an `OSError` that takes the same way with
status 1. `upsets` counts those and the rivals. A process that ends by the signal that asked it to stop is a
success to the manager.

### CompositionRoot

What `StartupProbe` does not have: other processes. `Sessions` are started over stdio or http, each with
its own options, and all of them probe the one store they are pointed at. `Wire` is `parse_arguments` and
`_credentials`: a file that cannot be opened is an event and no secret, one that cannot be decoded ends
the process with status 1. The directory and file checks are taken apart into the system calls that see
or change the store - the listing, the `stat` of each entry, the second listing of `enforce_file_modes`,
`stat`, `chmod` and the `stat` that reads it back - and another process may stand between any two.
Serving over http is to bind, to notify - which may raise, and ends `main` with status 1 - to serve, and
once signalled to drain without the port; `ServeEnds` is a session whose client closed it (0), one that
raised (1), a lifespan that failed (0) or the signal uvicorn raises again.
`WriteFile`, `RemoveFile`, `ShareFile` and `Kill` are what the rest of the machine may do; `failures` counts
the processes killed and the notifications not taken. `emitted` is
the process's events, `mended` whether it changed a mode, `loose` whether a file was given away since it
was started; `lost` counts, on a host that could serve the process, its starts that ended before they served.
`chmod` treats every entry alike here: that entries differ is `StartupProbe`'s matter.

### StoreLock and SerialStore

Every caller opens the lock file for itself, so the flock belongs to an open file and threads exclude
each other as processes do. `store_lock` is `Open`, `Lock`, the body, `Close` (the `finally`); the body
(`Load`, `Commit`) is the consumer's. A caller may raise in the body, fail to lock, or die anywhere.
`SerialStore` has one step to enter and one to commit or abandon; `StoreLock` implements it with
`inside` mapped to the callers between `Lock` and the end of the body.

### HttpGuard and GuardedService

One call of `serve_http`: `Bind`, `BuildApplication`, `NotifyReady`, `Run`, `Close` are its statements,
the last one the `finally`. The lifespan coroutine is `EnterSessionManager` to `SendShutdownComplete`.
A request is queued by the kernel, taken by uvicorn, verified, and refused or handed on. The whole of
it is one event loop, so the verifier, which has no `await`, is the one verifier of `EventRecord`: its
actions `Refuse`, `EmitRejection`, `Note` and `Write` are reused, and `LoopFree` keeps everything else
on the loop from running in between. `LifespanFails` is a session manager that cannot be opened: uvicorn
gives up and `serve_http` returns like any other call, having said READY. The session manager is `open` exactly while its own context is
entered; `handle_request` raises when it is not, which is a server error to the caller. A header is what
`_candidate` and the comparison tell apart. Both dummies can be presented: one is what an absent or malformed
header is compared as, the other is what an unset secret is compared as. A presented token is stripped of its
blanks and the secret in force is not, so a padded secret may be presented or be in force. The header is
decoded as latin-1 and both sides are compared as UTF-8, so a secret beyond ASCII is shown by its latin-1
bytes and not by its UTF-8 ones. A scope that is not http has no header at all: the guard passes it on
unverified (`PassUnverified`), and the session manager, which speaks http alone, raises on it. uvicorn and the session manager are external; uvicorn opens the
lifespan before it takes a connection, closes its listener when signalled, waits for requests under way
and raises the signal again.

`GuardedService` is the promise: only who is entitled is admitted, and only while the manager is
open, only who is not is refused, the manager does not close on anybody it admitted, and those
nobody answered are dropped. The mapping reads `entitled` from the header and the secret by a table of the
pairs that agree (`Shows`), so the verifier has to agree with it, and both a server error and a refusal are
`refused`, so no entitled caller may meet either. With no secret configured the table has one pair: the fixed
value that stands in for it.

### EndpointClaims

A host is edited one setting at a time, built and deployed as a whole or refused as a whole. An address
is a pair: how it is typed, and the blank a copy leaves behind it. What the register and the
assertions see is the text; what `bind` and `listen` see is the interfaces it reaches. Two services may
be between their bind and their listen at once, which `SO_REUSEADDR` allows. The register states its own
scope - two spellings of one address are two keys, and the list of addresses that reach everything is an
enumeration - and `InScope` is that statement. Two of the listed spellings are modelled: `0.0.0.0`, which
reaches every interface, and `*`, which is no address and reaches none: `bind` fails on it. A spelling
that is not listed, `0x00000000`, reaches every interface too. Port 0 is left out: the kernel would choose another, and
two services on it would be refused although both could bind.

### FleetGateHook

The script's questions, one action each, in its order: `TakeStage`, `AskGit` (git's answer, its tilde, a
relative value), `FallBack`, `ReportAbsence`, `LookForHook`, `LookExecutable`, `Exec`. A deploy may change
what either directory holds between any two. The stage may be missing, and the environment may lack `HOME`
or `XDG_CONFIG_HOME`. What a directory holds for a stage is what the shell can tell apart: no directory, no
hook, a link to nothing (`[ -e ]` is false of it as of no hook), a file without its executable bit, something
that has the bit and cannot be executed - a directory, a script whose interpreter is missing - and a gate
that runs.

### CredentialsFile

`parse` and `require` with their helpers as operators over sequences of the characters the parser tells
apart. The state is a file being written, so TLC visits every file within the bounds. The properties do
not mention the parser's steps: they say what a line assigns as a person reads it (`Assigns`, `Void`) and
what a value in quotes or without them means.

## 3. Runs

| Run | Question | Bounds |
|---|---|---|
| `event_record` | What does the race of two verifying threads on the cap break, with a third thread emitting, and is every event printed once? | ring 3, cap 1, 4 events, 4 arrivals, verifiers symmetric |
| `startup_probe_all` | What do a verdict, a report and a pass mean, over every world and store, with restarts and a crash? | 2 files, 4 checks with the files looked at first, every kind of sweep, removals that work or may fail, 1 crash |
| `startup_probe_repair_lost` (violation) | Does a refusal carry every repair made on the way? | 2 files, 3 checks |
| `startup_probe_sweep_lost` (violation) | Is a sweep always in the report? | 1 file, 4 checks |
| `service_unit` | Is there ever a listener without a passed probe, an active unit without a listener that is not on its way out, or a refusal that looks like a crash? Does a repairable unit come up within its start limit, and an unfixable one stop? | 1 file, 4 checks, a suppressing sweep, removals that work, 1 crash or power cut, 1 upset, start limit 3 |
| `composition_root` | Several processes wire, probe and serve on one store: is what serves sound, what is refused mended, what is lost bounded, and do the events tell the end? | 2 processes, 2 files, any credentials file, 2 interferences |
| `store_lock` | Is the section serial, are updates kept, is a waiter served? | 3 callers, 3 commits |
| `http_guard` | Do guard, lifespan, listener and event record together implement the guarded service; is everybody who connects met, and does a signalled server return? | 2 requests, 10 headers and a scope that is not http, the secret unset, set, padded or beyond ASCII, ring 2, cap 1 |
| `endpoint_claims` | Does what was built bind, and could what was refused not have been served? | 2 services, 2 ports, 6 spellings with and without a blank, 2 edits |
| `fleet_gate_hook` | Which gate runs, what blocks a commit, and what passes in silence? | 2 directories with 6 contents each, with and without a stage, 2 deploys |
| `fleet_gate_absence_is_loud` (violation) | Is there no silent success without a gate's directory? | no deploy |
| `credentials_file` | Which value does a service run on, and when is it refused? | 2 lines, 5 characters of 7 kinds |

Why the bounds are enough. *Ring and cap*: the code's 1024 and 20 matter only by their order (cap below
ring) and by the ring being able to rotate. With ring 3 and cap 1 a rejection can be first, newest or
evicted, the cap can be reached, overshot by the second verifier, and reopened by rotation. *Four
events* rotate the ring. *Two verifiers* show the
overshoot; the proofs cover any number. *Two files* show the one repaired before the one that fails; a
third adds no new order. *One crash* falls at every step of the probe and is followed by full runs; a
second only repeats it on a store the first one can already leave. *One upset* is a rival that may hold the endpoint
across a start or let it go, or a notification that is not taken. *The unit's sweep and removals*: what a
sweep leaves or a clean-up leaves decides no later check, so every kind of either is asked of the probe in
`startup_probe_all` and one kind here; with removals that may fail the unit has three million states and
was run once, without an error, but takes longer than the five minutes a run is given. The theorems about the unit have neither restriction. *Start limit 3* is the code's own value. *Three callers* are one holder and
two waiters. *Two processes* repair one store against each other and contend for one port, and *two
interferences* - a file removed or given away, a process killed, a notification not taken - fall between
any two of their steps (3.0 million states), and the proofs cover any number of all three. *Two requests* with every header let one be verified, refused or dropped while another has
a session open, waiting or never ending; the proofs cover any number. *Two services* are what a
collision takes, and the proof covers any number; *two edits* move one service onto the other and back.
*Two deploys* withdraw a gate and restore it between two looks of the script. *Five characters* spell a
sourced assignment, an assignment with a blank one after it, or a comment before one; a value of five
characters holds a pair of quotes with another quote, a sign and a blank inside.

What the passing runs show about the code, beyond the names of the properties:

- The cap is a check-then-act across two critical sections, exact for one verifier and overshot by at
  most one per further verifier, whatever rotates (`CapHolds`), and rotation lets a boot write the cap
  again and again but never more than the cap, and that overshoot, in one ring's length (`WindowCapHolds`).
- The accounting can fail in one direction only: it loses arrivals, never invents one
  (`NeverOvercounted`).
- That no journal line ever shows a suppression (`events.py:34-36`) depends on there being one
  verifying thread. The shipped server has one event loop, so `http_guard` checks it behind the guard
  (`JournalShowsNoSuppression`). With two, one may count onto a dict the other has not printed yet.
- A store shared in both ways needs three starts and the limit allows three (`RepairableUnitComesUp`
  with no crash or rival). One crash during a repair spends the margin, and such a unit ends `failed`
  although the next start would have passed. This follows from the code's numbers and is stated here,
  not as a defect.
- `UnfixableUnitStopsTrying` includes a store that is a link, a file that keeps its mode and a missing
  credentials file; each ends `failed`, through a different exit.
- A suppressed clean-up leaves its sentinel: where an unlink fails after the write and its read-back
  succeeded, the check passes and the sentinel stays in the store. So nothing of the probe is left behind
  only where files can be removed and nothing died (`SentinelIsNotLeft`, and the last part of
  `PassMeansSound`).
- An active unit has a process, but not always a listener: signalled, it drains without one, for as long as a
  session stays open, and past the `finally` it has none for a moment. It is never active before it listens
  (`ActiveMeansListening`).
- With no secret configured the value compared is a constant of the module (`bearer.py:61`), and a header that
  carries it compares equal, although the docstring of `_comparable` calls it "a value nothing can be made to
  match" (`bearer.py:204-209`). `Entitled` says so, and `OnlyTheEntitled` is to be read with it. The example
  never serves http without a secret: `shared_secret_check` refuses that start (`ServingIsSound`).
- The guard verifies http and nothing else: another scope is passed to the application unverified
  (`bearer.py:164-166`), though its docstring says "EVERY request" (`bearer.py:142-144`). The session manager raises on
  such a scope, so it is admitted to nothing; that is the manager's doing and not the guard's.
- Nobody who presents the secret in force ever gets a server error, and everybody who connected is met,
  although READY is sent before the session manager opens: the backlog holds them until it has, and where
  it never does they are dropped. A secret configured with a blank at an end, which the probe passes and a
  quoted line of the credentials file can hold, admits nobody, whatever is presented
  (`ImplementsGuardedService` with `Entitled`).
- A call whose lifespan failed returns like one that was told to stop. The process ends with status 0, which
  `Restart=on-failure` does not restart, although the manager was told READY.
- Two processes that repair one store at once may both be refused for it, one of them without having changed
  anything: `enforce_file_modes` lists again, and `repaired=True` is the check's word, not its deed. Nobody
  serves from a shared store for it, and each process loses two starts at most (`StartsLostAreFew`), so the
  start limit still suffices where nobody interferes.
- A file that another process removes between the listing and its `stat` ends a start in a
  `FileNotFoundError`: status 1, no event. It costs one start, and is why the bound has a term for it.
- An absent credentials file is a `STARTUP_REFUSED` event of a start that a stdio session then serves; it is
  the only event a serving process can have emitted (`EventsTellTheEnd`).
- A session that stays open is the only thing that holds up a signalled server.
- `serve_http` listens before it asks for the caller check, though `build_http_application` says that a
  request without one "produces no listener" (`transport.py:137-139`). Nobody is served, and the listener
  is gone when the call ends (`NothingHalfListening`), so this is stated here and is no run of its own.
- Where git names no directory the hook can use and neither `XDG_CONFIG_HOME` nor `HOME` is set, it ends in
  an error under `set -u` and blocks the commit, whatever is deployed; `AbsenceNeverBlocks` names a missing
  `HOME` among the ways a commit fails (`Misused`).
- A gate's silence has a reason: within a directory the script found for itself, success without a word
  means that the stage is not gated, or that its hook is a link to nothing, unless the gate was withdrawn
  between two looks. A link to nothing is a deployed gate that does not run, and it is passed in silence like
  no gate at all.
- A gate that has its executable bit and cannot be executed blocks every commit of its stage, loudly and
  without any deploy (126 or 127 from `exec`); absence never blocks, but a broken gate does
  (`AbsenceNeverBlocks`, `ArmedGateRuns`). So does a call without a stage.
- The endpoint register refuses no host that would have worked, as its comment claims: addresses that
  are one key always conflict, once ports are real. Not every listed spelling would have answered
  everywhere: `*` would have failed at `bind` instead.
- A value in quotes reaches the service exactly, whatever it contains; a bare one exactly if it has no
  blank at an end and is not itself in a pair of quotes.

- "Written plus held equals what arrived" holds while no rejection has left the ring (`AccountingIdentity`);
  the docstrings of `_record_rejection` and `note_suppressed_event` call it an identity, and the comment on
  `RECORDED_REJECTION_LIMIT` names the condition.

### Findings

1. `private_files_check` lets `ModeNotHonoured` and `OSError` out of the probe. A repair it made
   before is then in no report, though `run` says it is not lost (`RepairIsNotLost`).
2. `write_path_check` sweeps and then refuses without reporting the sweep (`SweepIsNotLost`), though
   the sweep is documented as part of the check's delta.
3. The hook takes an absolute `core.hooksPath` without looking whether the directory exists, and then
   passes every stage in silence - the failure its comment says it refuses (`AbsenceIsLoud`).

## 4. Fairness

- `EventRecord`, `EndpointClaims`, `FleetGateHook`, `CredentialsFile`, `CompositionRoot`: none; their properties are safety.
- `StartupProbe`: a run goes on to its end, and it is started again. Kills are not fair.
- `ServiceUnit`: the manager restarts and gives up as its unit file says; the process goes on to
  serve. Nothing obliges anybody to stop it, to start it by hand, or to free the endpoint.
- `StoreLock`: a section that was entered ends, and the kernel gives a free lock to one of those
  waiting, with no promise to which. So `WaitersAreServed` says that somebody enters, not that a given
  waiter does: flock promises no order.
- `HttpGuard`: `serve_http` goes on to its next statement, and the event loop gets round to every task
  that can run. Nobody is obliged to connect, to signal, to call a tool or to end a session.

## 5. Proofs

| Theorem | States | Argument |
|---|---|---|
| `EventRecord_proofs!TypeCorrect` | `[]TypeOK`, the ring bound included | inductive as it stands; the bound needs `first` to move exactly when the ring is full |
| `EventRecord_proofs!CapCorrect` | `[]CapHolds` | inductive together with `TypeOK`. The number the cap compares is not bounded by itself: it counts the verifiers that have decided and not yet appended, and that sum is what no step increases beyond the cap and the overshoot |
| `EventRecord_proofs!Accounting` | `[]AccountingIdentity` | from `AccountInv` below |
| `EventRecord_proofs!NeverOver` | `[]NeverOvercounted` | a part of `AccountInv`, that of the events since the last reset |
| `EventRecord_proofs!EvictedFinal` | `EvictedEventsAreFinal` | from `TypeOK`; `Note` touches the ring only, `Record` only appends |
| `EventRecord_proofs!WindowCap` | `[]WindowCapHolds` | with `RingFull` (once something was evicted the ring is full and stays so): a stretch of ring length that an append completes is the ring itself, to which `CapHolds` applies |
| `EventRecord_proofs!WrittenOnce` | `[]EachEventWrittenOnce` | from `JournalInv`: no two threads have one event in hand, and an event in hand has no line yet |
| `ServiceUnit_proofs!TypeCorrect` | `[]TypeOK` | one lemma for each way a check ends, then one case per action |
| `ServiceUnit_proofs!PassCorrect` | `[]PassMeansSound` | from `IInv` below |
| `ServiceUnit_proofs!RepairPrecedesRefusal` | `[]RepairedBeforeRefused` | a part of `IInv` |
| `ServiceUnit_proofs!FirstFaultDecides` | `[]VerdictIsTheFirstFault` | from `VerdictInv` below |
| `ServiceUnit_proofs!ReportExact` | `[]ReportIsTheDelta` | from `DeltaInv`: while a run is under way no mode repair is reported, and the changes made belong to the check in hand |
| `ServiceUnit_proofs!ToldOnce` | `[]EachSharingIsToldOnce` | from `ToldInv`: refusals told, and the one about to be told, never exceed the kinds of sharing mended, and equal them while nothing died |
| `ServiceUnit_proofs!SentinelRemoved` | `[]SentinelIsNotLeft` | from `SentinelInv`: a sentinel is out only between its write and its clean-up, after a death, or on a store whose removals may fail |
| `StoreLock_proofs!Exclusive` | `[]SectionIsSerial` | inductive together with `TypeOK`: it has the holder of the lock and the loaded document besides exclusion |
| `StoreLock_proofs!Refines` | `Spec => ImplementsSerialStore` | each step is an abstract step or a stutter; a commit needs `loaded = document` to be the abstract one |
| `HttpGuard_proofs!SessionsOpen` | `[]SessionsOpenForEveryCaller` | from `ServiceInv` below |
| `HttpGuard_proofs!NothingLeft` | `[]NothingHalfListening` | from `ServiceInv` |
| `HttpGuard_proofs!Refines` | `GuardSpec => ImplementsGuardedService` | each step is an abstract step or a stutter under `ServiceInv`; that a caller is accepted exactly with the secret in force is the lemma `ReasonNone`, which needs the two dummies to differ; with no secret set it is accepted for the fixed value alone |
| `HttpGuard_proofs!ImplementsEventRecord` | `GuardSpec => Spec` of `EventRecord` | every step is a step of the record or leaves it alone |
| `HttpGuard_proofs!GuardTypeCorrect` | `[]GuardTypeOK` | `TypeOK` through `ImplementsEventRecord`, the rest from `ServiceInv` |
| `HttpGuard_proofs!CapIsExact` | `[](at most RejectionLimit rejections in the ring)` | `CapCorrect` through `ImplementsEventRecord`, for the one verifier the event loop is |
| `HttpGuard_proofs!Recorded` | `[]RefusalsAreRecorded` | `RefusedInv`: the callers refused are as many as the record was told of; `Accounting` through `ImplementsEventRecord` says the rest |
| `HttpGuard_proofs!Entitlement` | `[]OnlyTheEntitled`, `AnswersAreFinal` | both are proved of a step of `GuardedService` (`AbstractStep`) and come down through `Refines` |
| `HttpGuard_proofs!LinesAreClean` | `[]JournalShowsNoSuppression` | `CleanInv`: what the one verifier has in hand nobody has counted onto; through `ImplementsEventRecord` |
| `ServiceUnit_proofs!UnitTypeCorrect` | `[]UnitTypeOK` | from `UnitInv` below |
| `ServiceUnit_proofs!Listening` | `[]ListeningMeansProbed` | from `UnitInv` |
| `ServiceUnit_proofs!ActiveCorrect` | `[]ActiveMeansListening` | from `UnitInv` |
| `ServiceUnit_proofs!StatusCorrect` | `[]StatusTellsRefusalFromCrash` | a part of `UnitInv` |
| `ServiceUnit_proofs!LimitIsEnough` | `[]LimitSuffices`: a unit whose store has nothing wrong but its modes is not failed while the limit exceeds the kinds of sharing | from `LostInv` and `ToldAtMost` below |
| `FleetGateHook_proofs!TypeCorrect` | `[]TypeOK` | inductive with the four parts of `IInv` |
| `FleetGateHook_proofs!SilenceExplained` | `[]SilenceHasAReason` | from `IInv` |
| `FleetGateHook_proofs!NeverBlocks` | `[]AbsenceNeverBlocks` | from `IInv` |
| `FleetGateHook_proofs!GateRuns` | `[]ArmedGateRuns` | from `IInv`: where the script stands, what it saw there last, and, with nothing deployed, that this is still so |
| `EndpointClaims_proofs!TypeCorrect` | `[]TypeOK` | inductive as it stands |
| `EndpointClaims_proofs!RefusalDue` | `[]RefusalIsDue` | `RefusedInv`: what was refused has a collision or a listed address, and a listed address is everywhere or nowhere (`ListedReachAllOrNone`); two claimants of one key conflict at the socket, where they have one |
| `EndpointClaims_proofs!WideOutOfScope` | `[]WideOnlyOutOfScope` | what is deployed passed the assertions |
| `EndpointClaims_proofs!BuiltBind` | `[]BuiltServicesBind` | the host deployed has no collisions, and within the scope two services that conflict have one key; a service that failed was in conflict with one that is enabled |
| `CompositionRoot_proofs!TypeCorrect` | `[]TypeOK` | inductive as it stands |
| `CompositionRoot_proofs!Serving` | `[]ServingIsSound` | from `PlaceInv` and `VisitInv` |
| `CompositionRoot_proofs!Mended` | `RefusalMeansMended` | from the same: what is still shared is still to be visited |
| `CompositionRoot_proofs!Events` | `[]EventsTellTheEnd` | from `ToldInv` |
| `CompositionRoot_proofs!StartsLost` | `[]StartsLostAreFew` | from `BudgetInv` |
| `CredentialsFile_proofs!ParseIs` | `parse` of any file: the names some line assigns, each with the value of its last line | the fold is the last member of a sequence in which each line does one step (`ParseIsLineByLine`); then by the least line at which it would go wrong |
| `CredentialsFile_proofs!LastLine` | `[]RefusedForTheLastLine` | `AssignsReads` and `ValueVoid`: what a person sees in a line is what the parser makes of it; with `ParseIs` |
| `CredentialsFile_proofs!Quoting` | `[]QuotingDecides` | `QuotedIsExact` and `BareIsExact`, by the places of the line's parts |

`AccountInv` has two conjuncts for the one number the record is to account for, because the ring forgets
and the record as a whole does not. Over all rejections since the last reset - evicted ones included -
marks and callers in hand are never more than the callers that arrived: an append and a count each turn
one caller in hand into one mark, and a count whose search finds nothing turns it into none. They are
exactly as many while nothing has rotated out. That needs one more part, which makes it inductive: a
verifier that is about to count a caller still finds a rejection to count it onto, as it chose to count
because the cap was reached and nothing has rotated out since. A mark is a pair of an event and
the number of one arrival on it, so that the sum is the size of a set and an append or a count adds one
member to it, which `FS_AddElement` can say; as a fold over the ring the sum would be out of reach.

`ServiceInv` says where the call is and what that implies for the server (`PlaceInv`), how the lifespan
and the session manager follow the server (`LifespanInv`), which requests may be where in each of its
phases (`RequestInv`) and what an answer says of the header (`AnswerInv`). The manager's being open
follows a request through the drain: it is left only when nobody is inside.

In `CompositionRoot_proofs`, `PlaceInv` says what a process's place means for host, store and port,
`VisitInv` that what is shared is still to be visited by everybody who looks or repairs, unless it was
given away meanwhile, and `ToldInv` which events it can have emitted. `BudgetInv` is the heart: a
process's `lost` starts and those it may still lose (`Owed`: one for the directory, one where it has seen
a shared file, one for a shared file its repair will leave out, one for a listed file that is gone) never
exceed two and the interferences. A repair by somebody else only takes from what is owed; what a start
that was lost costs was owed before.

`PassMeansSound` is not inductive: it speaks of the end of a run. `IInv` adds where a run is
(`PositionInv`: each place belongs to one kind of check, and what that check has found out so far) and
what the checks before it established (`ProgressInv`: they still hold). The heart of the proof is that
no check undoes what an earlier one established, for any list of checks in any order - with one
exception it has to name: a second write path check has its own sentinel out while it runs. Where a removal
may fail, what is left of sweep and sentinel is no part of what was established.

`VerdictInv` compares a run with the store as it found it. While it is under way the checks before the
current one have no fault on that store (`Blameless`), the store differs from it only within the check
that repairs it (`StoreAsFound`), and each place of a check knows what its fault will be (`PlaceFound`).
A check ends in its own fault or passes on a store whose modes and kind are unchanged, so the first faulty check is the one the
run ended in.

`UnitInv` has the whole of that `IInv` as a part: a step of the probe is a step of `StartupProbe`, so
its lemmas carry over, and two more show that preparing the state area and losing the process keep it.
`PlaceInv` says what the place of the process means for probe, credential, listener and unit, and
`EmittedInv` that a refusal's event is the only one of its run.

`LostInv` gives the start limit its number. In a world where every repair sticks, as long as nothing died
and nothing was upset, every start that was lost was refused for a sharing the same start had
mended: on the way to the next attempt the manager has counted at most the starts that told. That alone
is not inductive, as the operator may stop and start a unit that serves and the manager counts those
starts too; so it says besides that whoever served left the store settled, and a settled store refuses
nothing. `ToldAtMost` bounds what is told by what was shared at first, however the state area was
prepared in between: `TellingStep`, shared with `ToldOnce`, shows that no step of the probe tells of more
than it mends. With a limit equal to the kinds of sharing it would be false - the starts that told use it
up - so the limit of three the module writes is the least that serves every repairable store.

`CredentialsFile` computes, and its proofs are about what it computes. Every operator of the parser is
first described by positions: what `strip` keeps is the stretch between two places outside which all is
blank, `partition` splits at the least place with a sign, `removeprefix` moves the first place by two. A
line is then read by three places - its first and last character that is no blank, and its sign
(`LineReads`) - and a person's reading (`Assigns`, `Void`) names the same places. The fold in `parse` is
unrolled without induction: were there a number of lines for which no such sequence of readings exists,
there would be a least one (`LeastNatural`, from `WFMin`), and its predecessor has one. The properties
hold of every file, so no invariant is needed beyond the type of the file (`TypedAlways`).

Assumptions: `EventRecord` - the threads are finitely many and contain the verifiers, ring and cap are
positive. `HttpGuard` - the event loop is the only thread and the only verifier. `EndpointClaims` - the
services are finitely many, the ports positive. `StartupProbe` - the
checks are a non-empty sequence of the four kinds, the files a finite set without the directory's own
name, the sweep and the removals of the kinds named, the bound on kills a natural number. `ServiceUnit` - the
start limit is positive, the bound on upsets a natural number. `CompositionRoot` - the unset path is a path, every process is started with
options, "free" is no process and "none" no file, the bound on interferences a natural number. `FleetGateHook` - the bound on deploys is a natural number. `StoreLock` and `CredentialsFile_proofs` - none.

Only model-checked: the liveness properties - `RepairableStoreIsServed`, `RepairableUnitComesUp`,
`UnfixableUnitStopsTrying`, `WaitersAreServed`, `EveryConnectionIsMet`, `SignalledServerReturns` - as
liveness under fairness is out of the provers' reach. `LimitIsEnough` is the part of
`RepairableUnitComesUp` that is safety: whatever the unit does, it is not given up. Every invariant,
action property and refinement that a passing run checks is also a theorem.

## 6. Not modelled, and assumptions to know

- Exact mode bits, paths, file contents, event fields other than the name and the count.
- Time, except the start-limit window, which elapses only while nothing is being restarted: three
  failing starts take seconds of a 300 s window.
- What a failed lifespan means to the manager is `ServiceUnit`'s `LifespanFails`: it may come at any time
  while the process serves, always with status 0. When and why it comes is in `HttpGuard`.
- A drain in `ServiceUnit` may go on for ever, as no fairness ends it; the manager's own stop timeout, which
  would kill it, is not modelled beyond `Crash`.
- uvicorn's forced exit on a second signal, connections kept alive for a second request, and the bytes
  of requests and responses.
- A READY datagram the manager has not read when the process ends is dropped with it.
- The directory replaced, or its mode changed by somebody else, while a start probes it; the write path
  check next to other processes (the example wires none).
- A socket that cannot be created at all: `socket.socket` in `bind` is outside its `try`, and its error
  takes the way of a `BindFailure` to the same status.
- Addresses beyond five spellings; port 0; line ends other than one, and blanks other than one kind, in a
  credentials file; the per-repository `SKIP` of the hook, which is passed on to the gate.
- The session probe: a client script that runs once. Its steps are the tool protocol of the SDK, which is
  not in this repository, and nothing in it is concurrent. That the server opens a session for it is
  `SessionsOpenForEveryCaller`.
- The hardening table and the `credentialsFile` option: set algebra over names, evaluated once by Nix.
- Example tools, package builders, checks and fixtures have no behaviour over time.

## 7. Plan

Done: the event record, the probe, the unit, the composition root, the store lock, the guarded transport,
the endpoint claims, the hook and the credentials file; proofs of every safety property the runs check.
What could still be added, in order of importance:

1. A theorem that one undisturbed process of `CompositionRoot` takes the steps of `StartupProbe`: the
   example's checks are modelled twice, in each at the grain its properties need.
2. `HttpGuard` in the place of `Bind` to `Drained` in `ServiceUnit`: the listener and the status of a process
   whose server gave up or was signalled are already the same, so this adds detail and no new outcome.
3. `CredentialsFile`'s `parse` in the place of `Text` in `CompositionRoot`, which takes its four outcomes.
4. The set algebra of `hardening.nix`: declared, rendered, required and unchecked directives, and which
   disagreements between its lists the assertions let through.
