--------------------------- MODULE StartupProbe ----------------------------
(***************************************************************************)
(* The startup probe: startup_probe.run over an injected list of checks,   *)
(* the four check constructors of the shared layer, and the mode repairs   *)
(* of store_modes they perform.                                            *)
(*                                                                         *)
(* Every call that changes the store is a step of its own, so a machine    *)
(* that dies may die between any two of them; the next run finds whatever  *)
(* this one left.  A filesystem entry is its name and whether it grants    *)
(* anything to group or other (SHARED_BITS); the exact mode bits, paths    *)
(* and file contents are left out.                                         *)
(***************************************************************************)
EXTENDS Integers, Sequences, FiniteSets

CONSTANTS
    Checks,    \* the checks a composition root injects, in order
    Files,     \* names of regular files directly in the store
    Sweeps,    \* what a consumer may inject as the sweep of its write path check
    Removals,  \* whether a file can always be removed from the store, or may not be
    MaxKills   \* bound: how often the machine dies

Kinds == {"directory", "files", "write_path", "secret"}

ASSUME ChecksAssumption == Checks \in Seq(Kinds) /\ Len(Checks) > 0
ASSUME FilesAssumption  == IsFiniteSet(Files) /\ "." \notin Files
ASSUME SweepsAssumption == Sweeps \subseteq {"none", "raises", "suppresses"}
ASSUME RemovalsAssumption == Removals \subseteq {"works", "may_fail"}
ASSUME KillsAssumption  == MaxKills \in Nat

VARIABLES
    \* The world the probe runs in; it never changes these.
    chmod,     \* what chmod does to an entry: "sticks", "lies" or "denied"
    medium,    \* how the store takes a write
    removal,   \* "works", or "may_fail" where any unlink may raise an OSError
    sweep,     \* the injected sweep: none, or what it does with a failed removal
    secret,    \* the shared secret the server was configured with
    \* The store.
    store,
    \* One run of the probe.
    at,        \* where it is; "idle" when no run is under way
    index,     \* the check it is at
    todo,      \* files enforce_file_modes has still to visit
    pending,   \* what write_path_check will say once its finally has run
    swept,     \* whether the sweep of this write_path_check removed something
    results,   \* the results list of run()
    outcome,   \* how the last run ended
    refusal,   \* the check the refusal names
    emitted,   \* STARTUP_REFUSED events of this run
    \* History.
    changed,   \* the kinds of check that changed the store in this run
    found,     \* the store as this run found it
    origin,    \* the store as the first run found it
    told,      \* refusals so far that reported a store that was shared
    kills

world     == <<chmod, medium, removal, sweep, secret>>
runState  == <<at, index, todo, pending, swept, results, outcome, refusal, emitted, changed, found>>
probeVars == <<world, store, runState, origin, told, kills>>

Directory == "."          \* the store directory itself, as an entry
Entries   == Files \cup {Directory}
Refusals  == {"store_not_a_directory", "store_absent", "store_shared",
              "store_file_shared", "store_write_path_broken", "mode_not_honoured",
              "store_durability_unavailable", "token_absent", "token_too_short"}

\* "no_flush": DURABILITY_ERRNOS; "full": any other errno; "forgets": the
\* sentinel does not read back.
Media == {"sound", "no_flush", "full", "forgets"}

\* "link" leads to a directory, and the rest of the record is what is in that;
\* "file" is whatever else is there and no directory, a dangling link included.
Stores == [kind : {"absent", "link", "file", "directory"}, dirShared : BOOLEAN,
           shared : SUBSET Files, debris : BOOLEAN, sentinel : BOOLEAN]

\* What iterdir and open go through: they follow a link.
Listable(s) == s.kind \in {"directory", "link"}

\* Every world and store a start may meet; what is not a directory holds nothing.
Init ==
    /\ chmod \in [Entries -> {"sticks", "lies", "denied"}]
    /\ medium \in Media /\ removal \in Removals /\ sweep \in Sweeps
    /\ secret \in {"absent", "short", "good"}
    /\ store \in Stores
    /\ ~Listable(store) =>
         store.shared = {} /\ ~store.dirShared /\ ~store.debris /\ ~store.sentinel
    /\ ~store.sentinel
    /\ at = "idle" /\ index = 1 /\ todo = {} /\ pending = "none" /\ swept = FALSE
    /\ results = << >> /\ outcome = "none" /\ refusal = "none" /\ emitted = << >>
    /\ changed = {} /\ found = store /\ origin = store
    /\ told = 0 /\ kills = 0

-----------------------------------------------------------------------------
(* The runner. *)

Result(repaired) == [check |-> Checks[index], repaired |-> repaired]

\* The checks the report so far says repaired something.
Reported == {results[i].check : i \in {j \in 1..Len(results) : results[j].repaired}}

\* A check returned its result: the next one runs, or the report is returned.
Accept(repaired) ==
    /\ results' = Append(results, Result(repaired))
    /\ IF index = Len(Checks)
       THEN at' = "idle" /\ outcome' = "passed" /\ index' = index
       ELSE at' = "check" /\ outcome' = outcome /\ index' = index + 1
    /\ UNCHANGED <<refusal, emitted, told>>

\* A check raised StartupRefused: the report is attached, one event is emitted
\* and the refusal is raised again.
RefuseStart(name, repaired) ==
    /\ results' = Append(results, Result(repaired))
    /\ at' = "idle" /\ outcome' = "refused" /\ refusal' = name
    /\ emitted' = Append(emitted, name)
    /\ told' = IF repaired THEN told + 1 ELSE told
    /\ UNCHANGED index

\* Anything else a check raises goes through run() untouched.
Escape ==
    /\ at' = "idle" /\ outcome' = "escaped"
    /\ UNCHANGED <<index, results, refusal, emitted, told>>

RunCheck(kind) == at = "check" /\ Checks[index] = kind

Start ==
    /\ at = "idle"
    /\ at' = "check" /\ index' = 1 /\ todo' = {} /\ pending' = "none" /\ swept' = FALSE
    /\ results' = << >> /\ outcome' = "running" /\ refusal' = "none"
    /\ emitted' = << >> /\ changed' = {} /\ found' = store
    /\ UNCHANGED <<world, origin, store, told, kills>>

-----------------------------------------------------------------------------
(* private_directory_check *)

\* The link case first, then absence, then the wrong type.
RefuseUnlessARealDirectory ==
    /\ RunCheck("directory") /\ store.kind # "directory"
    /\ RefuseStart(IF store.kind = "absent" THEN "store_absent" ELSE "store_not_a_directory", FALSE)
    /\ UNCHANGED <<world, origin, store, todo, pending, swept, changed, found, kills>>

\* [mutant] is_dir alone is asked, which a link to a directory answers truthfully.
LinkIsADirectory ==
    /\ RunCheck("directory") /\ store.kind \in {"directory", "link"} /\ ~store.dirShared
    /\ Accept(FALSE)
    /\ UNCHANGED <<world, origin, store, todo, pending, swept, changed, found, kills>>

DirectoryAlreadyPrivate ==
    /\ RunCheck("directory") /\ store.kind = "directory" /\ ~store.dirShared
    /\ Accept(FALSE)
    /\ UNCHANGED <<world, origin, store, todo, pending, swept, changed, found, kills>>

\* The chmod of _make_private; an OSError from it is caught by nobody.
ChmodDirectory ==
    /\ RunCheck("directory") /\ store.kind = "directory" /\ store.dirShared
    /\ \/ /\ chmod[Directory] = "sticks"
          /\ store' = [store EXCEPT !.dirShared = FALSE]
          /\ changed' = changed \cup {"directory"}
          /\ at' = "read_back_mode"
          /\ UNCHANGED <<index, results, outcome, refusal, emitted, told>>
       \/ /\ chmod[Directory] = "lies"
          /\ at' = "read_back_mode"
          /\ UNCHANGED <<store, changed, index, results, outcome, refusal, emitted, told>>
       \/ /\ chmod[Directory] = "denied"
          /\ Escape
          /\ UNCHANGED <<store, changed>>
    /\ UNCHANGED <<world, origin, todo, pending, swept, found, kills>>

\* [mutants] The refusal forgets that it repaired; the repair is papered over.
ReadBackForgetsRepair ==
    /\ at = "read_back_mode"
    /\ IF store.dirShared THEN RefuseStart("mode_not_honoured", FALSE)
                          ELSE RefuseStart("store_shared", FALSE)
    /\ UNCHANGED <<world, origin, store, todo, pending, swept, changed, found, kills>>
ReadBackPapersOver ==
    /\ at = "read_back_mode"
    /\ IF store.dirShared THEN RefuseStart("mode_not_honoured", FALSE)
                          ELSE Accept(FALSE)
    /\ UNCHANGED <<world, origin, store, todo, pending, swept, changed, found, kills>>

ReadBackDirectory ==
    /\ at = "read_back_mode"
    /\ IF store.dirShared THEN RefuseStart("mode_not_honoured", FALSE)
                          ELSE RefuseStart("store_shared", TRUE)
    /\ UNCHANGED <<world, origin, store, todo, pending, swept, changed, found, kills>>

-----------------------------------------------------------------------------
(* private_files_check *)

\* [mutant] Refuses without repairing, so the next start refuses again.
LookAndRefuse ==
    /\ RunCheck("files")
    /\ IF store.shared = {} THEN Accept(FALSE)
       ELSE RefuseStart("store_file_shared", FALSE)
    /\ UNCHANGED <<world, origin, store, todo, pending, swept, changed, found, kills>>

\* shared_files lists the store first, and iterdir raises where there is no
\* directory: neither this check nor the runner catches that.
LookAtFiles ==
    /\ RunCheck("files")
    /\ \/ /\ ~Listable(store)
          /\ Escape
          /\ UNCHANGED todo
       \/ /\ Listable(store) /\ store.shared = {}
          /\ Accept(FALSE)
          /\ UNCHANGED todo
       \/ /\ Listable(store) /\ store.shared # {}
          /\ todo' = store.shared /\ at' = "repair_files"
          /\ UNCHANGED <<index, results, outcome, refusal, emitted, told>>
    /\ UNCHANGED <<world, origin, store, pending, swept, changed, found, kills>>

\* [mutant] The mode is inferred from a chmod that returned zero.
RepairWithoutReadBack(f) ==
    /\ at = "repair_files" /\ f \in todo /\ chmod[f] # "denied"
    /\ store' = [store EXCEPT !.shared = IF chmod[f] = "sticks" THEN @ \ {f} ELSE @]
    /\ changed' = changed \cup {"files"}
    /\ todo' = todo \ {f}
    /\ UNCHANGED <<at, index, results, outcome, refusal, emitted, told,
                   world, origin, pending, swept, found, kills>>

\* One entry of enforce_file_modes.  ModeNotHonoured and an OSError both leave
\* the check as they are: it catches neither.
RepairFile(f) ==
    /\ at = "repair_files" /\ f \in todo
    /\ \/ /\ chmod[f] = "sticks"
          /\ store' = [store EXCEPT !.shared = @ \ {f}]
          /\ changed' = changed \cup {"files"}
          /\ todo' = todo \ {f}
          /\ UNCHANGED <<at, index, results, outcome, refusal, emitted, told>>
       \/ /\ chmod[f] # "sticks"
          /\ Escape
          /\ UNCHANGED <<store, changed, todo>>
    /\ UNCHANGED <<world, origin, pending, swept, found, kills>>

RefuseSharedFiles ==
    /\ at = "repair_files" /\ todo = {}
    /\ RefuseStart("store_file_shared", TRUE)
    /\ UNCHANGED <<world, origin, store, todo, pending, swept, changed, found, kills>>

-----------------------------------------------------------------------------
(* write_path_check *)

\* The sweep runs before the try.  Where a removal may fail it may leave
\* something, and one that lets that failure out ends the check there, with
\* whatever it had removed by then gone.
Sweep ==
    /\ RunCheck("write_path")
    /\ \E removed, left \in BOOLEAN :
         /\ store.debris = (removed \/ left)
         /\ removed => sweep # "none"
         /\ left => sweep = "none" \/ removal = "may_fail"
         /\ store' = [store EXCEPT !.debris = left]
         /\ changed' = IF removed THEN changed \cup {"write_path"} ELSE changed
         /\ swept' = removed
         /\ \/ /\ left => sweep # "raises"
               /\ at' = "write"
               /\ UNCHANGED <<index, results, outcome, refusal, emitted, told>>
            \/ /\ sweep = "raises" /\ (left \/ ~Listable(store))
               /\ Escape
    /\ UNCHANGED <<world, origin, todo, pending, found, kills>>

\* The injected durable write.  A medium that will not flush may have
\* published the sentinel before it said so; where there is no directory the
\* write fails like any other.
WriteSentinel ==
    /\ at = "write"
    /\ \/ /\ Listable(store) /\ medium \in {"sound", "forgets"}
          /\ store' = [store EXCEPT !.sentinel = TRUE]
          /\ at' = "read_back_sentinel" /\ UNCHANGED pending
       \/ /\ Listable(store) /\ medium = "no_flush"
          /\ \E published \in BOOLEAN :
                store' = [store EXCEPT !.sentinel = @ \/ published]
          /\ at' = "clean_up" /\ pending' = "store_durability_unavailable"
       \/ /\ ~Listable(store) \/ medium = "full"
          /\ at' = "clean_up" /\ pending' = "store_write_path_broken"
          /\ UNCHANGED store
    /\ UNCHANGED <<world, origin, index, todo, swept, results, outcome, refusal, emitted,
                   changed, found, told, kills>>

ReadBackSentinel ==
    /\ at = "read_back_sentinel"
    /\ pending' = IF medium = "sound" THEN "none" ELSE "store_write_path_broken"
    /\ at' = "clean_up"
    /\ UNCHANGED <<world, origin, store, index, todo, swept, results, outcome, refusal, emitted,
                   changed, found, told, kills>>

\* The unlink of the sentinel: gone, or where a removal may fail as it was.
Unlink == \E left \in {FALSE, store.sentinel} :
    /\ left => removal = "may_fail"
    /\ store' = [store EXCEPT !.sentinel = left]

\* [mutants] The unlink is not suppressed and its OSError replaces what was on
\* its way out; the sentinel is removed on the way out of a success only.
CleanUpMayRaise ==
    /\ at = "clean_up"
    /\ Unlink
    /\ IF store'.sentinel THEN Escape
       ELSE IF pending = "none" THEN Accept(swept)
       ELSE RefuseStart(pending, FALSE)
    /\ UNCHANGED <<world, origin, todo, pending, swept, changed, found, kills>>
CleanUpAfterSuccess ==
    /\ at = "clean_up"
    /\ store' = [store EXCEPT !.sentinel = @ /\ pending # "none"]
    /\ IF pending = "none" THEN Accept(swept)
                           ELSE RefuseStart(pending, FALSE)
    /\ UNCHANGED <<world, origin, todo, pending, swept, changed, found, kills>>

\* The finally: unlink with its OSError suppressed, then what was on its way
\* out - a pass too, which then leaves the sentinel where it is.
CleanUp ==
    /\ at = "clean_up"
    /\ Unlink
    /\ IF pending = "none" THEN Accept(swept)
                           ELSE RefuseStart(pending, FALSE)
    /\ UNCHANGED <<world, origin, todo, pending, swept, changed, found, kills>>

-----------------------------------------------------------------------------
(* shared_secret_check *)

CheckSecret ==
    /\ RunCheck("secret")
    /\ \/ secret = "absent" /\ RefuseStart("token_absent", FALSE)
       \/ secret = "short"  /\ RefuseStart("token_too_short", FALSE)
       \/ secret = "good"   /\ Accept(FALSE)
    /\ UNCHANGED <<world, origin, store, todo, pending, swept, changed, found, kills>>

-----------------------------------------------------------------------------
\* The machine dies in the middle of a run; only the store survives.
Kill ==
    /\ at # "idle" /\ kills < MaxKills
    /\ kills' = kills + 1
    /\ at' = "idle" /\ outcome' = "killed"
    /\ UNCHANGED <<world, origin, store, index, todo, pending, swept, results, refusal, emitted,
                   changed, found, told>>

ProbeStep ==
    \/ RefuseUnlessARealDirectory \/ DirectoryAlreadyPrivate
    \/ ChmodDirectory \/ ReadBackDirectory
    \/ LookAtFiles \/ (\E f \in Files : RepairFile(f)) \/ RefuseSharedFiles
    \/ Sweep \/ WriteSentinel \/ ReadBackSentinel \/ CleanUp
    \/ CheckSecret

Next == Start \/ ProbeStep \/ Kill

\* A run goes on to its end, and whoever started it starts it again.
Spec == Init /\ [][Next]_probeVars /\ WF_probeVars(ProbeStep) /\ WF_probeVars(Start)

-----------------------------------------------------------------------------
Ended == at = "idle" /\ outcome \in {"passed", "refused", "escaped"}

TypeOK ==
    /\ chmod \in [Entries -> {"sticks", "lies", "denied"}]
    /\ medium \in Media /\ removal \in Removals /\ sweep \in Sweeps
    /\ secret \in {"absent", "short", "good"}
    /\ store \in Stores /\ found \in Stores /\ origin \in Stores
    /\ at \in {"idle", "check", "read_back_mode", "repair_files", "write",
               "read_back_sentinel", "clean_up"}
    /\ index \in 1..Len(Checks)
    /\ todo \subseteq Files
    /\ pending \in Refusals \cup {"none"} /\ swept \in BOOLEAN
    /\ results \in Seq([check : Kinds, repaired : BOOLEAN])
    /\ outcome \in {"none", "running", "passed", "refused", "escaped", "killed"}
    /\ refusal \in Refusals \cup {"none"}
    /\ emitted \in Seq(Refusals)
    /\ changed \subseteq Kinds
    /\ told \in Nat /\ kills \in 0..MaxKills

\* What each kind of check says of the store the run found: "none" when it
\* passes, "escaped" when something other than StartupRefused leaves it.
DirectoryFault ==
    CASE found.kind = "absent" -> "store_absent"
      [] found.kind \in {"link", "file"} -> "store_not_a_directory"
      [] found.kind = "directory" /\ ~found.dirShared -> "none"
      [] OTHER -> [sticks |-> "store_shared", lies |-> "mode_not_honoured",
                   denied |-> "escaped"][chmod[Directory]]

FilesFault ==
    CASE ~Listable(found) -> "escaped"
      [] Listable(found) /\ found.shared = {} -> "none"
      [] Listable(found) /\ \E f \in found.shared : chmod[f] # "sticks" -> "escaped"
      [] OTHER -> "store_file_shared"

WriteFault ==
    CASE ~Listable(found) -> "store_write_path_broken"
      [] Listable(found) /\ medium = "sound" -> "none"
      [] Listable(found) /\ medium = "no_flush" -> "store_durability_unavailable"
      [] OTHER -> "store_write_path_broken"

SecretFault == [absent |-> "token_absent", short |-> "token_too_short", good |-> "none"][secret]

\* A sweep that lets its failures out has something to fail at.
SweepMayRaise ==
    sweep = "raises" /\ (~Listable(found) \/ (found.debris /\ removal = "may_fail"))

FaultsOf(kind) ==
    {[directory |-> DirectoryFault, files |-> FilesFault,
      write_path |-> WriteFault, secret |-> SecretFault][kind]}
        \cup (IF kind = "write_path" /\ SweepMayRaise THEN {"escaped"} ELSE {})

Deserved(fault) ==
    IF fault = "escaped"
    THEN outcome = "escaped" /\ emitted = << >>
    ELSE outcome = "refused" /\ refusal = fault /\ emitted = <<fault>>

\* Fail-fast: whatever the checks repaired, swept and wrote on the way, a run
\* passes when no check has a fault, and otherwise ends in the verdict of its
\* first faulty check on the store the run found, under that check's own name,
\* with one event naming it.  A faulty clean-up never replaces it, and a
\* machine with three faults reports one.
VerdictIsTheFirstFault ==
    Ended =>
        \/ /\ outcome = "passed" /\ emitted = << >>
           /\ \A i \in 1..Len(Checks) : "none" \in FaultsOf(Checks[i])
        \/ \E i \in 1..Len(Checks) :
             /\ \A j \in 1..(i - 1) : "none" \in FaultsOf(Checks[j])
             /\ \E fault \in FaultsOf(Checks[i]) \ {"none"} : Deserved(fault)

Injected(kind) == \E i \in 1..Len(Checks) : Checks[i] = kind

\* What serving may rely on: after a pass the store is a real directory, it and
\* every file in it are private and a write goes through it; and where files can
\* be removed, nothing of the probe or of an interrupted write is left behind.
PassMeansSound ==
    at = "idle" /\ outcome = "passed" =>
        /\ Injected("directory") => store.kind = "directory" /\ ~store.dirShared
        /\ Injected("files") => Listable(store) /\ store.shared = {}
        /\ Injected("write_path") =>
             /\ Listable(store) /\ medium = "sound"
             /\ removal = "works" => ~store.sentinel /\ (sweep # "none" => ~store.debris)
        /\ Injected("secret") => secret = "good"

\* "So the next start is safe": a store refused for being shared is private
\* by the time the refusal is raised.
RepairedBeforeRefused ==
    at = "idle" /\ outcome = "refused" =>
        /\ refusal = "store_shared" => ~store.dirShared
        /\ refusal = "store_file_shared" => store.shared = {}

Modes == {"directory", "files"}

\* The report is the declared delta: a run that passed or refused reports a
\* mode repair exactly when it made one, never passes after making one, and
\* when it passed reports the sweep exactly when it swept.
ReportIsTheDelta ==
    at = "idle" =>
        /\ outcome \in {"passed", "refused"} => Reported \cap Modes = changed \cap Modes
        /\ outcome = "passed" => Reported = changed /\ changed \cap Modes = {}

\* Across restarts and crashes each kind of sharing is refused at most once,
\* so a store with no other fault costs two starts; and when the machine did
\* not die, a store that passes has had every kind refused.
EachSharingIsToldOnce ==
    LET shares == (IF origin.dirShared THEN 1 ELSE 0)
                    + (IF origin.shared = {} THEN 0 ELSE 1)
    IN  /\ told <= shares
        /\ at = "idle" /\ outcome = "passed" /\ kills = 0
              /\ Injected("directory") /\ Injected("files") => told = shares

\* However its check ends - a write, a flush or a read-back that failed, or a
\* pass - the sentinel outlives a run only on a machine that died, or on a store
\* whose files may refuse to be removed.
SentinelIsNotLeft ==
    at = "idle" /\ store.sentinel => kills > 0 \/ removal = "may_fail"

\* A store whose only faults are modes the machine can change ends up passing,
\* however often it was refused or killed on the way.
Repairable ==
    /\ store.kind = "directory" /\ medium = "sound" /\ secret = "good"
    /\ sweep = "raises" => removal = "works"
    /\ \A e \in Entries : chmod[e] = "sticks"

RepairableStoreIsServed == Repairable ~> (at = "idle" /\ outcome = "passed")

\* run(): "a repair made on the way to a refusal is not lost".
RepairIsNotLost ==
    Ended /\ changed \cap Modes # {} => outcome = "refused"

\* ProbeCheckResult: "the sweep IS part of the check's declared delta".
SweepIsNotLost ==
    Ended /\ outcome # "escaped" /\ "write_path" \in changed => "write_path" \in Reported
=============================================================================
