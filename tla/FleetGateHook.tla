---------------------------- MODULE FleetGateHook ---------------------------
(***************************************************************************)
(* hooks/fleet-gate-hook: one run of the hook entry that looks for the     *)
(* fleet's gate and becomes it.                                            *)
(*                                                                         *)
(* The script asks git, the environment and the filesystem one question at *)
(* a time, and a deploy may change the hook directories between any two of *)
(* them.  A directory is what it holds for the stage of this run; "named"  *)
(* is the one the global core.hooksPath names, whichever way it spells it. *)
(***************************************************************************)
EXTENDS Naturals, Sequences

CONSTANT MaxDeploys    \* bound: changes to the directories during one run

ASSUME DeploysAssumption == MaxDeploys \in Nat

Dirs     == {"named", "fallback"}

\* For the stage of this run: a link to nothing, a hook without its executable
\* bit, one that has it and still cannot be executed (a directory, a script whose
\* interpreter is missing), and one that can.
Contents == {"no_directory", "no_hook", "dangling_hook", "plain_hook", "broken_hook", "executable_hook"}

\* The two questions a shell can ask of them: [ -e ] and [ -x ].
Exists     == {"plain_hook", "broken_hook", "executable_hook"}
Executable == {"broken_hook", "executable_hook"}

VARIABLES
    stage,      \* whether a stage was given
    hooksPath,  \* how git spells the global core.hooksPath it answers with
    home, xdg,  \* whether HOME and XDG_CONFIG_HOME are set
    verdict,    \* how the gate ends when it runs
    dirs,       \* what the directories hold
    at, dir,    \* where the script is, and its global_dir
    said,       \* it said something a person can see
    ran,        \* the gates it became
    exitStatus,
    witnessed,  \* history: what the script found where it looked for the hook
    deploys

asked == <<stage, hooksPath, home, xdg, verdict>>
vars  == <<asked, dirs, at, dir, said, ran, exitStatus, witnessed, deploys>>

Init ==
    /\ stage \in BOOLEAN
    /\ hooksPath \in {"unset", "absolute", "tilde", "relative"}
    /\ home \in BOOLEAN /\ xdg \in BOOLEAN
    /\ verdict \in {"passed", "failed"}
    /\ dirs \in [Dirs -> Contents]
    /\ at = "take_stage" /\ dir = "none" /\ said = FALSE /\ ran = << >> /\ exitStatus = "none"
    /\ witnessed = "nothing" /\ deploys = 0

End(status) == at' = "done" /\ exitStatus' = status

\* set -u and :?: an unset variable ends the script, and the shell says which.
Unbound ==
    /\ End("error") /\ said' = TRUE
    /\ UNCHANGED <<asked, dirs, dir, ran, witnessed, deploys>>

TakeStage ==
    /\ at = "take_stage"
    /\ IF stage
       THEN at' = "ask_git" /\ UNCHANGED <<asked, dirs, dir, said, ran, exitStatus, witnessed, deploys>>
       ELSE Unbound

\* [mutant] A leading tilde is read raw, and so is not absolute.
TildeReadRaw ==
    /\ at = "ask_git"
    /\ at' = "fall_back"
    /\ dir' = IF hooksPath = "absolute" THEN "named" ELSE "none"
    /\ said' = (hooksPath \in {"relative", "tilde"})
    /\ UNCHANGED <<asked, dirs, ran, exitStatus, witnessed, deploys>>

\* git config --global, the tilde expanded as git does, a relative value ignored.
AskGit ==
    /\ at = "ask_git"
    /\ IF hooksPath = "tilde" /\ ~home
       THEN Unbound
       ELSE /\ at' = "fall_back"
            /\ dir' = IF hooksPath \in {"absolute", "tilde"} THEN "named" ELSE "none"
            /\ said' = (hooksPath = "relative")
            /\ UNCHANGED <<asked, dirs, ran, exitStatus, witnessed, deploys>>

\* [mutant] The fallback is taken without looking.
FallBackBlindly ==
    /\ at = "fall_back"
    /\ at' = "look"
    /\ dir' = IF dir = "none" THEN "fallback" ELSE dir
    /\ UNCHANGED <<asked, dirs, said, ran, exitStatus, witnessed, deploys>>

\* git offers no value: the directory itself, only when it exists.
FallBack ==
    /\ at = "fall_back"
    /\ IF dir = "none" /\ ~xdg /\ ~home
       THEN Unbound
       ELSE /\ at' = "look"
            /\ dir' = IF dir = "none" /\ dirs["fallback"] # "no_directory"
                      THEN "fallback" ELSE dir
            /\ UNCHANGED <<asked, dirs, said, ran, exitStatus, witnessed, deploys>>

ReportAbsence ==
    /\ at = "look" /\ dir = "none"
    /\ End("ok") /\ said' = TRUE
    /\ UNCHANGED <<asked, dirs, dir, ran, witnessed, deploys>>

\* A directory with no hook for this stage is normal, and silent; so is a link
\* whose target is gone.
LookForHook ==
    /\ at = "look" /\ dir # "none"
    /\ witnessed' = dirs[dir]
    /\ IF dirs[dir] \notin Exists
       THEN End("ok")
       ELSE at' = "look_executable" /\ exitStatus' = exitStatus
    /\ UNCHANGED <<asked, dirs, dir, said, ran, deploys>>

\* [mutant] A hook that cannot run blocks the commit.
RefusePlainHook ==
    /\ at = "look_executable"
    /\ IF dirs[dir] \in Executable
       THEN at' = "exec" /\ UNCHANGED <<exitStatus, said>>
       ELSE End("failed") /\ said' = TRUE
    /\ UNCHANGED <<asked, dirs, dir, ran, witnessed, deploys>>

LookExecutable ==
    /\ at = "look_executable"
    /\ IF dirs[dir] \in Executable
       THEN at' = "exec" /\ UNCHANGED <<exitStatus, said>>
       ELSE End("ok") /\ said' = TRUE
    /\ UNCHANGED <<asked, dirs, dir, ran, witnessed, deploys>>

\* exec: the gate's status is this hook's.  A hook that cannot be executed, or
\* went away meanwhile, is an error of the shell (126 or 127), and a loud one.
Exec ==
    /\ at = "exec"
    /\ IF dirs[dir] = "executable_hook"
       THEN End(verdict) /\ ran' = Append(ran, dir) /\ said' = said
       ELSE End("error") /\ said' = TRUE /\ ran' = ran
    /\ UNCHANGED <<asked, dirs, dir, witnessed, deploys>>

\* A deploy, or its undoing, in the middle of the run.
Deploy ==
    /\ at # "done" /\ deploys < MaxDeploys
    /\ \E d \in Dirs, c \in Contents :
          dirs' = [dirs EXCEPT ![d] = c]
    /\ deploys' = deploys + 1
    /\ UNCHANGED <<asked, at, dir, said, ran, exitStatus, witnessed>>

Script == TakeStage \/ AskGit \/ FallBack \/ ReportAbsence \/ LookForHook \/ LookExecutable \/ Exec

Next == Script \/ Deploy

Spec == Init /\ [][Next]_vars

-----------------------------------------------------------------------------
TypeOK ==
    /\ stage \in BOOLEAN
    /\ hooksPath \in {"unset", "absolute", "tilde", "relative"}
    /\ home \in BOOLEAN /\ xdg \in BOOLEAN /\ verdict \in {"passed", "failed"}
    /\ dirs \in [Dirs -> Contents]
    /\ at \in {"take_stage", "ask_git", "fall_back", "look", "look_executable", "exec", "done"}
    /\ dir \in Dirs \cup {"none"} /\ said \in BOOLEAN
    /\ ran \in Seq(Dirs) /\ Len(ran) <= 1
    /\ exitStatus \in {"none", "ok", "passed", "failed", "error"}
    /\ witnessed \in Contents \cup {"nothing"}
    /\ deploys \in 0..MaxDeploys

Done(status) == at = "done" /\ exitStatus = status

\* A silent success of the script's own is a stage that is not gated, or whose
\* link leads nowhere: in a directory the script found for itself it is never the
\* absence of the gate, unless that was undeployed between the two looks.
SilenceHasAReason ==
    Done("ok") /\ ~said =>
        /\ witnessed \notin Exists \cup {"nothing"}
        /\ dir = "fallback" /\ deploys = 0 => witnessed # "no_directory"
        /\ ran = << >>

\* The script was called without a stage, or needed a HOME it does not have.
Misused == ~stage \/ (~home /\ (hooksPath = "tilde" \/ (~xdg /\ hooksPath # "absolute")))

\* "Absence is LOUD, and never blocks": a commit is refused by a gate that ran and
\* refused it; by a gate that was there and could not be executed, as it stood or
\* because it was changed after the script had seen it; or by a shell that was
\* not given what the script needs - whatever is or is not deployed before.
AbsenceNeverBlocks ==
    /\ Done("failed") => ran # << >> /\ verdict = "failed"
    /\ Done("error") =>
         \/ Misused
         \/ witnessed = "broken_hook" /\ said
         \/ deploys > 0 /\ witnessed \in Exists /\ said

\* The directory whose gate is to run, from the box alone.
Armed == IF hooksPath \in {"absolute", "tilde"} THEN "named" ELSE "fallback"

\* An armed box gates: with nothing deployed meanwhile the gate of the directory
\* that core.hooksPath names, absolutely or by a tilde, and otherwise of the
\* fallback, runs exactly when it can be executed, and no other does.  Its verdict
\* is the verdict on the commit, and only a gate that is broken refuses unrun.
ArmedGateRuns ==
    at = "done" /\ deploys = 0 /\ stage /\ home =>
        IF dirs[Armed] = "executable_hook"
        THEN ran = <<Armed>> /\ exitStatus = verdict
        ELSE ran = << >> /\ (exitStatus = "error" <=> dirs[Armed] = "broken_hook")

\* "A gate that stops running without saying so is the failure class this fleet
\* refuses": no silent success without a gate's directory.
AbsenceIsLoud == Done("ok") /\ ~said => witnessed # "no_directory"
=============================================================================
