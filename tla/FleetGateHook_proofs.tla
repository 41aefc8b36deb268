------------------------- MODULE FleetGateHook_proofs -----------------------
(* For any number of deploys during a run: the hook's silence has a reason,  *)
(* absence does not block, and a box left alone runs the gate it is armed    *)
(* with.                                                                     *)
EXTENDS FleetGateHook, TLAPS

\* Until the script ends it has become nothing.
UndecidedInv == at # "done" => ran = << >> /\ exitStatus = "none"

\* What was found where the script looked, and that nobody moved it meanwhile.
WitnessInv ==
    /\ at \in {"look_executable", "exec"} =>
         /\ witnessed \in Exists /\ dir \in Dirs
         /\ deploys = 0 => witnessed = dirs[dir]
    /\ at = "exec" /\ deploys = 0 => witnessed \in Executable
    /\ at \in {"take_stage", "ask_git"} => dir = "none"
    /\ at = "fall_back" => dir = (IF hooksPath \in {"absolute", "tilde"} THEN "named" ELSE "none")
    /\ at = "look" /\ dir = "fallback" /\ deploys = 0 => dirs["fallback"] # "no_directory"

\* The directory of a box left alone is the one it is armed with, or none when
\* that does not exist.
ArmedInv ==
    /\ at \in {"look", "look_executable", "exec"} /\ deploys = 0 /\ home =>
         \/ dir = Armed
         \/ dir = "none" /\ Armed = "fallback" /\ dirs["fallback"] = "no_directory"

IInv == /\ TypeOK /\ UndecidedInv /\ WitnessInv /\ ArmedInv
        /\ SilenceHasAReason /\ AbsenceNeverBlocks /\ ArmedGateRuns

LEMMA InitIsGood == Init => IInv
  <1> SUFFICES ASSUME Init PROVE IInv
      OBVIOUS
  <1>1. TypeOK
    <2>1. ran \in Seq(Dirs) /\ Len(ran) <= 1
      BY DEF Init
    <2>2. dirs \in [Dirs -> Contents] /\ deploys \in 0..MaxDeploys
      BY DeploysAssumption DEF Init
    <2> QED
      BY <2>1, <2>2 DEF Init, TypeOK
  <1>2. UndecidedInv /\ WitnessInv /\ ArmedInv
    BY DEF Init, UndecidedInv, WitnessInv, ArmedInv
  <1>3. SilenceHasAReason /\ AbsenceNeverBlocks /\ ArmedGateRuns
    BY DEF Init, SilenceHasAReason, AbsenceNeverBlocks, ArmedGateRuns, Done
  <1> QED
    BY <1>1, <1>2, <1>3 DEF IInv

\* Every step of the script keeps the types; it becomes one gate at most.
LEMMA TypeStep == TypeOK /\ UndecidedInv /\ WitnessInv /\ [Next]_vars => TypeOK'
  <1> SUFFICES ASSUME TypeOK, UndecidedInv, WitnessInv, [Next]_vars PROVE TypeOK'
      OBVIOUS
  <1> USE DEF TypeOK, End, asked
  <1>0. CASE TakeStage
    BY <1>0 DEF TakeStage, Unbound
  <1>1. CASE AskGit
    BY <1>1 DEF AskGit, Unbound, Dirs
  <1>2. CASE FallBack
    BY <1>2 DEF FallBack, Unbound, Dirs
  <1>3. CASE ReportAbsence
    BY <1>3 DEF ReportAbsence
  <1>4. CASE LookForHook
    BY <1>4 DEF LookForHook
  <1>5. CASE LookExecutable
    BY <1>5 DEF LookExecutable
  <1>6. CASE Exec
    <2>1. CASE dirs[dir] = "executable_hook"
      <3>1. ran' = <<dir>> /\ exitStatus' = verdict
        BY <1>6, <2>1 DEF Exec, UndecidedInv
      <3>2. dir \in Dirs
        BY <1>6 DEF Exec, WitnessInv
      <3> QED
        BY <1>6, <2>1, <3>1, <3>2 DEF Exec
    <2>2. CASE dirs[dir] # "executable_hook"
      BY <1>6, <2>2 DEF Exec
    <2> QED
      BY <2>1, <2>2
  <1>7. CASE Deploy
    BY <1>7, DeploysAssumption DEF Deploy
  <1>8. CASE UNCHANGED vars
    BY <1>8 DEF vars
  <1> QED
    BY <1>0, <1>1, <1>2, <1>3, <1>4, <1>5, <1>6, <1>7, <1>8 DEF Next, Script

-----------------------------------------------------------------------------
\* One question of the script at a time: what it asks, and what a deploy may
\* have changed by then.
LEMMA PlacesKept ==
    TypeOK /\ UndecidedInv /\ WitnessInv /\ ArmedInv /\ [Next]_vars
      => (UndecidedInv /\ WitnessInv /\ ArmedInv)'
  <1> SUFFICES ASSUME TypeOK, UndecidedInv, WitnessInv, ArmedInv, [Next]_vars
               PROVE  (UndecidedInv /\ WitnessInv /\ ArmedInv)'
      OBVIOUS
  <1> USE DEF UndecidedInv, WitnessInv, ArmedInv, Armed, End, asked
  <1>0. CASE TakeStage
    BY <1>0 DEF TakeStage, Unbound
  <1>1. CASE AskGit
    BY <1>1 DEF AskGit, Unbound
  <1>2. CASE FallBack
    BY <1>2 DEF FallBack, Unbound, TypeOK, Dirs
  <1>3. CASE ReportAbsence
    BY <1>3 DEF ReportAbsence
  <1>4. CASE LookForHook
    <2>1. dir \in Dirs /\ dirs[dir] \in Contents
      BY <1>4 DEF LookForHook, TypeOK
    <2>2. \/ at' = "done"
          \/ /\ at' = "look_executable" /\ exitStatus' = exitStatus
             /\ dirs[dir] \in Exists
      BY <1>4, <2>1 DEF LookForHook
    <2> QED
      BY <1>4, <2>1, <2>2 DEF LookForHook
  <1>5. CASE LookExecutable
    BY <1>5 DEF LookExecutable, Executable, Exists
  <1>6. CASE Exec
    BY <1>6 DEF Exec
  <1>7. CASE Deploy
    <2>1. deploys' # 0
      BY <1>7 DEF Deploy, TypeOK
    <2> QED
      BY <1>7, <2>1 DEF Deploy
  <1>8. CASE UNCHANGED vars
    BY <1>8 DEF vars
  <1> QED
    BY <1>0, <1>1, <1>2, <1>3, <1>4, <1>5, <1>6, <1>7, <1>8 DEF Next, Script

\* The three ends of the script that matter, from where it was.
LEMMA EndsKept ==
    IInv /\ [Next]_vars => (SilenceHasAReason /\ AbsenceNeverBlocks /\ ArmedGateRuns)'
  <1> SUFFICES ASSUME IInv, [Next]_vars
               PROVE  (SilenceHasAReason /\ AbsenceNeverBlocks /\ ArmedGateRuns)'
      OBVIOUS
  <1> USE DEF IInv, SilenceHasAReason, AbsenceNeverBlocks, ArmedGateRuns, Done, Armed, End, asked
  <1>0. CASE TakeStage
    BY <1>0 DEF TakeStage, Unbound, Misused
  <1>1. CASE AskGit
    BY <1>1 DEF AskGit, Unbound, Misused
  <1>2. CASE FallBack
    BY <1>2 DEF FallBack, Unbound, Misused, WitnessInv
  <1>3. CASE ReportAbsence
    BY <1>3 DEF ReportAbsence, ArmedInv, UndecidedInv
  <1>4. CASE LookForHook
    BY <1>4 DEF LookForHook, ArmedInv, WitnessInv, UndecidedInv, TypeOK, Exists, Contents
  <1>5. CASE LookExecutable
    BY <1>5 DEF LookExecutable, ArmedInv, WitnessInv, UndecidedInv, Executable, Exists
  <1>6. CASE Exec
    <2>1. dir \in Dirs /\ dir # "none" /\ witnessed \in Exists
      BY <1>6 DEF Exec, WitnessInv, Dirs
    <2>2. CASE dirs[dir] = "executable_hook"
      <3>1. ran' = <<dir>> /\ ran' # << >> /\ exitStatus' = verdict /\ verdict' = verdict
        BY <1>6, <2>2 DEF Exec, UndecidedInv
      <3>2. verdict \in {"passed", "failed"}
        BY DEF TypeOK
      <3>3. (SilenceHasAReason /\ AbsenceNeverBlocks)'
        BY <3>1, <3>2
      <3>4. deploys = 0 /\ home => dir = Armed
        BY <1>6, <2>1 DEF Exec, ArmedInv
      <3>5. ArmedGateRuns'
        BY <1>6, <2>2, <3>1, <3>4 DEF Exec
      <3> QED
        BY <3>3, <3>5
    <2>3. CASE dirs[dir] # "executable_hook"
      <3>1. deploys # 0 \/ (dirs[dir] = "broken_hook" /\ witnessed = "broken_hook")
        BY <1>6, <2>3 DEF Exec, WitnessInv, Executable
      <3>2. deploys \in Nat
        BY DeploysAssumption DEF TypeOK
      <3>3. exitStatus' = "error" /\ said' = TRUE /\ ran' = << >>
        BY <1>6, <2>3 DEF Exec, UndecidedInv
      <3>4. (SilenceHasAReason /\ AbsenceNeverBlocks)'
        BY <1>6, <2>1, <3>1, <3>2, <3>3 DEF Exec
      <3>5. ArmedGateRuns'
        BY <1>6, <2>1, <3>1, <3>3 DEF Exec, ArmedInv
      <3> QED
        BY <3>4, <3>5
    <2> QED
      BY <2>2, <2>3
  <1>7. CASE Deploy
    <2>1. at # "done" /\ at' = at
      BY <1>7 DEF Deploy
    <2> QED
      BY <2>1
  <1>8. CASE UNCHANGED vars
    BY <1>8 DEF vars, Misused
  <1> QED
    BY <1>0, <1>1, <1>2, <1>3, <1>4, <1>5, <1>6, <1>7, <1>8 DEF Next, Script

LEMMA IInvCorrect == Spec => []IInv
  <1>1. IInv /\ [Next]_vars => IInv'
    BY TypeStep, PlacesKept, EndsKept DEF IInv
  <1> QED
    BY InitIsGood, <1>1, PTL DEF Spec

\* One run of the hook is always well typed, and becomes one gate at most.
THEOREM TypeCorrect == Spec => []TypeOK
  <1>1. IInv => TypeOK
    BY DEF IInv
  <1> QED
    BY <1>1, IInvCorrect, PTL

\* Whatever is deployed while the script runs, success without a word means that
\* the stage is not gated, that its link leads nowhere, or that the directory git
\* named is not there.
THEOREM SilenceExplained == Spec => []SilenceHasAReason
  <1>1. IInv => SilenceHasAReason
    BY DEF IInv
  <1> QED
    BY <1>1, IInvCorrect, PTL

\* Whatever is deployed while the script runs, what blocks a commit is a gate's
\* verdict, a gate the script saw and could not execute, or a call without the
\* stage or the HOME the script needs.
THEOREM NeverBlocks == Spec => []AbsenceNeverBlocks
  <1>1. IInv => AbsenceNeverBlocks
    BY DEF IInv
  <1> QED
    BY <1>1, IInvCorrect, PTL

\* A box left alone runs the gate it is armed with exactly when that can run.
THEOREM GateRuns == Spec => []ArmedGateRuns
  <1>1. IInv => ArmedGateRuns
    BY DEF IInv
  <1> QED
    BY <1>1, IInvCorrect, PTL
=============================================================================
