------------------------ MODULE ServiceUnit_proofs ------------------------
(* Proofs about ServiceUnit and about the probe it extends, for every list  *)
(* of checks, every set of files, every start limit and any number of       *)
(* crashes and upsets.  The probe's come first: the unit's steps are the    *)
(* probe's, or leave it alone, and its invariant builds on the probe's.     *)
EXTENDS ServiceUnit, TLAPS

-----------------------------------------------------------------------------
(* The probe. *)

(* What a check that passed has established, and no later check undoes; a  *)
(* further write path check may have its own sentinel out meanwhile.       *)
Holds(kind) ==
    /\ kind = "directory" => store.kind = "directory" /\ ~store.dirShared
    /\ kind = "files" => Listable(store) /\ store.shared = {}
    /\ kind = "write_path" =>
         /\ Listable(store) /\ medium = "sound"
         /\ removal = "works" =>
              /\ at \in {"read_back_sentinel", "clean_up"} \/ ~store.sentinel
              /\ sweep # "none" => ~store.debris
    /\ kind = "secret" => secret = "good"

(* Where a run is determines which check it is in and what that check has  *)
(* found out so far.                                                       *)
PositionInv ==
    /\ at # "idle" => outcome = "running"
    /\ at = "idle" => outcome # "running"
    /\ at = "read_back_mode" => Checks[index] = "directory"
    /\ at = "repair_files" => Checks[index] = "files" /\ todo = store.shared /\ Listable(store)
    /\ at \in {"write", "read_back_sentinel", "clean_up"} =>
         /\ Checks[index] = "write_path"
         /\ removal = "works" /\ sweep # "none" => ~store.debris
    /\ at = "read_back_sentinel" => Listable(store)
    /\ at = "clean_up" /\ pending = "none" => Listable(store) /\ medium = "sound"
    /\ pending \in {"none", "store_durability_unavailable", "store_write_path_broken"}

(* The checks before the current one, or all of them after a pass, hold.   *)
ProgressInv ==
    /\ at # "idle" => \A i \in 1..(index - 1) : Holds(Checks[i])
    /\ at = "idle" /\ outcome = "passed" => \A i \in 1..Len(Checks) : Holds(Checks[i])

IInv == PositionInv /\ ProgressInv /\ RepairedBeforeRefused

-----------------------------------------------------------------------------
(* The part of the state the runner keeps, and the part a check changes.   *)
RunnerOK ==
    /\ at \in {"idle", "check", "read_back_mode", "repair_files", "write",
              "read_back_sentinel", "clean_up"}
    /\ index \in 1..Len(Checks)
    /\ results \in Seq([check : Kinds, repaired : BOOLEAN])
    /\ outcome \in {"none", "running", "passed", "refused", "escaped", "killed"}
    /\ refusal \in Refusals \cup {"none"}
    /\ emitted \in Seq(Refusals)
    /\ told \in Nat

WorldOK ==
    /\ chmod \in [Entries -> {"sticks", "lies", "denied"}]
    /\ medium \in Media /\ removal \in Removals /\ sweep \in Sweeps
    /\ secret \in {"absent", "short", "good"}
    /\ found \in Stores /\ origin \in Stores
    /\ kills \in 0..MaxKills

CheckOK ==
    /\ store \in Stores /\ todo \subseteq Files /\ changed \subseteq Kinds
    /\ pending \in Refusals \cup {"none"} /\ swept \in BOOLEAN

LEMMA Parts == TypeOK <=> RunnerOK /\ WorldOK /\ CheckOK
BY DEF TypeOK, RunnerOK, WorldOK, CheckOK

LEMMA IndexedKind == TypeOK => Checks[index] \in Kinds
BY ChecksAssumption DEF TypeOK

(* Whichever way a check ends, the runner's state stays typed.             *)
LEMMA AcceptTyped ==
    ASSUME TypeOK, NEW r \in BOOLEAN, Accept(r)
    PROVE  RunnerOK'
<1>1. Result(r) \in [check : Kinds, repaired : BOOLEAN]
  BY IndexedKind DEF Result
<1>2. results' \in Seq([check : Kinds, repaired : BOOLEAN])
  BY <1>1 DEF Accept, TypeOK
<1>3. Len(Checks) \in Nat /\ index \in 1..Len(Checks)
  BY ChecksAssumption DEF TypeOK
<1>4. QED BY <1>2, <1>3 DEF Accept, TypeOK, RunnerOK

LEMMA RefuseTyped ==
    ASSUME TypeOK, NEW name \in Refusals, NEW r \in BOOLEAN, RefuseStart(name, r)
    PROVE  RunnerOK'
<1>1. Result(r) \in [check : Kinds, repaired : BOOLEAN]
  BY IndexedKind DEF Result
<1>2. results' \in Seq([check : Kinds, repaired : BOOLEAN])
  BY <1>1 DEF RefuseStart, TypeOK
<1>3. emitted' \in Seq(Refusals) BY DEF RefuseStart, TypeOK
<1>4. QED BY <1>2, <1>3 DEF RefuseStart, TypeOK, RunnerOK

LEMMA EscapeTyped == TypeOK /\ Escape => RunnerOK'
BY DEF Escape, TypeOK, RunnerOK

LEMMA RunnerKept ==
    ASSUME TypeOK, UNCHANGED <<index, results, outcome, refusal, emitted, told>>,
           at' \in {"check", "read_back_mode", "repair_files", "write",
                   "read_back_sentinel", "clean_up"}
    PROVE  RunnerOK'
BY DEF TypeOK, RunnerOK

LEMMA WorldKept ==
    ASSUME TypeOK, UNCHANGED <<world, origin>>, UNCHANGED found, kills' \in 0..MaxKills
    PROVE  WorldOK'
BY DEF TypeOK, WorldOK, world

(* The changes the checks make to a store leave a store. *)
LEMMA StoreChanges ==
    ASSUME TypeOK
    PROVE  /\ [store EXCEPT !.dirShared = FALSE] \in Stores
           /\ \A b \in BOOLEAN : [store EXCEPT !.debris = b] \in Stores
           /\ \A f \in Files : [store EXCEPT !.shared = @ \ {f}] \in Stores
           /\ \A b \in BOOLEAN : [store EXCEPT !.sentinel = b] \in Stores
           /\ (store.sentinel \in BOOLEAN /\ store.shared \subseteq Files)
BY DEF TypeOK, Stores

(* What the sweep does: it removes or leaves the debris, and lets a failure *)
(* out only where there is one.                                             *)
LEMMA SweepEffect ==
    ASSUME TypeOK, Sweep
    PROVE  /\ at = "check" /\ Checks[index] = "write_path" /\ store' \in Stores
           /\ UNCHANGED <<world, origin, todo, pending, found, kills>>
           /\ store'.kind = store.kind /\ store'.dirShared = store.dirShared
           /\ store'.shared = store.shared /\ store'.sentinel = store.sentinel
           /\ store'.debris => store.debris /\ (sweep = "none" \/ removal = "may_fail")
           /\ swept' \in BOOLEAN
           /\ changed' = IF swept' THEN changed \cup {"write_path"} ELSE changed
           /\ \/ at' = "write" /\ UNCHANGED <<index, results, outcome, refusal, emitted, told>>
              \/ Escape /\ sweep = "raises" /\ (store'.debris \/ ~Listable(store))
<1>1. PICK removed \in BOOLEAN, left \in BOOLEAN :
         /\ store.debris = (removed \/ left)
         /\ removed => sweep # "none"
         /\ left => sweep = "none" \/ removal = "may_fail"
         /\ store' = [store EXCEPT !.debris = left]
         /\ changed' = IF removed THEN changed \cup {"write_path"} ELSE changed
         /\ swept' = removed
         /\ \/ /\ left => sweep # "raises"
               /\ at' = "write"
               /\ UNCHANGED <<index, results, outcome, refusal, emitted, told>>
            \/ /\ sweep = "raises" /\ (left \/ ~Listable(store))
               /\ Escape
  BY DEF Sweep
<1>2. store \in Stores /\ store' \in Stores BY <1>1, StoreChanges DEF TypeOK
<1>3. /\ store'.kind = store.kind /\ store'.dirShared = store.dirShared
      /\ store'.shared = store.shared /\ store'.sentinel = store.sentinel
      /\ store'.debris = left
  BY <1>1, <1>2 DEF Stores
<1>4. /\ at = "check" /\ Checks[index] = "write_path"
      /\ UNCHANGED <<world, origin, todo, pending, found, kills>>
  BY DEF Sweep, RunCheck
<1>5. QED BY <1>1, <1>2, <1>3, <1>4, Zenon

(* What the unlink does to the store. *)
LEMMA UnlinkEffect ==
    ASSUME TypeOK, Unlink
    PROVE  /\ store' \in Stores
           /\ store'.kind = store.kind /\ store'.dirShared = store.dirShared
           /\ store'.shared = store.shared /\ store'.debris = store.debris
           /\ store'.sentinel => store.sentinel /\ removal = "may_fail"
<1>1. PICK left \in {FALSE, store.sentinel} :
         (left => removal = "may_fail") /\ store' = [store EXCEPT !.sentinel = left]
  BY DEF Unlink
<1>2. store \in Stores /\ store.sentinel \in BOOLEAN BY DEF TypeOK, Stores
<1>3. left \in BOOLEAN BY <1>2
<1>4. QED BY <1>1, <1>2, <1>3, StoreChanges DEF Stores

(* Every step keeps the types. *)
LEMMA TypeStep == TypeOK /\ [Next]_probeVars => TypeOK'
<1> SUFFICES ASSUME TypeOK, [Next]_probeVars PROVE TypeOK'
    OBVIOUS
<1>a. kills \in 0..MaxKills /\ CheckOK /\ WorldOK /\ RunnerOK
  BY Parts DEF WorldOK
<1>b. ASSUME CheckOK', RunnerOK', UNCHANGED <<world, origin>>, UNCHANGED found,
             kills' \in 0..MaxKills
      PROVE  TypeOK'
  <2>1. WorldOK' BY <1>b, WorldKept
  <2>2. QED BY <1>b, <2>1, Parts, PTL
<1>1. CASE Start
  <2>1. 1 \in 1..Len(Checks) BY ChecksAssumption
  <2>2. RunnerOK' BY <1>1, <1>a, <2>1 DEF Start, RunnerOK
  <2>3. CheckOK' BY <1>1, <1>a DEF Start, CheckOK
  <2>4. WorldOK' BY <1>1, <1>a DEF Start, WorldOK, CheckOK, world
  <2>5. QED BY <2>2, <2>3, <2>4, Parts, PTL
<1>2. CASE RefuseUnlessARealDirectory
  <2>1. RunnerOK'
    BY <1>2, RefuseTyped DEF RefuseUnlessARealDirectory, Refusals
  <2>2. CheckOK'
    BY <1>2, <1>a DEF RefuseUnlessARealDirectory, CheckOK, Kinds, Refusals
  <2>3. QED BY <1>a, <1>b, <1>2, <2>1, <2>2 DEF RefuseUnlessARealDirectory
<1>3. CASE DirectoryAlreadyPrivate
  <2>1. RunnerOK'
    BY <1>3, AcceptTyped DEF DirectoryAlreadyPrivate
  <2>2. CheckOK'
    BY <1>3, <1>a DEF DirectoryAlreadyPrivate, CheckOK, Kinds, Refusals
  <2>3. QED BY <1>a, <1>b, <1>3, <2>1, <2>2 DEF DirectoryAlreadyPrivate
<1>4. CASE ChmodDirectory
  <2>1. RunnerOK'
    BY <1>4, EscapeTyped, RunnerKept DEF ChmodDirectory
  <2>2. CheckOK'
    BY <1>4, <1>a, StoreChanges DEF ChmodDirectory, CheckOK, Kinds, Refusals
  <2>3. QED BY <1>a, <1>b, <1>4, <2>1, <2>2 DEF ChmodDirectory
<1>5. CASE ReadBackDirectory
  <2>1. RunnerOK'
    BY <1>5, RefuseTyped DEF ReadBackDirectory, Refusals
  <2>2. CheckOK'
    BY <1>5, <1>a DEF ReadBackDirectory, CheckOK, Kinds, Refusals
  <2>3. QED BY <1>a, <1>b, <1>5, <2>1, <2>2 DEF ReadBackDirectory
<1>6. CASE LookAtFiles
  <2>1. RunnerOK'
    BY <1>6, AcceptTyped, EscapeTyped, RunnerKept DEF LookAtFiles
  <2>2. CheckOK'
    BY <1>6, <1>a, StoreChanges DEF LookAtFiles, CheckOK, Kinds, Refusals
  <2>3. QED BY <1>a, <1>b, <1>6, <2>1, <2>2 DEF LookAtFiles
<1>7. ASSUME NEW f \in Files, RepairFile(f) PROVE TypeOK'
  <2>1. RunnerOK'
    BY <1>7, EscapeTyped, RunnerKept DEF RepairFile
  <2>2. CheckOK'
    BY <1>7, <1>a, StoreChanges DEF RepairFile, CheckOK, Kinds, Refusals
  <2>3. QED BY <1>a, <1>b, <1>7, <2>1, <2>2 DEF RepairFile
<1>8. CASE RefuseSharedFiles
  <2>1. RunnerOK'
    BY <1>8, RefuseTyped DEF RefuseSharedFiles, Refusals
  <2>2. CheckOK'
    BY <1>8, <1>a DEF RefuseSharedFiles, CheckOK, Kinds, Refusals
  <2>3. QED BY <1>a, <1>b, <1>8, <2>1, <2>2 DEF RefuseSharedFiles
<1>9. CASE Sweep
  <2>1. RunnerOK'
    BY <1>9, SweepEffect, EscapeTyped, RunnerKept
  <2>2. CheckOK'
    BY <1>9, <1>a, SweepEffect DEF CheckOK, Kinds
  <2>3. QED BY <1>a, <1>b, <1>9, <2>1, <2>2, SweepEffect
<1>10. CASE WriteSentinel
  <2>1. RunnerOK'
    BY <1>10, RunnerKept DEF WriteSentinel
  <2>2. CheckOK'
    BY <1>10, <1>a, StoreChanges DEF WriteSentinel, CheckOK, Kinds, Refusals
  <2>3. QED BY <1>a, <1>b, <1>10, <2>1, <2>2 DEF WriteSentinel
<1>11. CASE ReadBackSentinel
  <2>1. RunnerOK'
    BY <1>11, RunnerKept DEF ReadBackSentinel
  <2>2. CheckOK'
    BY <1>11, <1>a DEF ReadBackSentinel, CheckOK, Kinds, Refusals
  <2>3. QED BY <1>a, <1>b, <1>11, <2>1, <2>2 DEF ReadBackSentinel
<1>12. CASE CleanUp
  <2>1. RunnerOK'
    <3>1. swept \in BOOLEAN BY DEF TypeOK
    <3>2. CASE pending = "none"
      <4>1. Accept(swept) BY <1>12, <3>2 DEF CleanUp
      <4>2. QED BY <3>1, <4>1, AcceptTyped
    <3>3. CASE pending # "none"
      <4>1. RefuseStart(pending, FALSE) BY <1>12, <3>3 DEF CleanUp
      <4>2. pending \in Refusals BY <3>3 DEF TypeOK
      <4>3. QED BY <4>1, <4>2, RefuseTyped
    <3>4. QED BY <3>2, <3>3
  <2>2. CheckOK'
    BY <1>12, <1>a, UnlinkEffect DEF CleanUp, CheckOK
  <2>3. QED BY <1>a, <1>b, <1>12, <2>1, <2>2 DEF CleanUp
<1>13. CASE CheckSecret
  <2>1. RunnerOK'
    BY <1>13, AcceptTyped, RefuseTyped DEF CheckSecret, Refusals
  <2>2. CheckOK'
    BY <1>13, <1>a DEF CheckSecret, CheckOK, Kinds, Refusals
  <2>3. QED BY <1>a, <1>b, <1>13, <2>1, <2>2 DEF CheckSecret
<1>14. CASE Kill
  BY <1>14, KillsAssumption DEF Kill, TypeOK, world
<1>15. CASE UNCHANGED probeVars
  BY <1>15 DEF probeVars, world, runState, TypeOK
<1>16. QED
  BY <1>1, <1>2, <1>3, <1>4, <1>5, <1>6, <1>7, <1>8, <1>9, <1>10, <1>11, <1>12,
     <1>13, <1>14, <1>15 DEF Next, ProbeStep

LEMMA InitIsTyped == Init => TypeOK
<1> SUFFICES ASSUME Init PROVE TypeOK
    OBVIOUS
<1>1. Len(Checks) \in Nat \ {0} BY ChecksAssumption
<1>2. RunnerOK BY <1>1 DEF Init, RunnerOK
<1>3. CheckOK BY DEF Init, CheckOK
<1>4. WorldOK BY KillsAssumption DEF Init, WorldOK
<1>5. QED BY <1>2, <1>3, <1>4, Parts

(* The state of the probe and of the store it repairs is always well typed. *)
THEOREM TypeCorrect == Spec => []TypeOK
BY InitIsTyped, TypeStep, PTL DEF Spec

-----------------------------------------------------------------------------
(* What a check established survives a step that makes the store no worse. *)
LEMMA HoldsKept ==
    ASSUME NEW kind, Holds(kind), UNCHANGED world,
           store'.kind = store.kind,
           store'.dirShared => store.dirShared,
           store'.shared \subseteq store.shared,
           store'.debris => store.debris,
           \/ at' \in {"read_back_sentinel", "clean_up"}
           \/ ~store'.sentinel
           \/ medium # "sound"
           \/ removal # "works"
           \/ at \notin {"read_back_sentinel", "clean_up"} /\ store'.sentinel = store.sentinel
    PROVE  Holds(kind)'
BY DEF Holds, Listable, world

(* A check that passes extends what is established by itself.              *)
LEMMA AcceptProgress ==
    ASSUME TypeOK, ProgressInv, at # "idle", NEW r, Accept(r),
           \A i \in 1..Len(Checks) : Holds(Checks[i]) => Holds(Checks[i])',
           NEW kind, kind = Checks[index], Holds(kind)'
    PROVE  ProgressInv'
<1>1. index \in 1..Len(Checks) /\ Len(Checks) \in Nat BY ChecksAssumption DEF TypeOK
<1>2. \A i \in 1..index : Holds(Checks[i])'
  <2> SUFFICES ASSUME NEW i \in 1..index PROVE Holds(Checks[i])'
    OBVIOUS
  <2>1. CASE i = index BY <2>1
  <2>2. CASE i # index
    <3>1. i \in 1..(index - 1) /\ i \in 1..Len(Checks) BY <1>1, <2>2
    <3>2. QED BY <3>1 DEF ProgressInv
  <2>3. QED BY <2>1, <2>2
<1>3. CASE index = Len(Checks)
  <2>1. at' = "idle" BY <1>3 DEF Accept
  <2>2. QED BY <1>2, <1>3, <2>1 DEF ProgressInv
<1>4. CASE index # Len(Checks)
  <2>1. at' = "check" /\ index' = index + 1 BY <1>4 DEF Accept
  <2>2. index' - 1 = index BY <1>1, <2>1
  <2>3. QED BY <1>2, <2>1, <2>2 DEF ProgressInv
<1>5. QED BY <1>3, <1>4

(* A step inside a check keeps what is established.                        *)
LEMMA InsideProgress ==
    ASSUME TypeOK, ProgressInv, at # "idle", at' # "idle", UNCHANGED index,
           \A i \in 1..Len(Checks) : Holds(Checks[i]) => Holds(Checks[i])'
    PROVE  ProgressInv'
<1>1. index \in 1..Len(Checks) /\ Len(Checks) \in Nat BY ChecksAssumption DEF TypeOK
<1>2. \A i \in 1..(index - 1) : i \in 1..Len(Checks) BY <1>1
<1>3. QED BY <1>2 DEF ProgressInv

(* A run that ended otherwise than by passing promises nothing.            *)
LEMMA NoPassProgress == at' = "idle" /\ outcome' # "passed" => ProgressInv'
BY DEF ProgressInv

(* The position of the run, the progress of its checks and the repair that  *)
(* precedes a refusal are kept by every step.                               *)
LEMMA IInvStep == TypeOK /\ IInv /\ [Next]_probeVars => IInv'
<1> SUFFICES ASSUME TypeOK, IInv, [Next]_probeVars PROVE IInv'
    OBVIOUS
<1> USE DEF IInv
<1>a. store \in Stores /\ index \in 1..Len(Checks) BY DEF TypeOK
<1>1. CASE Start
  BY <1>1 DEF Start, PositionInv, ProgressInv, RepairedBeforeRefused
<1>2. CASE RefuseUnlessARealDirectory
  <2>1. PositionInv'
    BY <1>2 DEF RefuseUnlessARealDirectory, RunCheck, Accept, RefuseStart, Escape, PositionInv, world
  <2>2. ProgressInv'
    BY <1>2, NoPassProgress DEF RefuseUnlessARealDirectory, RefuseStart, Escape
  <2>3. RepairedBeforeRefused'
    BY <1>2 DEF RefuseUnlessARealDirectory, RunCheck, Accept, RefuseStart, Escape, RepairedBeforeRefused, PositionInv
  <2>4. QED BY <2>1, <2>2, <2>3
<1>3. CASE DirectoryAlreadyPrivate
  <2>1. PositionInv'
    BY <1>3 DEF DirectoryAlreadyPrivate, RunCheck, Accept, RefuseStart, Escape, PositionInv, world
  <2>2. ProgressInv'
    <3>1. \A i \in 1..Len(Checks) : Holds(Checks[i]) => Holds(Checks[i])'
      BY <1>3, <1>a, HoldsKept DEF DirectoryAlreadyPrivate, RunCheck, Accept, Escape, RefuseStart, Stores, world, PositionInv
    <3>2. Checks[index] = "directory" /\ Holds("directory")'
      BY <1>3 DEF DirectoryAlreadyPrivate, RunCheck, Accept, Holds, world
    <3>3. QED BY <1>3, <3>1, <3>2, AcceptProgress DEF DirectoryAlreadyPrivate, RunCheck
  <2>3. RepairedBeforeRefused'
    BY <1>3 DEF DirectoryAlreadyPrivate, RunCheck, Accept, RefuseStart, Escape, RepairedBeforeRefused, PositionInv
  <2>4. QED BY <2>1, <2>2, <2>3
<1>4. CASE ChmodDirectory
  <2>1. PositionInv'
    BY <1>4 DEF ChmodDirectory, RunCheck, Accept, RefuseStart, Escape, PositionInv, world
  <2>2. ProgressInv'
    <3>1. CASE at' = "idle"
      BY <1>4, <3>1, NoPassProgress DEF ChmodDirectory, Escape
    <3>2. CASE at' # "idle"
      <4>1. \A i \in 1..Len(Checks) : Holds(Checks[i]) => Holds(Checks[i])'
        BY <1>4, <1>a, HoldsKept DEF ChmodDirectory, RunCheck, Accept, Escape, RefuseStart, Stores, world, PositionInv
      <4>2. QED BY <1>4, <3>2, <4>1, InsideProgress DEF ChmodDirectory, RunCheck, Escape
    <3>3. QED BY <3>1, <3>2
  <2>3. RepairedBeforeRefused'
    BY <1>4 DEF ChmodDirectory, RunCheck, Accept, RefuseStart, Escape, RepairedBeforeRefused, PositionInv
  <2>4. QED BY <2>1, <2>2, <2>3
<1>5. CASE ReadBackDirectory
  <2>1. PositionInv'
    BY <1>5 DEF ReadBackDirectory, RunCheck, Accept, RefuseStart, Escape, PositionInv, world
  <2>2. ProgressInv'
    BY <1>5, NoPassProgress DEF ReadBackDirectory, RefuseStart, Escape
  <2>3. RepairedBeforeRefused'
    BY <1>5 DEF ReadBackDirectory, RunCheck, Accept, RefuseStart, Escape, RepairedBeforeRefused, PositionInv
  <2>4. QED BY <2>1, <2>2, <2>3
<1>6. CASE LookAtFiles
  <2>1. PositionInv'
    BY <1>6 DEF LookAtFiles, RunCheck, Accept, RefuseStart, Escape, PositionInv, Listable, world
  <2>2. ProgressInv'
    <3>0. CASE at' = "idle" /\ outcome' # "passed"
      BY <3>0, NoPassProgress
    <3>1. CASE Listable(store) /\ store.shared = {}
      <4>1. \A i \in 1..Len(Checks) : Holds(Checks[i]) => Holds(Checks[i])'
        BY <1>6, <1>a, HoldsKept DEF LookAtFiles, RunCheck, Accept, Escape, RefuseStart, Stores, world, PositionInv
      <4>2. Checks[index] = "files" /\ Holds("files")'
        BY <1>6, <3>1 DEF LookAtFiles, RunCheck, Accept, Holds, Listable, world
      <4>3. Accept(FALSE) /\ at # "idle"
        BY <1>6, <3>1 DEF LookAtFiles, RunCheck
      <4>4. QED BY <4>1, <4>2, <4>3, AcceptProgress
    <3>2. CASE Listable(store) /\ store.shared # {}
      <4>1. \A i \in 1..Len(Checks) : Holds(Checks[i]) => Holds(Checks[i])'
        BY <1>6, <3>2, <1>a, HoldsKept DEF LookAtFiles, RunCheck, Accept, Escape, RefuseStart, Stores, world, PositionInv
      <4>2. QED BY <1>6, <3>2, <4>1, InsideProgress DEF LookAtFiles, RunCheck
    <3>3. QED BY <1>6, <3>0, <3>1, <3>2 DEF LookAtFiles, Escape
  <2>3. RepairedBeforeRefused'
    BY <1>6 DEF LookAtFiles, RunCheck, Accept, RefuseStart, Escape, RepairedBeforeRefused, PositionInv
  <2>4. QED BY <2>1, <2>2, <2>3
<1>7. ASSUME NEW f \in Files, RepairFile(f) PROVE IInv'
  <2>1. PositionInv'
    BY <1>7, <1>a DEF RepairFile, RunCheck, Accept, RefuseStart, Escape, PositionInv, Listable, world, Stores
  <2>2. ProgressInv'
    <3>1. CASE at' = "idle"
      BY <1>7, <3>1, NoPassProgress DEF RepairFile, Escape
    <3>2. CASE at' # "idle"
      <4>1. \A i \in 1..Len(Checks) : Holds(Checks[i]) => Holds(Checks[i])'
        BY <1>7, <1>a, HoldsKept DEF RepairFile, RunCheck, Accept, Escape, RefuseStart, Stores, world, PositionInv
      <4>2. QED BY <1>7, <3>2, <4>1, InsideProgress DEF RepairFile, RunCheck, Escape
    <3>3. QED BY <3>1, <3>2
  <2>3. RepairedBeforeRefused'
    BY <1>7 DEF RepairFile, RunCheck, Accept, RefuseStart, Escape, RepairedBeforeRefused, PositionInv
  <2>4. QED BY <2>1, <2>2, <2>3
<1>8. CASE RefuseSharedFiles
  <2>1. PositionInv'
    BY <1>8 DEF RefuseSharedFiles, RunCheck, Accept, RefuseStart, Escape, PositionInv, world
  <2>2. ProgressInv'
    BY <1>8, NoPassProgress DEF RefuseSharedFiles, RefuseStart, Escape
  <2>3. RepairedBeforeRefused'
    BY <1>8 DEF RefuseSharedFiles, RunCheck, Accept, RefuseStart, Escape, RepairedBeforeRefused, PositionInv
  <2>4. QED BY <2>1, <2>2, <2>3
<1>9. CASE Sweep
  <2>1. PositionInv'
    BY <1>9, SweepEffect DEF Escape, PositionInv, world
  <2>2. ProgressInv'
    <3>1. CASE at' = "idle"
      BY <1>9, <3>1, SweepEffect, NoPassProgress DEF Escape
    <3>2. CASE at' # "idle"
      <4>1. \A i \in 1..Len(Checks) : Holds(Checks[i]) => Holds(Checks[i])'
        BY <1>9, <3>2, SweepEffect, HoldsKept DEF Escape
      <4>2. QED BY <1>9, <3>2, <4>1, SweepEffect, InsideProgress DEF Escape
    <3>3. QED BY <3>1, <3>2
  <2>3. RepairedBeforeRefused'
    BY <1>9, SweepEffect DEF Escape, RepairedBeforeRefused
  <2>4. QED BY <2>1, <2>2, <2>3
<1>10. CASE WriteSentinel
  <2>1. PositionInv'
    BY <1>10, <1>a DEF WriteSentinel, RunCheck, Accept, RefuseStart, Escape, PositionInv, Listable, world, Stores
  <2>2. ProgressInv'
    <3>1. \A i \in 1..Len(Checks) : Holds(Checks[i]) => Holds(Checks[i])'
      BY <1>10, <1>a, HoldsKept DEF WriteSentinel, RunCheck, Accept, Escape, RefuseStart, Stores, world, PositionInv
    <3>2. QED BY <1>10, <3>1, InsideProgress DEF WriteSentinel, RunCheck
  <2>3. RepairedBeforeRefused'
    BY <1>10 DEF WriteSentinel, RunCheck, Accept, RefuseStart, Escape, RepairedBeforeRefused, PositionInv
  <2>4. QED BY <2>1, <2>2, <2>3
<1>11. CASE ReadBackSentinel
  <2>1. PositionInv'
    BY <1>11 DEF ReadBackSentinel, RunCheck, Accept, RefuseStart, Escape, PositionInv, world
  <2>2. ProgressInv'
    <3>1. \A i \in 1..Len(Checks) : Holds(Checks[i]) => Holds(Checks[i])'
      BY <1>11, <1>a, HoldsKept DEF ReadBackSentinel, RunCheck, Accept, Escape, RefuseStart, Stores, world, PositionInv
    <3>2. QED BY <1>11, <3>1, InsideProgress DEF ReadBackSentinel, RunCheck
  <2>3. RepairedBeforeRefused'
    BY <1>11 DEF ReadBackSentinel, RunCheck, Accept, RefuseStart, Escape, RepairedBeforeRefused, PositionInv
  <2>4. QED BY <2>1, <2>2, <2>3
<1>12. CASE CleanUp
  <2>0. Unlink /\ UNCHANGED <<world, pending>> /\ at = "clean_up" BY <1>12 DEF CleanUp
  <2>1. PositionInv'
    BY <1>12 DEF CleanUp, Accept, RefuseStart, PositionInv, world
  <2>2. ProgressInv'
    <3>1. CASE pending = "none"
      <4>1. \A i \in 1..Len(Checks) : Holds(Checks[i]) => Holds(Checks[i])'
        BY <2>0, UnlinkEffect, HoldsKept
      <4>2. Checks[index] = "write_path" /\ Holds("write_path")'
        BY <2>0, <3>1, UnlinkEffect DEF Holds, PositionInv, Listable, world
      <4>3. QED BY <1>12, <2>0, <3>1, <4>1, <4>2, AcceptProgress DEF CleanUp, TypeOK
    <3>2. CASE pending # "none"
      BY <1>12, <3>2, NoPassProgress DEF CleanUp, RefuseStart
    <3>3. QED BY <3>1, <3>2
  <2>3. RepairedBeforeRefused'
    BY <1>12 DEF CleanUp, RunCheck, Accept, RefuseStart, Escape, RepairedBeforeRefused, PositionInv
  <2>4. QED BY <2>1, <2>2, <2>3
<1>13. CASE CheckSecret
  <2>1. PositionInv'
    BY <1>13 DEF CheckSecret, RunCheck, Accept, RefuseStart, Escape, PositionInv, world
  <2>2. ProgressInv'
    <3>1. CASE secret = "good"
      <4>1. \A i \in 1..Len(Checks) : Holds(Checks[i]) => Holds(Checks[i])'
        BY <1>13, <1>a, HoldsKept DEF CheckSecret, RunCheck, Accept, Escape, RefuseStart, Stores, world, PositionInv
      <4>2. Checks[index] = "secret" /\ Holds("secret")'
        BY <1>13, <3>1 DEF CheckSecret, RunCheck, Accept, Holds, world
      <4>3. QED BY <1>13, <3>1, <4>1, <4>2, AcceptProgress DEF CheckSecret, RunCheck
    <3>2. CASE secret # "good"
      BY <1>13, <3>2, NoPassProgress DEF CheckSecret, RefuseStart
    <3>3. QED BY <3>1, <3>2
  <2>3. RepairedBeforeRefused'
    BY <1>13 DEF CheckSecret, RunCheck, Accept, RefuseStart, Escape, RepairedBeforeRefused, PositionInv
  <2>4. QED BY <2>1, <2>2, <2>3
<1>14. CASE Kill
  BY <1>14 DEF Kill, PositionInv, ProgressInv, RepairedBeforeRefused
<1>15. CASE UNCHANGED probeVars
  BY <1>15 DEF probeVars, world, runState, PositionInv, ProgressInv, Holds,
               Listable, RepairedBeforeRefused
<1>16. QED
  BY <1>1, <1>2, <1>3, <1>4, <1>5, <1>6, <1>7, <1>8, <1>9, <1>10, <1>11, <1>12,
     <1>13, <1>14, <1>15 DEF Next, ProbeStep

LEMMA InitIsGood == Init => IInv
BY DEF Init, IInv, PositionInv, ProgressInv, RepairedBeforeRefused

(* For any list of checks, in any order and with repetitions: after a pass  *)
(* everything every injected check stands for holds at once.                *)
THEOREM PassCorrect == Spec => []PassMeansSound
<1>1. TypeOK /\ IInv => PassMeansSound
  BY DEF IInv, ProgressInv, Holds, PassMeansSound, Injected
<1>2. QED BY <1>1, InitIsTyped, InitIsGood, TypeStep, IInvStep, PTL DEF Spec

(* For any files and whatever chmod does: a store refused for being shared  *)
(* is private by the time it is refused, so the next start is safe.         *)
THEOREM RepairPrecedesRefusal == Spec => []RepairedBeforeRefused
<1>1. IInv => RepairedBeforeRefused
  BY DEF IInv
<1>2. QED BY <1>1, InitIsTyped, InitIsGood, TypeStep, IInvStep, PTL DEF Spec

-----------------------------------------------------------------------------
(* The sentinel is out only while its check is at it, after a crash, or      *)
(* where its removal may have failed.                                        *)
SentinelInv ==
    store.sentinel =>
        kills > 0 \/ removal = "may_fail" \/ at \in {"read_back_sentinel", "clean_up"}

LEMMA SentinelStep == TypeOK /\ SentinelInv /\ [Next]_probeVars => SentinelInv'
<1> SUFFICES ASSUME TypeOK, SentinelInv, [Next]_probeVars PROVE SentinelInv'
    OBVIOUS
<1>1. store \in Stores /\ kills \in Nat
  BY KillsAssumption DEF TypeOK
<1> USE DEF SentinelInv, world
<1>2. CASE Start \/ RefuseUnlessARealDirectory \/ DirectoryAlreadyPrivate \/ ReadBackDirectory
           \/ LookAtFiles \/ RefuseSharedFiles \/ CheckSecret
  BY <1>2 DEF Start, RefuseUnlessARealDirectory, DirectoryAlreadyPrivate, ReadBackDirectory,
              LookAtFiles, RefuseSharedFiles, CheckSecret, RunCheck
<1>3. CASE ChmodDirectory
  BY <1>1, <1>3 DEF ChmodDirectory, RunCheck, Stores
<1>4. ASSUME NEW f \in Files, RepairFile(f) PROVE SentinelInv'
  BY <1>1, <1>4 DEF RepairFile, Stores
<1>5. CASE Sweep
  BY <1>5, SweepEffect
<1>6. CASE WriteSentinel
  BY <1>1, <1>6 DEF WriteSentinel, Stores
<1>7. CASE ReadBackSentinel
  BY <1>7 DEF ReadBackSentinel
<1>8. CASE CleanUp
  BY <1>1, <1>8, UnlinkEffect DEF CleanUp
<1>9. CASE Kill
  BY <1>1, <1>9 DEF Kill
<1>10. CASE UNCHANGED probeVars
  BY <1>10 DEF probeVars, runState
<1>11. QED
  BY <1>2, <1>3, <1>4, <1>5, <1>6, <1>7, <1>8, <1>9, <1>10 DEF Next, ProbeStep

(* The finally removes the sentinel however the check ends, whatever the    *)
(* medium does to the write, the flush or the read: only a machine that     *)
(* died, or a store whose files may refuse to be removed, keeps one.        *)
THEOREM SentinelRemoved == Spec => []SentinelIsNotLeft
<1>1. Init => SentinelInv
  BY DEF Init, SentinelInv
<1>2. SentinelInv => SentinelIsNotLeft
  BY DEF SentinelInv, SentinelIsNotLeft
<1>3. QED BY <1>1, <1>2, TypeCorrect, SentinelStep, PTL DEF Spec

-----------------------------------------------------------------------------
(* How many kinds of sharing were repaired, how many of those the run under *)
(* way has still to tell of, and how many nobody told of nor will.          *)
Bit(b)  == IF b THEN 1 ELSE 0
Mended  == Bit(origin.dirShared /\ ~store.dirShared) + Bit(origin.shared # {} /\ store.shared = {})
Untold  == Bit(at = "read_back_mode" /\ ~store.dirShared)
             + Bit(at = "repair_files" /\ store.shared = {})
Silent  == Mended - told - Untold

(* Nothing becomes shared. *)
Shrunk == (store.dirShared => origin.dirShared) /\ store.shared \subseteq origin.shared

ToldInv == Shrunk /\ Silent >= 0 /\ (kills = 0 => Silent = 0)

LEMMA Counts == Mended \in 0..2 /\ Untold \in 0..2
BY DEF Mended, Untold, Bit

LEMMA Evened ==
    ASSUME NEW m \in Nat, NEW u \in Nat, NEW t \in Nat
    PROVE  m + u - t - u = m - t - 0
OBVIOUS

LEMMA SilentKept ==
    ASSUME TypeOK, Shrunk, UNCHANGED <<origin, told, kills>>,
           store'.dirShared = store.dirShared, store'.shared = store.shared,
           at \notin {"read_back_mode", "repair_files"},
           at' = "repair_files" => store.shared # {},
           at' = "read_back_mode" => store.dirShared
    PROVE  Shrunk' /\ Silent' = Silent /\ kills' = kills
<1>1. Mended' = Mended /\ Untold = 0 /\ Untold' = 0
  BY DEF Mended, Untold, Bit
<1>2. QED BY <1>1 DEF Shrunk, Silent

(* A repair and the refusal that tells of it go together, step by step; what *)
(* goes untold is lost with the machine.                                     *)
LEMMA TellingStep ==
    ASSUME TypeOK, IInv, Shrunk, [Next]_probeVars
    PROVE  Shrunk' /\ \/ Silent' = Silent /\ kills' = kills
                      \/ Silent' >= Silent /\ kills' = kills + 1
<1> DEFINE Goal == Shrunk' /\ Silent' = Silent /\ kills' = kills
<1>1. store \in Stores /\ kills \in Nat /\ told \in Nat
  BY KillsAssumption DEF TypeOK
<1>2. CASE Start \/ RefuseUnlessARealDirectory \/ DirectoryAlreadyPrivate \/ CheckSecret
  BY <1>2, SilentKept DEF Start, RefuseUnlessARealDirectory, DirectoryAlreadyPrivate, CheckSecret,
                          RunCheck, Accept, RefuseStart
<1>3. CASE ChmodDirectory
  <2>1. CASE at' = "read_back_mode" /\ ~store'.dirShared
    <3>1. /\ store.dirShared /\ store'.shared = store.shared /\ at = "check"
          /\ UNCHANGED <<origin, told, kills>>
      BY <1>1, <1>3, <2>1 DEF ChmodDirectory, RunCheck, Stores
    <3>2. Untold = 0 /\ Untold' = 1 /\ Mended' = Mended + 1
      BY <2>1, <3>1 DEF Untold, Mended, Bit, Shrunk
    <3>3. Goal BY <1>1, <2>1, <3>1, <3>2, Counts DEF Shrunk, Silent
    <3>4. QED BY <3>3
  <2>2. CASE ~(at' = "read_back_mode" /\ ~store'.dirShared)
    <3>1. store' = store /\ at = "check" /\ UNCHANGED <<origin, told, kills>>
          /\ (at' = "idle" \/ (at' = "read_back_mode" /\ store.dirShared))
      BY <1>1, <1>3, <2>2 DEF ChmodDirectory, RunCheck, Escape, Stores
    <3>2. QED BY <3>1, SilentKept
  <2>3. QED BY <2>1, <2>2
<1>4. CASE ReadBackDirectory
  <2>1. /\ store' = store /\ UNCHANGED <<origin, kills>> /\ at = "read_back_mode" /\ at' = "idle"
        /\ told' = IF store.dirShared THEN told ELSE told + 1
    BY <1>4 DEF ReadBackDirectory, RefuseStart
  <2>2. Mended' = Mended /\ Untold' = 0 /\ Untold = IF store.dirShared THEN 0 ELSE 1
    BY <2>1 DEF Mended, Untold, Bit
  <2>3. QED BY <1>1, <2>1, <2>2, Counts DEF Shrunk, Silent
<1>5. CASE LookAtFiles
  BY <1>5, SilentKept DEF LookAtFiles, RunCheck, Accept, Escape
<1>6. ASSUME NEW f \in Files, RepairFile(f) PROVE Goal
  <2>1. /\ at = "repair_files" /\ f \in store.shared /\ UNCHANGED <<origin, told, kills>>
    BY <1>6 DEF RepairFile, IInv, PositionInv, Escape
  <2>2. CASE chmod[f] = "sticks"
    <3>1. /\ store'.dirShared = store.dirShared /\ store'.shared = store.shared \ {f}
          /\ at' = "repair_files"
      BY <1>1, <1>6, <2>2 DEF RepairFile, Stores
    <3>2. Mended' = Mended + Untold' /\ Untold = 0
      BY <2>1, <3>1 DEF Mended, Untold, Bit, Shrunk
    <3>3. Mended \in Nat /\ Untold' \in Nat /\ told \in Nat
      BY <1>1 DEF Mended, Untold, Bit
    <3>4. Silent = Mended - told - 0 /\ Silent' = Mended + Untold' - told - Untold'
      BY <2>1, <3>2, <3>3 DEF Silent
    <3>5. Silent' = Silent
      BY <3>3, <3>4, Evened, Zenon
    <3>6. QED BY <2>1, <3>1, <3>5 DEF Shrunk
  <2>3. CASE chmod[f] # "sticks"
    <3>1. store' = store /\ at' = "idle"
      BY <1>6, <2>3 DEF RepairFile, Escape
    <3>2. Mended' = Mended /\ Untold = 0 /\ Untold' = 0
      BY <2>1, <3>1 DEF Mended, Untold, Bit
    <3>3. QED BY <2>1, <3>1, <3>2 DEF Shrunk, Silent
  <2>4. QED BY <2>2, <2>3
<1>7. CASE RefuseSharedFiles
  <2>1. /\ store' = store /\ UNCHANGED <<origin, kills>> /\ at = "repair_files" /\ at' = "idle"
        /\ told' = told + 1 /\ store.shared = {}
    BY <1>7 DEF RefuseSharedFiles, RefuseStart, IInv, PositionInv
  <2>2. Mended' = Mended /\ Untold' = 0 /\ Untold = 1
    BY <2>1 DEF Mended, Untold, Bit
  <2>3. QED BY <1>1, <2>1, <2>2, Counts DEF Shrunk, Silent
<1>8. CASE Sweep
  BY <1>8, SweepEffect, SilentKept DEF Escape
<1>9. CASE WriteSentinel
  <2>1. /\ store'.dirShared = store.dirShared /\ store'.shared = store.shared
        /\ UNCHANGED <<origin, told, kills>> /\ at = "write" /\ at' \in {"read_back_sentinel", "clean_up"}
    BY <1>1, <1>9 DEF WriteSentinel, Stores
  <2>2. QED BY <2>1, SilentKept
<1>10. CASE ReadBackSentinel
  BY <1>10, SilentKept DEF ReadBackSentinel
<1>11. CASE CleanUp
  <2>1. /\ store'.dirShared = store.dirShared /\ store'.shared = store.shared
        /\ UNCHANGED <<origin, told, kills>> /\ at = "clean_up" /\ at' \in {"idle", "check"}
    BY <1>11, UnlinkEffect DEF CleanUp, Accept, RefuseStart
  <2>2. QED BY <2>1, SilentKept
<1>12. CASE Kill
  <2>1. store' = store /\ UNCHANGED <<origin, told>> /\ at' = "idle" /\ kills' = kills + 1
    BY <1>12 DEF Kill
  <2>2. Mended' = Mended /\ Untold' = 0
    BY <2>1 DEF Mended, Untold, Bit
  <2>3. QED BY <1>1, <2>1, <2>2, Counts DEF Shrunk, Silent
<1>13. CASE UNCHANGED probeVars
  BY <1>13 DEF probeVars, runState, Shrunk, Silent, Mended, Untold
<1>14. QED
  BY <1>2, <1>3, <1>4, <1>5, <1>6, <1>7, <1>8, <1>9, <1>10, <1>11, <1>12, <1>13
     DEF Next, ProbeStep

LEMMA ToldStep == TypeOK /\ IInv /\ ToldInv /\ [Next]_probeVars => ToldInv'
<1> SUFFICES ASSUME TypeOK, IInv, ToldInv, [Next]_probeVars PROVE ToldInv'
    OBVIOUS
<1>1. kills \in Nat /\ Silent \in Int /\ Silent' \in Int
  BY TypeStep, KillsAssumption, Counts DEF TypeOK, Silent, Mended, Untold, Bit
<1>2. Shrunk' /\ \/ Silent' = Silent /\ kills' = kills
                 \/ Silent' >= Silent /\ kills' = kills + 1
  BY TellingStep DEF ToldInv
<1>3. QED BY <1>1, <1>2 DEF ToldInv

(* However often the probe is restarted or dies, each kind of sharing costs *)
(* one refusal at most, and exactly one where the machine never died.       *)
THEOREM ToldOnce == Spec => []EachSharingIsToldOnce
<1>1. Init => ToldInv
  BY DEF Init, ToldInv, Shrunk, Silent, Mended, Untold, Bit
<1>2. TypeOK /\ ToldInv /\ PassMeansSound => EachSharingIsToldOnce
  <2> SUFFICES ASSUME TypeOK, ToldInv, PassMeansSound PROVE EachSharingIsToldOnce
      OBVIOUS
  <2> DEFINE shares == Bit(origin.dirShared) + Bit(origin.shared # {})
  <2>1. /\ told \in Nat /\ Mended \in Nat /\ Untold \in Nat /\ Mended <= shares /\ shares \in Nat
    BY DEF TypeOK, Mended, Untold, Bit
  <2>2. told <= shares
    BY <2>1 DEF ToldInv, Silent
  <2>3. ASSUME at = "idle", outcome = "passed", kills = 0, Injected("directory"), Injected("files")
        PROVE  told = shares
    <3>1. ~store.dirShared /\ store.shared = {} BY <2>3 DEF PassMeansSound
    <3>2. Mended = shares /\ Untold = 0 BY <2>3, <3>1 DEF Mended, Untold, Bit
    <3> HIDE DEF shares
    <3>3. Silent = shares - told - 0 /\ Silent = 0 BY <2>1, <2>3, <3>2 DEF ToldInv, Silent
    <3>4. QED BY <2>1, <3>3
  <2>4. shares = (IF origin.dirShared THEN 1 ELSE 0) + (IF origin.shared = {} THEN 0 ELSE 1)
    BY DEF Bit
  <2>5. QED BY <2>2, <2>3, <2>4 DEF EachSharingIsToldOnce
<1>3. QED
  BY <1>1, <1>2, PassCorrect, InitIsTyped, InitIsGood, TypeStep, IInvStep, ToldStep, PTL DEF Spec
-----------------------------------------------------------------------------
(* What each kind of check says, read off one by one. *)
LEMMA FaultsByKind ==
    /\ FaultsOf("directory") = {DirectoryFault}
    /\ FaultsOf("files") = {FilesFault}
    /\ FaultsOf("secret") = {SecretFault}
    /\ FaultsOf("write_path") =
         {WriteFault} \cup (IF SweepMayRaise THEN {"escaped"} ELSE {})
BY DEF FaultsOf

LEMMA FaultsKept ==
    ASSUME UNCHANGED world, UNCHANGED found, NEW kind
    PROVE  FaultsOf(kind)' = FaultsOf(kind)
BY DEF FaultsOf, DirectoryFault, FilesFault, WriteFault, SecretFault, SweepMayRaise, Listable,
       world

(* No check before the current one had to report a fault.                  *)
Blameless == \A i \in 1..(index - 1) : "none" \in FaultsOf(Checks[i])

(* Outside the check that repairs them, the modes are as the run found      *)
(* them: the first check to repair one also ends the run.                   *)
StoreAsFound ==
    /\ store.kind = found.kind
    /\ store.debris => found.debris
    /\ at # "read_back_mode" => store.dirShared = found.dirShared
    /\ at # "repair_files" => store.shared = found.shared

(* What a check has learnt of the machine by the place it is at.            *)
PlaceFound ==
    /\ at = "read_back_mode" =>
         /\ found.kind = "directory" /\ found.dirShared
         /\ chmod[Directory] = IF store.dirShared THEN "lies" ELSE "sticks"
    /\ at = "repair_files" =>
         /\ Listable(found) /\ found.shared # {} /\ store.shared \subseteq found.shared
         /\ \A f \in found.shared \ store.shared : chmod[f] = "sticks"
    /\ at = "read_back_sentinel" => Listable(found) /\ medium \in {"sound", "forgets"}
    /\ at = "clean_up" => pending = WriteFault

VerdictInv ==
    /\ at # "idle" => emitted = << >> /\ Blameless /\ StoreAsFound /\ PlaceFound
    /\ Ended =>
         \/ /\ outcome = "passed" /\ emitted = << >>
            /\ \A i \in 1..Len(Checks) : "none" \in FaultsOf(Checks[i])
         \/ /\ Blameless
            /\ \E fault \in FaultsOf(Checks[index]) \ {"none"} : Deserved(fault)

(* A check with nothing to say hands the store it found to the next one.    *)
LEMMA AcceptVerdict ==
    ASSUME TypeOK, VerdictInv, at # "idle", NEW r, Accept(r),
           UNCHANGED world, UNCHANGED found,
           "none" \in FaultsOf(Checks[index]),
           store'.kind = found.kind, store'.debris => found.debris,
           store'.dirShared = found.dirShared, store'.shared = found.shared
    PROVE  VerdictInv'
<1>1. index \in 1..Len(Checks) /\ Len(Checks) \in Nat BY ChecksAssumption DEF TypeOK
<1>2. \A i \in 1..index : "none" \in FaultsOf(Checks[i])'
  <2> SUFFICES ASSUME NEW i \in 1..index PROVE "none" \in FaultsOf(Checks[i])
      BY FaultsKept
  <2>1. i = index \/ i \in 1..(index - 1) BY <1>1
  <2>2. QED BY <2>1 DEF VerdictInv, Blameless
<1>3. emitted' = << >> BY DEF VerdictInv, Accept
<1>4. CASE index = Len(Checks)
  <2>1. at' = "idle" /\ outcome' = "passed" BY <1>4 DEF Accept
  <2>2. QED BY <1>2, <1>3, <1>4, <2>1 DEF VerdictInv
<1>5. CASE index # Len(Checks)
  <2>1. at' = "check" /\ index' = index + 1 BY <1>5 DEF Accept
  <2>2. index' - 1 = index BY <1>1, <2>1
  <2>3. Blameless' BY <1>2, <2>2 DEF Blameless
  <2>4. StoreAsFound' /\ PlaceFound' BY <2>1 DEF StoreAsFound, PlaceFound
  <2>5. QED BY <1>3, <2>1, <2>3, <2>4 DEF VerdictInv, Ended
<1>6. QED BY <1>4, <1>5

(* A check that refuses or lets an error out ends the run in its own fault. *)
LEMMA EndVerdict ==
    ASSUME VerdictInv, at # "idle", at' = "idle", UNCHANGED world, UNCHANGED found,
           UNCHANGED index, outcome' # "passed",
           NEW fault \in FaultsOf(Checks[index]), fault # "none", Deserved(fault)'
    PROVE  VerdictInv'
<1>1. fault \in FaultsOf(Checks[index])' BY FaultsKept
<1>2. Blameless' BY FaultsKept DEF Blameless, VerdictInv
<1>3. QED BY <1>1, <1>2 DEF VerdictInv

LEMMA RefuseVerdict ==
    ASSUME VerdictInv, at # "idle", UNCHANGED world, UNCHANGED found,
           NEW name, NEW r, RefuseStart(name, r), name \in FaultsOf(Checks[index]),
           name # "none", name # "escaped"
    PROVE  VerdictInv'
<1>1. emitted = << >> BY DEF VerdictInv
<1>2. Deserved(name)' BY <1>1 DEF Deserved, RefuseStart
<1>3. QED BY <1>2, EndVerdict DEF RefuseStart

LEMMA EscapeVerdict ==
    ASSUME VerdictInv, at # "idle", UNCHANGED world, UNCHANGED found,
           Escape, "escaped" \in FaultsOf(Checks[index])
    PROVE  VerdictInv'
<1>1. emitted = << >> BY DEF VerdictInv
<1>2. Deserved("escaped")' BY <1>1 DEF Deserved, Escape
<1>3. QED BY <1>2, EndVerdict DEF Escape

(* A step inside a check has to account for the store and its place only.   *)
LEMMA InsideVerdict ==
    ASSUME VerdictInv, at # "idle", at' # "idle", UNCHANGED world, UNCHANGED found,
           UNCHANGED <<index, emitted>>, StoreAsFound', PlaceFound'
    PROVE  VerdictInv'
<1>1. Blameless' BY FaultsKept DEF Blameless, VerdictInv
<1>2. QED BY <1>1 DEF VerdictInv, Ended

LEMMA VerdictStep == TypeOK /\ IInv /\ VerdictInv /\ [Next]_probeVars => VerdictInv'
<1> SUFFICES ASSUME TypeOK, IInv, VerdictInv, [Next]_probeVars PROVE VerdictInv'
    OBVIOUS
<1>a. /\ store \in Stores /\ found \in Stores /\ chmod \in [Entries -> {"sticks", "lies", "denied"}]
      /\ medium \in Media /\ secret \in {"absent", "short", "good"}
  BY DEF TypeOK
<1>b. at # "idle" => StoreAsFound /\ PlaceFound
  BY DEF VerdictInv
<1>c. Directory \in Entries BY DEF Entries
<1>1. CASE Start
  BY <1>1 DEF Start, VerdictInv, Blameless, StoreAsFound, PlaceFound, Ended
<1>2. CASE RefuseUnlessARealDirectory
  <2>1. DirectoryFault = IF store.kind = "absent" THEN "store_absent" ELSE "store_not_a_directory"
    BY <1>2, <1>a, <1>b DEF RefuseUnlessARealDirectory, RunCheck, DirectoryFault, StoreAsFound, Stores
  <2>2. QED BY <1>2, <2>1, FaultsByKind, RefuseVerdict DEF RefuseUnlessARealDirectory, RunCheck
<1>3. CASE DirectoryAlreadyPrivate
  <2>1. DirectoryFault = "none"
    BY <1>3, <1>b DEF DirectoryAlreadyPrivate, RunCheck, DirectoryFault, StoreAsFound
  <2>2. QED BY <1>3, <1>b, <2>1, FaultsByKind, AcceptVerdict
            DEF DirectoryAlreadyPrivate, RunCheck, StoreAsFound
<1>4. CASE ChmodDirectory
  <2>1. found.kind = "directory" /\ found.dirShared
    BY <1>4, <1>b DEF ChmodDirectory, RunCheck, StoreAsFound
  <2>2. CASE chmod[Directory] = "denied"
    <3>1. DirectoryFault = "escaped" BY <2>1, <2>2 DEF DirectoryFault
    <3>2. Escape /\ at # "idle" /\ Checks[index] = "directory"
      BY <1>4, <2>2 DEF ChmodDirectory, RunCheck
    <3>3. QED BY <1>4, <3>1, <3>2, FaultsByKind, EscapeVerdict DEF ChmodDirectory
  <2>3. CASE chmod[Directory] # "denied"
    <3>1. at = "check" /\ at' = "read_back_mode" /\ UNCHANGED <<index, emitted>>
      BY <1>4, <2>3 DEF ChmodDirectory, RunCheck
    <3>2. StoreAsFound'
      BY <1>4, <1>a, <1>b, <2>3, <3>1 DEF ChmodDirectory, RunCheck, StoreAsFound, Stores
    <3>3. PlaceFound'
      BY <1>4, <1>a, <2>1, <2>3, <3>1 DEF ChmodDirectory, RunCheck, PlaceFound, Stores, world
    <3>4. QED BY <1>4, <3>1, <3>2, <3>3, InsideVerdict DEF ChmodDirectory
  <2>4. QED BY <2>2, <2>3
<1>5. CASE ReadBackDirectory
  <2>1. /\ at = "read_back_mode" /\ Checks[index] = "directory"
        /\ found.kind = "directory" /\ found.dirShared
        /\ chmod[Directory] = IF store.dirShared THEN "lies" ELSE "sticks"
    BY <1>5, <1>b DEF ReadBackDirectory, IInv, PositionInv, PlaceFound
  <2>2. DirectoryFault = IF store.dirShared THEN "mode_not_honoured" ELSE "store_shared"
    BY <2>1 DEF DirectoryFault
  <2>3. QED BY <1>5, <2>1, <2>2, FaultsByKind, RefuseVerdict DEF ReadBackDirectory
<1>6. CASE LookAtFiles
  <2>1. /\ at = "check" /\ Checks[index] = "files" /\ store.shared = found.shared
        /\ Listable(store) <=> Listable(found)
    BY <1>6, <1>b DEF LookAtFiles, RunCheck, StoreAsFound, Listable
  <2>2. CASE Listable(store) /\ store.shared = {}
    <3>1. FilesFault = "none" BY <2>1, <2>2 DEF FilesFault
    <3>2. Accept(FALSE) BY <1>6, <2>2 DEF LookAtFiles
    <3>3. QED BY <1>6, <1>b, <2>1, <3>1, <3>2, FaultsByKind, AcceptVerdict
              DEF LookAtFiles, StoreAsFound
  <2>3. CASE Listable(store) /\ store.shared # {}
    <3>1. at' = "repair_files" /\ UNCHANGED <<index, emitted, store>>
      BY <1>6, <2>3 DEF LookAtFiles
    <3>2. StoreAsFound' /\ PlaceFound'
      BY <1>6, <1>b, <2>1, <2>3, <3>1 DEF LookAtFiles, StoreAsFound, PlaceFound, Listable
    <3>3. QED BY <1>6, <2>1, <3>1, <3>2, InsideVerdict DEF LookAtFiles
  <2>4. CASE ~Listable(store)
    <3>1. FilesFault = "escaped" BY <2>1, <2>4 DEF FilesFault
    <3>2. Escape BY <1>6, <2>4 DEF LookAtFiles
    <3>3. QED BY <1>6, <2>1, <3>1, <3>2, FaultsByKind, EscapeVerdict DEF LookAtFiles
  <2>5. QED BY <2>2, <2>3, <2>4
<1>7. ASSUME NEW f \in Files, RepairFile(f) PROVE VerdictInv'
  <2>1. /\ at = "repair_files" /\ Checks[index] = "files"
        /\ f \in store.shared /\ f \in found.shared /\ Listable(found)
    BY <1>7, <1>b DEF RepairFile, IInv, PositionInv, PlaceFound
  <2>2. CASE chmod[f] # "sticks"
    <3>1. FilesFault = "escaped" BY <2>1, <2>2 DEF FilesFault
    <3>2. Escape BY <1>7, <2>2 DEF RepairFile
    <3>3. QED BY <1>7, <2>1, <3>1, <3>2, FaultsByKind, EscapeVerdict DEF RepairFile
  <2>3. CASE chmod[f] = "sticks"
    <3>1. at' = at /\ UNCHANGED <<index, emitted>>
      BY <1>7, <2>3 DEF RepairFile, Escape
    <3>2. StoreAsFound'
      BY <1>7, <1>a, <1>b, <2>1, <2>3, <3>1 DEF RepairFile, StoreAsFound, Stores
    <3>3. store'.shared = store.shared \ {f}
      BY <1>7, <1>a, <2>3 DEF RepairFile, Stores
    <3>4. PlaceFound'
      BY <1>7, <1>b, <2>1, <2>3, <3>1, <3>3 DEF RepairFile, PlaceFound, Listable, world
    <3>5. QED BY <1>7, <2>1, <3>1, <3>2, <3>4, InsideVerdict DEF RepairFile
  <2>4. QED BY <2>2, <2>3
<1>8. CASE RefuseSharedFiles
  <2>1. /\ at = "repair_files" /\ Checks[index] = "files" /\ found.shared # {} /\ Listable(found)
        /\ \A f \in found.shared : chmod[f] = "sticks"
    BY <1>8, <1>b DEF RefuseSharedFiles, IInv, PositionInv, PlaceFound
  <2>2. FilesFault = "store_file_shared" BY <2>1 DEF FilesFault
  <2>3. QED BY <1>8, <2>1, <2>2, FaultsByKind, RefuseVerdict DEF RefuseSharedFiles
<1>9. CASE Sweep
  <2>1. at = "check" /\ Checks[index] = "write_path" BY <1>9, SweepEffect
  <2>2. CASE Escape /\ sweep = "raises" /\ (store'.debris \/ ~Listable(store))
    <3>1. SweepMayRaise
      BY <1>9, <1>b, <2>1, <2>2, SweepEffect DEF StoreAsFound, SweepMayRaise, Listable
    <3>2. QED BY <1>9, <2>1, <2>2, <3>1, FaultsByKind, SweepEffect, EscapeVerdict
  <2>3. CASE at' = "write" /\ UNCHANGED <<index, results, outcome, refusal, emitted, told>>
    <3>1. StoreAsFound' /\ PlaceFound'
      BY <1>9, <1>b, <2>1, <2>3, SweepEffect DEF StoreAsFound, PlaceFound
    <3>2. QED BY <1>9, <2>1, <2>3, <3>1, SweepEffect, InsideVerdict
  <2>4. QED BY <1>9, <2>2, <2>3, SweepEffect
<1>10. CASE WriteSentinel
  <2>1. /\ at = "write" /\ at' \in {"read_back_sentinel", "clean_up"}
        /\ UNCHANGED <<index, emitted>> /\ store'.kind = store.kind
        /\ store'.dirShared = store.dirShared /\ store'.shared = store.shared
        /\ store'.debris = store.debris
    BY <1>10, <1>a DEF WriteSentinel, Stores
  <2>2. StoreAsFound'
    BY <1>10, <1>b, <2>1 DEF WriteSentinel, StoreAsFound
  <2>3. PlaceFound'
    BY <1>10, <1>a, <1>b, <2>1 DEF WriteSentinel, StoreAsFound, PlaceFound, WriteFault, Listable, Media, world
  <2>4. QED BY <1>10, <2>1, <2>2, <2>3, InsideVerdict DEF WriteSentinel
<1>11. CASE ReadBackSentinel
  <2>1. StoreAsFound'
    BY <1>11, <1>b DEF ReadBackSentinel, StoreAsFound
  <2>2. PlaceFound'
    BY <1>11, <1>b DEF ReadBackSentinel, PlaceFound, WriteFault, Listable, world
  <2>3. QED BY <1>11, <2>1, <2>2, InsideVerdict DEF ReadBackSentinel
<1>12. CASE CleanUp
  <2>1. /\ at = "clean_up" /\ Checks[index] = "write_path" /\ pending = WriteFault
        /\ pending \in {"none", "store_durability_unavailable", "store_write_path_broken"}
    BY <1>12, <1>b DEF CleanUp, IInv, PositionInv, PlaceFound
  <2>2. CASE pending = "none"
    <3>1. "none" \in FaultsOf("write_path") BY <2>1, <2>2, FaultsByKind
    <3>2. /\ store'.kind = store.kind /\ store'.debris = store.debris
          /\ store'.dirShared = store.dirShared /\ store'.shared = store.shared
      BY <1>12, UnlinkEffect DEF CleanUp
    <3>3. Accept(swept) BY <1>12, <2>2 DEF CleanUp
    <3>4. QED BY <1>12, <1>b, <2>1, <3>1, <3>2, <3>3, AcceptVerdict DEF CleanUp, StoreAsFound
  <2>3. CASE pending # "none"
    <3>1. RefuseStart(pending, FALSE) BY <1>12, <2>3 DEF CleanUp
    <3>2. pending \in FaultsOf("write_path") BY <2>1, FaultsByKind
    <3>3. QED BY <1>12, <2>1, <2>3, <3>1, <3>2, RefuseVerdict DEF CleanUp
  <2>4. QED BY <2>2, <2>3
<1>13. CASE CheckSecret
  <2>1. at = "check" /\ Checks[index] = "secret" BY <1>13 DEF CheckSecret, RunCheck
  <2>2. CASE secret = "good"
    <3>1. SecretFault = "none" /\ Accept(FALSE) BY <1>13, <2>2 DEF CheckSecret, SecretFault
    <3>2. QED BY <1>13, <1>b, <2>1, <3>1, FaultsByKind, AcceptVerdict DEF CheckSecret, StoreAsFound
  <2>3. CASE secret # "good"
    <3>1. CASE secret = "absent"
      <4>1. SecretFault = "token_absent" BY <3>1 DEF SecretFault
      <4>2. RefuseStart("token_absent", FALSE) BY <1>13, <3>1 DEF CheckSecret
      <4>3. QED BY <1>13, <2>1, <4>1, <4>2, FaultsByKind, RefuseVerdict DEF CheckSecret
    <3>2. CASE secret = "short"
      <4>1. SecretFault = "token_too_short" BY <3>2 DEF SecretFault
      <4>2. RefuseStart("token_too_short", FALSE) BY <1>13, <3>2 DEF CheckSecret
      <4>3. QED BY <1>13, <2>1, <4>1, <4>2, FaultsByKind, RefuseVerdict DEF CheckSecret
    <3>3. QED BY <1>a, <2>3, <3>1, <3>2
  <2>4. QED BY <2>2, <2>3
<1>14. CASE Kill
  BY <1>14 DEF Kill, VerdictInv, Ended
<1>15. CASE UNCHANGED probeVars
  BY <1>15, FaultsKept DEF probeVars, runState, VerdictInv, Blameless, StoreAsFound, PlaceFound,
                           Ended, Deserved, world, WriteFault, Listable
<1>16. QED
  BY <1>1, <1>2, <1>3, <1>4, <1>5, <1>6, <1>7, <1>8, <1>9, <1>10, <1>11, <1>12,
     <1>13, <1>14, <1>15 DEF Next, ProbeStep

(* For any list of checks on any machine: a run ends in the verdict its     *)
(* first faulty check deserves on the store as the run found it.            *)
THEOREM FirstFaultDecides == Spec => []VerdictIsTheFirstFault
<1>1. Init => VerdictInv
  BY DEF Init, VerdictInv, Ended
<1>2. TypeOK /\ VerdictInv => VerdictIsTheFirstFault
  <2> SUFFICES ASSUME TypeOK, VerdictInv, Ended
               PROVE  VerdictIsTheFirstFault
      BY DEF VerdictIsTheFirstFault
  <2>1. index \in 1..Len(Checks) BY DEF TypeOK
  <2>2. QED BY <2>1 DEF VerdictInv, Blameless, VerdictIsTheFirstFault
<1>3. QED
  BY <1>1, <1>2, InitIsTyped, InitIsGood, TypeStep, IInvStep, VerdictStep, PTL DEF Spec

-----------------------------------------------------------------------------
(* While a run is under way no check has reported a mode repair, since the  *)
(* one that makes it refuses; the mode changes made belong to the check in  *)
(* hand; and outside a write path check every sweep made is reported.       *)
DeltaInv ==
    /\ changed \subseteq Modes \cup {"write_path"}
    /\ at # "idle" =>
         /\ Reported \subseteq changed /\ Reported \cap Modes = {}
         /\ at \notin {"read_back_mode", "repair_files"} => changed \cap Modes = {}
         /\ at = "read_back_mode" =>
              changed \cap Modes = IF store.dirShared THEN {} ELSE {"directory"}
         /\ at = "repair_files" =>
              changed \cap Modes = IF store.shared = found.shared THEN {} ELSE {"files"}
         /\ at \in {"check", "read_back_mode", "repair_files"} /\ "write_path" \in changed
              => "write_path" \in Reported
         /\ at \in {"write", "read_back_sentinel", "clean_up"} =>
              /\ swept => "write_path" \in changed
              /\ "write_path" \in changed => swept \/ "write_path" \in Reported
    /\ ReportIsTheDelta

(* A result that is appended reports its check, and only if it repaired.    *)
LEMMA ReportGrows ==
    ASSUME TypeOK, NEW r \in BOOLEAN, results' = Append(results, Result(r))
    PROVE  Reported' = Reported \cup (IF r THEN {Checks[index]} ELSE {})
<1>1. Len(results) \in Nat /\ Len(results') = Len(results) + 1
  BY DEF TypeOK
<1>2. results'[Len(results')] = [check |-> Checks[index], repaired |-> r]
  BY <1>1 DEF TypeOK, Result
<1>3. \A i \in 1..Len(results) : results'[i] = results[i] /\ i \in 1..Len(results')
  BY <1>1 DEF TypeOK
<1>4. 1..Len(results') = 1..Len(results) \cup {Len(results')}
  BY <1>1
<1>5. ASSUME NEW c PROVE c \in Reported' <=> c \in Reported \/ (r /\ c = Checks[index])
  <2>1. c \in Reported' <=> \E i \in 1..Len(results') : results'[i].repaired /\ c = results'[i].check
    BY DEF Reported
  <2>2. c \in Reported <=> \E i \in 1..Len(results) : results[i].repaired /\ c = results[i].check
    BY DEF Reported
  <2>3. QED BY <1>2, <1>3, <1>4, <2>1, <2>2
<1>6. QED BY <1>5

LEMMA DeltaStep == TypeOK /\ IInv /\ VerdictInv /\ DeltaInv /\ [Next]_probeVars => DeltaInv'
<1> SUFFICES ASSUME TypeOK, IInv, VerdictInv, DeltaInv, [Next]_probeVars PROVE DeltaInv'
    OBVIOUS
<1>a. store \in Stores /\ found \in Stores /\ index \in 1..Len(Checks)
  BY DEF TypeOK
<1>b. UNCHANGED results => Reported' = Reported
  BY DEF Reported
<1>c. /\ \A r \in BOOLEAN : Accept(r) =>
           Reported' = Reported \cup (IF r THEN {Checks[index]} ELSE {})
      /\ \A name : \A r \in BOOLEAN : RefuseStart(name, r) =>
           Reported' = Reported \cup (IF r THEN {Checks[index]} ELSE {})
  BY ReportGrows DEF Accept, RefuseStart
<1>d. at # "idle" => StoreAsFound /\ PlaceFound
  BY DEF VerdictInv
<1>1. CASE Start
  <2>1. Reported' = {} BY <1>1 DEF Start, Reported
  <2>2. QED BY <1>1, <2>1 DEF Start, DeltaInv, ReportIsTheDelta
<1>2. CASE RefuseUnlessARealDirectory
  <2>1. Reported' = Reported /\ at = "check" /\ at' = "idle" /\ outcome' = "refused" /\ changed' = changed
    BY <1>2, <1>c DEF RefuseUnlessARealDirectory, RunCheck, RefuseStart
  <2>2. QED BY <2>1 DEF DeltaInv, ReportIsTheDelta
<1>3. ASSUME at = "check", Accept(FALSE), UNCHANGED changed PROVE DeltaInv'
  <2>1. Reported' = Reported BY <1>3, <1>c
  <2>2. \/ at' = "check"
        \/ at' = "idle" /\ outcome' = "passed"
    BY <1>3 DEF Accept
  <2>3. Reported = changed BY <1>3 DEF DeltaInv, Modes
  <2>4. QED BY <1>3, <2>1, <2>2, <2>3 DEF DeltaInv, ReportIsTheDelta
<1>4. ASSUME at = "check", NEW name, RefuseStart(name, FALSE), UNCHANGED changed PROVE DeltaInv'
  <2>1. Reported' = Reported BY <1>4, <1>c
  <2>2. at' = "idle" /\ outcome' = "refused" BY <1>4 DEF RefuseStart
  <2>3. QED BY <1>4, <2>1, <2>2 DEF DeltaInv, ReportIsTheDelta
<1>5. ASSUME at' = "idle", outcome' \in {"escaped", "killed"}, UNCHANGED changed PROVE DeltaInv'
  BY <1>5 DEF DeltaInv, ReportIsTheDelta
<1>6. CASE DirectoryAlreadyPrivate
  BY <1>3, <1>6 DEF DirectoryAlreadyPrivate, RunCheck
<1>7. CASE ChmodDirectory
  <2>1. CASE chmod[Directory] \notin {"sticks", "lies"}
    BY <1>5, <1>7, <2>1 DEF ChmodDirectory, Escape
  <2>2. CASE chmod[Directory] \in {"sticks", "lies"}
    <3>1. /\ at = "check" /\ at' = "read_back_mode" /\ Reported' = Reported
      BY <1>7, <1>b, <2>2 DEF ChmodDirectory, RunCheck, Escape
    <3>2. changed' \cap Modes = IF store'.dirShared THEN {} ELSE {"directory"}
      BY <1>7, <1>a, <2>2, <3>1 DEF ChmodDirectory, RunCheck, DeltaInv, Modes, Stores
    <3>3. /\ changed \subseteq changed' /\ changed' \subseteq changed \cup {"directory"}
      BY <1>7, <2>2 DEF ChmodDirectory, Escape
    <3>4. QED BY <3>1, <3>2, <3>3 DEF DeltaInv, ReportIsTheDelta, Modes
  <2>3. QED BY <2>1, <2>2
<1>8. CASE ReadBackDirectory
  <2>1. /\ at = "read_back_mode" /\ Checks[index] = "directory" /\ UNCHANGED changed
        /\ at' = "idle" /\ outcome' = "refused"
    BY <1>8 DEF ReadBackDirectory, RefuseStart, IInv, PositionInv
  <2>2. Reported' = Reported \cup (IF store.dirShared THEN {} ELSE {"directory"})
    BY <1>8, <1>c, <2>1 DEF ReadBackDirectory
  <2>3. QED BY <2>1, <2>2 DEF DeltaInv, ReportIsTheDelta, Modes
<1>9. CASE LookAtFiles
  <2>0. CASE ~Listable(store)
    BY <1>5, <1>9, <2>0 DEF LookAtFiles, Escape
  <2>1. CASE Listable(store) /\ store.shared = {}
    BY <1>3, <1>9, <2>1 DEF LookAtFiles, RunCheck
  <2>2. CASE Listable(store) /\ store.shared # {}
    <3>1. /\ at = "check" /\ at' = "repair_files" /\ Reported' = Reported
          /\ UNCHANGED <<store, found, changed>> /\ store.shared = found.shared
      BY <1>9, <1>b, <1>d, <2>2 DEF LookAtFiles, RunCheck, StoreAsFound
    <3>2. QED BY <3>1 DEF DeltaInv, ReportIsTheDelta
  <2>3. QED BY <2>0, <2>1, <2>2
<1>10. ASSUME NEW f \in Files, RepairFile(f) PROVE DeltaInv'
  <2>1. CASE chmod[f] # "sticks"
    BY <1>5, <1>10, <2>1 DEF RepairFile, Escape
  <2>2. CASE chmod[f] = "sticks"
    <3>1. /\ at = "repair_files" /\ at' = "repair_files" /\ Reported' = Reported
          /\ changed' = changed \cup {"files"} /\ found' = found
          /\ store'.shared = store.shared \ {f}
      BY <1>10, <1>a, <1>b, <2>2 DEF RepairFile, Escape, Stores
    <3>2. f \in store.shared /\ store.shared \subseteq found.shared
      BY <1>10, <1>d, <3>1 DEF RepairFile, IInv, PositionInv, PlaceFound
    <3>3. store'.shared # found'.shared BY <3>1, <3>2
    <3>4. changed' \cap Modes = {"files"} BY <3>1 DEF DeltaInv, Modes
    <3>5. QED BY <3>1, <3>3, <3>4 DEF DeltaInv, ReportIsTheDelta, Modes
  <2>3. QED BY <2>1, <2>2
<1>11. CASE RefuseSharedFiles
  <2>1. /\ at = "repair_files" /\ Checks[index] = "files" /\ UNCHANGED changed
        /\ at' = "idle" /\ outcome' = "refused" /\ store.shared # found.shared
    BY <1>11, <1>d DEF RefuseSharedFiles, RefuseStart, IInv, PositionInv, PlaceFound
  <2>2. Reported' = Reported \cup {"files"}
    BY <1>11, <1>c, <2>1 DEF RefuseSharedFiles
  <2>3. QED BY <2>1, <2>2 DEF DeltaInv, ReportIsTheDelta, Modes
<1>12. CASE Sweep
  <2>1. changed' = IF swept' THEN changed \cup {"write_path"} ELSE changed
    BY <1>12, SweepEffect
  <2>2. CASE Escape
    BY <2>1, <2>2 DEF Escape, DeltaInv, ReportIsTheDelta
  <2>3. CASE at' = "write" /\ UNCHANGED results
    <3>1. at = "check" /\ Reported' = Reported /\ swept' \in BOOLEAN
      BY <1>12, <1>b, <2>3, SweepEffect
    <3>2. QED BY <2>1, <2>3, <3>1 DEF DeltaInv, ReportIsTheDelta, Modes
  <2>4. QED BY <1>12, <2>2, <2>3, SweepEffect
<1>13. CASE WriteSentinel \/ ReadBackSentinel
  <2>1. /\ at \in {"write", "read_back_sentinel"} /\ at' \in {"read_back_sentinel", "clean_up"}
        /\ Reported' = Reported /\ UNCHANGED <<changed, swept>>
    BY <1>13, <1>b DEF WriteSentinel, ReadBackSentinel
  <2>2. QED BY <2>1 DEF DeltaInv, ReportIsTheDelta
<1>14. CASE CleanUp
  <2>1. at = "clean_up" /\ Checks[index] = "write_path" /\ UNCHANGED changed
    BY <1>14 DEF CleanUp, IInv, PositionInv
  <2>2. CASE pending # "none"
    <3>1. Reported' = Reported /\ at' = "idle" /\ outcome' = "refused"
      BY <1>14, <1>c, <2>2 DEF CleanUp, RefuseStart
    <3>2. QED BY <2>1, <3>1 DEF DeltaInv, ReportIsTheDelta
  <2>3. CASE pending = "none"
    <3>1. Accept(swept) /\ swept \in BOOLEAN BY <1>14, <2>3 DEF CleanUp, TypeOK
    <3>2. Reported' = Reported \cup (IF swept THEN {"write_path"} ELSE {})
      BY <1>c, <2>1, <3>1
    <3>3. Reported' = changed BY <2>1, <3>1, <3>2 DEF DeltaInv, Modes
    <3>4. \/ at' = "check"
          \/ at' = "idle" /\ outcome' = "passed"
      BY <3>1 DEF Accept
    <3>5. QED BY <2>1, <3>3, <3>4 DEF DeltaInv, ReportIsTheDelta
  <2>4. QED BY <2>2, <2>3
<1>15. CASE CheckSecret
  BY <1>3, <1>4, <1>15 DEF CheckSecret, RunCheck
<1>16. CASE Kill
  BY <1>5, <1>16 DEF Kill
<1>17. CASE UNCHANGED probeVars
  BY <1>17, <1>b DEF probeVars, runState, DeltaInv, ReportIsTheDelta
<1>18. QED
  BY <1>1, <1>2, <1>6, <1>7, <1>8, <1>9, <1>10, <1>11, <1>12, <1>13, <1>14, <1>15,
     <1>16, <1>17 DEF Next, ProbeStep

(* For any list of checks: the report of a run that passed or refused names *)
(* the mode repairs the run made and no other, and never a pass after one.  *)
THEOREM ReportExact == Spec => []ReportIsTheDelta
<1>1. Init => VerdictInv /\ DeltaInv
  BY DEF Init, VerdictInv, Ended, DeltaInv, ReportIsTheDelta
<1>2. DeltaInv => ReportIsTheDelta
  BY DEF DeltaInv
<1>3. QED
  BY <1>1, <1>2, InitIsTyped, InitIsGood, TypeStep, IInvStep, VerdictStep, DeltaStep, PTL
     DEF Spec

-----------------------------------------------------------------------------
(* The unit. *)

Holding == {"build", "notify", "serving", "closing"}    \* with the listener
Serving == Holding \cup {"draining", "exiting"}          \* once it had it

(* What the place of the process says of the probe, of the listener, of the *)
(* unit and of what the manager delivered.                                  *)
PlaceInv ==
    /\ proc # "probe" => at = "idle"
    /\ Alive => credential # "missing"
    /\ proc \notin {"none", "wire"} \/ outcome # "none" => credential = "readable"
    /\ proc \in Serving \cup {"bind"} => outcome = "passed"
    /\ endpoint = "self" <=> proc \in Holding
    /\ Alive <=> unit \in {"activating", "active"}
    /\ notified \/ unit = "active" => proc \in {"serving", "draining", "closing", "exiting"}
    /\ proc \in {"closing", "exiting"} => ending \in {"0", "1"}

(* The event of a refusal is the only one of its run.                       *)
EmittedInv ==
    /\ at # "idle" => emitted = << >>
    /\ at = "idle" /\ outcome = "refused" => emitted = <<refusal>>

UnitInv == UnitTypeOK /\ IInv /\ PlaceInv /\ EmittedInv /\ StatusTellsRefusalFromCrash

-----------------------------------------------------------------------------
(* A step of the probe, or a step that leaves it alone, emits one event at   *)
(* most, and only on its way out.                                            *)
LEMMA EmittedStep == IInv /\ EmittedInv /\ [Next]_probeVars => EmittedInv'
<1> SUFFICES ASSUME IInv, EmittedInv, [Next]_probeVars PROVE EmittedInv'
    OBVIOUS
<1> USE DEF EmittedInv
<1>1. ASSUME at # "idle", NEW r, Accept(r) PROVE EmittedInv'
  BY <1>1 DEF Accept
<1>2. ASSUME at # "idle", NEW name, NEW r, RefuseStart(name, r) PROVE EmittedInv'
  <2>1. emitted' = Append(<< >>, name) BY <1>2 DEF RefuseStart
  <2>2. Append(<< >>, name) = <<name>> OBVIOUS
  <2>3. QED BY <1>2, <2>1, <2>2 DEF RefuseStart
<1>3. ASSUME Escape PROVE EmittedInv'
  BY <1>3 DEF Escape
<1>4. ASSUME at # "idle", at' # "idle", UNCHANGED emitted PROVE EmittedInv'
  BY <1>4
<1>5. CASE Start
  BY <1>5 DEF Start
<1>6. CASE RefuseUnlessARealDirectory \/ DirectoryAlreadyPrivate
  BY <1>1, <1>2, <1>6 DEF RefuseUnlessARealDirectory, DirectoryAlreadyPrivate, RunCheck
<1>7. CASE ChmodDirectory
  BY <1>3, <1>4, <1>7 DEF ChmodDirectory, RunCheck
<1>8. CASE ReadBackDirectory \/ RefuseSharedFiles
  BY <1>2, <1>8 DEF ReadBackDirectory, RefuseSharedFiles
<1>9. CASE LookAtFiles
  BY <1>1, <1>3, <1>4, <1>9 DEF LookAtFiles, RunCheck
<1>10. ASSUME NEW f \in Files, RepairFile(f) PROVE EmittedInv'
  BY <1>3, <1>4, <1>10 DEF RepairFile
<1>11. CASE Sweep
  BY <1>3, <1>4, <1>11 DEF Sweep, RunCheck
<1>12. CASE WriteSentinel \/ ReadBackSentinel
  BY <1>4, <1>12 DEF WriteSentinel, ReadBackSentinel
<1>13. CASE CleanUp
  BY <1>1, <1>2, <1>13 DEF CleanUp
<1>14. CASE CheckSecret
  BY <1>1, <1>2, <1>14 DEF CheckSecret, RunCheck
<1>15. CASE Kill
  BY <1>15 DEF Kill
<1>16. CASE UNCHANGED probeVars
  BY <1>16 DEF probeVars, runState
<1>17. QED
  BY <1>5, <1>6, <1>7, <1>8, <1>9, <1>10, <1>11, <1>12, <1>13, <1>14, <1>15, <1>16
  DEF Next, ProbeStep

(* A step of the probe, or one that leaves it alone, keeps the probe's part. *)
LEMMA ProbePart ==
    TypeOK /\ IInv /\ EmittedInv /\ [Next]_probeVars => TypeOK' /\ IInv' /\ EmittedInv'
BY TypeStep, IInvStep, EmittedStep

(* So does the manager when it prepares the state area: the store only gets  *)
(* more private, and becomes a directory only where there was nothing.       *)
LEMMA PreparePart ==
    ASSUME TypeOK, IInv, EmittedInv, at = "idle", PrepareStateArea,
           UNCHANGED <<world, origin, runState, told, kills>>
    PROVE  TypeOK' /\ IInv' /\ EmittedInv'
<1>1. store \in Stores /\ store' \in Stores
  BY DEF PrepareStateArea, TypeOK, Stores
<1>2. TypeOK'
  BY <1>1 DEF TypeOK, world, runState
<1>3. EmittedInv'
  BY DEF EmittedInv, runState
<1>4. PositionInv'
  BY DEF IInv, PositionInv, world, runState
<1>5. \A i \in 1..Len(Checks) : Holds(Checks[i]) => Holds(Checks[i])'
  <2>1. CASE store.kind = "absent"
    BY <1>1, <2>1 DEF PrepareStateArea, Holds, Listable, world, runState, Stores
  <2>2. CASE store.kind # "absent"
    BY <1>1, <2>2 DEF PrepareStateArea, Holds, Listable, world, runState, Stores
  <2>3. QED BY <2>1, <2>2
<1>6. ProgressInv'
  BY <1>5 DEF IInv, ProgressInv, runState
<1>7. RepairedBeforeRefused'
  BY <1>1 DEF IInv, RepairedBeforeRefused, PrepareStateArea, runState, Stores
<1>8. QED BY <1>2, <1>3, <1>4, <1>6, <1>7 DEF IInv

(* And the loss of the process, wherever it was.                             *)
LEMMA LosePart ==
    ASSUME TypeOK, IInv, EmittedInv, LoseProcess
    PROVE  /\ TypeOK' /\ IInv' /\ EmittedInv' /\ at' = "idle"
           /\ outcome' # "none" => outcome # "none"
<1>1. CASE Kill
  BY <1>1, ProbePart DEF Next, Kill, IInv, PositionInv
<1>2. CASE ~Kill
  <2>1. /\ at = "idle" /\ kills < MaxKills /\ kills' = kills + 1
        /\ UNCHANGED <<world, store, runState, origin, told>>
    BY <1>2 DEF LoseProcess
  <2>2. TypeOK'
    BY <2>1, KillsAssumption DEF TypeOK, world, runState
  <2>3. EmittedInv' /\ at' = "idle" /\ outcome' = outcome
    BY <2>1 DEF EmittedInv, runState
  <2>4. IInv'
    BY <2>1 DEF IInv, PositionInv, ProgressInv, Holds, RepairedBeforeRefused, world, runState
  <2>5. QED BY <2>2, <2>3, <2>4
<1>3. QED BY <1>1, <1>2

-----------------------------------------------------------------------------
LEMMA UnitInitIsGood == UnitInit => UnitInv
<1> SUFFICES ASSUME UnitInit PROVE UnitInv
    OBVIOUS
<1>1. TypeOK /\ IInv BY InitIsTyped, InitIsGood DEF UnitInit
<1>2. at = "idle" /\ outcome = "none" BY DEF UnitInit, Init
<1>3. UnitTypeOK
  <2>1. starts \in 0..StartLimitBurst /\ upsets \in 0..MaxUpsets
    BY BurstAssumption, UpsetsAssumption DEF UnitInit
  <2>2. credential \in {"missing", "undecodable", "readable"} /\ notified \in BOOLEAN BY DEF UnitInit
  <2>3. QED BY <1>1, <2>1, <2>2 DEF UnitInit, UnitTypeOK
<1>4. PlaceInv BY <1>2 DEF UnitInit, PlaceInv, Alive, Serving, Holding
<1>5. EmittedInv BY <1>2 DEF EmittedInv
<1>6. StatusTellsRefusalFromCrash
  BY DEF UnitInit, StatusTellsRefusalFromCrash, EXIT_STARTUP_REFUSED
<1>7. QED BY <1>1, <1>3, <1>4, <1>5, <1>6 DEF UnitInv

LEMMA UnitStep == UnitInv /\ [UnitNext]_vars => UnitInv'
<1> SUFFICES ASSUME UnitInv, [UnitNext]_vars PROVE UnitInv'
    OBVIOUS
<1> DEFINE Part == TypeOK /\ IInv /\ EmittedInv
           Rest == UnitTypeOK /\ PlaceInv /\ StatusTellsRefusalFromCrash
<1>a. Part /\ Rest /\ TypeOK BY DEF UnitInv, UnitTypeOK
<1>b. ASSUME Part', Rest' PROVE UnitInv'
  BY <1>b DEF UnitInv
<1>c. ASSUME UNCHANGED probeVars
      PROVE  Part' /\ UNCHANGED <<at, outcome, refusal, emitted>>
  <2>1. Part' BY <1>a, <1>c, ProbePart
  <2>2. QED BY <1>c, <2>1 DEF probeVars, runState
<1> USE DEF PlaceInv, Alive, Serving, Holding, StatusTellsRefusalFromCrash, EXIT_STARTUP_REFUSED
<1>1. CASE ManagerStart
  <2>1. at = "idle" /\ UNCHANGED <<at, outcome, refusal, emitted>>
    BY <1>1, <1>a DEF ManagerStart, runState
  <2>2. Part' BY <1>1, <1>a, <2>1, PreparePart DEF ManagerStart
  <2>3. Rest'
    BY <1>1, <1>a, <2>1, <2>2, BurstAssumption DEF ManagerStart, UnitTypeOK
  <2>4. QED BY <1>b, <2>2, <2>3
<1>2. CASE StartLimitHit
  BY <1>2, <1>a, <1>b, <1>c DEF StartLimitHit, UnitTypeOK
<1>3. CASE ReadNotification
  BY <1>3, <1>a, <1>b, <1>c DEF ReadNotification, UnitTypeOK
<1>4. CASE WindowElapses
  BY <1>4, <1>a, <1>b, <1>c, BurstAssumption DEF WindowElapses, UnitTypeOK
<1>5. CASE OperatorStart
  BY <1>5, <1>a, <1>b, <1>c DEF OperatorStart, UnitTypeOK
<1>6. CASE Wire
  <2>1. CASE credential = "readable"
    <3>1. Part' BY <1>6, <1>a, <2>1, ProbePart DEF Wire, Next
    <3>2. Rest' BY <1>6, <1>a, <2>1, <3>1 DEF Wire, Start, UnitTypeOK
    <3>3. QED BY <1>b, <3>1, <3>2
  <2>2. CASE credential # "readable"
    <3>1. Part' /\ UNCHANGED <<at, outcome, refusal, emitted>> /\ Exit("1")
      BY <1>6, <1>c, <2>2 DEF Wire
    <3>2. Rest' BY <1>6, <1>a, <2>2, <3>1 DEF Wire, Exit, UnitTypeOK
    <3>3. QED BY <1>b, <3>1, <3>2
  <2>3. QED BY <2>1, <2>2
<1>7. CASE Probe
  <2>1. Part' BY <1>7, <1>a, ProbePart DEF Probe, Next
  <2>2. Rest' BY <1>7, <1>a, <2>1 DEF Probe, UnitTypeOK, unitVars
  <2>3. QED BY <1>b, <2>1, <2>2
<1>8. CASE ProbePassed
  BY <1>8, <1>a, <1>b, <1>c DEF ProbePassed, UnitTypeOK
<1>9. CASE ProbeRaised
  <2>1. Part' /\ UNCHANGED <<at, outcome, refusal, emitted>>
    BY <1>9, <1>c DEF ProbeRaised
  <2>2. Rest'
    BY <1>9, <1>a, <2>1 DEF ProbeRaised, Exit, EmittedInv, UnitTypeOK
  <2>3. QED BY <1>b, <2>1, <2>2
<1>10. CASE Bind
  <2>1. Part' /\ UNCHANGED <<at, outcome, refusal, emitted>>
    BY <1>10, <1>c DEF Bind
  <2>2. CASE endpoint = "free"
    <3>1. Rest' BY <1>10, <1>a, <2>1, <2>2 DEF Bind, UnitTypeOK
    <3>2. QED BY <1>b, <2>1, <3>1
  <2>3. CASE endpoint # "free"
    <3>1. Exit("1") BY <1>10, <2>3 DEF Bind
    <3>2. Rest' BY <1>10, <1>a, <2>1, <3>1 DEF Bind, Exit, UnitTypeOK
    <3>3. QED BY <1>b, <2>1, <3>2
  <2>4. QED BY <2>2, <2>3
<1>11. CASE BuildApplication
  BY <1>11, <1>a, <1>b, <1>c DEF BuildApplication, UnitTypeOK
<1>12. CASE NotifyReady
  <2>1. Part' /\ UNCHANGED <<at, outcome, refusal, emitted>>
    BY <1>12, <1>c DEF NotifyReady
  <2>2. upsets' \in 0..MaxUpsets
    BY <1>12, <1>a, UpsetsAssumption DEF NotifyReady, UnitTypeOK
  <2>3. UnitTypeOK' BY <1>12, <1>a, <2>1, <2>2 DEF NotifyReady, UnitTypeOK
  <2>4. PlaceInv' /\ StatusTellsRefusalFromCrash' BY <1>12, <1>a, <2>1 DEF NotifyReady
  <2>5. QED BY <1>b, <2>1, <2>3, <2>4
<1>13. CASE Signalled \/ LifespanFails \/ Close
  BY <1>13, <1>a, <1>b, <1>c DEF Signalled, LifespanFails, Close, UnitTypeOK
<1>14. ASSUME NEW status \in {"0", "1", "stopped"}, Exit(status), UNCHANGED probeVars,
              proc \in {"draining", "exiting"}
       PROVE  UnitInv'
  <2>1. Part' /\ UNCHANGED <<at, outcome, refusal, emitted>>
    BY <1>14, <1>c
  <2>2. Rest' BY <1>14, <1>a, <2>1 DEF Exit, UnitTypeOK
  <2>3. QED BY <1>b, <2>1, <2>2
<1>d. CASE Drained \/ End
  BY <1>d, <1>14, <1>a DEF Drained, End
<1>15. CASE Crash
  <2>1. Part' /\ at' = "idle" /\ (outcome' # "none" => outcome # "none")
    BY <1>15, <1>a, LosePart DEF Crash
  <2>2. Rest' BY <1>15, <1>a, <2>1 DEF Crash, Exit, UnitTypeOK
  <2>3. QED BY <1>b, <2>1, <2>2
<1>16. CASE PowerCut
  <2>1. Part' /\ at' = "idle" /\ (outcome' # "none" => outcome # "none")
    BY <1>16, <1>a, LosePart DEF PowerCut
  <2>2. UnitTypeOK'
    <3>1. starts' \in 0..StartLimitBurst BY <1>16, BurstAssumption DEF PowerCut
    <3>2. QED BY <1>16, <1>a, <2>1, <3>1 DEF PowerCut, UnitTypeOK
  <2>3. PlaceInv' /\ StatusTellsRefusalFromCrash'
    BY <1>16, <1>a, <2>1 DEF PowerCut
  <2>4. QED BY <1>b, <2>1, <2>2, <2>3
<1>17. CASE RivalTakes
  BY <1>17, <1>a, <1>b, <1>c, UpsetsAssumption DEF RivalTakes, UnitTypeOK
<1>18. CASE RivalReleases
  BY <1>18, <1>a, <1>b, <1>c DEF RivalReleases, UnitTypeOK
<1>19. CASE UNCHANGED vars
  BY <1>19, <1>a, <1>b, <1>c DEF vars, unitVars, UnitTypeOK
<1>20. QED
  BY <1>1, <1>2, <1>3, <1>4, <1>5, <1>6, <1>7, <1>8, <1>9, <1>10, <1>11, <1>12, <1>13,
     <1>d, <1>15, <1>16, <1>17, <1>18, <1>19 DEF UnitNext, Manager, Process

LEMMA UnitInvariant == UnitSpec => []UnitInv
BY UnitInitIsGood, UnitStep, PTL DEF UnitSpec

(* Manager, process, probe and store are always well typed, so the manager   *)
(* never counts more starts in a window than the unit file allows.           *)
THEOREM UnitTypeCorrect == UnitSpec => []UnitTypeOK
<1>1. UnitInv => UnitTypeOK BY DEF UnitInv
<1>2. QED BY <1>1, UnitInvariant, PTL

(* For any checks, files and limit: this service listens only while the      *)
(* process whose probe passed is alive, on a store that is still what the    *)
(* probe promised.                                                           *)
THEOREM Listening == UnitSpec => []ListeningMeansProbed
<1>1. UnitInv => ListeningMeansProbed
  BY DEF UnitInv, PlaceInv, IInv, ProgressInv, Holds, Holding, Serving, Alive,
         ListeningMeansProbed, PassMeansSound, Injected
<1>2. QED BY <1>1, UnitInvariant, PTL

(* The manager reports active only while there is a process that holds its   *)
(* listener, or that held it and is draining or past the finally.            *)
THEOREM ActiveCorrect == UnitSpec => []ActiveMeansListening
<1>1. UnitInv => ActiveMeansListening
  BY DEF UnitInv, PlaceInv, Holding, Alive, ActiveMeansListening
<1>2. QED BY <1>1, UnitInvariant, PTL

(* Whatever the checks and whatever fails: 78 is the status of a start that   *)
(* ended in a refusal and emitted it, and of no other.                        *)
THEOREM StatusCorrect == UnitSpec => []StatusTellsRefusalFromCrash
<1>1. UnitInv => StatusTellsRefusalFromCrash BY DEF UnitInv
<1>2. QED BY <1>1, UnitInvariant, PTL

-----------------------------------------------------------------------------
(* The starts a repairable store costs.  Nothing restarting cannot fix is    *)
(* wrong, the machine never died and nobody took the port.                   *)
Fixable ==
    /\ credential = "readable" /\ medium = "sound" /\ secret = "good"
    /\ sweep = "raises" => removal = "works"
    /\ origin.kind \in {"absent", "directory"}
    /\ \A e \in Entries : chmod[e] = "sticks"

Undisturbed == kills = 0 /\ upsets = 0

Shares == Bit(origin.dirShared) + Bit(origin.shared # {})

(* One start more than the store has kinds of sharing, and the manager does  *)
(* not give up: the limit of three is enough for every repairable store.     *)
LimitSuffices == Fixable /\ Undisturbed /\ StartLimitBurst > Shares => unit # "failed"

(* No check is left that a mode could make refuse.                           *)
Settled ==
    /\ Injected("directory") => ~store.dirShared /\ at # "read_back_mode"
    /\ Injected("files") => store.shared = {} /\ at # "repair_files"

Mending ==
    /\ store.kind \in {"absent", "directory"}
    /\ Alive => store.kind = "directory"
    /\ endpoint # "other"
    /\ pending = "none"
    /\ at = "read_back_mode" => ~store.dirShared
    /\ proc \in {"closing", "exiting"} => ending = "0"

(* Every start that was lost told of a sharing; once the store is settled no *)
(* start is lost any more, however many of them the operator asks for.       *)
Budget ==
    /\ unit = "auto_restart" => starts <= told
    /\ unit = "boot" => starts < StartLimitBurst /\ (starts <= told \/ Settled)
    /\ proc = "wire" \/ (proc = "probe" /\ at # "idle") => starts <= told + 1 \/ Settled
    /\ proc = "probe" /\ at = "idle" => \/ outcome = "passed"
                                        \/ outcome = "refused" /\ starts <= told
    /\ unit = "inactive" \/ proc \in Serving \cup {"bind"} => Settled
    /\ unit = "failed" => StartLimitBurst <= told

LostInv == Fixable /\ Undisturbed => Mending /\ Budget

ToldAtMost == Shrunk /\ Silent >= 0

-----------------------------------------------------------------------------
LEMMA Risen ==
    ASSUME NEW m \in Nat, NEW n \in Nat, NEW t \in Nat, m <= n, m - t - 0 >= 0
    PROVE  n - t - 0 >= 0
OBVIOUS

(* Manager and process only ever make the store more private, and the        *)
(* manager's own tightening is told to nobody.                               *)
LEMMA ToldAtMostStep == UnitInv /\ ToldAtMost /\ [UnitNext]_vars => ToldAtMost'
<1> SUFFICES ASSUME UnitInv, ToldAtMost, [UnitNext]_vars PROVE ToldAtMost'
    OBVIOUS
<1>1. TypeOK /\ IInv /\ Shrunk /\ PlaceInv /\ told \in Nat /\ Silent \in Int
  <2>1. TypeOK /\ told \in Nat BY DEF UnitInv, UnitTypeOK, TypeOK
  <2>2. Silent \in Int BY <2>1, Counts DEF Silent
  <2>3. QED BY <2>1, <2>2 DEF UnitInv, ToldAtMost
<1>2. CASE [Next]_probeVars
  <2>1. Shrunk' /\ (Silent' = Silent \/ Silent' >= Silent)
    BY <1>1, <1>2, TellingStep
  <2>2. TypeOK' BY <1>1, <1>2, TypeStep
  <2>3. Mended' \in Nat /\ Untold' \in Nat /\ told' \in Nat
    BY <2>2 DEF TypeOK, Mended, Untold, Bit
  <2>4. Silent' \in Int BY <2>3 DEF Silent
  <2>5. QED BY <1>1, <2>1, <2>4 DEF ToldAtMost
<1>3. CASE ManagerStart
  <2>1. at = "idle" /\ at' = "idle" /\ UNCHANGED <<origin, told>>
    BY <1>1, <1>3 DEF ManagerStart, PlaceInv, Alive, runState
  <2>2. store' \in Stores /\ (store'.dirShared => store.dirShared) /\ store'.shared = store.shared
    BY <1>1, <1>3 DEF ManagerStart, PrepareStateArea, Stores, TypeOK
  <2>3. Untold = 0 /\ Untold' = 0
    BY <2>1 DEF Untold, Bit
  <2>4. Mended' \in Nat /\ Mended \in Nat /\ Mended <= Mended'
    BY <2>1, <2>2 DEF Mended, Bit
  <2>5. Mended - told - 0 >= 0 /\ Silent' = Mended' - told - 0
    BY <1>1, <2>1, <2>3 DEF Silent, ToldAtMost
  <2>6. Silent' >= 0
    BY <1>1, <2>4, <2>5, Risen
  <2>7. QED BY <2>1, <2>2, <2>6, <1>1 DEF ToldAtMost, Shrunk
<1>4. CASE LoseProcess /\ ~Kill
  <2>1. UNCHANGED <<store, runState, origin, told>>
    BY <1>4 DEF LoseProcess
  <2>2. Mended' = Mended /\ Untold' = Untold
    BY <2>1 DEF Mended, Untold, runState
  <2>3. QED BY <2>1, <2>2 DEF ToldAtMost, Shrunk, Silent
<1>5. QED
  BY <1>2, <1>3, <1>4
  DEF UnitNext, Manager, Process, StartLimitHit, ReadNotification, WindowElapses, OperatorStart,
      Wire, Probe, ProbePassed, ProbeRaised, Bind, BuildApplication, NotifyReady, Signalled,
      LifespanFails, Drained, Close, End,
      Crash, PowerCut, RivalTakes, RivalReleases, vars, Next

(* Nobody changes the world, and what disturbed the unit stays counted.      *)
LEMMA WorldStays ==
    ASSUME UnitInv, [UnitNext]_vars, Fixable', Undisturbed'
    PROVE  Fixable /\ Undisturbed /\ UNCHANGED <<world, origin, credential, kills, upsets>>
<1>1. kills \in Nat /\ upsets \in Nat
  BY KillsAssumption, UpsetsAssumption DEF UnitInv, UnitTypeOK, TypeOK
<1>2. UNCHANGED <<world, origin>> /\ (kills' = kills \/ kills' = kills + 1)
  <2>1. CASE ProbeStep
    BY <2>1 DEF ProbeStep, RefuseUnlessARealDirectory, DirectoryAlreadyPrivate, ChmodDirectory,
        ReadBackDirectory, LookAtFiles, RepairFile, RefuseSharedFiles, Sweep, WriteSentinel,
        ReadBackSentinel, CleanUp, CheckSecret
  <2>2. CASE Start \/ LoseProcess
    BY <2>2 DEF Start, LoseProcess, Kill
  <2>3. CASE ManagerStart \/ UNCHANGED probeVars
    BY <2>3 DEF ManagerStart, probeVars
  <2>4. QED
    BY <2>1, <2>2, <2>3
    DEF UnitNext, Manager, Process, StartLimitHit, ReadNotification, WindowElapses, OperatorStart,
        Wire, Probe, ProbePassed, ProbeRaised, Bind, BuildApplication, NotifyReady, Signalled,
      LifespanFails, Drained, Close, End,
        Crash, PowerCut, RivalTakes, RivalReleases, vars
<1>3. credential' = credential /\ (upsets' = upsets \/ upsets' = upsets + 1)
  BY DEF UnitNext, Manager, Process, ManagerStart, StartLimitHit, ReadNotification, WindowElapses,
         OperatorStart, Wire, Probe, ProbePassed, ProbeRaised, Bind, BuildApplication, NotifyReady,
         Signalled, LifespanFails, Drained, Close, End, Crash, PowerCut, RivalTakes, RivalReleases, Exit, vars, unitVars
<1>4. UNCHANGED <<kills, upsets>> /\ Undisturbed
  BY <1>1, <1>2, <1>3 DEF Undisturbed
<1>5. Fixable
  BY <1>2, <1>3 DEF Fixable, world
<1>6. QED BY <1>2, <1>3, <1>4, <1>5

(* A run that ended in a pass leaves nothing a mode could refuse.            *)
LEMMA PassSettles == IInv /\ at = "idle" /\ outcome = "passed" => Settled
BY DEF IInv, ProgressInv, Holds, Settled, Injected

(* In a fixable world a probe is refused for a sharing it has just mended,   *)
(* and a settled store refuses nothing.                                      *)
LEMMA ProbeCosts ==
    ASSUME UnitInv, Fixable, Mending, ProbeStep, at # "idle", store.kind = "directory",
           starts <= told + 1 \/ Settled
    PROVE  /\ store'.kind = "directory" /\ pending' = "none"
           /\ at' = "read_back_mode" => ~store'.dirShared
           /\ at' # "idle" => starts <= told' + 1 \/ Settled'
           /\ at' = "idle" => outcome' = "passed" \/ (outcome' = "refused" /\ starts <= told')
<1> DEFINE Goal ==
           /\ store'.kind = "directory" /\ pending' = "none"
           /\ at' = "read_back_mode" => ~store'.dirShared
           /\ at' # "idle" => starts <= told' + 1 \/ Settled'
           /\ at' = "idle" => outcome' = "passed" \/ (outcome' = "refused" /\ starts <= told')
<1>1. /\ store \in Stores /\ todo \subseteq Files /\ told \in Nat /\ index \in 1..Len(Checks) /\ starts \in Nat
      /\ PositionInv
  BY BurstAssumption DEF UnitInv, UnitTypeOK, TypeOK, IInv
<1>2. \A e \in Entries : chmod[e] = "sticks"
  BY DEF Fixable
<1>3. medium = "sound" /\ secret = "good" /\ pending = "none"
  BY DEF Fixable, Mending
<1>4. ASSUME store' = store, pending' = pending, told' = told, at' \in {"check", "write", "read_back_sentinel", "clean_up"}
      PROVE  Goal
  BY <1>3, <1>4 DEF Settled
<1>5. ASSUME store' = store, pending' = pending, NEW r, Accept(r)
      PROVE  Goal
  BY <1>3, <1>5 DEF Settled, Accept
<1>6. CASE RefuseUnlessARealDirectory
  BY <1>6 DEF RefuseUnlessARealDirectory
<1>7. CASE DirectoryAlreadyPrivate
  BY <1>7, <1>5 DEF DirectoryAlreadyPrivate
<1>8. CASE ChmodDirectory
  <2>1. chmod[Directory] = "sticks" BY <1>2 DEF Entries
  <2>2. /\ store' = [store EXCEPT !.dirShared = FALSE] /\ at' = "read_back_mode"
        /\ UNCHANGED <<told, pending>> /\ store.dirShared /\ Checks[index] = "directory"
    BY <1>8, <2>1 DEF ChmodDirectory, RunCheck
  <2>3. ~Settled BY <1>1, <2>2 DEF Settled, Injected
  <2>4. QED BY <1>1, <1>3, <2>2, <2>3 DEF Stores
<1>9. CASE ReadBackDirectory
  <2>1. at = "read_back_mode" /\ ~store.dirShared /\ Checks[index] = "directory"
    BY <1>1, <1>9 DEF ReadBackDirectory, PositionInv, Mending
  <2>2. RefuseStart("store_shared", TRUE) /\ UNCHANGED <<store, pending>>
    BY <1>9, <2>1 DEF ReadBackDirectory
  <2>3. ~Settled BY <1>1, <2>1 DEF Settled, Injected
  <2>4. QED BY <1>1, <1>3, <2>2, <2>3 DEF RefuseStart
<1>10. CASE LookAtFiles
  <2>0. Listable(store) BY DEF Listable
  <2>1. CASE store.shared = {}
    BY <1>10, <2>0, <2>1, <1>5 DEF LookAtFiles
  <2>2. CASE store.shared # {}
    <3>1. at' = "repair_files" /\ UNCHANGED <<store, told, pending>> /\ Checks[index] = "files"
      BY <1>10, <2>0, <2>2 DEF LookAtFiles, RunCheck
    <3>2. ~Settled BY <1>1, <2>2, <3>1 DEF Settled, Injected
    <3>3. QED BY <1>3, <3>1, <3>2
  <2>3. QED BY <2>1, <2>2
<1>11. ASSUME NEW f \in Files, RepairFile(f) PROVE Goal
  <2>1. chmod[f] = "sticks" /\ at = "repair_files" /\ Checks[index] = "files"
    BY <1>1, <1>2, <1>11 DEF Entries, RepairFile, PositionInv
  <2>2. /\ store' = [store EXCEPT !.shared = @ \ {f}] /\ at' = "repair_files"
        /\ UNCHANGED <<told, pending>>
    BY <1>11, <2>1 DEF RepairFile
  <2>3. ~Settled BY <1>1, <2>1 DEF Settled, Injected
  <2>4. QED BY <1>1, <1>3, <2>2, <2>3 DEF Stores
<1>12. CASE RefuseSharedFiles
  <2>1. at = "repair_files" /\ Checks[index] = "files"
    BY <1>1, <1>12 DEF RefuseSharedFiles, PositionInv
  <2>2. RefuseStart("store_file_shared", TRUE) /\ UNCHANGED <<store, pending>>
    BY <1>12 DEF RefuseSharedFiles
  <2>3. ~Settled BY <1>1, <2>1 DEF Settled, Injected
  <2>4. QED BY <1>1, <1>3, <2>2, <2>3 DEF RefuseStart
<1>13. CASE Sweep
  <2>1. /\ at' = "write" /\ UNCHANGED <<told, pending>> /\ store'.dirShared = store.dirShared
        /\ store'.kind = store.kind /\ store'.shared = store.shared
    BY <1>13, SweepEffect DEF UnitInv, UnitTypeOK, Fixable, Listable
  <2>2. QED BY <1>3, <2>1 DEF Settled
<1>14. CASE WriteSentinel
  <2>1. /\ at' = "read_back_sentinel" /\ UNCHANGED <<told, pending>> /\ store'.dirShared = store.dirShared
        /\ store'.kind = store.kind /\ store'.shared = store.shared
    BY <1>1, <1>3, <1>14 DEF WriteSentinel, Stores, Listable
  <2>2. QED BY <1>3, <2>1 DEF Settled
<1>15. CASE ReadBackSentinel
  BY <1>3, <1>4, <1>15 DEF ReadBackSentinel
<1>16. CASE CleanUp
  <2>1. /\ Accept(swept) /\ UNCHANGED pending /\ store'.dirShared = store.dirShared
        /\ store'.kind = store.kind /\ store'.shared = store.shared
    BY <1>3, <1>16, UnlinkEffect DEF CleanUp, UnitInv, UnitTypeOK
  <2>2. QED BY <1>3, <2>1 DEF Settled, Accept
<1>17. CASE CheckSecret
  BY <1>3, <1>5, <1>17 DEF CheckSecret
<1>18. QED
  BY <1>6, <1>7, <1>8, <1>9, <1>10, <1>11, <1>12, <1>13, <1>14, <1>15, <1>16, <1>17 DEF ProbeStep

LEMMA LostStep == UnitInv /\ LostInv /\ [UnitNext]_vars => LostInv'
<1> SUFFICES ASSUME UnitInv, LostInv, [UnitNext]_vars, Fixable', Undisturbed'
             PROVE  Mending' /\ Budget'
    BY DEF LostInv
<1>1. Fixable /\ Undisturbed /\ UNCHANGED <<world, origin, credential, kills, upsets>>
  BY WorldStays
<1>2. Mending /\ Budget
  BY <1>1 DEF LostInv
<1>3. PlaceInv /\ IInv /\ store \in Stores /\ told \in Nat /\ starts \in Nat /\ kills = 0 /\ upsets = 0
  BY <1>1, BurstAssumption DEF UnitInv, UnitTypeOK, TypeOK, Undisturbed
<1>4. ASSUME UNCHANGED probeVars PROVE UNCHANGED <<store, at, outcome, pending, told>> /\ Settled' = Settled
  BY <1>4 DEF probeVars, runState, Settled
<1> USE DEF Alive, Serving, Holding
<1>5. CASE ManagerStart
  <2>1. /\ proc' = "wire" /\ unit' = "activating" /\ starts' = starts + 1 /\ proc = "none" /\ at = "idle"
        /\ UNCHANGED <<at, outcome, pending, told, endpoint>>
    BY <1>1, <1>3, <1>5 DEF ManagerStart, Fixable, PlaceInv, runState
  <2>2. store'.kind = "directory" /\ (store'.dirShared => store.dirShared) /\ store'.shared = store.shared
    BY <1>2, <1>3, <1>5 DEF ManagerStart, PrepareStateArea, Mending, Stores
  <2>3. Settled => Settled'
    BY <2>1, <2>2 DEF Settled
  <2>4. starts <= told \/ Settled
    BY <1>2, <1>5 DEF Budget, ManagerStart
  <2>5. Mending' BY <1>2, <2>1, <2>2 DEF Mending
  <2>6. Budget' BY <1>3, <2>1, <2>3, <2>4 DEF Budget
  <2>7. QED BY <2>5, <2>6
<1>6. CASE StartLimitHit
  <2>1. unit = "auto_restart" /\ StartLimitBurst <= told
    BY <1>2, <1>3, <1>6, BurstAssumption DEF StartLimitHit, Budget
  <2>2. QED BY <1>2, <1>3, <1>4, <1>6, <2>1 DEF StartLimitHit, Mending, Budget, PlaceInv
<1>7. CASE ReadNotification
  BY <1>2, <1>3, <1>4, <1>7 DEF ReadNotification, Mending, Budget, PlaceInv
<1>8. CASE WindowElapses
  BY <1>2, <1>3, <1>4, <1>8, BurstAssumption DEF WindowElapses, Mending, Budget, PlaceInv
<1>9. CASE OperatorStart
  BY <1>2, <1>3, <1>4, <1>9, BurstAssumption DEF OperatorStart, Mending, Budget, PlaceInv
<1>10. CASE Wire
  <2>1. /\ proc = "wire" /\ proc' = "probe" /\ at' = "check" /\ pending' = "none" /\ at = "idle"
        /\ UNCHANGED <<store, told, starts, unit, endpoint>> /\ unit \in {"activating", "active"}
    BY <1>1, <1>3, <1>10 DEF Wire, Start, Fixable, PlaceInv
  <2>2. Settled => Settled' BY <2>1 DEF Settled
  <2>3. QED BY <1>2, <2>1, <2>2 DEF Mending, Budget
<1>11. CASE Probe
  <2>1. /\ proc = "probe" /\ UNCHANGED unitVars /\ ProbeStep /\ unit \in {"activating", "active"}
        /\ store.kind = "directory"
    BY <1>2, <1>3, <1>11 DEF Probe, PlaceInv, Mending
  <2>2. at # "idle"
    BY <2>1 DEF ProbeStep, RefuseUnlessARealDirectory, DirectoryAlreadyPrivate, ChmodDirectory,
        ReadBackDirectory, LookAtFiles, RepairFile, RefuseSharedFiles, Sweep, WriteSentinel,
        ReadBackSentinel, CleanUp, CheckSecret, RunCheck
  <2>3. starts <= told + 1 \/ Settled BY <1>2, <2>1, <2>2 DEF Budget
  <2>4. /\ store'.kind = "directory" /\ pending' = "none"
        /\ at' = "read_back_mode" => ~store'.dirShared
        /\ at' # "idle" => starts <= told' + 1 \/ Settled'
        /\ at' = "idle" => outcome' = "passed" \/ (outcome' = "refused" /\ starts <= told')
    BY <1>1, <1>2, <2>1, <2>2, <2>3, ProbeCosts
  <2>5. QED BY <1>2, <2>1, <2>4 DEF Mending, Budget, unitVars
<1>12. CASE ProbePassed
  <2>1. Settled BY <1>3, <1>12, PassSettles DEF ProbePassed
  <2>2. QED BY <1>2, <1>3, <1>4, <1>12, <2>1 DEF ProbePassed, Mending, Budget, PlaceInv
<1>13. CASE ProbeRaised
  <2>1. outcome = "refused" /\ starts <= told
    BY <1>2, <1>13 DEF ProbeRaised, Budget
  <2>2. QED BY <1>2, <1>3, <1>4, <1>13, <2>1
     DEF ProbeRaised, Exit, EXIT_STARTUP_REFUSED, Mending, Budget, PlaceInv
<1>14. CASE Bind
  <2>1. /\ proc = "bind" /\ proc' = "build" /\ endpoint' = "self" /\ UNCHANGED <<unit, starts, probeVars>>
        /\ unit \in {"activating", "active"}
    BY <1>2, <1>3, <1>14 DEF Bind, Mending, PlaceInv
  <2>2. QED BY <1>2, <1>4, <2>1 DEF Mending, Budget
<1>15. CASE BuildApplication \/ NotifyReady \/ Signalled \/ LifespanFails \/ Close
  BY <1>1, <1>2, <1>3, <1>4, <1>15
  DEF BuildApplication, NotifyReady, Signalled, LifespanFails, Close, Mending, Budget, PlaceInv
<1>16. CASE Drained \/ End
  BY <1>2, <1>3, <1>4, <1>16 DEF Drained, End, Exit, Mending, Budget, PlaceInv
<1>17. ~Crash /\ ~PowerCut
  BY <1>1, <1>3 DEF Crash, PowerCut, LoseProcess, Kill
<1>18. ~RivalTakes /\ ~RivalReleases
  BY <1>1, <1>2, <1>3 DEF RivalTakes, RivalReleases, Mending
<1>19. CASE UNCHANGED vars
  BY <1>2, <1>4, <1>19 DEF vars, unitVars, Mending, Budget
<1>20. QED
  BY <1>5, <1>6, <1>7, <1>8, <1>9, <1>10, <1>11, <1>12, <1>13, <1>14, <1>15, <1>16, <1>17, <1>18, <1>19
  DEF UnitNext, Manager, Process

(* For any checks, files and limit: a unit whose store has nothing wrong but *)
(* its modes is not given up by the manager as long as the limit allows one  *)
(* start more than the store has kinds of sharing, whatever the operator     *)
(* starts and stops in between.                                              *)
THEOREM LimitIsEnough == UnitSpec => []LimitSuffices
<1>1. UnitInit => ToldAtMost
  BY DEF UnitInit, Init, ToldAtMost, Shrunk, Silent, Mended, Untold, Bit
<1>2. UnitInit => LostInv
  BY BurstAssumption DEF UnitInit, Init, LostInv, Fixable, Mending, Budget, Alive, Serving, Holding
<1>3. UnitInv /\ ToldAtMost /\ LostInv => LimitSuffices
  <2> SUFFICES ASSUME UnitInv, ToldAtMost, LostInv, Fixable, Undisturbed, StartLimitBurst > Shares,
                      unit = "failed"
               PROVE  FALSE
      BY DEF LimitSuffices
  <2>1. StartLimitBurst <= told /\ StartLimitBurst \in Nat /\ told \in Nat
    BY BurstAssumption DEF LostInv, Budget, UnitInv, UnitTypeOK, TypeOK
  <2>2. Mended \in Nat /\ Untold \in Nat /\ Shares \in Nat /\ Mended <= Shares
    BY DEF Mended, Untold, Shares, Bit
  <2>3. told <= Mended
    BY <2>1, <2>2 DEF ToldAtMost, Silent
  <2>4. QED BY <2>1, <2>2, <2>3
<1>4. QED
  BY <1>1, <1>2, <1>3, UnitInvariant, UnitInitIsGood, UnitStep, ToldAtMostStep, LostStep, PTL DEF UnitSpec
=============================================================================
