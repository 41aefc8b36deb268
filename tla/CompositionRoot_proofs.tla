------------------------ MODULE CompositionRoot_proofs ------------------------
(* For any number of processes, files and upsets: what serves is sound, a    *)
(* refusal means that the store is mended, the events tell the end, and the  *)
(* starts that are lost are few.                                             *)
EXTENDS CompositionRoot, TLAPS

Shared(f) == files[f] = "shared"

\* How far p has come, and what that says of the host, the store and the port.
PlaceInv(p) ==
    LET r == proc[p] IN
    /\ r.at \notin {"away", "wire", "directory"} => kind = "directory"
    /\ r.at = "verify_directory" /\ chmod = "sticks" => ~dirShared
    /\ r.at \in {"list", "look", "stat", "chmod", "verify", "secret", "serve",
                "notify", "serving", "draining"} => ~dirShared
    /\ r.mended => chmod = "sticks" /\ r.at \in {"verify_directory", "stat", "chmod", "verify"}
    /\ r.at \in {"chmod", "verify"} => r.entry \in r.todo
    /\ r.seen => r.at = "look"
    /\ r.at \in {"secret", "notify", "draining"} => http_selected(p)
    /\ r.at \in {"serve", "notify", "serving", "draining"} /\ http_selected(p) => SecretOf(p) = "good"
    /\ port = p <=> r.at \in {"notify", "serving"} /\ http_selected(p)

\* What is shared is still to be visited, unless it was given away meanwhile.
VisitInv(p) ==
    LET r == proc[p] IN
    /\ r.at \in {"stat", "chmod", "verify"} \/ (r.at = "look" /\ ~r.seen) =>
         r.loose \/ \A f \in Files : Shared(f) => f \in r.todo
    /\ r.at \in {"secret", "serve", "notify", "serving", "draining"} => r.loose \/ \A f \in Files : ~Shared(f)

\* Nothing but a missing credentials file is told before the end.
ToldInv(p) ==
    LET r == proc[p] IN
    /\ r.at # "away" =>
         /\ r.status = "none"
         /\ r.at = "wire" => r.emitted = << >>
         /\ r.emitted = << >> \/ (r.emitted = <<AbsentFile>> /\ Text(p) = "gone")
    /\ r.at = "away" =>
         (r.status = "78" <=> r.emitted # << >> /\ LastEvent(p) # AbsentFile)

-----------------------------------------------------------------------------
(* The starts p may still lose: for the directory, for the files it has seen *)
(* shared, for those its repair will leave out, and for one that vanished.   *)
DirectoryOwes(p) ==
    IF dirShared \/ proc[p].at \in {"chmod_directory", "verify_directory"} THEN 1 ELSE 0

Doomed(p) ==
    proc[p].at \in {"stat", "chmod", "verify"} \/ (proc[p].at = "look" /\ proc[p].seen)

FilesOwe(p) == IF Doomed(p) THEN 1 ELSE 0

\* Before p knows that it repairs, every shared file; then what it has passed.
LeftOut(p, f) ==
    /\ Shared(f)
    /\ ~(proc[p].at = "look" /\ proc[p].seen)
    /\ proc[p].at \in {"stat", "chmod"} => f \notin proc[p].todo
    /\ proc[p].at = "verify" => f \notin proc[p].todo \/ f = proc[p].entry

LeftOutOwe(p) == IF \E f \in Files : LeftOut(p, f) THEN 1 ELSE 0

VanishedOwe(p) == IF \E f \in proc[p].todo : files[f] = "gone" THEN 1 ELSE 0

Owed(p) == DirectoryOwes(p) + FilesOwe(p) + LeftOutOwe(p) + VanishedOwe(p)
Bound   == 2 + shares + removals + failures

BudgetInv(p) ==
    /\ Servable(p) => lost[p] + Owed(p) <= Bound
    /\ ~Servable(p) => lost[p] = 0

Good(p) == PlaceInv(p) /\ VisitInv(p) /\ ToldInv(p) /\ BudgetInv(p)

IInv == TypeOK /\ \A p \in Sessions : Good(p)

-----------------------------------------------------------------------------
LEMMA OwedIsSmall ==
    ASSUME NEW p \in Sessions
    PROVE  DirectoryOwes(p) \in 0..1 /\ FilesOwe(p) \in 0..1 /\ LeftOutOwe(p) \in 0..1 /\ VanishedOwe(p) \in 0..1
BY DEF DirectoryOwes, FilesOwe, LeftOutOwe, VanishedOwe

\* A step that loses p no start keeps its budget if it owes p no more than before.
LEMMA BudgetStays ==
    ASSUME TypeOK, TypeOK', NEW p \in Sessions, BudgetInv(p), UNCHANGED host, lost'[p] = lost[p],
           Servable(p) => /\ DirectoryOwes(p)' <= DirectoryOwes(p)
                          /\ FilesOwe(p)' + LeftOutOwe(p)' <= FilesOwe(p) + LeftOutOwe(p)
                          /\ VanishedOwe(p)' <= VanishedOwe(p),
           shares <= shares' /\ removals <= removals' /\ failures <= failures'
    PROVE  BudgetInv(p)'
  <1>1. Servable(p)' <=> Servable(p)
    BY DEF Servable, http_selected, Text, credentials_file, host
  <1>2. /\ DirectoryOwes(p)' \in 0..1 /\ FilesOwe(p)' \in 0..1
        /\ LeftOutOwe(p)' \in 0..1 /\ VanishedOwe(p)' \in 0..1
    BY DEF DirectoryOwes, FilesOwe, LeftOutOwe, VanishedOwe
  <1>3. lost[p] \in Nat /\ shares \in Nat /\ removals \in Nat /\ failures \in Nat
    BY DEF TypeOK
  <1>4. shares' \in Nat /\ removals' \in Nat /\ failures' \in Nat
    BY DEF TypeOK
  <1> QED
    BY <1>1, <1>2, <1>3, <1>4, OwedIsSmall DEF BudgetInv, Owed, Bound

(* A process that is not concerned: the store only got more private.         *)
LEMMA OthersKeep ==
    ASSUME TypeOK, TypeOK', NEW q \in Sessions, Good(q),
           UNCHANGED host, proc'[q] = proc[q], lost'[q] = lost[q],
           port' = q <=> port = q,
           dirShared' => dirShared,
           \A f \in Files : /\ files'[f] = "shared" => files[f] = "shared"
                            /\ files'[f] = "gone" => files[f] = "gone",
           shares <= shares' /\ removals <= removals' /\ failures <= failures'
    PROVE  Good(q)'
  <1>1. PlaceInv(q)'
    BY DEF host, Good, PlaceInv, http_selected, SecretOf, Text, credentials_file
  <1>2. VisitInv(q)'
    BY DEF Good, VisitInv, Shared
  <1>3. ToldInv(q)'
    BY DEF host, Good, ToldInv, LastEvent, Text, credentials_file
  <1>4. BudgetInv(q)'
    <2>1. DirectoryOwes(q)' <= DirectoryOwes(q)
      BY DEF DirectoryOwes
    <2>2. FilesOwe(q)' + LeftOutOwe(q)' <= FilesOwe(q) + LeftOutOwe(q)
      BY DEF FilesOwe, Doomed, LeftOutOwe, LeftOut, Shared
    <2>3. VanishedOwe(q)' <= VanishedOwe(q)
      <3>1. proc[q].todo \subseteq Files
        BY DEF TypeOK, Processes
      <3> QED
        BY <3>1 DEF VanishedOwe
    <2> QED
      BY <2>1, <2>2, <2>3, BudgetStays DEF Good
  <1> QED
    BY <1>1, <1>2, <1>3, <1>4 DEF Good

-----------------------------------------------------------------------------
(* What one process does to its own part of the types.                       *)
LEMMA BecomeType ==
    ASSUME TypeOK, NEW p \in Sessions, NEW r \in Processes, Become(p, r),
           dirShared' \in BOOLEAN, files' \in [Files -> {"gone", "private", "shared"}],
           UNCHANGED <<host, upsets>>
    PROVE  TypeOK'
BY DEF TypeOK, Become, host, upsets

LEMMA EndType ==
    ASSUME TypeOK, NEW p \in Sessions, NEW status \in Statuses, NEW emitted \in Seq(Checks),
           End(p, status, emitted), UNCHANGED <<host, store>>,
           shares' \in Nat, removals' \in Nat, failures' \in Nat
    PROVE  TypeOK'
  <1>1. [Fresh("away") EXCEPT !.status = status, !.emitted = emitted] \in Processes
    BY DEF Fresh, Processes, Places
  <1>2. lost' \in [Sessions -> Nat]
    BY DEF End, TypeOK
  <1> QED
    BY <1>1, <1>2 DEF TypeOK, End, host, store

LEMMA EmittedType ==
    ASSUME TypeOK, NEW p \in Sessions, NEW check \in Checks
    PROVE  Append(proc[p].emitted, check) \in Seq(Checks)
BY DEF TypeOK, Processes

LEMMA FreshType == ASSUME NEW at \in Places PROVE Fresh(at) \in Processes
  <1>1. << >> \in Seq(Checks)
    OBVIOUS
  <1> QED
    BY <1>1 DEF Fresh, Processes, Statuses

LEMMA TypeInit == Init => TypeOK
  <1> SUFFICES ASSUME Init PROVE TypeOK
      OBVIOUS
  <1>1. proc \in [Sessions -> Processes]
    BY FreshType DEF Init, Places
  <1>2. content \in [Paths -> Contents] /\ asked \in [Sessions -> Options] /\ files \in [Files -> {"gone", "private", "shared"}]
    BY DEF Init
  <1>3. lost \in [Sessions -> Nat]
    BY DEF Init
  <1> QED
    BY <1>1, <1>2, <1>3 DEF Init, TypeOK

LEMMA TypeStep == TypeOK /\ [Next]_vars => TypeOK'
  <1> SUFFICES ASSUME TypeOK, [Next]_vars PROVE TypeOK'
      OBVIOUS
  <1>0. \A p \in Sessions : proc[p] \in Processes
    BY DEF TypeOK
  <1>1. /\ dirShared \in BOOLEAN /\ files \in [Files -> {"gone", "private", "shared"}]
        /\ shares \in Nat /\ removals \in Nat /\ failures \in Nat
    BY DEF TypeOK
  <1>2. ASSUME NEW p \in Sessions, NEW status \in Statuses, Exit(p, status),
               UNCHANGED <<host, store>>, shares' \in Nat, removals' \in Nat, failures' \in Nat
        PROVE  TypeOK'
    <2>1. proc[p].emitted \in Seq(Checks)
      BY <1>0 DEF Processes
    <2> QED
      BY <2>1, <1>2, EndType DEF Exit
  <1>3. ASSUME NEW p \in Sessions, NEW check \in Checks, Refuse(p, check),
               UNCHANGED <<host, store, upsets>>
        PROVE  TypeOK'
    <2>1. Append(proc[p].emitted, check) \in Seq(Checks)
      BY EmittedType
    <2>2. shares' \in Nat /\ removals' \in Nat /\ failures' \in Nat
      BY <1>1, <1>3 DEF upsets
    <2>3. UNCHANGED <<host, store>>
      BY <1>3
    <2>4. "78" \in Statuses
      BY DEF Statuses
    <2> QED
      BY <2>1, <2>2, <2>3, <2>4, <1>3, EndType DEF Refuse
  <1>4. ASSUME NEW p \in Sessions, NEW where \in Places, Go(p, where),
               dirShared' \in BOOLEAN, files' \in [Files -> {"gone", "private", "shared"}],
               UNCHANGED <<host, upsets>>
        PROVE  TypeOK'
    <2>1. [proc[p] EXCEPT !.at = where] \in Processes
      BY <1>0, <1>4 DEF Processes
    <2> QED
      BY <2>1, <1>4, BecomeType DEF Go
  <1>5. ASSUME NEW p \in Sessions, Launch(p) PROVE TypeOK'
    BY <1>1, <1>5, FreshType, BecomeType DEF Launch, store, Places
  <1>6. ASSUME NEW p \in Sessions, Wire(p) PROVE TypeOK'
    <2>1. [proc[p] EXCEPT !.at = "directory", !.emitted = Append(@, AbsentFile)] \in Processes
      <3>1. Append(proc[p].emitted, AbsentFile) \in Seq(Checks)
        BY EmittedType DEF Checks
      <3> QED
        BY <1>0, <3>1 DEF Processes, Places
    <2> QED
      BY <2>1, <1>1, <1>2, <1>4, <1>6, BecomeType DEF Wire, Checks, Statuses, store, upsets, Places
  <1>7. ASSUME NEW p \in Sessions, CheckDirectory(p) PROVE TypeOK'
    BY <1>1, <1>3, <1>4, <1>7 DEF CheckDirectory, Checks, Statuses, store, Places
  <1>8. ASSUME NEW p \in Sessions, ChmodDirectory(p) PROVE TypeOK'
    <2>1. [proc[p] EXCEPT !.at = "verify_directory", !.mended = TRUE] \in Processes
      BY <1>0 DEF Processes, Places
    <2> QED
      BY <2>1, <1>1, <1>2, <1>4, <1>8, BecomeType DEF ChmodDirectory, Checks, Statuses, store, upsets, Places
  <1>9. ASSUME NEW p \in Sessions, VerifyDirectory(p) PROVE TypeOK'
    BY <1>3, <1>9 DEF VerifyDirectory, Checks, Statuses
  <1>10. ASSUME NEW p \in Sessions, List(p) PROVE TypeOK'
    <2>1. [proc[p] EXCEPT !.at = "look", !.todo = Listing] \in Processes
      BY <1>0 DEF Processes, Places, Listing
    <2> QED
      BY <2>1, <1>1, <1>10, BecomeType DEF List, store
  <1>11. ASSUME NEW p \in Sessions, NEW f \in Files, Look(p, f) PROVE TypeOK'
    <2>1. [proc[p] EXCEPT !.todo = @ \ {f}, !.seen = @ \/ files[f] = "shared"] \in Processes
      BY <1>0 DEF Processes
    <2> QED
      BY <2>1, <1>1, <1>11, BecomeType DEF Look, store
  <1>12. ASSUME NEW p \in Sessions, Looked(p) PROVE TypeOK'
    <2>1. [proc[p] EXCEPT !.at = "stat", !.todo = Listing, !.seen = FALSE] \in Processes
      BY <1>0 DEF Processes, Places, Listing
    <2> QED
      BY <2>1, <1>1, <1>4, <1>12, BecomeType DEF Looked, store, Places
  <1>13. ASSUME NEW p \in Sessions, NEW f \in Files, Stat(p, f) PROVE TypeOK'
    <2>1. [proc[p] EXCEPT !.todo = @ \ {f}] \in Processes
      BY <1>0 DEF Processes
    <2>2. [proc[p] EXCEPT !.at = "chmod", !.entry = f] \in Processes
      BY <1>0 DEF Processes, Places
    <2> QED
      BY <2>1, <2>2, <1>1, <1>13, BecomeType DEF Stat, store
  <1>14. ASSUME NEW p \in Sessions, NEW f \in Files, Chmod(p, f) PROVE TypeOK'
    <2>1. [proc[p] EXCEPT !.at = "verify", !.mended = TRUE] \in Processes
      BY <1>0 DEF Processes, Places
    <2>2. [files EXCEPT ![f] = "private"] \in [Files -> {"gone", "private", "shared"}]
      BY <1>1
    <2> QED
      BY <2>1, <2>2, <1>1, <1>2, <1>4, <1>14, BecomeType DEF Chmod, Checks, Statuses, store, upsets, Places
  <1>15. ASSUME NEW p \in Sessions, NEW f \in Files, Verify(p, f) PROVE TypeOK'
    <2>1. [proc[p] EXCEPT !.at = "stat", !.todo = @ \ {f}, !.entry = NoFile] \in Processes
      BY <1>0 DEF Processes, Places
    <2> QED
      BY <2>1, <1>1, <1>2, <1>15, BecomeType DEF Verify, Checks, Statuses, store, upsets
  <1>16. ASSUME NEW p \in Sessions, NEW f \in Files, Vanished(p, f) PROVE TypeOK'
    BY <1>1, <1>2, <1>16 DEF Vanished, Checks, Statuses, upsets
  <1>17. ASSUME NEW p \in Sessions, RefuseSharedFiles(p) PROVE TypeOK'
    BY <1>3, <1>17 DEF RefuseSharedFiles, Checks, Statuses
  <1>18. ASSUME NEW p \in Sessions, CheckSecret(p) PROVE TypeOK'
    BY <1>1, <1>3, <1>4, <1>18 DEF CheckSecret, Checks, Statuses, store, Places
  <1>19. ASSUME NEW p \in Sessions, ServeStdio(p) PROVE TypeOK'
    BY <1>1, <1>4, <1>19 DEF ServeStdio, store, Places
  <1>20. ASSUME NEW p \in Sessions, ServeHttp(p) \/ Signalled(p) PROVE TypeOK'
    <2>1. \A where \in Places : [proc EXCEPT ![p].at = where] \in [Sessions -> Processes]
      <3>1. \A where \in Places : [proc[p] EXCEPT !.at = where] \in Processes
        BY <1>0 DEF Processes
      <3> QED
        BY <3>1 DEF TypeOK
    <2>2. CASE Signalled(p)
      BY <2>1, <2>2, <1>1 DEF Signalled, Places, TypeOK, host, store, upsets
    <2>3. CASE ServeHttp(p)
      <3>1. CASE port = "free"
        BY <2>1, <2>3, <3>1, <1>1 DEF ServeHttp, Places, TypeOK, host, store, upsets
      <3> QED
        BY <3>1, <2>3, <1>1, <1>2 DEF ServeHttp, Statuses, upsets
    <2> QED
      BY <1>20, <2>2, <2>3
  <1>21. ASSUME NEW p \in Sessions, NotifyReady(p) \/ ServeEnds(p) PROVE TypeOK'
    <2>1. CASE NotifyReady(p)
      BY <1>1, <1>2, <1>4, <2>1 DEF NotifyReady, Statuses, store, upsets, Places
    <2>2. CASE ServeEnds(p)
      BY <1>1, <1>2, <2>2 DEF ServeEnds, Statuses, upsets
    <2> QED
      BY <1>21, <2>1, <2>2
  <1>22. ASSUME NEW p \in Sessions, Kill(p) PROVE TypeOK'
    BY <1>1, <1>2, <1>22 DEF Kill, Checks, Statuses
  <1>23. ASSUME NEW f \in Files, WriteFile(f) \/ RemoveFile(f) PROVE TypeOK'
    BY <1>23 DEF WriteFile, RemoveFile, TypeOK, host, upsets
  <1>24. ASSUME NEW f \in Files, ShareFile(f) PROVE TypeOK'
    <2>1. proc' \in [Sessions -> Processes]
      <3>1. \A p \in Sessions : [proc[p] EXCEPT !.loose = ~At(p, "away")] \in Processes
        BY <1>0 DEF Processes
      <3> QED
        BY <1>24, <3>1 DEF ShareFile
    <2> QED
      BY <2>1, <1>24 DEF ShareFile, TypeOK, host
  <1>25. CASE UNCHANGED vars
    BY <1>25 DEF TypeOK, vars, host, store, upsets
  <1> QED
    BY <1>5, <1>6, <1>7, <1>8, <1>9, <1>10, <1>11, <1>12, <1>13, <1>14, <1>15, <1>16, <1>17,
       <1>18, <1>19, <1>20, <1>21, <1>22, <1>23, <1>24, <1>25 DEF Next, Main

-----------------------------------------------------------------------------
(* The end of a process: it owes what the store still shows.                 *)
StoreOwes == (IF dirShared THEN 1 ELSE 0) + (IF \E f \in Files : Shared(f) THEN 1 ELSE 0)

LEMMA StoreIsOwed ==
    ASSUME TypeOK, NEW p \in Sessions
    PROVE  StoreOwes \in 0..2 /\ StoreOwes <= DirectoryOwes(p) + FilesOwe(p) + LeftOutOwe(p)
  <1>1. (IF dirShared THEN 1 ELSE 0) <= DirectoryOwes(p)
    BY DEF DirectoryOwes
  <1>2. (IF \E f \in Files : Shared(f) THEN 1 ELSE 0) <= FilesOwe(p) + LeftOutOwe(p)
    BY DEF FilesOwe, LeftOutOwe, Doomed, LeftOut
  <1>3. (IF dirShared THEN 1 ELSE 0) \in 0..1 /\ (IF \E f \in Files : Shared(f) THEN 1 ELSE 0) \in 0..1
    OBVIOUS
  <1> QED
    BY <1>1, <1>2, <1>3, OwedIsSmall DEF StoreOwes

LEMMA EndKeeps ==
    ASSUME TypeOK, TypeOK', NEW p \in Sessions, NEW status \in Statuses, NEW emitted \in Seq(Checks),
           End(p, status, emitted), UNCHANGED <<host, store>>,
           status = "78" <=> emitted # << >> /\ emitted[Len(emitted)] # AbsentFile, BudgetInv(p),
           Servable(p) => lost[p] + (IF Served(p) THEN 0 ELSE 1) + StoreOwes <= Bound'
    PROVE  Good(p)'
  <1>1. proc'[p] = [Fresh("away") EXCEPT !.status = status, !.emitted = emitted]
    BY DEF End, TypeOK
  <1>2. PlaceInv(p)'
    <2>1. port' # p
      BY NamesAssumption DEF End
    <2> QED
      BY <1>1, <2>1 DEF PlaceInv, Fresh
  <1>3. VisitInv(p)'
    BY <1>1 DEF VisitInv, Fresh
  <1>4. ToldInv(p)'
    BY <1>1 DEF ToldInv, Fresh, LastEvent
  <1>5. BudgetInv(p)'
    <2>1. Servable(p)' <=> Servable(p)
      BY DEF Servable, http_selected, Text, credentials_file, host
    <2>2. lost'[p] = IF Servable(p) THEN lost[p] + (IF Served(p) THEN 0 ELSE 1) ELSE lost[p]
      BY DEF End, TypeOK
    <2>3. Owed(p)' = StoreOwes
      <3>1. DirectoryOwes(p)' = IF dirShared THEN 1 ELSE 0
        BY <1>1 DEF DirectoryOwes, Fresh, store
      <3>2. FilesOwe(p)' = 0 /\ VanishedOwe(p)' = 0
        BY <1>1 DEF FilesOwe, Doomed, VanishedOwe, Fresh
      <3>3. LeftOutOwe(p)' = IF \E f \in Files : Shared(f) THEN 1 ELSE 0
        BY <1>1 DEF LeftOutOwe, LeftOut, Fresh, Shared, store
      <3>4. DirectoryOwes(p)' \in Nat /\ LeftOutOwe(p)' \in Nat
        BY <3>1, <3>3
      <3> QED
        BY <3>1, <3>2, <3>3, <3>4 DEF Owed, StoreOwes
    <2> QED
      BY <2>1, <2>2, <2>3 DEF BudgetInv
  <1> QED
    BY <1>2, <1>3, <1>4, <1>5 DEF Good

\* Nothing but the upsets of the moment excuses a lost start.
LEMMA ExitKeeps ==
    ASSUME TypeOK, TypeOK', NEW p \in Sessions, Good(p), ~At(p, "away"),
           NEW status \in Statuses \ {"none", "78"}, Exit(p, status), UNCHANGED <<host, store>>,
           Servable(p) => lost[p] + (IF Served(p) THEN 0 ELSE 1) + StoreOwes <= Bound'
    PROVE  Good(p)'
  <1>1. proc[p].emitted \in Seq(Checks)
    BY DEF TypeOK, Processes
  <1>2. ~(proc[p].emitted # << >> /\ proc[p].emitted[Len(proc[p].emitted)] # AbsentFile)
    BY DEF Good, ToldInv, At
  <1> QED
    BY <1>1, <1>2, EndKeeps DEF Exit, Good

LEMMA RefuseKeeps ==
    ASSUME TypeOK, TypeOK', NEW p \in Sessions, Good(p), NEW check \in Checks \ {AbsentFile}, Refuse(p, check),
           UNCHANGED <<host, store>>, ~Served(p), Servable(p) => lost[p] + 1 + StoreOwes <= Bound'
    PROVE  Good(p)'
  <1> DEFINE emitted == Append(proc[p].emitted, check)
  <1>1. proc[p].emitted \in Seq(Checks)
    BY DEF TypeOK, Processes
  <1>2. emitted \in Seq(Checks) /\ emitted # << >> /\ emitted[Len(emitted)] # AbsentFile
    <2>1. Len(emitted) = Len(proc[p].emitted) + 1 /\ Len(proc[p].emitted) \in Nat
      BY <1>1
    <2>2. emitted[Len(proc[p].emitted) + 1] = check
      BY <1>1
    <2>3. emitted \in Seq(Checks)
      BY <1>1
    <2> HIDE DEF emitted
    <2>4. emitted # << >>
      BY <2>1
    <2> QED
      BY <2>1, <2>2, <2>3, <2>4
  <1>3. End(p, "78", emitted) /\ "78" \in Statuses
    BY DEF Refuse, Statuses
  <1> HIDE DEF emitted
  <1> QED
    BY <1>2, <1>3, EndKeeps DEF Good

-----------------------------------------------------------------------------
(* Going on, by one step of main.                                            *)
LEMMA MoveKeeps ==
    ASSUME TypeOK, TypeOK', NEW p \in Sessions, Good(p), UNCHANGED host, lost'[p] = lost[p],
           PlaceInv(p)', VisitInv(p)', ToldInv(p)', UNCHANGED upsets,
           Servable(p) => /\ DirectoryOwes(p)' <= DirectoryOwes(p)
                          /\ FilesOwe(p)' + LeftOutOwe(p)' <= FilesOwe(p) + LeftOutOwe(p)
                          /\ VanishedOwe(p)' <= VanishedOwe(p)
    PROVE  Good(p)'
  <1>1. shares <= shares' /\ removals <= removals' /\ failures <= failures'
    BY DEF TypeOK, upsets
  <1> QED
    BY <1>1, BudgetStays DEF Good

LEMMA BecomeIs ==
    ASSUME TypeOK, NEW p \in Sessions, NEW r, Become(p, r)
    PROVE  proc'[p] = r /\ UNCHANGED <<port, lost>>
BY DEF TypeOK, Become

LEMMA LaunchKeeps ==
    ASSUME TypeOK, TypeOK', NEW p \in Sessions, Good(p), Launch(p)
    PROVE  Good(p)'
  <1>1. proc[p] \in Processes /\ proc'[p] = Fresh("wire")
    BY DEF TypeOK, Become, Go, Launch
  <1>2. UNCHANGED <<port, lost, host, store, upsets>>
    BY DEF Become, Go, Launch
  <1>3. PlaceInv(p)' /\ VisitInv(p)' /\ ToldInv(p)'
    BY <1>1, <1>2 DEF Processes, Good, PlaceInv, VisitInv, ToldInv, http_selected, SecretOf, Text, credentials_file,
       Shared, At, host, store, Launch, Fresh
  <1>4. /\ DirectoryOwes(p)' <= DirectoryOwes(p)
        /\ FilesOwe(p)' + LeftOutOwe(p)' <= FilesOwe(p) + LeftOutOwe(p)
        /\ VanishedOwe(p)' <= VanishedOwe(p)
    BY <1>1, <1>2 DEF Processes, DirectoryOwes, FilesOwe, Doomed, LeftOutOwe, LeftOut, VanishedOwe, Shared, At,
       store, Launch, Fresh
  <1> QED
    BY <1>2, <1>3, <1>4, MoveKeeps

LEMMA AbsentKeeps ==
    ASSUME TypeOK, TypeOK', NEW p \in Sessions, Good(p), Wire(p), Text(p) = "gone"
    PROVE  Good(p)'
  <1>1. proc[p] \in Processes /\ proc'[p] = [proc[p] EXCEPT !.at = "directory", !.emitted = Append(@, AbsentFile)]
    BY DEF TypeOK, Become, Go, Wire
  <1>2. UNCHANGED <<port, lost, host, store, upsets>>
    BY DEF Become, Go, Wire
  <1>a. proc[p].emitted = << >> /\ Append(<< >>, AbsentFile) = <<AbsentFile>>
    BY DEF Good, ToldInv, Wire, At
  <1>3. PlaceInv(p)' /\ VisitInv(p)' /\ ToldInv(p)'
    BY <1>a, <1>1, <1>2 DEF Processes, Good, PlaceInv, VisitInv, ToldInv, http_selected, SecretOf, Text, credentials_file,
       Shared, At, host, store, Wire
  <1>4. /\ DirectoryOwes(p)' <= DirectoryOwes(p)
        /\ FilesOwe(p)' + LeftOutOwe(p)' <= FilesOwe(p) + LeftOutOwe(p)
        /\ VanishedOwe(p)' <= VanishedOwe(p)
    BY <1>1, <1>2 DEF Processes, DirectoryOwes, FilesOwe, Doomed, LeftOutOwe, LeftOut, VanishedOwe, Shared, At,
       store, Wire
  <1> QED
    BY <1>2, <1>3, <1>4, MoveKeeps

LEMMA WireKeeps ==
    ASSUME TypeOK, TypeOK', NEW p \in Sessions, Good(p), Wire(p), Text(p) \notin {"gone", "undecodable"}
    PROVE  Good(p)'
  <1>1. proc[p] \in Processes /\ proc'[p] = [proc[p] EXCEPT !.at = "directory"]
    BY DEF TypeOK, Become, Go, Wire
  <1>2. UNCHANGED <<port, lost, host, store, upsets>>
    BY DEF Become, Go, Wire
  <1>3. PlaceInv(p)' /\ VisitInv(p)' /\ ToldInv(p)'
    BY <1>1, <1>2 DEF Processes, Good, PlaceInv, VisitInv, ToldInv, http_selected, SecretOf, Text, credentials_file,
       Shared, At, host, store, Wire
  <1>4. /\ DirectoryOwes(p)' <= DirectoryOwes(p)
        /\ FilesOwe(p)' + LeftOutOwe(p)' <= FilesOwe(p) + LeftOutOwe(p)
        /\ VanishedOwe(p)' <= VanishedOwe(p)
    BY <1>1, <1>2 DEF Processes, DirectoryOwes, FilesOwe, Doomed, LeftOutOwe, LeftOut, VanishedOwe, Shared, At,
       store, Wire
  <1> QED
    BY <1>2, <1>3, <1>4, MoveKeeps

LEMMA CheckDirectoryKeeps ==
    ASSUME TypeOK, TypeOK', NEW p \in Sessions, Good(p), CheckDirectory(p), kind = "directory"
    PROVE  Good(p)'
  <1>1. proc[p] \in Processes /\ proc'[p] = [proc[p] EXCEPT !.at = IF dirShared THEN "chmod_directory" ELSE "list"]
    BY DEF TypeOK, Become, Go, CheckDirectory
  <1>2. UNCHANGED <<port, lost, host, store, upsets>>
    BY DEF Become, Go, CheckDirectory
  <1>3. PlaceInv(p)' /\ VisitInv(p)' /\ ToldInv(p)'
    BY <1>1, <1>2 DEF Processes, Good, PlaceInv, VisitInv, ToldInv, http_selected, SecretOf, Text, credentials_file,
       Shared, At, host, store, CheckDirectory
  <1>4. /\ DirectoryOwes(p)' <= DirectoryOwes(p)
        /\ FilesOwe(p)' + LeftOutOwe(p)' <= FilesOwe(p) + LeftOutOwe(p)
        /\ VanishedOwe(p)' <= VanishedOwe(p)
    BY <1>1, <1>2 DEF Processes, DirectoryOwes, FilesOwe, Doomed, LeftOutOwe, LeftOut, VanishedOwe, Shared, At,
       store, CheckDirectory
  <1> QED
    BY <1>2, <1>3, <1>4, MoveKeeps

LEMMA ListKeeps ==
    ASSUME TypeOK, TypeOK', NEW p \in Sessions, Good(p), List(p)
    PROVE  Good(p)'
  <1>1. proc[p] \in Processes /\ proc'[p] = [proc[p] EXCEPT !.at = "look", !.todo = Listing]
    BY DEF TypeOK, Become, Go, List, Listing
  <1>2. UNCHANGED <<port, lost, host, store, upsets>>
    BY DEF Become, Go, List, Listing
  <1>3. PlaceInv(p)' /\ VisitInv(p)' /\ ToldInv(p)'
    BY <1>1, <1>2 DEF Processes, Good, PlaceInv, VisitInv, ToldInv, http_selected, SecretOf, Text, credentials_file,
       Shared, At, host, store, List, Listing
  <1>a. ~proc[p].seen /\ proc[p].at = "list" /\ proc[p].at # "look"
    BY DEF Good, PlaceInv, List, At
  <1>4. /\ DirectoryOwes(p)' <= DirectoryOwes(p)
        /\ FilesOwe(p)' + LeftOutOwe(p)' <= FilesOwe(p) + LeftOutOwe(p)
        /\ VanishedOwe(p)' <= VanishedOwe(p)
    BY <1>a, <1>1, <1>2 DEF Processes, DirectoryOwes, FilesOwe, Doomed, LeftOutOwe, LeftOut, VanishedOwe, Shared, At,
       store, Listing
  <1> QED
    BY <1>2, <1>3, <1>4, MoveKeeps

LEMMA LookKeeps ==
    ASSUME TypeOK, TypeOK', NEW p \in Sessions, NEW f \in Files, Good(p), Look(p, f)
    PROVE  Good(p)'
  <1> DEFINE r == proc[p]
  <1>1. r \in Processes /\ r.at = "look" /\ f \in r.todo
    BY DEF TypeOK, Look, At
  <1>2. proc'[p] = [r EXCEPT !.todo = @ \ {f}, !.seen = @ \/ files[f] = "shared"]
    BY BecomeIs DEF Look
  <1>3. UNCHANGED <<port, lost, host, store, upsets>>
    <2>1. UNCHANGED <<port, lost>>
      BY BecomeIs DEF Look
    <2>2. UNCHANGED <<host, store, upsets>>
      BY DEF Look
    <2> QED
      BY <2>1, <2>2
  <1>4. proc'[p].seen <=> r.seen \/ Shared(f)
    BY <1>1, <1>2 DEF Processes, Shared
  <1>5. /\ proc'[p].at = "look" /\ proc'[p].todo = r.todo \ {f} /\ proc'[p].status = r.status
        /\ proc'[p].emitted = r.emitted
    BY <1>1, <1>2 DEF Processes
  <1>6. proc'[p].mended = r.mended /\ proc'[p].loose = r.loose
    BY <1>1, <1>2 DEF Processes
  <1>7. PlaceInv(p)'
    BY <1>1, <1>3, <1>5, <1>6 DEF Good, PlaceInv, http_selected, SecretOf, Text, credentials_file, host, store
  <1>8. VisitInv(p)'
    BY <1>1, <1>3, <1>4, <1>5, <1>6 DEF Good, VisitInv, Shared, store
  <1>9. ToldInv(p)'
    BY <1>1, <1>3, <1>5 DEF Good, ToldInv, Text, credentials_file, host
  <1>10. /\ DirectoryOwes(p)' <= DirectoryOwes(p)
         /\ FilesOwe(p)' + LeftOutOwe(p)' <= FilesOwe(p) + LeftOutOwe(p)
         /\ VanishedOwe(p)' <= VanishedOwe(p)
    BY <1>1, <1>3, <1>4, <1>5 DEF DirectoryOwes, FilesOwe, Doomed, LeftOutOwe, LeftOut, VanishedOwe, Shared, store
  <1> QED
    BY <1>3, <1>7, <1>8, <1>9, <1>10, MoveKeeps

LEMMA RepairKeeps ==
    ASSUME TypeOK, TypeOK', NEW p \in Sessions, Good(p), Looked(p), proc[p].seen
    PROVE  Good(p)'
  <1>1. proc[p] \in Processes /\ proc'[p] = [proc[p] EXCEPT !.at = "stat", !.todo = Listing, !.seen = FALSE]
    BY DEF TypeOK, Become, Go, Looked, Listing
  <1>2. UNCHANGED <<port, lost, host, store, upsets>>
    BY DEF Become, Go, Looked, Listing
  <1>3. PlaceInv(p)' /\ VisitInv(p)' /\ ToldInv(p)'
    BY <1>1, <1>2 DEF Processes, Good, PlaceInv, VisitInv, ToldInv, http_selected, SecretOf, Text, credentials_file,
       Shared, At, host, store, Looked, Listing
  <1>4. /\ DirectoryOwes(p)' <= DirectoryOwes(p)
        /\ FilesOwe(p)' + LeftOutOwe(p)' <= FilesOwe(p) + LeftOutOwe(p)
        /\ VanishedOwe(p)' <= VanishedOwe(p)
    BY <1>1, <1>2 DEF Processes, DirectoryOwes, FilesOwe, Doomed, LeftOutOwe, LeftOut, VanishedOwe, Shared, At,
       store, Looked, Listing
  <1> QED
    BY <1>2, <1>3, <1>4, MoveKeeps

LEMMA PassedKeeps ==
    ASSUME TypeOK, TypeOK', NEW p \in Sessions, Good(p), Looked(p), ~proc[p].seen
    PROVE  Good(p)'
  <1>1. proc[p] \in Processes /\ proc'[p] = [proc[p] EXCEPT !.at = IF http_selected(p) THEN "secret" ELSE "serve"]
    BY DEF TypeOK, Become, Go, Looked
  <1>2. UNCHANGED <<port, lost, host, store, upsets>>
    BY DEF Become, Go, Looked
  <1>3. PlaceInv(p)' /\ VisitInv(p)' /\ ToldInv(p)'
    BY <1>1, <1>2 DEF Processes, Good, PlaceInv, VisitInv, ToldInv, http_selected, SecretOf, Text, credentials_file,
       Shared, At, host, store, Looked
  <1>4. /\ DirectoryOwes(p)' <= DirectoryOwes(p)
        /\ FilesOwe(p)' + LeftOutOwe(p)' <= FilesOwe(p) + LeftOutOwe(p)
        /\ VanishedOwe(p)' <= VanishedOwe(p)
    BY <1>1, <1>2 DEF Processes, DirectoryOwes, FilesOwe, Doomed, LeftOutOwe, LeftOut, VanishedOwe, Shared, At,
       store, Looked
  <1> QED
    BY <1>2, <1>3, <1>4, MoveKeeps

LEMMA StatKeeps ==
    ASSUME TypeOK, TypeOK', NEW p \in Sessions, NEW f \in Files, Good(p), Stat(p, f)
    PROVE  Good(p)'
  <1>1. proc[p] \in Processes /\ proc'[p] = IF files[f] = "private" THEN [proc[p] EXCEPT !.todo = @ \ {f}]
                 ELSE [proc[p] EXCEPT !.at = "chmod", !.entry = f]
    BY DEF TypeOK, Become, Go, Stat
  <1>2. UNCHANGED <<port, lost, host, store, upsets>>
    BY DEF Become, Go, Stat
  <1>3. PlaceInv(p)' /\ VisitInv(p)' /\ ToldInv(p)'
    BY <1>1, <1>2 DEF Processes, Good, PlaceInv, VisitInv, ToldInv, http_selected, SecretOf, Text, credentials_file,
       Shared, At, host, store, Stat
  <1>4. /\ DirectoryOwes(p)' <= DirectoryOwes(p)
        /\ FilesOwe(p)' + LeftOutOwe(p)' <= FilesOwe(p) + LeftOutOwe(p)
        /\ VanishedOwe(p)' <= VanishedOwe(p)
    BY <1>1, <1>2 DEF Processes, DirectoryOwes, FilesOwe, Doomed, LeftOutOwe, LeftOut, VanishedOwe, Shared, At,
       store, Stat
  <1> QED
    BY <1>2, <1>3, <1>4, MoveKeeps

LEMMA VerifyKeeps ==
    ASSUME TypeOK, TypeOK', NEW p \in Sessions, NEW f \in Files, Good(p), Verify(p, f), files[f] # "shared"
    PROVE  Good(p)'
  <1>1. proc[p] \in Processes /\ proc'[p] = [proc[p] EXCEPT !.at = "stat", !.todo = @ \ {f}, !.entry = NoFile]
    BY DEF TypeOK, Become, Go, Verify, On
  <1>2. UNCHANGED <<port, lost, host, store, upsets>>
    BY DEF Become, Go, Verify, On
  <1>3. PlaceInv(p)' /\ VisitInv(p)' /\ ToldInv(p)'
    BY <1>1, <1>2 DEF Processes, Good, PlaceInv, VisitInv, ToldInv, http_selected, SecretOf, Text, credentials_file,
       Shared, At, host, store, Verify, On
  <1>4. /\ DirectoryOwes(p)' <= DirectoryOwes(p)
        /\ FilesOwe(p)' + LeftOutOwe(p)' <= FilesOwe(p) + LeftOutOwe(p)
        /\ VanishedOwe(p)' <= VanishedOwe(p)
    BY <1>1, <1>2 DEF Processes, DirectoryOwes, FilesOwe, Doomed, LeftOutOwe, LeftOut, VanishedOwe, Shared, At,
       store, Verify, On
  <1> QED
    BY <1>2, <1>3, <1>4, MoveKeeps

LEMMA SecretKeeps ==
    ASSUME TypeOK, TypeOK', NEW p \in Sessions, Good(p), CheckSecret(p), SecretOf(p) = "good"
    PROVE  Good(p)'
  <1>1. proc[p] \in Processes /\ proc'[p] = [proc[p] EXCEPT !.at = "serve"]
    BY DEF TypeOK, Become, Go, CheckSecret
  <1>2. UNCHANGED <<port, lost, host, store, upsets>>
    BY DEF Become, Go, CheckSecret
  <1>3. PlaceInv(p)' /\ VisitInv(p)' /\ ToldInv(p)'
    BY <1>1, <1>2 DEF Processes, Good, PlaceInv, VisitInv, ToldInv, http_selected, SecretOf, Text, credentials_file,
       Shared, At, host, store, CheckSecret
  <1>4. /\ DirectoryOwes(p)' <= DirectoryOwes(p)
        /\ FilesOwe(p)' + LeftOutOwe(p)' <= FilesOwe(p) + LeftOutOwe(p)
        /\ VanishedOwe(p)' <= VanishedOwe(p)
    BY <1>1, <1>2 DEF Processes, DirectoryOwes, FilesOwe, Doomed, LeftOutOwe, LeftOut, VanishedOwe, Shared, At,
       store, CheckSecret
  <1> QED
    BY <1>2, <1>3, <1>4, MoveKeeps

LEMMA ServeStdioKeeps ==
    ASSUME TypeOK, TypeOK', NEW p \in Sessions, Good(p), ServeStdio(p)
    PROVE  Good(p)'
  <1>1. proc[p] \in Processes /\ proc'[p] = [proc[p] EXCEPT !.at = "serving"]
    BY DEF TypeOK, Become, Go, ServeStdio
  <1>2. UNCHANGED <<port, lost, host, store, upsets>>
    BY DEF Become, Go, ServeStdio
  <1>3. PlaceInv(p)' /\ VisitInv(p)' /\ ToldInv(p)'
    BY <1>1, <1>2 DEF Processes, Good, PlaceInv, VisitInv, ToldInv, http_selected, SecretOf, Text, credentials_file,
       Shared, At, host, store, ServeStdio
  <1>4. /\ DirectoryOwes(p)' <= DirectoryOwes(p)
        /\ FilesOwe(p)' + LeftOutOwe(p)' <= FilesOwe(p) + LeftOutOwe(p)
        /\ VanishedOwe(p)' <= VanishedOwe(p)
    BY <1>1, <1>2 DEF Processes, DirectoryOwes, FilesOwe, Doomed, LeftOutOwe, LeftOut, VanishedOwe, Shared, At,
       store, ServeStdio
  <1> QED
    BY <1>2, <1>3, <1>4, MoveKeeps

-----------------------------------------------------------------------------
(* Going on, with a change to the store or to the port.                      *)
LEMMA ChmodDirectoryKeeps ==
    ASSUME TypeOK, TypeOK', NEW p \in Sessions, Good(p), ChmodDirectory(p), chmod # "denied"
    PROVE  Good(p)'
  <1>1. /\ proc[p] \in Processes /\ proc[p].at = "chmod_directory"
        /\ proc'[p] = IF chmod = "sticks" THEN [proc[p] EXCEPT !.at = "verify_directory", !.mended = TRUE]
                      ELSE [proc[p] EXCEPT !.at = "verify_directory"]
        /\ dirShared' = (dirShared /\ chmod # "sticks")
    BY DEF TypeOK, ChmodDirectory, Become, Go, At
  <1>2. UNCHANGED <<port, lost, host, files, upsets>>
    BY DEF ChmodDirectory, Become, Go
  <1>3. PlaceInv(p)' /\ VisitInv(p)' /\ ToldInv(p)'
    BY <1>1, <1>2 DEF Processes, Good, PlaceInv, VisitInv, ToldInv, http_selected, SecretOf, Text, credentials_file,
       Shared, host
  <1>4. /\ DirectoryOwes(p)' <= DirectoryOwes(p)
        /\ FilesOwe(p)' + LeftOutOwe(p)' <= FilesOwe(p) + LeftOutOwe(p)
        /\ VanishedOwe(p)' <= VanishedOwe(p)
    BY <1>1, <1>2 DEF Processes, DirectoryOwes, FilesOwe, Doomed, LeftOutOwe, LeftOut, VanishedOwe, Shared
  <1> QED
    BY <1>2, <1>3, <1>4, MoveKeeps

LEMMA ChmodKeeps ==
    ASSUME TypeOK, TypeOK', NEW p \in Sessions, NEW f \in Files, Good(p), Chmod(p, f), chmod # "denied"
    PROVE  Good(p)'
  <1>1. /\ proc[p] \in Processes /\ proc[p].at = "chmod" /\ proc[p].entry = f
        /\ proc'[p] = IF chmod = "sticks" THEN [proc[p] EXCEPT !.at = "verify", !.mended = TRUE]
                      ELSE [proc[p] EXCEPT !.at = "verify"]
        /\ files' = IF chmod = "sticks" THEN [files EXCEPT ![f] = "private"] ELSE files
        /\ files[f] # "gone" /\ files \in [Files -> {"gone", "private", "shared"}]
    BY DEF TypeOK, Chmod, Become, Go, On, At
  <1>2. UNCHANGED <<port, lost, host, dirShared, upsets>>
    BY DEF Chmod, Become, Go
  <1>3. PlaceInv(p)' /\ ToldInv(p)'
    BY <1>1, <1>2 DEF Processes, Good, PlaceInv, ToldInv, http_selected, SecretOf, Text, credentials_file, host
  <1>4. VisitInv(p)'
    BY <1>1 DEF Processes, Good, VisitInv, Shared
  <1>5. Servable(p) => /\ DirectoryOwes(p)' <= DirectoryOwes(p)
                       /\ FilesOwe(p)' + LeftOutOwe(p)' <= FilesOwe(p) + LeftOutOwe(p)
                       /\ VanishedOwe(p)' <= VanishedOwe(p)
    <2> SUFFICES ASSUME chmod = "sticks"
                 PROVE  /\ DirectoryOwes(p)' <= DirectoryOwes(p)
                        /\ FilesOwe(p)' + LeftOutOwe(p)' <= FilesOwe(p) + LeftOutOwe(p)
                        /\ VanishedOwe(p)' <= VanishedOwe(p)
      BY DEF Servable
    <2>1. /\ proc'[p].at = "verify" /\ proc'[p].todo = proc[p].todo /\ proc'[p].entry = f
          /\ proc'[p].seen = proc[p].seen /\ proc[p].todo \subseteq Files
      BY <1>1 DEF Processes
    <2>2. \A g \in Files : files'[g] = IF g = f THEN "private" ELSE files[g]
      BY <1>1
    <2>3. DirectoryOwes(p)' <= DirectoryOwes(p)
      BY <1>1, <1>2, <2>1 DEF DirectoryOwes
    <2>4. FilesOwe(p)' + LeftOutOwe(p)' <= FilesOwe(p) + LeftOutOwe(p)
      BY <1>1, <2>1, <2>2 DEF FilesOwe, Doomed, LeftOutOwe, LeftOut, Shared
    <2>5. VanishedOwe(p)' <= VanishedOwe(p)
      BY <1>1, <2>1, <2>2 DEF VanishedOwe
    <2> QED
      BY <2>3, <2>4, <2>5
  <1> QED
    BY <1>2, <1>3, <1>4, <1>5, MoveKeeps

LEMMA PortKeeps ==
    ASSUME TypeOK, TypeOK', NEW p \in Sessions, Good(p),
           (ServeHttp(p) /\ port = "free") \/ Signalled(p) \/ (NotifyReady(p) /\ Go(p, "serving"))
    PROVE  Good(p)'
  <1> DEFINE where == IF At(p, "serve") THEN "notify" ELSE IF At(p, "notify") THEN "serving" ELSE "draining"
  <1>1. /\ proc[p] \in Processes /\ proc'[p] = [proc[p] EXCEPT !.at = where]
        /\ proc[p].at \in {"serve", "notify", "serving"}
    BY DEF TypeOK, ServeHttp, Signalled, NotifyReady, Go, Become, At
  <1>2. UNCHANGED <<lost, host, store>> /\ http_selected(p)
    BY DEF ServeHttp, Signalled, NotifyReady, Go, Become, At, Good, PlaceInv
  <1>3. port' = IF At(p, "serve") THEN p ELSE IF At(p, "notify") THEN port ELSE "free"
    BY DEF ServeHttp, Signalled, NotifyReady, Go, Become, At
  <1>4. PlaceInv(p)' /\ VisitInv(p)' /\ ToldInv(p)'
    BY <1>1, <1>2, <1>3, NamesAssumption DEF Processes, Good, PlaceInv, VisitInv, ToldInv, http_selected, SecretOf,
       Text, credentials_file, Shared, host, store, At
  <1>5. /\ DirectoryOwes(p)' <= DirectoryOwes(p)
        /\ FilesOwe(p)' + LeftOutOwe(p)' <= FilesOwe(p) + LeftOutOwe(p)
        /\ VanishedOwe(p)' <= VanishedOwe(p)
    BY <1>1, <1>2 DEF Processes, DirectoryOwes, FilesOwe, Doomed, LeftOutOwe, LeftOut, VanishedOwe, Shared, store, At
  <1>6. shares <= shares' /\ removals <= removals' /\ failures <= failures'
    BY DEF TypeOK, ServeHttp, Signalled, NotifyReady, upsets
  <1> QED
    BY <1>2, <1>4, <1>5, <1>6, BudgetStays DEF Good

-----------------------------------------------------------------------------
(* The ends, and what each of them is owed.                                  *)
LEMMA Budgeted ==
    ASSUME TypeOK, NEW p \in Sessions, Good(p), Servable(p), NEW n \in 0..1, StoreOwes + n <= Owed(p)
    PROVE  lost[p] + n + StoreOwes <= Bound
  <1>1. lost[p] \in Nat /\ Bound \in Nat
    BY DEF TypeOK, Bound
  <1>2. Owed(p) \in Nat /\ StoreOwes \in Nat
    BY OwedIsSmall, StoreIsOwed DEF Owed
  <1> QED
    BY <1>1, <1>2 DEF Good, BudgetInv

LEMMA MainKeeps ==
    ASSUME TypeOK, TypeOK', NEW p \in Sessions, \A q \in Sessions : Good(q),
           Launch(p) \/ Main(p) \/ Signalled(p) \/ ServeEnds(p) \/ Kill(p)
    PROVE  Good(p)'
  <1> DEFINE r == proc[p]
  <1>1. r \in Processes /\ Good(p)
    BY DEF TypeOK
  <1>4. /\ StoreOwes \in 0..2 /\ StoreOwes <= DirectoryOwes(p) + FilesOwe(p) + LeftOutOwe(p)
        /\ DirectoryOwes(p) \in 0..1 /\ FilesOwe(p) \in 0..1 /\ LeftOutOwe(p) \in 0..1 /\ VanishedOwe(p) \in 0..1
    BY StoreIsOwed, OwedIsSmall
  <1>2. ASSUME Exit(p, "1"), ~At(p, "away"), UNCHANGED <<host, store, upsets>>,
               Servable(p) => StoreOwes + 1 <= Owed(p)
        PROVE  Good(p)'
    <2>1. Servable(p) => lost[p] + (IF Served(p) THEN 0 ELSE 1) + StoreOwes <= Bound'
      <3>1. Servable(p) => lost[p] + 1 + StoreOwes <= Bound
        BY <1>1, <1>2, Budgeted
      <3>2. Bound' = Bound /\ Bound \in Nat /\ lost[p] \in Nat
        BY <1>2 DEF Bound, upsets, TypeOK
      <3> QED
        BY <1>4, <3>1, <3>2
    <2>2. "1" \in Statuses \ {"none", "78"}
      BY DEF Statuses
    <2> QED
      BY <1>1, <1>2, <2>1, <2>2, ExitKeeps
  <1>3. ASSUME NEW check \in Checks \ {AbsentFile}, Refuse(p, check), UNCHANGED <<host, store, upsets>>, ~Served(p),
               Servable(p) => StoreOwes + 1 <= Owed(p)
        PROVE  Good(p)'
    <2>1. Servable(p) => lost[p] + 1 + StoreOwes <= Bound'
      BY <1>1, <1>3, Budgeted DEF Bound, upsets
    <2> QED
      BY <1>1, <1>3, <2>1, RefuseKeeps
  <1>5. CASE Launch(p)
    BY <1>1, <1>5, LaunchKeeps
  <1>6. CASE Wire(p)
    <2>1. CASE Text(p) = "undecodable"
      <3>1. ~Servable(p)
        BY <2>1 DEF Servable
      <3> QED
        BY <1>2, <1>6, <2>1, <3>1 DEF Wire, At
    <2> QED
      BY <1>1, <1>6, <2>1, AbsentKeeps, WireKeeps
  <1>7. CASE CheckDirectory(p)
    <2>1. CASE kind # "directory"
      BY <1>3, <1>7, <2>1 DEF CheckDirectory, Servable, Checks, AbsentFile, At, Served
    <2> QED
      BY <1>1, <1>7, <2>1, CheckDirectoryKeeps
  <1>8. CASE ChmodDirectory(p)
    <2>1. CASE chmod = "denied"
      BY <1>2, <1>8, <2>1 DEF ChmodDirectory, Servable, At, store, upsets
    <2> QED
      BY <1>1, <1>8, <2>1, ChmodDirectoryKeeps
  <1>9. CASE VerifyDirectory(p)
    <2>1. Servable(p) => StoreOwes + 1 <= Owed(p)
      <3> SUFFICES ASSUME Servable(p) PROVE StoreOwes + 1 <= Owed(p)
          OBVIOUS
      <3>1. ~dirShared /\ DirectoryOwes(p) = 1
        BY <1>1, <1>9 DEF VerifyDirectory, At, Good, PlaceInv, Servable, DirectoryOwes
      <3>2. StoreOwes <= FilesOwe(p) + LeftOutOwe(p)
        BY <3>1 DEF StoreOwes, FilesOwe, LeftOutOwe, Doomed, LeftOut
      <3> QED
        BY <1>4, <3>1, <3>2 DEF Owed
    <2>2. {"mode_not_honoured", "store_shared"} \subseteq Checks \ {AbsentFile}
      BY DEF Checks, AbsentFile
    <2> QED
      BY <1>3, <1>9, <2>1, <2>2 DEF VerifyDirectory, At, Served
  <1>10. CASE List(p)
    BY <1>1, <1>10, ListKeeps
  <1>11. ASSUME NEW f \in Files, Look(p, f) PROVE Good(p)'
    BY <1>1, <1>11, LookKeeps
  <1>12. CASE Looked(p)
    BY <1>1, <1>12, RepairKeeps, PassedKeeps
  <1>13. ASSUME NEW f \in Files, Stat(p, f) PROVE Good(p)'
    BY <1>1, <1>13, StatKeeps
  <1>14. ASSUME NEW f \in Files, Chmod(p, f) PROVE Good(p)'
    <2>1. CASE chmod = "denied"
      BY <1>2, <1>14, <2>1 DEF Chmod, Servable, On, At, store, upsets
    <2> QED
      BY <1>1, <1>14, <2>1, ChmodKeeps
  <1>15. ASSUME NEW f \in Files, Verify(p, f) PROVE Good(p)'
    <2>1. CASE files[f] = "shared"
      <3>1. FilesOwe(p) = 1 /\ LeftOutOwe(p) = 1
        BY <1>15, <2>1 DEF Verify, On, At, FilesOwe, Doomed, LeftOutOwe, LeftOut, Shared
      <3>2. StoreOwes <= DirectoryOwes(p) + 1
        BY DEF StoreOwes, DirectoryOwes
      <3>3. StoreOwes + 1 <= Owed(p)
        BY <1>4, <3>1, <3>2 DEF Owed
      <3> QED
        BY <1>2, <1>15, <2>1, <3>3 DEF Verify, On, At
    <2> QED
      BY <1>1, <1>15, <2>1, VerifyKeeps
  <1>16. ASSUME NEW f \in Files, Vanished(p, f) PROVE Good(p)'
    <2>1. f \in r.todo /\ files[f] = "gone"
      BY <1>1, <1>16 DEF Vanished, On, At, Good, PlaceInv
    <2>2. VanishedOwe(p) = 1
      BY <2>1 DEF VanishedOwe
    <2>3. StoreOwes + 1 <= Owed(p)
      BY <1>4, <2>2 DEF Owed
    <2> QED
      BY <1>2, <1>16, <2>3 DEF Vanished, On, At
  <1>17. CASE RefuseSharedFiles(p)
    <2>1. FilesOwe(p) = 1 /\ r.todo = {} /\ r.at = "stat"
      BY <1>17 DEF RefuseSharedFiles, At, FilesOwe, Doomed
    <2>2. StoreOwes <= DirectoryOwes(p) + LeftOutOwe(p)
      BY <2>1 DEF StoreOwes, DirectoryOwes, LeftOutOwe, LeftOut
    <2>3. StoreOwes + 1 <= Owed(p)
      BY <1>4, <2>1, <2>2 DEF Owed
    <2>4. "store_file_shared" \in Checks \ {AbsentFile}
      BY DEF Checks, AbsentFile
    <2> QED
      BY <1>3, <1>17, <2>3, <2>4 DEF RefuseSharedFiles, At, Served
  <1>18. CASE CheckSecret(p)
    <2>1. CASE SecretOf(p) = "good"
      BY <1>1, <1>18, <2>1, SecretKeeps
    <2>2. CASE SecretOf(p) # "good"
      <3>1. ~Servable(p)
        BY <1>1, <1>18, <2>2 DEF CheckSecret, At, Good, PlaceInv, Servable, SecretOf
      <3>2. {"token_absent", "token_too_short"} \subseteq Checks \ {AbsentFile}
        BY DEF Checks, AbsentFile
      <3> QED
        BY <1>3, <1>18, <2>2, <3>1, <3>2 DEF CheckSecret, At, Served
    <2> QED
      BY <2>1, <2>2
  <1>19. CASE ServeStdio(p)
    BY <1>1, <1>19, ServeStdioKeeps
  <1>20. CASE ServeHttp(p)
    <2>1. CASE port # "free"
      <3>1. ~Servable(p)
        <4>1. port \in Sessions /\ http_selected(port) /\ proc[port].at \in {"notify", "serving"}
          BY <2>1 DEF TypeOK, Good, PlaceInv
        <4>2. port # p /\ http_selected(p)
          BY <1>20, <4>1 DEF ServeHttp, At
        <4> QED
          BY <4>1, <4>2 DEF Servable
      <3> QED
        BY <1>2, <1>20, <2>1, <3>1 DEF ServeHttp, At
    <2> QED
      BY <1>1, <1>20, <2>1, PortKeeps
  <1>21. ASSUME NEW status \in Statuses \ {"none", "78"}, Exit(p, status), ~At(p, "away"), UNCHANGED <<host, store>>,
                failures' = failures + 1, UNCHANGED <<shares, removals>>
         PROVE  Good(p)'
    <2>1. StoreOwes + 0 <= Owed(p)
      BY <1>4 DEF Owed
    <2>2. Servable(p) => lost[p] + 0 + StoreOwes <= Bound
      BY <1>1, <2>1, Budgeted
    <2>3. Bound' = Bound + 1 /\ Bound \in Nat /\ lost[p] \in Nat
      BY <1>21 DEF Bound, TypeOK
    <2>4. Servable(p) => lost[p] + (IF Served(p) THEN 0 ELSE 1) + StoreOwes <= Bound'
      BY <1>4, <2>2, <2>3
    <2> QED
      BY <1>1, <1>21, <2>4, ExitKeeps
  <1>22. CASE NotifyReady(p)
    <2>1. CASE Go(p, "serving")
      BY <1>1, <1>22, <2>1, PortKeeps
    <2>2. "1" \in Statuses \ {"none", "78"}
      BY DEF Statuses
    <2> QED
      BY <1>21, <1>22, <2>1, <2>2 DEF NotifyReady, At
  <1>23. CASE Signalled(p)
    BY <1>1, <1>23, PortKeeps
  <1>24. CASE ServeEnds(p)
    <2>1. Servable(p) => lost[p] + (IF Served(p) THEN 0 ELSE 1) + StoreOwes <= Bound'
      <3>1. StoreOwes + 0 <= Owed(p)
        BY <1>4 DEF Owed
      <3>2. Served(p) /\ Bound' = Bound
        BY <1>24 DEF ServeEnds, At, Served, Bound, upsets
      <3>3. lost[p] \in Nat
        BY DEF TypeOK
      <3> QED
        BY <1>1, <3>1, <3>2, <3>3, Budgeted
    <2>2. {"0", "1", "signal"} \subseteq Statuses \ {"none", "78"}
      BY DEF Statuses
    <2>3. PICK status \in {"0", "1", "signal"} : Exit(p, status)
      BY <1>24 DEF ServeEnds
    <2> QED
      BY <1>1, <1>24, <2>1, <2>2, <2>3, ExitKeeps DEF ServeEnds, At
  <1>25. CASE Kill(p)
    <2>1. "signal" \in Statuses \ {"none", "78"}
      BY DEF Statuses
    <2> QED
      BY <1>21, <1>25, <2>1 DEF Kill
  <1> QED
    BY <1>5, <1>6, <1>7, <1>8, <1>9, <1>10, <1>11, <1>12, <1>13, <1>14, <1>15, <1>16, <1>17,
       <1>18, <1>19, <1>20, <1>22, <1>23, <1>24, <1>25 DEF Main

-----------------------------------------------------------------------------
(* The whole.                                                                *)
LEMMA OthersUntouched ==
    ASSUME TypeOK, NEW p \in Sessions, Good(p), Launch(p) \/ Main(p) \/ Signalled(p) \/ ServeEnds(p) \/ Kill(p), NEW q \in Sessions \ {p}
    PROVE  proc'[q] = proc[q] /\ lost'[q] = lost[q] /\ (port' = q <=> port = q)
  <1> USE DEF TypeOK
  <1>1. ASSUME NEW r, Become(p, r) PROVE proc'[q] = proc[q] /\ lost'[q] = lost[q] /\ port' = port
    BY <1>1 DEF Become
  <1>2. ASSUME NEW status, NEW emitted, End(p, status, emitted)
        PROVE  proc'[q] = proc[q] /\ lost'[q] = lost[q] /\ (port' = q <=> port = q)
    BY <1>2, NamesAssumption DEF End
  <1> HIDE DEF TypeOK
  <1>3. CASE Launch(p) \/ List(p) \/ ServeStdio(p) \/ \E f \in Files : Look(p, f)
    BY <1>1, <1>3 DEF Launch, List, ServeStdio, Look, Go
  <1>4. CASE Looked(p) \/ \E f \in Files : Stat(p, f)
    BY <1>1, <1>4 DEF Looked, Stat, Go
  <1>5. CASE Wire(p) \/ CheckDirectory(p) \/ ChmodDirectory(p) \/ CheckSecret(p)
    BY <1>1, <1>2, <1>5 DEF Wire, CheckDirectory, ChmodDirectory, CheckSecret, Go, Exit, Refuse
  <1>6. CASE \E f \in Files : Chmod(p, f) \/ Verify(p, f)
    BY <1>1, <1>2, <1>6 DEF Chmod, Verify, Go, Exit
  <1>7. CASE VerifyDirectory(p) \/ RefuseSharedFiles(p) \/ ServeEnds(p) \/ Kill(p) \/ \E f \in Files : Vanished(p, f)
    BY <1>2, <1>7 DEF VerifyDirectory, RefuseSharedFiles, ServeEnds, Kill, Vanished, Exit, Refuse
  <1>9. CASE NotifyReady(p)
    BY <1>1, <1>2, <1>9 DEF NotifyReady, Go, Exit
  <1>10. CASE Signalled(p)
    <2>1. port = p
      BY <1>10 DEF Signalled, At, Good, PlaceInv
    <2> QED
      BY <1>10, <2>1, NamesAssumption DEF Signalled, TypeOK
  <1>8. CASE ServeHttp(p)
    <2>1. CASE port = "free"
      BY <1>8, <2>1, NamesAssumption DEF ServeHttp, TypeOK
    <2> QED
      BY <1>2, <1>8, <2>1 DEF ServeHttp, Exit
  <1> QED
    BY <1>3, <1>4, <1>5, <1>6, <1>7, <1>8, <1>9, <1>10 DEF Main

LEMMA OthersStand ==
    ASSUME TypeOK, TypeOK', NEW p \in Sessions, \A q \in Sessions : Good(q),
           Launch(p) \/ Main(p) \/ Signalled(p) \/ ServeEnds(p) \/ Kill(p), NEW q \in Sessions \ {p}
    PROVE  Good(q)'
  <1>1. proc'[q] = proc[q] /\ lost'[q] = lost[q] /\ (port' = q <=> port = q)
    BY OthersUntouched
  <1>2. /\ dirShared' => dirShared
        /\ \A f \in Files : /\ files'[f] = "shared" => files[f] = "shared"
                            /\ files'[f] = "gone" => files[f] = "gone"
    <2>1. CASE UNCHANGED store
      BY <2>1 DEF store
    <2>2. CASE ChmodDirectory(p)
      BY <2>2 DEF ChmodDirectory
    <2>3. ASSUME NEW f \in Files, Chmod(p, f)
          PROVE  /\ dirShared' => dirShared
                 /\ \A g \in Files : /\ files'[g] = "shared" => files[g] = "shared"
                                     /\ files'[g] = "gone" => files[g] = "gone"
      BY <2>3 DEF Chmod, TypeOK
    <2>4. UNCHANGED store \/ ChmodDirectory(p) \/ \E f \in Files : Chmod(p, f)
      BY Zenon DEF Launch, Main, ServeEnds, Kill, Wire, CheckDirectory, VerifyDirectory, List, Look,
         Looked, Stat, Verify, Vanished, RefuseSharedFiles, CheckSecret, ServeStdio, ServeHttp, NotifyReady, Signalled
    <2> QED
      BY <2>1, <2>2, <2>3, <2>4
  <1>3. UNCHANGED host /\ shares <= shares' /\ removals <= removals' /\ failures <= failures'
    <2>1. shares \in Nat /\ removals \in Nat /\ failures \in Nat
      BY DEF TypeOK
    <2>2. UNCHANGED host
      BY DEF Launch, Main, ServeEnds, Kill, Wire, CheckDirectory, ChmodDirectory, VerifyDirectory, List, Look,
         Looked, Stat, Chmod, Verify, Vanished, RefuseSharedFiles, CheckSecret, ServeStdio, ServeHttp, NotifyReady, Signalled
    <2>3. UNCHANGED upsets \/ NotifyReady(p) \/ Kill(p)
      BY DEF Launch, Main, ServeEnds, Wire, CheckDirectory, ChmodDirectory, VerifyDirectory, List, Look,
         Looked, Stat, Chmod, Verify, Vanished, RefuseSharedFiles, CheckSecret, ServeStdio, ServeHttp, Signalled
    <2> QED
      BY <2>1, <2>2, <2>3 DEF upsets, NotifyReady, Kill
  <1>4. Good(q)
    OBVIOUS
  <1> QED
    BY <1>1, <1>2, <1>3, <1>4, OthersKeep

\* A file that goes away costs each process at most the start it is in.
LEMMA RemoveKeeps ==
    ASSUME TypeOK, TypeOK', NEW q \in Sessions, Good(q), NEW f \in Files, RemoveFile(f)
    PROVE  Good(q)'
  <1>1. /\ UNCHANGED <<host, dirShared, port, proc, lost, shares, failures>> /\ removals' = removals + 1
        /\ \A g \in Files : files'[g] = "shared" => files[g] = "shared"
    BY DEF RemoveFile, TypeOK
  <1>2. PlaceInv(q)'
    BY <1>1 DEF Good, PlaceInv, http_selected, SecretOf, Text, credentials_file, host
  <1>3. VisitInv(q)' /\ ToldInv(q)'
    BY <1>1 DEF Good, VisitInv, ToldInv, LastEvent, Shared, Text, credentials_file, host
  <1>4. BudgetInv(q)'
    <2>1. DirectoryOwes(q)' = DirectoryOwes(q) /\ FilesOwe(q)' = FilesOwe(q) /\ LeftOutOwe(q)' <= LeftOutOwe(q)
      BY <1>1 DEF DirectoryOwes, FilesOwe, Doomed, LeftOutOwe, LeftOut, Shared
    <2>2. VanishedOwe(q)' \in 0..1 /\ LeftOutOwe(q)' \in 0..1
      BY DEF VanishedOwe, LeftOutOwe
    <2>3. Servable(q)' <=> Servable(q)
      BY <1>1 DEF Servable, http_selected, Text, credentials_file, host
    <2>4. lost[q] \in Nat /\ shares \in Nat /\ removals \in Nat /\ failures \in Nat
      BY DEF TypeOK
    <2> QED
      BY <1>1, <2>1, <2>2, <2>3, <2>4, OwedIsSmall DEF Good, BudgetInv, Owed, Bound
  <1> QED
    BY <1>2, <1>3, <1>4 DEF Good

\* A file that is given away costs each process at most one start.
LEMMA ShareKeeps ==
    ASSUME TypeOK, TypeOK', NEW q \in Sessions, Good(q), NEW f \in Files, ShareFile(f)
    PROVE  Good(q)'
  <1> DEFINE r == proc[q]
  <1>1. /\ UNCHANGED <<host, dirShared, port, lost, removals, failures>> /\ shares' = shares + 1
        /\ \A g \in Files : files'[g] = "gone" => files[g] = "gone"
        /\ r \in Processes /\ proc'[q] = [r EXCEPT !.loose = ~At(q, "away")]
    BY DEF ShareFile, TypeOK
  <1>2. /\ proc'[q].at = r.at /\ proc'[q].todo = r.todo /\ proc'[q].entry = r.entry /\ proc'[q].seen = r.seen
        /\ proc'[q].emitted = r.emitted /\ proc'[q].status = r.status /\ proc'[q].mended = r.mended
        /\ r.todo \subseteq Files /\ (r.at # "away" => proc'[q].loose)
    BY <1>1 DEF Processes, At
  <1>3. PlaceInv(q)'
    BY <1>1, <1>2 DEF Good, PlaceInv, http_selected, SecretOf, Text, credentials_file, host
  <1>4. VisitInv(q)' /\ ToldInv(q)'
    BY <1>1, <1>2 DEF Good, VisitInv, ToldInv, LastEvent, Text, credentials_file, host
  <1>5. BudgetInv(q)'
    <2>1. DirectoryOwes(q)' = DirectoryOwes(q) /\ FilesOwe(q)' = FilesOwe(q) /\ VanishedOwe(q)' <= VanishedOwe(q)
      BY <1>1, <1>2 DEF DirectoryOwes, FilesOwe, Doomed, VanishedOwe
    <2>2. VanishedOwe(q)' \in 0..1 /\ LeftOutOwe(q)' \in 0..1
      BY DEF VanishedOwe, LeftOutOwe
    <2>3. Servable(q)' <=> Servable(q)
      BY <1>1 DEF Servable, http_selected, Text, credentials_file, host
    <2>4. lost[q] \in Nat /\ shares \in Nat /\ removals \in Nat /\ failures \in Nat
      BY DEF TypeOK
    <2> QED
      BY <1>1, <2>1, <2>2, <2>3, <2>4, OwedIsSmall DEF Good, BudgetInv, Owed, Bound
  <1> QED
    BY <1>3, <1>4, <1>5 DEF Good

LEMMA InitIsGood == Init => IInv
  <1> SUFFICES ASSUME Init, NEW p \in Sessions PROVE Good(p)
      BY TypeInit DEF IInv
  <1>1. proc[p] = Fresh("away") /\ port # p /\ lost[p] = 0 /\ shares = 0 /\ removals = 0 /\ failures = 0
    BY NamesAssumption DEF Init
  <1>2. PlaceInv(p) /\ VisitInv(p) /\ ToldInv(p)
    BY <1>1 DEF PlaceInv, VisitInv, ToldInv, Fresh
  <1>3. FilesOwe(p) = 0 /\ VanishedOwe(p) = 0
    BY <1>1 DEF FilesOwe, Doomed, VanishedOwe, Fresh
  <1> QED
    BY <1>1, <1>2, <1>3, OwedIsSmall DEF Good, BudgetInv, Owed, Bound

LEMMA StepIsGood == IInv /\ [Next]_vars => IInv'
  <1> SUFFICES ASSUME IInv, [Next]_vars, NEW q \in Sessions PROVE Good(q)'
      BY TypeStep DEF IInv
  <1>1. TypeOK /\ TypeOK' /\ (\A p \in Sessions : Good(p)) /\ Good(q)
    BY TypeStep DEF IInv
  <1>2. ASSUME NEW p \in Sessions, Launch(p) \/ Main(p) \/ Signalled(p) \/ ServeEnds(p) \/ Kill(p) PROVE Good(q)'
    <2>1. CASE q = p
      BY <1>1, <1>2, <2>1, MainKeeps
    <2>2. CASE q # p
      BY <1>1, <1>2, <2>2, OthersStand
    <2> QED
      BY <2>1, <2>2
  <1>3. ASSUME NEW f \in Files, WriteFile(f) PROVE Good(q)'
    <2>1. /\ UNCHANGED <<host, dirShared, port, proc, lost, upsets>>
          /\ \A g \in Files : /\ files'[g] = "shared" => files[g] = "shared"
                              /\ files'[g] = "gone" => files[g] = "gone"
      BY <1>1, <1>3 DEF WriteFile, TypeOK
    <2>2. shares <= shares' /\ removals <= removals' /\ failures <= failures'
      BY <1>1, <2>1 DEF upsets, TypeOK
    <2> QED
      BY <1>1, <2>1, <2>2, OthersKeep
  <1>4. ASSUME NEW f \in Files, RemoveFile(f) PROVE Good(q)'
    BY <1>1, <1>4, RemoveKeeps
  <1>5. ASSUME NEW f \in Files, ShareFile(f) PROVE Good(q)'
    BY <1>1, <1>5, ShareKeeps
  <1>6. CASE UNCHANGED vars
    <2>1. shares <= shares' /\ removals <= removals' /\ failures <= failures'
      BY <1>1, <1>6 DEF vars, upsets, TypeOK
    <2> QED
      BY <1>1, <1>6, <2>1, OthersKeep DEF vars, store
  <1> QED
    BY <1>2, <1>3, <1>4, <1>5, <1>6 DEF Next

THEOREM Inductive == Spec => []IInv
BY InitIsGood, StepIsGood, PTL DEF Spec

\* Host, store, port and processes are always well typed, for any number of
\* processes and files (main and everything it calls).
THEOREM TypeCorrect == Spec => []TypeOK
BY Inductive, PTL DEF IInv

\* What serves came through the probe: a private store it did not repair, the
\* secret and the port over http, however many processes start at once (main).
THEOREM Serving == Spec => []ServingIsSound
  <1>1. IInv => ServingIsSound
    BY DEF IInv, Good, PlaceInv, VisitInv, Shared, ServingIsSound, At, Served
  <1> QED
    BY <1>1, Inductive, PTL

\* The status is 78 exactly when the last event names the check that refused, and
\* only a stdio session serves after one (run, main, _credentials).
THEOREM Events == Spec => []EventsTellTheEnd
  <1>1. IInv => EventsTellTheEnd
    <2> SUFFICES ASSUME IInv, NEW p \in Sessions
                 PROVE  LET emitted == proc[p].emitted
                            refusal == emitted # << >> /\ LastEvent(p) # AbsentFile
                        IN  /\ At(p, "away") => (proc[p].status = "78" <=> refusal)
                            /\ Served(p) /\ emitted # << >> =>
                                 ~http_selected(p) /\ emitted = <<AbsentFile>> /\ Text(p) = "gone"
      BY DEF EventsTellTheEnd
    <2> QED
      BY DEF IInv, Good, PlaceInv, ToldInv, SecretOf, At, Served
  <1> QED
    BY <1>1, Inductive, PTL

\* Each process loses at most two starts of its own and one for each upset, for
\* any number of processes, files and upsets: files are repaired whoever repairs.
THEOREM StartsLost == Spec => []StartsLostAreFew
  <1>1. IInv => StartsLostAreFew
    <2> SUFFICES ASSUME IInv, NEW p \in Sessions PROVE lost[p] <= Bound
        BY DEF StartsLostAreFew, Bound
    <2>1. lost[p] \in Nat /\ shares \in Nat /\ removals \in Nat /\ failures \in Nat
      BY DEF IInv, TypeOK
    <2>2. Owed(p) \in Nat
      BY OwedIsSmall DEF Owed
    <2> QED
      BY <2>1, <2>2 DEF IInv, Good, BudgetInv, Bound
  <1> QED
    BY <1>1, Inductive, PTL

-----------------------------------------------------------------------------
LEMMA RefusalIsTold ==
    ASSUME TypeOK, NEW p \in Sessions, NEW check \in Checks, Refuse(p, check)
    PROVE  LastEvent(p)' = check
  <1> DEFINE emitted == Append(proc[p].emitted, check)
  <1>1. proc[p].emitted \in Seq(Checks)
    BY DEF TypeOK, Processes
  <1>2. Len(emitted) = Len(proc[p].emitted) + 1 /\ emitted[Len(proc[p].emitted) + 1] = check
    BY <1>1
  <1>3. proc'[p].emitted = emitted
    BY DEF Refuse, End, Fresh, TypeOK
  <1> QED
    BY <1>2, <1>3 DEF LastEvent

\* Only a check that refuses ends a process with 78.
LEMMA OnlyRefusals ==
    ASSUME IInv, Next, NEW p \in Sessions, ~At(p, "away"), proc'[p].status = "78"
    PROVE  CheckDirectory(p) \/ VerifyDirectory(p) \/ RefuseSharedFiles(p) \/ CheckSecret(p)
  <1>1. TypeOK /\ proc[p] \in Processes /\ proc[p].status = "none"
    BY DEF IInv, TypeOK, Good, ToldInv, At
  <1>2. ASSUME NEW q \in Sessions, q # p, Launch(q) \/ Main(q) \/ Signalled(q) \/ ServeEnds(q) \/ Kill(q) PROVE FALSE
    BY <1>1, <1>2, OthersUntouched DEF IInv
  <1>3. ASSUME NEW f \in Files, WriteFile(f) \/ RemoveFile(f) \/ ShareFile(f) PROVE FALSE
    <2>1. CASE WriteFile(f) \/ RemoveFile(f)
      BY <1>1, <2>1 DEF WriteFile, RemoveFile
    <2>2. CASE ShareFile(f)
      BY <1>1, <2>2 DEF ShareFile, Processes
    <2> QED
      BY <1>3, <2>1, <2>2
  <1>4. ASSUME NEW status, status # "78", Exit(p, status) PROVE FALSE
    BY <1>1, <1>4 DEF Exit, End, Fresh, TypeOK
  <1>5. ASSUME NEW where, Go(p, where) PROVE FALSE
    BY <1>1, <1>5, BecomeIs DEF Go, Processes
  <1>6. ASSUME NEW r, Become(p, r), r.status = "none" PROVE FALSE
    BY <1>1, <1>6, BecomeIs
  <1>7. CASE Launch(p)
    BY <1>7 DEF Launch
  <1>8. CASE Wire(p)
    <2>1. [proc[p] EXCEPT !.at = "directory", !.emitted = Append(@, AbsentFile)].status = "none"
      BY <1>1 DEF Processes
    <2> QED
      BY <1>4, <1>5, <1>6, <1>8, <2>1 DEF Wire
  <1>9. CASE ChmodDirectory(p)
    <2>1. [proc[p] EXCEPT !.at = "verify_directory", !.mended = TRUE].status = "none"
      BY <1>1 DEF Processes
    <2> QED
      BY <1>4, <1>5, <1>6, <1>9, <2>1 DEF ChmodDirectory
  <1>10. CASE List(p)
    <2>1. [proc[p] EXCEPT !.at = "look", !.todo = Listing].status = "none"
      BY <1>1 DEF Processes
    <2> QED
      BY <1>6, <1>10, <2>1 DEF List
  <1>11. ASSUME NEW f \in Files, Look(p, f) PROVE FALSE
    <2>1. [proc[p] EXCEPT !.todo = @ \ {f}, !.seen = @ \/ files[f] = "shared"].status = "none"
      BY <1>1 DEF Processes
    <2> QED
      BY <1>6, <1>11, <2>1 DEF Look
  <1>12. CASE Looked(p)
    <2>1. [proc[p] EXCEPT !.at = "stat", !.todo = Listing, !.seen = FALSE].status = "none"
      BY <1>1 DEF Processes
    <2> QED
      BY <1>5, <1>6, <1>12, <2>1 DEF Looked
  <1>13. ASSUME NEW f \in Files, Stat(p, f) PROVE FALSE
    <2>1. /\ [proc[p] EXCEPT !.todo = @ \ {f}].status = "none"
          /\ [proc[p] EXCEPT !.at = "chmod", !.entry = f].status = "none"
      BY <1>1 DEF Processes
    <2> QED
      BY <1>6, <1>13, <2>1 DEF Stat
  <1>14. ASSUME NEW f \in Files, Chmod(p, f) PROVE FALSE
    <2>1. [proc[p] EXCEPT !.at = "verify", !.mended = TRUE].status = "none"
      BY <1>1 DEF Processes
    <2> QED
      BY <1>4, <1>5, <1>6, <1>14, <2>1 DEF Chmod
  <1>15. ASSUME NEW f \in Files, Verify(p, f) PROVE FALSE
    <2>1. [proc[p] EXCEPT !.at = "stat", !.todo = @ \ {f}, !.entry = NoFile].status = "none"
      BY <1>1 DEF Processes
    <2> QED
      BY <1>4, <1>6, <1>15, <2>1 DEF Verify
  <1>16. ASSUME NEW f \in Files, Vanished(p, f) PROVE FALSE
    BY <1>4, <1>16 DEF Vanished
  <1>17. CASE ServeStdio(p)
    BY <1>5, <1>17 DEF ServeStdio
  <1>18. CASE ServeHttp(p)
    <2>1. CASE port = "free"
      BY <1>1, <1>18, <2>1 DEF ServeHttp, TypeOK, Processes
    <2> QED
      BY <1>4, <1>18, <2>1 DEF ServeHttp
  <1>19. CASE NotifyReady(p) \/ ServeEnds(p) \/ Kill(p)
    BY <1>4, <1>5, <1>19 DEF NotifyReady, ServeEnds, Kill
  <1>20. CASE Signalled(p)
    BY <1>1, <1>20 DEF Signalled, TypeOK, Processes
  <1> QED
    BY <1>2, <1>3, <1>7, <1>8, <1>9, <1>10, <1>11, <1>12, <1>13, <1>14, <1>15, <1>16, <1>17, <1>18, <1>19,
       <1>20 DEF Next, Main

LEMMA RefusedWhenMended ==
    ASSUME IInv, Next, NEW p \in Sessions, ~At(p, "away"), proc'[p].status = "78"
    PROVE  LET check == LastEvent(p)'
           IN  /\ check = "store_shared" => ~dirShared
               /\ check = "store_file_shared" =>
                    proc[p].loose \/ \A f \in Files : files[f] # "shared"
               /\ proc[p].mended => check \in {"store_shared", "store_file_shared"}
  <1>1. TypeOK /\ Good(p) /\ proc[p] \in Processes /\ proc[p].status = "none"
    BY DEF IInv, TypeOK, Good, ToldInv, At
  <1>2. ASSUME NEW where, Go(p, where) PROVE FALSE
    BY <1>1, <1>2, BecomeIs DEF Go, Processes
  <1>3. ASSUME NEW check \in Checks, Refuse(p, check) PROVE LastEvent(p)' = check
    BY <1>1, <1>3, RefusalIsTold
  <1>4. CASE CheckDirectory(p)
    <2>1. LastEvent(p)' \in {"store_absent", "store_not_a_directory"}
      BY <1>2, <1>3, <1>4 DEF CheckDirectory, Checks
    <2>2. ~proc[p].mended
      BY <1>1, <1>4 DEF CheckDirectory, At, Good, PlaceInv
    <2> QED
      BY <2>1, <2>2
  <1>5. CASE VerifyDirectory(p)
    <2>1. LastEvent(p)' = IF dirShared THEN "mode_not_honoured" ELSE "store_shared"
      BY <1>3, <1>5 DEF VerifyDirectory, Checks
    <2>2. proc[p].mended => ~dirShared
      BY <1>1, <1>5 DEF VerifyDirectory, At, Good, PlaceInv
    <2> QED
      BY <2>1, <2>2
  <1>6. CASE RefuseSharedFiles(p)
    <2>1. LastEvent(p)' = "store_file_shared"
      BY <1>3, <1>6 DEF RefuseSharedFiles, Checks
    <2>2. proc[p].loose \/ \A f \in Files : files[f] # "shared"
      BY <1>1, <1>6 DEF RefuseSharedFiles, At, Good, VisitInv, Shared
    <2> QED
      BY <2>1, <2>2
  <1>7. CASE CheckSecret(p)
    <2>1. LastEvent(p)' \in {"token_absent", "token_too_short"}
      BY <1>2, <1>3, <1>7 DEF CheckSecret, Checks
    <2>2. ~proc[p].mended
      BY <1>1, <1>7 DEF CheckSecret, At, Good, PlaceInv
    <2> QED
      BY <2>1, <2>2
  <1> QED
    BY <1>4, <1>5, <1>6, <1>7, OnlyRefusals

\* A process that is refused for a shared store leaves it private, whatever other
\* processes repair meanwhile, unless somebody gave a file away; and what it
\* repaired is what it is refused for (private_files_check, _private_or_refused).
THEOREM Mended == Spec => RefusalMeansMended
  <1>1. IInv /\ [Next]_vars =>
          [\A p \in Sessions : ~At(p, "away") /\ proc'[p].status = "78" =>
             LET check == LastEvent(p)'
             IN  /\ check = "store_shared" => ~dirShared
                 /\ check = "store_file_shared" =>
                      proc[p].loose \/ \A f \in Files : files[f] # "shared"
                 /\ proc[p].mended => check \in {"store_shared", "store_file_shared"}]_vars
    BY RefusedWhenMended
  <1> QED
    BY <1>1, Inductive, PTL DEF Spec, RefusalMeansMended
===============================================================================
