-------------------------- MODULE StoreLock_proofs ------------------------
(* store_lock implements the serial store, for any number of callers.      *)
EXTENDS StoreLock, TLAPS

LEMMA InitIsGood == Init => TypeOK /\ SectionIsSerial
BY DEF Init, TypeOK, SectionIsSerial, InSection

LEMMA TypeStep == TypeOK /\ [Next]_vars => TypeOK'
<1> SUFFICES ASSUME TypeOK, [Next]_vars PROVE TypeOK'
    OBVIOUS
<1> USE DEF TypeOK
<1>1. ASSUME NEW p \in Holders, Open(p) PROVE TypeOK'  BY <1>1 DEF Open
<1>2. ASSUME NEW p \in Holders, Lock(p) PROVE TypeOK'  BY <1>2 DEF Lock
<1>3. ASSUME NEW p \in Holders, LockFails(p) PROVE TypeOK'  BY <1>3 DEF LockFails
<1>4. ASSUME NEW p \in Holders, Close(p) PROVE TypeOK'  BY <1>4 DEF Close
<1>5. ASSUME NEW p \in Holders, Load(p) PROVE TypeOK'  BY <1>5 DEF Load
<1>6. ASSUME NEW p \in Holders, Commit(p) PROVE TypeOK'  BY <1>6 DEF Commit
<1>7. ASSUME NEW p \in Holders, SectionRaises(p) PROVE TypeOK'  BY <1>7 DEF SectionRaises
<1>8. ASSUME NEW p \in Holders, Die(p) PROVE TypeOK'  BY <1>8 DEF Die
<1>9. CASE UNCHANGED vars  BY <1>9 DEF vars
<1>10. QED BY <1>1, <1>2, <1>3, <1>4, <1>5, <1>6, <1>7, <1>8, <1>9 DEF Next

(* A step that lets nobody into the section and takes no lock from a        *)
(* caller in it keeps the section serial.                                   *)
LEMMA SerialStep == TypeOK /\ SectionIsSerial /\ [Next]_vars => SectionIsSerial'
<1> SUFFICES ASSUME TypeOK, SectionIsSerial, [Next]_vars PROVE SectionIsSerial'
    OBVIOUS
<1> USE DEF TypeOK, SectionIsSerial, InSection
<1>1. ASSUME NEW p \in Holders, Open(p) PROVE SectionIsSerial'  BY <1>1 DEF Open
<1>2. ASSUME NEW p \in Holders, Lock(p) PROVE SectionIsSerial'
  <2>1. InSection = {} BY <1>2 DEF Lock
  <2>2. InSection' = {p} BY <1>2, <2>1 DEF Lock
  <2>3. QED BY <1>2, <2>1, <2>2 DEF Lock
<1>3. ASSUME NEW p \in Holders, LockFails(p) PROVE SectionIsSerial'  BY <1>3 DEF LockFails
<1>4. ASSUME NEW p \in Holders, Close(p) PROVE SectionIsSerial'
  <2>1. InSection' = InSection /\ p \notin InSection BY <1>4 DEF Close
  <2>2. QED BY <1>4, <2>1 DEF Close
<1>5. ASSUME NEW p \in Holders, Load(p) PROVE SectionIsSerial'
  <2>1. InSection' = InSection /\ p \in InSection BY <1>5 DEF Load
  <2>2. QED BY <1>5, <2>1 DEF Load
<1>6. ASSUME NEW p \in Holders, Commit(p) PROVE SectionIsSerial'
  <2>1. InSection = {p} BY <1>6 DEF Commit
  <2>2. InSection' = {} BY <1>6, <2>1 DEF Commit
  <2>3. QED BY <1>6, <2>2 DEF Commit
<1>7. ASSUME NEW p \in Holders, SectionRaises(p) PROVE SectionIsSerial'
  BY <1>7 DEF SectionRaises
<1>8. ASSUME NEW p \in Holders, Die(p) PROVE SectionIsSerial'
  <2>1. InSection' = InSection \ {p} BY <1>8 DEF Die
  <2>2. \A q \in InSection' : lock = {q} /\ lock' = lock BY <1>8, <2>1 DEF Die
  <2>3. QED BY <1>8, <2>1, <2>2 DEF Die
<1>9. CASE UNCHANGED vars  BY <1>9 DEF vars
<1>10. QED BY <1>1, <1>2, <1>3, <1>4, <1>5, <1>6, <1>7, <1>8, <1>9 DEF Next

(* For any callers: the section store_lock guards is exclusive, and what a  *)
(* caller loaded in it is still what is stored when it commits.             *)
THEOREM Exclusive == Spec => []SectionIsSerial
BY InitIsGood, TypeStep, SerialStep, PTL DEF Spec

(* Every step of the lock is a step of the serial store, or none of it.     *)
LEMMA StepRefines ==
    TypeOK /\ SectionIsSerial /\ SectionIsSerial' /\ [Next]_vars
      => [Serial!Next]_<<InSection, document>>
<1> SUFFICES ASSUME TypeOK, SectionIsSerial, SectionIsSerial', [Next]_vars
             PROVE  Serial!Next \/ UNCHANGED <<InSection, document>>
    OBVIOUS
<1> DEFINE Goal == Serial!Next \/ UNCHANGED <<InSection, document>>
<1> USE DEF TypeOK, SectionIsSerial, InSection
<1>1. ASSUME NEW p \in Holders, Open(p) PROVE Goal
  BY <1>1 DEF Open
<1>2. ASSUME NEW p \in Holders, Lock(p) PROVE Goal
  <2>1. InSection = {} BY <1>2 DEF Lock
  <2>2. InSection' = {p} BY <1>2, <2>1 DEF Lock
  <2>3. Serial!Enter(p) BY <1>2, <2>1, <2>2 DEF Lock, Serial!Enter
  <2>4. QED BY <2>3 DEF Serial!Next
<1>3. ASSUME NEW p \in Holders, LockFails(p) PROVE Goal
  BY <1>3 DEF LockFails
<1>4. ASSUME NEW p \in Holders, Close(p) PROVE Goal
  BY <1>4 DEF Close
<1>5. ASSUME NEW p \in Holders, Load(p) PROVE Goal
  BY <1>5 DEF Load
<1>6. ASSUME NEW p \in Holders, Commit(p) PROVE Goal
  <2>1. InSection = {p} BY <1>6 DEF Commit
  <2>2. InSection' = {} BY <1>6, <2>1 DEF Commit
  <2>3. document' = document + 1 BY <1>6 DEF Commit
  <2>4. Serial!Commit(p) BY <2>1, <2>2, <2>3 DEF Serial!Commit
  <2>5. QED BY <2>4 DEF Serial!Next
<1>7. ASSUME NEW p \in Holders, SectionRaises(p) PROVE Goal
  <2>1. InSection = {p} BY <1>7 DEF SectionRaises
  <2>2. InSection' = {} BY <1>7, <2>1 DEF SectionRaises
  <2>3. Serial!Abandon(p) BY <1>7, <2>1, <2>2 DEF SectionRaises, Serial!Abandon
  <2>4. QED BY <2>3 DEF Serial!Next
<1>8. ASSUME NEW p \in Holders, Die(p) PROVE Goal
  <2>1. InSection' = InSection \ {p} BY <1>8 DEF Die
  <2>2. CASE p \in InSection
    <3>1. InSection = {p} /\ InSection' = {} BY <2>1, <2>2
    <3>2. Serial!Abandon(p) BY <1>8, <3>1 DEF Die, Serial!Abandon
    <3>3. QED BY <3>2 DEF Serial!Next
  <2>3. CASE p \notin InSection
    BY <1>8, <2>1, <2>3 DEF Die
  <2>4. QED BY <2>2, <2>3
<1>9. CASE UNCHANGED vars  BY <1>9 DEF vars
<1>10. QED BY <1>1, <1>2, <1>3, <1>4, <1>5, <1>6, <1>7, <1>8, <1>9 DEF Next

(* store_lock loses no update, whatever raises or dies inside it: it        *)
(* implements the serial store.                                             *)
THEOREM Refines == Spec => ImplementsSerialStore
<1>1. Init => Serial!Init
  BY DEF Init, Serial!Init, InSection
<1>2. QED
  BY <1>1, InitIsGood, TypeStep, SerialStep, StepRefines, PTL
     DEF Spec, ImplementsSerialStore, Serial!Spec
=============================================================================
