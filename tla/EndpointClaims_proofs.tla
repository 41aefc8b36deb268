------------------------ MODULE EndpointClaims_proofs -----------------------
(* For every number of services and every set of ports: a host that was      *)
(* built within the register's scope never fails at bind.                    *)
EXTENDS EndpointClaims, FiniteSetTheorems, TLAPS

\* Some settings are switched off, so a host with nothing deployed is well typed.
LEMMA OffIsSettings == Off \in Settings /\ ~Off.enable
  <1>1. PICK p \in Ports : TRUE
    BY ClaimsAssumption
  <1> DEFINE c == [enable |-> FALSE, listenAddress |-> <<"127.0.0.1", "">>, port |-> p]
  <1>2. c \in Settings /\ ~c.enable
    BY <1>1 DEF Settings, Spellings, Typed, Blanks
  <1>3. \E d \in Settings : ~d.enable
    BY <1>2
  <1> QED
    BY <1>3 DEF Off

\* A finite set with two elements counts more than one.
LEMMA TwoMembers ==
    ASSUME NEW S, IsFiniteSet(S), NEW s \in S, NEW t \in S, s # t
    PROVE  Cardinality(S) > 1
  <1>1. IsFiniteSet({s}) /\ Cardinality({s}) = 1
    BY FS_Singleton
  <1>2. IsFiniteSet({s} \cup {t}) /\ Cardinality({s} \cup {t}) = 2
    <2>1. t \notin {s}
      OBVIOUS
    <2>2. IsFiniteSet({s} \cup {t}) /\ Cardinality({s} \cup {t}) = Cardinality({s}) + 1
      BY <1>1, <2>1, FS_AddElement
    <2> QED
      BY <1>1, <2>2
  <1>3. Cardinality({s} \cup {t}) <= Cardinality(S) /\ Cardinality(S) \in Nat
    BY <1>2, FS_Subset, FS_CardinalityType
  <1> QED
    BY <1>2, <1>3

\* The services are always well typed, and a socket belongs to an enabled one.
THEOREM TypeCorrect == Spec => []TypeOK
  <1>1. Init => TypeOK
    BY OffIsSettings, ClaimsAssumption DEF Init, TypeOK
  <1>2. TypeOK /\ [Next]_vars => TypeOK'
    <2> SUFFICES ASSUME TypeOK, [Next]_vars PROVE TypeOK'
      OBVIOUS
    <2> USE DEF TypeOK
    <2>1. CASE Build
      BY <2>1 DEF Build
    <2>2. ASSUME NEW s \in Services, Edit(s) PROVE TypeOK'
      BY <2>2, ClaimsAssumption DEF Edit
    <2>3. ASSUME NEW s \in Services, BindSocket(s) PROVE TypeOK'
      BY <2>3 DEF BindSocket
    <2>4. ASSUME NEW s \in Services, Listen(s) PROVE TypeOK'
      BY <2>4 DEF Listen
    <2>5. CASE UNCHANGED vars
      BY <2>5 DEF vars
    <2> QED
      BY <2>1, <2>2, <2>3, <2>4, <2>5 DEF Next
  <1> QED
    BY <1>1, <1>2, PTL DEF Spec

\* What runs was built.
Built == Collisions(deployed) = {} /\ OnEveryInterface(deployed) = {}

\* The register sees, within its scope, what the kernel will see.
LEMMA NoConflict ==
    ASSUME NEW host \in [Services -> Settings], Collisions(host) = {}, InScope(host),
           NEW s \in Services, NEW t \in Services, s # t,
           host[s].enable, host[t].enable
    PROVE  ~Conflict(host[s], host[t])
  <1> SUFFICES ASSUME Conflict(host[s], host[t]) PROVE FALSE
    OBVIOUS
  <1> DEFINE a == host[s].listenAddress
             b == host[t].listenAddress
             e == claimedEndpoint(host[s])
             claims == {u \in Claimants(host) : claimedEndpoint(host[u]) = e}
  <1>1. host[s] \in Settings /\ host[t] \in Settings /\ a \in Typed \X Blanks /\ b \in Typed \X Blanks
    BY DEF Settings, Spellings
  <1>2. Reaches(<<a[1], "">>) = Reaches(a) /\ Reaches(<<b[1], "">>) = Reaches(b)
    BY <1>1 DEF Reaches, Typed, Blanks
  <1>3. Reaches(a) \cap Reaches(b) # {} /\ host[s].port = host[t].port
    BY DEF Conflict
  <1>4. a[1] = b[1]
    BY <1>2, <1>3 DEF InScope, Enabled
  <1>5. claimedEndpoint(host[t]) = e
    BY <1>3, <1>4 DEF claimedEndpoint, withoutSpaces
  <1>6. s \in claims /\ t \in claims
    BY <1>5 DEF Claimants
  <1>7. IsFiniteSet(claims)
    <2>1. claims \subseteq Services
      BY DEF Claimants
    <2> QED
      BY <2>1, FS_Subset, ClaimsAssumption
  <1>8. Cardinality(claims) > 1
    BY <1>6, <1>7, TwoMembers
  <1>9. e \in Collisions(host)
    BY <1>6, <1>8 DEF Collisions, Claimants
  <1> QED
    BY <1>9

\* An endpoint is taken from a service only out of scope.
LEMMA FreeInScope ==
    ASSUME TypeOK, Built, InScope(deployed), NEW s \in Services, deployed[s].enable
    PROVE  ~Taken(s)
  <1> SUFFICES ASSUME NEW t \in Services \ {s}, socket[t] = "listening",
                      Conflict(deployed[s], deployed[t])
               PROVE  FALSE
    BY DEF Taken
  <1>1. deployed[t].enable /\ deployed \in [Services -> Settings]
    BY DEF TypeOK
  <1> QED
    BY <1>1, NoConflict DEF Built

IInv == TypeOK /\ Built /\ BuiltServicesBind

LEMMA NothingDeployedYet == Init => Built /\ BuiltServicesBind
  <1> SUFFICES ASSUME Init PROVE Built /\ BuiltServicesBind
    OBVIOUS
  <1>1. ~Off.enable
    BY OffIsSettings
  <1>2. Claimants(deployed) = {}
    BY <1>1 DEF Init, Claimants
  <1>3. Built
    BY <1>2 DEF Built, Collisions, OnEveryInterface
  <1> QED
    BY <1>3 DEF Init, BuiltServicesBind

LEMMA Inductive == IInv /\ [Next]_vars /\ TypeOK' => IInv'
  <1> SUFFICES ASSUME IInv, [Next]_vars, TypeOK' PROVE Built' /\ BuiltServicesBind'
    BY DEF IInv
  <1> USE DEF IInv
  <1>1. CASE Build
    <2>1. Built'
      BY <1>1 DEF Build, Built
    <2>2. BuiltServicesBind'
      <3>1. CASE verdict' = "accepted"
        BY <1>1, <3>1 DEF Build, BuiltServicesBind, TypeOK
      <3>2. CASE verdict' = "refused"
        <4>1. deployed' = deployed /\ socket' = socket
          BY <1>1, <3>2 DEF Build
        <4> QED
          BY <4>1 DEF BuiltServicesBind, InScope, Enabled
      <3> QED
        BY <1>1, <3>1, <3>2 DEF Build
    <2> QED
      BY <2>1, <2>2
  <1>2. ASSUME NEW s \in Services, Edit(s) PROVE Built' /\ BuiltServicesBind'
    BY <1>2 DEF Edit, Built, BuiltServicesBind, InScope, Enabled
  <1>3. ASSUME NEW s \in Services, BindSocket(s) PROVE Built' /\ BuiltServicesBind'
    <2>1. InScope(deployed) => ~Taken(s)
      BY <1>3, FreeInScope DEF BindSocket
    <2>2. Reaches(deployed[s].listenAddress) # {}
      <3>1. s \in Claimants(deployed) /\ s \notin OnEveryInterface(deployed)
        BY <1>3 DEF BindSocket, Claimants, Built, TypeOK
      <3>2. deployed[s].listenAddress[1] # "*"
        BY <3>1 DEF OnEveryInterface, withoutSpaces, everyInterfaceAddresses
      <3> QED
        BY <3>2 DEF Reaches, Interfaces
    <2>3. InScope(deployed) => socket' = [socket EXCEPT ![s] = "bound"]
      BY <1>3, <2>1, <2>2, Zenon DEF BindSocket
    <2>4. InScope(deployed)' <=> InScope(deployed)
      BY <1>3 DEF BindSocket, InScope, Enabled
    <2>5. BuiltServicesBind'
      BY <2>3, <2>4 DEF BuiltServicesBind, TypeOK
    <2> QED
      BY <1>3, <2>5 DEF BindSocket, Built
  <1>4. ASSUME NEW s \in Services, Listen(s) PROVE Built' /\ BuiltServicesBind'
    <2>1. deployed[s].enable
      BY <1>4 DEF Listen, TypeOK
    <2>2. InScope(deployed) => ~Taken(s)
      BY <2>1, FreeInScope
    <2> QED
      BY <1>4, <2>2 DEF Listen, Built, BuiltServicesBind, TypeOK
  <1>5. CASE UNCHANGED vars
    BY <1>5 DEF vars, Built, BuiltServicesBind, InScope, Enabled
  <1> QED
    BY <1>1, <1>2, <1>3, <1>4, <1>5 DEF Next

\* A host that was built within the register's scope never fails at bind, for any
\* number of services, whatever order they start in and however it was edited.
THEOREM BuiltBind == Spec => []BuiltServicesBind
  <1>1. Init => Built /\ BuiltServicesBind
    BY NothingDeployedYet
  <1>2. IInv /\ [Next]_vars /\ TypeOK' => IInv'
    BY Inductive
  <1> QED
    BY <1>1, <1>2, TypeCorrect, PTL DEF Spec, IInv

-----------------------------------------------------------------------------
\* A set that counts more than one has two members.
LEMMA TwoOfMany ==
    ASSUME NEW S, Cardinality(S) > 1
    PROVE  \E s, t \in S : s # t
  <1> SUFFICES ASSUME \A s, t \in S : s = t PROVE FALSE
    OBVIOUS
  <1>1. CASE S = {}
    BY <1>1, FS_EmptySet
  <1>2. CASE S # {}
    <2>1. PICK s \in S : TRUE
      BY <1>2
    <2>2. S = {s}
      BY <2>1
    <2>3. Cardinality({s}) = 1
      BY FS_Singleton
    <2>4. Cardinality(S) = 1
      BY <2>2, <2>3
    <2> QED
      BY <2>4
  <1> QED
    BY <1>1, <1>2

\* What was refused collides, or has an address the module lists.
RefusedInv == verdict = "refused" => Collisions(cfg) # {} \/ OnEveryInterface(cfg) # {}

LEMMA CollisionsConflict ==
    ASSUME TypeOK, Collisions(cfg) # {}
    PROVE  \/ \E s, t \in Enabled(cfg) : s # t /\ Conflict(cfg[s], cfg[t])
           \/ \E s \in Enabled(cfg) : Reaches(cfg[s].listenAddress) = {}
  <1> DEFINE claims(e) == {s \in Claimants(cfg) : claimedEndpoint(cfg[s]) = e}
  <1>1. PICK e \in Collisions(cfg) : TRUE
    OBVIOUS
  <1>2. Cardinality(claims(e)) > 1
    BY <1>1 DEF Collisions
  <1>3. PICK s \in claims(e), t \in claims(e) : s # t
    BY <1>2, TwoOfMany
  <1>4. /\ s \in Enabled(cfg) /\ t \in Enabled(cfg)
        /\ cfg[s] \in Settings /\ cfg[t] \in Settings
        /\ claimedEndpoint(cfg[s]) = claimedEndpoint(cfg[t])
    BY <1>3 DEF Claimants, Enabled, TypeOK
  <1>5. cfg[s].port = cfg[t].port /\ cfg[s].listenAddress[1] = cfg[t].listenAddress[1]
    BY <1>4 DEF claimedEndpoint, withoutSpaces
  <1>6. Reaches(cfg[s].listenAddress) = Reaches(cfg[t].listenAddress)
    BY <1>5 DEF Reaches
  <1>7. CASE Reaches(cfg[s].listenAddress) = {}
    BY <1>4, <1>7
  <1>8. CASE Reaches(cfg[s].listenAddress) # {}
    <2>1. Conflict(cfg[s], cfg[t])
      BY <1>5, <1>6, <1>8 DEF Conflict
    <2> QED
      BY <1>3, <1>4, <2>1
  <1> QED
    BY <1>7, <1>8

LEMMA ListedReachAllOrNone ==
    ASSUME TypeOK, OnEveryInterface(cfg) # {}
    PROVE  \E s \in Enabled(cfg) : Reaches(cfg[s].listenAddress) \in {Interfaces, {}}
  <1>1. PICK s \in OnEveryInterface(cfg) : TRUE
    OBVIOUS
  <1>2. s \in Enabled(cfg) /\ withoutSpaces(cfg[s].listenAddress)[1] \in everyInterfaceAddresses
    BY <1>1 DEF OnEveryInterface, Claimants, Enabled, TypeOK
  <1>3. withoutSpaces(cfg[s].listenAddress)[1] = cfg[s].listenAddress[1]
    BY Zenon DEF withoutSpaces
  <1>4. Reaches(cfg[s].listenAddress) \in {Interfaces, {}}
    BY <1>2, <1>3 DEF Reaches, everyInterfaceAddresses
  <1> QED
    BY <1>2, <1>4

\* No working host is refused: in what was refused two services could not both
\* have listened, or one would have answered on every interface or failed at bind,
\* for any number of services and edits (portClaims.nix, mkServiceModule.nix).
THEOREM RefusalDue == Spec => []RefusalIsDue
  <1>1. Init => RefusedInv
    BY DEF Init, RefusedInv
  <1>2. RefusedInv /\ [Next]_vars => RefusedInv'
    <2> SUFFICES ASSUME RefusedInv, [Next]_vars PROVE RefusedInv'
      OBVIOUS
    <2>1. CASE Build
      BY <2>1 DEF Build, RefusedInv
    <2>2. ASSUME NEW s \in Services, Edit(s) PROVE RefusedInv'
      BY <2>2 DEF Edit, RefusedInv
    <2>3. ASSUME NEW s \in Services, BindSocket(s) \/ Listen(s) PROVE RefusedInv'
      BY <2>3 DEF BindSocket, Listen, RefusedInv
    <2>4. CASE UNCHANGED vars
      BY <2>4 DEF vars, RefusedInv
    <2> QED
      BY <2>1, <2>2, <2>3, <2>4 DEF Next
  <1>3. TypeOK /\ RefusedInv => RefusalIsDue
    BY CollisionsConflict, ListedReachAllOrNone DEF RefusedInv, RefusalIsDue
  <1> QED
    BY <1>1, <1>2, <1>3, TypeCorrect, PTL DEF Spec

\* What listens on every interface was typed in a way the module does not list.
THEOREM WideOutOfScope == Spec => []WideOnlyOutOfScope
  <1>1. Init => Built /\ BuiltServicesBind
    BY NothingDeployedYet
  <1>2. IInv => WideOnlyOutOfScope
    <2> SUFFICES ASSUME IInv, NEW s \in Services, socket[s] = "listening"
                 PROVE  deployed[s].listenAddress[1] \notin everyInterfaceAddresses
      BY DEF WideOnlyOutOfScope
    <2>1. s \in Claimants(deployed)
      BY DEF IInv, TypeOK, Claimants
    <2> QED
      BY <2>1 DEF IInv, Built, OnEveryInterface, withoutSpaces
  <1> QED
    BY <1>1, <1>2, Inductive, TypeCorrect, PTL DEF Spec, IInv
=============================================================================
