---------------------------- MODULE EndpointClaims ---------------------------
(***************************************************************************)
(* One host with several services of the factory: what each of them claims *)
(* when the host is built, and what it meets when it binds.                *)
(*                                                                         *)
(* A configuration is evaluated as a whole and deployed as a whole, or     *)
(* refused and nothing changes.  What runs then meets the kernel, which    *)
(* knows addresses where the register knows spellings.  An address is a    *)
(* member of Spellings: how it is typed, and the interfaces it reaches.    *)
(* NixOS is external: it stops what a new generation changes before it     *)
(* starts it again, and starts what had failed.                            *)
(***************************************************************************)
EXTENDS Naturals, FiniteSets

CONSTANTS
    Services,
    Ports,       \* without 0, for which the kernel would choose another
    MaxEdits     \* bound: settings changed after the first configuration

ASSUME ClaimsAssumption ==
    /\ IsFiniteSet(Services) /\ MaxEdits \in Nat
    /\ Ports # {} /\ Ports \subseteq Nat \ {0}

\* What is typed, and the blank a copy and paste leaves behind it.
Typed  == {"127.0.0.1", "localhost", "192.0.2.10", "0.0.0.0", "*", "0x00000000"}
Blanks == {"", " "}
Spellings == Typed \X Blanks

\* One listed spelling that is an address, and one that bind cannot resolve.
everyInterfaceAddresses == {"0.0.0.0", "*"}

Interfaces == {"loopback", "network"}
Reaches(spelling) ==
    CASE spelling[1] \in {"127.0.0.1", "localhost"} -> {"loopback"}
      [] spelling[1] = "192.0.2.10"                 -> {"network"}
      [] spelling[1] = "*"                          -> {}
      [] OTHER                                      -> Interfaces

Settings == [enable : BOOLEAN, listenAddress : Spellings, port : Ports]

VARIABLES
    cfg,       \* the host as written
    verdict,   \* of the last build of cfg as it is written now
    deployed,  \* the settings each service runs with
    socket,    \* of each service: "none", "bound", "listening", "failed"
    edits

vars == <<cfg, verdict, deployed, socket, edits>>

Off == CHOOSE c \in Settings : ~c.enable

Init ==
    /\ cfg \in [Services -> Settings]
    /\ verdict = "none" /\ edits = 0
    /\ deployed = [s \in Services |-> Off]
    /\ socket = [s \in Services |-> "none"]

-----------------------------------------------------------------------------
(* Evaluation. *)

withoutSpaces(spelling) == <<spelling[1], "">>

\* [mutants] The address as it was typed; the port alone.
EndpointAsTyped(c) == <<c.listenAddress, c.port>>
PortAlone(c)       == c.port

claimedEndpoint(c) == <<withoutSpaces(c.listenAddress), c.port>>

\* A disabled service binds nothing and claims nothing.
Claimants(host) == {s \in DOMAIN host : host[s].enable}

\* Claims on one endpoint, by more than one service.
Collisions(host) ==
    LET claims(e) == {s \in Claimants(host) : claimedEndpoint(host[s]) = e}
    IN  {e \in {claimedEndpoint(host[s]) : s \in Claimants(host)} : Cardinality(claims(e)) > 1}

\* [mutant] The guard compares what was typed.
OnEveryInterfaceAsTyped(host) ==
    {s \in Claimants(host) : host[s].listenAddress
                               \in {<<a, "">> : a \in everyInterfaceAddresses}}

OnEveryInterface(host) ==
    {s \in Claimants(host) : withoutSpaces(host[s].listenAddress)[1] \in everyInterfaceAddresses}

\* A build: the assertions of every module together, then a whole deployment.
Build ==
    /\ verdict = "none"
    /\ IF Collisions(cfg) = {} /\ OnEveryInterface(cfg) = {}
       THEN /\ verdict' = "accepted" /\ deployed' = cfg
            /\ socket' = [s \in Services |-> IF cfg[s] = deployed[s] /\ socket[s] # "failed"
                                            THEN socket[s] ELSE "none"]
       ELSE verdict' = "refused" /\ UNCHANGED <<deployed, socket>>
    /\ UNCHANGED <<cfg, edits>>

\* An operator changes one setting of one service.
Edit(s) ==
    /\ edits < MaxEdits
    /\ \E setting \in {"enable", "listenAddress", "port"}, c \in Settings :
          /\ c # cfg[s] /\ \A other \in DOMAIN c \ {setting} : c[other] = cfg[s][other]
          /\ cfg' = [cfg EXCEPT ![s] = c]
    /\ verdict' = "none" /\ edits' = edits + 1
    /\ UNCHANGED <<deployed, socket>>

-----------------------------------------------------------------------------
(* bind, in a process of each service. *)

\* systemd splits ExecStart into words, so a blank is gone by then.
Conflict(c, d) == c.port = d.port /\ Reaches(c.listenAddress) \cap Reaches(d.listenAddress) # {}

Taken(s) == \E t \in Services \ {s} :
                socket[t] = "listening" /\ Conflict(deployed[s], deployed[t])

\* SO_REUSEADDR: two sockets may be bound to one endpoint, one may listen on it.
BindSocket(s) ==
    /\ deployed[s].enable /\ socket[s] = "none"
    /\ socket' = [socket EXCEPT ![s] =
                     IF Taken(s) \/ Reaches(deployed[s].listenAddress) = {} THEN "failed" ELSE "bound"]
    /\ UNCHANGED <<cfg, verdict, deployed, edits>>

Listen(s) ==
    /\ socket[s] = "bound"
    /\ socket' = [socket EXCEPT ![s] = IF Taken(s) THEN "failed" ELSE "listening"]
    /\ UNCHANGED <<cfg, verdict, deployed, edits>>

Next == Build \/ \E s \in Services : Edit(s) \/ BindSocket(s) \/ Listen(s)

Spec == Init /\ [][Next]_vars

-----------------------------------------------------------------------------
TypeOK ==
    /\ cfg \in [Services -> Settings] /\ deployed \in [Services -> Settings]
    /\ verdict \in {"none", "accepted", "refused"} /\ edits \in 0..MaxEdits
    /\ socket \in [Services -> {"none", "bound", "listening", "failed"}]
    /\ \A s \in Services : socket[s] # "none" => deployed[s].enable

Enabled(host) == {s \in Services : host[s].enable}

\* The scope the register states: a host that types each address one way, and
\* no address that reaches every interface in a way the module does not list.
InScope(host) ==
    \A s, t \in Enabled(host) :
        LET a == host[s].listenAddress[1]  b == host[t].listenAddress[1]
        IN  Reaches(<<a, "">>) \cap Reaches(<<b, "">>) # {} => a = b

\* Within that scope a host that was built never fails at bind, in whatever
\* order its services start and whatever it was reconfigured from.
BuiltServicesBind ==
    InScope(deployed) => \A s \in Services : socket[s] # "failed"

\* A refusal is due: two services of the host could not both have listened, or
\* the address of one is everywhere, where it would have answered on every
\* interface, or nowhere, where bind would have failed.  A working host is never
\* refused.
RefusalIsDue ==
    verdict = "refused" =>
        \/ \E s, t \in Enabled(cfg) : s # t /\ Conflict(cfg[s], cfg[t])
        \/ \E s \in Enabled(cfg) : Reaches(cfg[s].listenAddress) \in {Interfaces, {}}

\* What answers on every interface was typed in a way the module does not list,
\* and a refused build does not change what runs.
WideOnlyOutOfScope ==
    \A s \in Services :
        socket[s] = "listening" /\ Reaches(deployed[s].listenAddress) = Interfaces
          => deployed[s].listenAddress[1] \notin everyInterfaceAddresses
=============================================================================
