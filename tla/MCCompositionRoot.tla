------------------------- MODULE MCCompositionRoot -------------------------
(* CompositionRoot for TLC: the service next to a stdio session, two stdio  *)
(* sessions, or two services that want one port.                            *)
EXTENDS CompositionRoot, TLC

CONSTANTS service, session, delivered

Line(transport, option, variable) ==
    [transport |-> transport, option |-> option, variable |-> variable]

AskedOf == (service :> {Line("http", Unset, delivered)})
        @@ (session :> {Line("http", delivered, Unset), Line("stdio", Unset, Unset)})
=============================================================================
