-------------------------- MODULE MCEndpointClaims --------------------------
(* EndpointClaims for TLC: the services are built by one factory, so they    *)
(* differ in nothing but their settings.                                     *)
EXTENDS EndpointClaims, TLC

Interchangeable == Permutations(Services)
=============================================================================
