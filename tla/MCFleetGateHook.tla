--------------------------- MODULE MCFleetGateHook --------------------------
(* FleetGateHook for TLC: two deploys, enough to withdraw a gate and put it  *)
(* back between two looks of the script.                                     *)
EXTENDS FleetGateHook
=============================================================================
