-------------------------- MODULE MCEndpointRegistry --------------------------
(***************************************************************************)
(* Instances of EndpointRegistry for TLC.                                  *)
(***************************************************************************)
EXTENDS EndpointRegistry, TLC

CONSTANTS r1, r2, a1

OneSeed  == <<a1>>
=============================================================================
