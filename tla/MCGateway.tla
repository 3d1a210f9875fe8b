------------------------------- MODULE MCGateway -------------------------------
(***************************************************************************)
(* Small instances of the gateway for TLC.                                 *)
(***************************************************************************)
EXTENDS Gateway, TLC

CONSTANTS r1, r2, h1, h2

Symmetric == Permutations({r1, r2}) \cup Permutations({h1, h2})
=============================================================================
