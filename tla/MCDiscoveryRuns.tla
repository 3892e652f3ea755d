-------------------------- MODULE MCDiscoveryRuns --------------------------
(* A small instance of DiscoveryRuns for TLC. *)
EXTENDS DiscoveryRuns, TLC

CONSTANTS c1, c2, k1
\* One tender, found at two sources.
MCKeyOf == (c1 :> k1) @@ (c2 :> k1)
=============================================================================
