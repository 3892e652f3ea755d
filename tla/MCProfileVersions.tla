------------------------- MODULE MCProfileVersions -------------------------
(* A small instance of ProfileVersions for TLC. *)
EXTENDS ProfileVersions, TLC

Symmetry == Permutations(Saves)
=============================================================================
