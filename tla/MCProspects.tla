------------------------------ MODULE MCProspects ------------------------------
\* Instances of Prospects for TLC: requests are interchangeable.
EXTENDS Prospects, TLC

Symmetry == Permutations(Requests)

=============================================================================
