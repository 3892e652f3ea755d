------------------------------ MODULE MCTenders ------------------------------
\* Instances of Tenders for TLC: tenders and requests are interchangeable.
EXTENDS Tenders, TLC

Symmetry == Permutations(Tenders) \cup Permutations(Requests)

=============================================================================
