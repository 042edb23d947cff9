---------------------------- MODULE MCQualityGates ----------------------------
(* The instances of QualityGates: requests and proposals are interchangeable. *)
EXTENDS QualityGates

Symmetry == Permutations(People) \union Permutations(Proposals)

=============================================================================
