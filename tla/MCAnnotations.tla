---------------------------- MODULE MCAnnotations ----------------------------
(* Instances of Annotations for TLC. *)
EXTENDS Annotations, TLC

\* Requests are interchangeable, and so are ends and tags.
Symmetry == Permutations(Slots) \cup Permutations(Times) \cup Permutations(Tags)

=============================================================================
