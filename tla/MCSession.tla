------------------------------ MODULE MCSession ------------------------------
(* Instances of Session for TLC. *)
EXTENDS Session, TLC

\* Requests are interchangeable.
SlotSymmetry == Permutations(Slots)

=============================================================================
