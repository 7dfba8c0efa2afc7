----------------------------- MODULE MCDashboards -----------------------------
(* Instances of Dashboards for TLC. *)
EXTENDS Dashboards, TLC

\* Requests are interchangeable.
SlotSymmetry == Permutations(Slots)

=============================================================================
