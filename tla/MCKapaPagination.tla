-------------------------- MODULE MCKapaPagination --------------------------
(* Instances of KapaPagination for TLC. *)
EXTENDS KapaPagination, TLC

\* Workers are interchangeable (safety only).
WorkerSymmetry == Permutations(Workers)

=============================================================================
