--------------------------- MODULE MCSourceStore ---------------------------
(* Instances of SourceStore for TLC. *)
EXTENDS SourceStore

\* The argument of --new-sources: unset, or naming one source.
NoFlag == <<>>
FlagOne == <<"influx">>

\* Every cascade ends, also one that finds what it listed deleted by another
\* (bolt/organizations.go, Delete; server/sources.go, removeSrcsKapa). One slot
\* stands for all: they are interchangeable.
CascadeEnds == CascadeEndsOf(CHOOSE s \in Slots : TRUE)

=============================================================================
