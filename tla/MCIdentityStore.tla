--------------------------- MODULE MCIdentityStore ---------------------------
(* Instances of IdentityStore for TLC. *)
EXTENDS IdentityStore, TLC

\* Executions, and uuids, are interchangeable.
Symmetry == Permutations(Calls) \cup Permutations(SessionIds)

=============================================================================
