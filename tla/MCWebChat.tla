------------------------------ MODULE MCWebChat ------------------------------
(* Instances of WebChat for TLC. *)
EXTENDS WebChat, TLC

\* Texts, and sockets, are interchangeable.
Symmetry == Permutations(Turns) \cup Permutations(Sockets)

=============================================================================
