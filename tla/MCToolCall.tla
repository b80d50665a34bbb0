----------------------------- MODULE MCToolCall -----------------------------
(* Instances of ToolCall for TLC. *)
EXTENDS ToolCall, TLC

Symmetry == Permutations(Users) \cup Permutations(Calls)
            \cup Permutations(Interceptors)

=============================================================================
