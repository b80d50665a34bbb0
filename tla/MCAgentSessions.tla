--------------------------- MODULE MCAgentSessions ---------------------------
(* Instances of AgentSessions for TLC. *)
EXTENDS AgentSessions, TLC

\* Threads of one executor, and names of connections, are interchangeable.
Symmetry == Permutations(Threads) \cup Permutations(Connections)

=============================================================================
