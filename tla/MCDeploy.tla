------------------------------ MODULE MCDeploy ------------------------------
(* Instances of Deploy for TLC. *)
EXTENDS Deploy

\* One account through four scripts, and one script for another in between.
MCMaxRuns == <<4, 1>>

=============================================================================
