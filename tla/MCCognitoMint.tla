--------------------------- MODULE MCCognitoMint ---------------------------
(* Instances of CognitoMint for TLC. *)
EXTENDS CognitoMint

=============================================================================
