------------------------------ MODULE MCRandom -------------------------------
(* Instances of Random for TLC. *)
EXTENDS Random

=============================================================================
