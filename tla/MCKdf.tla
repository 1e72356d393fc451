-------------------------------- MODULE MCKdf --------------------------------
(***************************************************************************)
(* Kdf with iterations of a three-bit width, so that 0, 1, the largest and *)
(* one too many are all among the arguments.                               *)
(***************************************************************************)
EXTENDS Kdf

=============================================================================
