------------------------------- MODULE MCAead --------------------------------
(* Aead has no constants: its runs are exhaustive. *)
EXTENDS Aead

=============================================================================
