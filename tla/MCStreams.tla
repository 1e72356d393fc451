------------------------------ MODULE MCStreams ------------------------------
(* Small instances of Streams for TLC. *)
EXTENDS Streams, TLC

Symmetry == Permutations(Ptr) \union Permutations(Context)

=============================================================================
