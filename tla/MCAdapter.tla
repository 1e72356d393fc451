------------------------------ MODULE MCAdapter ------------------------------
(* Small instances of Adapter for TLC. *)
EXTENDS Adapter, TLC

Symmetry == Permutations(Client) \union Permutations(Handle)
            \union Permutations(KeyId) \union Permutations(MacKey)
            \union Permutations(Chunk)

=============================================================================
