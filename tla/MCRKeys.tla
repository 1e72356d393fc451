------------------------------- MODULE MCRKeys -------------------------------
(***************************************************************************)
(* RKeys with three pointers and three addresses: two keys, or a key and a *)
(* pointer that is none, and the object a call makes.                      *)
(***************************************************************************)
EXTENDS RKeys, TLC

Symmetry == Permutations(Ptr) \union Permutations(Addr)

=============================================================================
