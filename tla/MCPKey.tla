------------------------------- MODULE MCPKey --------------------------------
(***************************************************************************)
(* PKey on three key pairs, one of each kind of type, and two handles: an  *)
(* agreement needs two, and two handles may hold the same key.             *)
(***************************************************************************)
EXTENDS PKey, TLC

CONSTANTS rsa, ec, x, h1, h2

MCKey == {rsa, ec, x}

MCType == rsa :> "RSA" @@ ec :> "P256" @@ x :> "X25519"

MCHandle == {h1, h2}

Symmetry == Permutations(MCHandle)

=============================================================================
