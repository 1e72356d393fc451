------------------------------ MODULE MCAesCbc -------------------------------
(* AesCbc with a block cipher on blocks of one bit. *)
EXTENDS AesCbc

MCBlock == {0, 1}

MCX == [a \in MCBlock |-> [b \in MCBlock |-> (a + b) % 2]]

\* Key 1 complements a block, key 2 keeps it.
MCE == [k \in Key |-> [b \in MCBlock |-> (b + k) % 2]]

MCD == [k \in Key |-> [b \in MCBlock |-> CHOOSE a \in MCBlock : MCE[k][a] = b]]

=============================================================================
