------------------------------- MODULE Buffers -------------------------------
(***************************************************************************)
(* zuc_int_overlaps() of zuc_util.c: whether an input and an output buffer *)
(* of the same length overlap partially, decided by addresses that wrap at *)
(* the width of uintptr_t.                                                 *)
(***************************************************************************)
EXTENDS Integers

CONSTANT PtrMod    \* one more than the largest uintptr_t

ASSUME PtrAssumption == PtrMod \in Nat \ {0}

Null == 0

Pointer == 0..(PtrMod - 1)

\* Mutant: one order is not checked.
zuc_int_overlaps_OneSided(in, out, len) ==
    in # Null /\ out # Null /\ in < out /\ (in + len) % PtrMod > out

zuc_int_overlaps(in, out, len) ==
    /\ in # Null /\ out # Null /\ len # 0
    /\ in # out
    /\ IF in < out THEN (in + len) % PtrMod > out
                   ELSE (out + len) % PtrMod > in

\* The addresses of a buffer.
Extent(a, len) == a..(a + len - 1)

\* C lets a program form the address one past an object's end, so no buffer
\* reaches the last address.
Fits(a, len) == a + len < PtrMod

\* What the check is for: two different buffers that share an address.
PartialOverlap(in, out, len) ==
    /\ in # Null /\ out # Null
    /\ in # out
    /\ Extent(in, len) \intersect Extent(out, len) # {}

=============================================================================
