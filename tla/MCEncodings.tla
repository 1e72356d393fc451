----------------------------- MODULE MCEncodings -----------------------------
(***************************************************************************)
(* The encodings of R (KeyForms) and those of the C library (Der), whose   *)
(* calls come one at a time.                                               *)
(*                                                                         *)
(* KeyForms has scalars of one byte, where two bytes of a signature are    *)
(* damaged, and of 66 bytes as on P-521, where lengths pass 128, and RSA   *)
(* integers on either side of 128 and 256 bytes.  Der has every curve, and *)
(* RSA keys of 1024 to 4096 bits: an RSAPrivateKey has between 600 bytes   *)
(* and PSA_EXPORT_KEY_OUTPUT_SIZE.                                         *)
(***************************************************************************)
EXTENDS KeyForms

VARIABLES key, form, written, total, pos, open, todo, strict

D == INSTANCE Der WITH RsaLength <- 600..2363, der <- written

dvars == <<key, form, written, total, pos, open, todo, strict>>

MCInit == Init /\ D!Init

FormsStep == total = 0 /\ Next /\ UNCHANGED dvars

DerStep == what = "none" /\ D!Next /\ UNCHANGED vars

MCSpec == MCInit /\ [][FormsStep \/ DerStep]_<<vars, dvars>>

MCTypeOK == TypeOK /\ D!TypeOK

\* zuc_pkey_write() fills the buffer it sized exactly, with strict DER, and "a
\* buffer of ZUC_PKEY_MAX_WRITE_SIZE always suffices" (zucrypt.h).
KeysWritten == D!WrittenExactly /\ D!MaxWriteSuffices

\* An integer of len bytes behind zeros up to width.
Scalar(width, len, first) == [i \in 1..width |-> IF i <= width - len THEN 0 ELSE IF i = width - len + 1 THEN first ELSE 3]

MCValue == [w \in Width |->
    IF w = 1 THEN {<<0>>, <<1>>, <<128>>}
    ELSE {Scalar(w, 61, 1), Scalar(w, 62, 1), Scalar(w, 63, 1), Scalar(w, w, 1), Scalar(w, w, 130)}]

MCMaxDamage == [w \in Width |-> IF w = 1 THEN 2 ELSE 1]

Modulus == {Scalar(len, len, first) : len \in {1, 127, 128, 129, 255, 256, 257}, first \in {1, 128}}

MCRsaIntegers ==
    {<<x, e>> : x \in Modulus, e \in {<<1, 0, 1>>, <<3>>}} \union
    {<<<<0>>, x, <<3>>, d, <<0>> \o d, d, d, d, d>> : x, d \in Modulus}

=============================================================================
