------------------------------ MODULE KeyForms -------------------------------
(***************************************************************************)
(* The DER of R/pkey.R and R/ec.R: ECDSA signatures, which pass between    *)
(* DER and the r || s of the C library on signing and on verifying, and    *)
(* the integers of RSA keys.  A signature may be damaged on its way; what  *)
(* the readers make of it is compared with a definition of DER of its own. *)
(*                                                                         *)
(* Bytes are numbers and raw vectors are sequences.  An R error inside a   *)
(* tryCatch() is the value Failed.                                         *)
(***************************************************************************)
EXTENDS Integers, Sequences, SequencesExt, FiniteSetsExt

CONSTANTS
    Width,       \* curve_bytes: bytes of a scalar
    Value,       \* for each width, scalars of that many bytes
    RsaIntegers, \* lists of integers for RSA keys
    Octet,       \* what a damaged byte may become
    MaxDamage,   \* bound, for each width: damaged bytes
    Longest      \* bound: the longest announced length

ASSUME FormAssumption ==
    /\ Width \subseteq Nat \ {0}
    /\ \A w \in Width : \A v \in Value[w] : v \in [1..w -> 0..255]
    /\ Octet \subseteq 0..255
    /\ MaxDamage \in [Width -> Nat]
    /\ Longest \in Nat /\ \A w \in Width : Longest > 4 * w + 16

VARIABLES
    n,        \* bytes of a scalar on the key's curve
    what,     \* "none", "signature" or "key"
    der,      \* the DER of a signature or of an RSA key
    given,    \* what it was made from; <<>> for damaged ones
    damage,   \* how many bytes were damaged
    asked,    \* r || s as it was passed on for verification
    read      \* the integers that were read from it

vars == <<n, what, der, given, damage, asked, read>>

Failed == [ok |-> FALSE, v |-> <<>>]

Found(v) == [ok |-> TRUE, v |-> v]

NotYet == [ok |-> TRUE, v |-> <<>>]

-----------------------------------------------------------------------------
(* Writing *)

\* Without leading zeros: x[cumsum(x != 0) > 0].
Significant(x) ==
    LET nonzero == {i \in DOMAIN x : x[i] # 0}
    IN  IF nonzero = {} THEN <<>> ELSE SubSeq(x, Min(nonzero), Len(x))

OrZero(x) == IF x = <<>> THEN <<0>> ELSE x

der_length(len) ==
    LET octets[m \in Nat] == IF m = 0 THEN <<>> ELSE Append(octets[m \div 256], m % 256)
    IN  IF len < 128 THEN <<len>> ELSE <<128 + Len(octets[len])>> \o octets[len]

\* Mutant: the sign octet is forgotten.
der_integer_Signed(x) == <<2>> \o der_length(Len(OrZero(Significant(x)))) \o OrZero(Significant(x))

der_integer(x) ==
    LET v == OrZero(Significant(x))
        u == IF v[1] >= 128 THEN <<0>> \o v ELSE v
    IN  <<2>> \o der_length(Len(u)) \o u

der_sequence(parts) ==
    LET body == FlattenSeq(parts)
    IN  <<48>> \o der_length(Len(body)) \o body

crypt_ecdsa_write(r, s) == der_sequence(<<der_integer(r), der_integer(s)>>)

ecdsa_der(raw_sig) ==
    LET h == Len(raw_sig) \div 2
    IN  crypt_ecdsa_write(SubSeq(raw_sig, 1, h), SubSeq(raw_sig, h + 1, 2 * h))

-----------------------------------------------------------------------------
(* Reading *)

\* d[i], which past the end of a raw vector is 00; d[[i]] is an error there.
At(d, i) == IF i \in DOMAIN d THEN d[i] ELSE 0

\* A length that is longer than any input is as good as Longest: what lies past
\* the end is 00, if R can allocate it at all.
BigEndian(octets) == FoldLeft(LAMBDA acc, b : Min({Longest, 256 * acc + b}), 0, octets)

\* The length announced at pos, and how many octets announce it.
read_len(d, pos) ==
    IF pos \notin DOMAIN d THEN [ok |-> FALSE, len |-> 0, size |-> 0]
    ELSE IF d[pos] < 128 THEN [ok |-> TRUE, len |-> d[pos], size |-> 1]
    ELSE LET k == d[pos] - 128
         IN  [ok |-> TRUE, len |-> BigEndian([i \in 1..k |-> At(d, pos + i)]), size |-> 1 + k]

\* The INTEGERs of a SEQUENCE.  Neither the tag nor the length of the sequence
\* is looked at here.
der_integers(d) ==
    LET From[pos \in Nat] ==
          IF pos > Len(d) THEN Found(<<>>)
          ELSE LET l     == read_len(d, pos + 1)
                   start == pos + 1 + l.size
                   value == [i \in 1..l.len |-> At(d, start + i - 1)]
                   rest  == From[start + l.len]
               IN  IF d[pos] # 2 \/ ~l.ok THEN Failed
                   ELSE IF ~rest.ok THEN Failed
                   ELSE Found(<<OrZero(Significant(value))>> \o rest.v)
        outer == read_len(d, 2)
    IN  IF outer.ok THEN From[2 + outer.size] ELSE Failed

IsPair(d, v) == v.ok /\ Len(v.v) = 2 /\ d # <<>> /\ d[1] = 48

\* Mutant: leading zeros stay off.
Padded_Short(x, width) == x

Padded(x, width) == [i \in 1..width - Len(x) |-> 0] \o x

\* Mutant: what was read is not written again and compared.
ecdsa_raw_Lenient(d, width) ==
    LET v == der_integers(d)
    IN  IF ~IsPair(d, v) \/ \E i \in DOMAIN v.v : Len(v.v[i]) > width THEN Failed
        ELSE Found(Padded(v.v[1], width) \o Padded(v.v[2], width))

ecdsa_raw(d, width) ==
    LET v == der_integers(d)
    IN  IF ~IsPair(d, v) \/ \E i \in DOMAIN v.v : Len(v.v[i]) > width THEN Failed
        ELSE IF crypt_ecdsa_write(v.v[1], v.v[2]) # d THEN Failed
        ELSE Found(Padded(v.v[1], width) \o Padded(v.v[2], width))

-----------------------------------------------------------------------------
(* Operations *)

Init ==
    /\ n \in Width
    /\ what = "none"
    /\ der = <<>>
    /\ given = <<>>
    /\ damage = 0
    /\ asked = NotYet
    /\ read = NotYet

\* The C library has signed: its r || s is turned into DER.
crypt_signature_create(r, s) ==
    /\ what' = "signature"
    /\ der' = ecdsa_der(r \o s)
    /\ given' = <<r, s>>
    /\ UNCHANGED <<n, damage, asked, read>>

\* ecdsa_raw() decides whether a signature goes to the C library at all.
crypt_signature_verify ==
    /\ what = "signature" /\ asked = NotYet /\ read = NotYet
    /\ asked' = ecdsa_raw(der, n)
    /\ UNCHANGED <<n, what, der, given, damage, read>>

crypt_ecdsa_parse ==
    /\ what = "signature" /\ asked = NotYet /\ read = NotYet
    /\ read' = IF IsPair(der, der_integers(der)) THEN der_integers(der) ELSE Failed
    /\ UNCHANGED <<n, what, der, given, damage, asked>>

\* A key is built from its integers; the backend keeps it in the same form.
crypt_rsa_key(ints) ==
    /\ what' = "key"
    /\ der' = der_sequence([i \in DOMAIN ints |-> der_integer(ints[i])])
    /\ given' = ints
    /\ UNCHANGED <<n, damage, asked, read>>

\* as.list() of a key.
as_list ==
    /\ what = "key" /\ read = NotYet
    /\ read' = der_integers(der)
    /\ UNCHANGED <<n, what, der, given, damage, asked>>

\* A byte of a signature is changed, lost or added on its way.
Damage ==
    /\ what = "signature" /\ asked = NotYet /\ read = NotYet
    /\ damage < MaxDamage[n]
    /\ \E i \in 1..Len(der), b \in Octet :
          \/ der' = ReplaceAt(der, i, b)
          \/ der' = RemoveAt(der, i)
          \/ der' = InsertAt(der, i, b)
          \/ der' = Append(der, b)
    /\ der' # der /\ der' # <<>>
    /\ given' = <<>>
    /\ damage' = damage + 1
    /\ UNCHANGED <<n, what, asked, read>>

\* The next signature or key, on any curve.
Again ==
    /\ asked # NotYet \/ read # NotYet
    /\ n' \in Width
    /\ what' = "none"
    /\ der' = <<>>
    /\ given' = <<>>
    /\ damage' = 0
    /\ asked' = NotYet
    /\ read' = NotYet

Make ==
    /\ what = "none"
    /\ \/ \E r, s \in Value[n] : crypt_signature_create(r, s)
       \/ \E ints \in RsaIntegers : crypt_rsa_key(ints)

Next ==
    \/ Make
    \/ crypt_signature_verify
    \/ crypt_ecdsa_parse
    \/ as_list
    \/ Damage
    \/ Again

Spec == Init /\ [][Next]_vars

-----------------------------------------------------------------------------
(* DER, defined by what it is rather than by how it is read *)

\* Octets o are the shortest form of a length.
Announces(o, len) ==
    IF len < 128 THEN o = <<len>>
    ELSE Len(o) > 1 /\ o[1] = 127 + Len(o) /\ o[2] > 0 /\ BigEndian(Tail(o)) = len

\* d is one element with a head of h bytes.
Element(d, tag, h) ==
    h <= Len(d) /\ d[1] = tag /\ Announces(SubSeq(d, 2, h), Len(d) - h)

\* d is a non-negative INTEGER of at most width significant bytes, as short as
\* can be.
Unsigned(d, width) ==
    \E h \in 2..4 :
        LET c == SubSeq(d, h + 1, Len(d))
        IN  /\ Element(d, 2, h)
            /\ c # <<>> /\ c[1] < 128
            /\ c[1] = 0 /\ Len(c) > 1 => c[2] >= 128
            /\ Len(Significant(c)) <= width

\* Ecdsa-Sig-Value: a SEQUENCE of two INTEGERs that fit the curve, and
\* nothing else.
Strict(d, width) ==
    \E h \in 2..4 :
        /\ Element(d, 48, h)
        /\ \E i \in h + 1..Len(d) - 1 :
              Unsigned(SubSeq(d, h + 1, i), width) /\ Unsigned(SubSeq(d, i + 1, Len(d)), width)

-----------------------------------------------------------------------------
(* Properties *)

TypeOK ==
    /\ n \in Width
    /\ what \in {"none", "signature", "key"}
    /\ der \in Seq(0..255)
    /\ damage \in 0..MaxDamage[n]
    /\ asked \in [ok: BOOLEAN, v: Seq(0..255)]
    /\ asked.v # <<>> => Len(asked.v) = 2 * n
    /\ read \in [ok: BOOLEAN, v: Seq(Seq(0..255))]

\* A signature is passed on for verification exactly when it is the one strict
\* encoding of two integers of the curve's size: of all the ways to write the
\* same r and s, none but one verifies, and that one is never refused.
OneEncoding == asked # NotYet => (asked.ok <=> Strict(der, n))

\* Every signature made here is strict DER, leading zeros, set high bits and
\* lengths on either side of 128 included; what was signed is what is verified; and the integers that a signature or
\* an RSA key was made from are read back, without their leading zeros.
ReadBack ==
    what # "none" /\ damage = 0 =>
        /\ what = "signature" => Strict(der, n)
        /\ asked # NotYet => asked = Found(given[1] \o given[2])
        /\ read # NotYet => read = Found([i \in DOMAIN given |-> OrZero(Significant(given[i]))])

\* R/ec.R refuses what "is not a DER ECDSA signature" in crypt_ecdsa_parse().
ParsesDerOnly ==
    what = "signature" /\ read # NotYet /\ read.ok => \E width \in 1..Len(der) : Strict(der, width)

=============================================================================
