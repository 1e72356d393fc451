--------------------------------- MODULE Der ---------------------------------
(***************************************************************************)
(* The private-key encodings zuc_pkey_write() makes itself (zuc_pkey.c):   *)
(* each is sized first, allocated, and then written piece by piece through *)
(* a running offset.  A strict DER reader then takes the result apart.     *)
(*                                                                         *)
(* A piece is a tag with its length octets, or opaque content of some      *)
(* length; what is written is the pieces and the offset n behind them.     *)
(***************************************************************************)
EXTENDS Naturals, Sequences

CONSTANT RsaLength   \* lengths of an RSAPrivateKey

VARIABLES
    key,      \* what is encoded: its type, and the length of an RSA key's DER
    form,     \* and how
    der,      \* what was written
    total,    \* the size of the buffer it was written to
    pos,      \* the reader's offset,
    open,     \* the ends of the elements it is in, outermost first,
    todo,     \* the pieces before it,
    strict    \* and whether it found no fault so far

vars == <<key, form, der, total, pos, open, todo, strict>>

-----------------------------------------------------------------------------
(* Pieces *)

Piece == [tag: Nat, octets: Seq(0..255), content: Nat]

\* DER length octets; the last form has two octets whatever n is.
der_length(n) ==
    IF n < 128 THEN <<n>>
    ELSE IF n <= 255 THEN <<129, n>>
    ELSE <<130, (n \div 256) % 256, n % 256>>

\* Bytes a DER element with n content bytes takes.
tlv_size(n) == 1 + (IF n < 128 THEN 1 ELSE IF n <= 255 THEN 2 ELSE 3) + n

\* Writing one piece after another: the offset advances by what each returns.
Then(a, b) == [pieces |-> a.pieces \o b.pieces, n |-> a.n + b.n]

tlv_head(tag, n) ==
    [pieces |-> <<[tag |-> tag, octets |-> der_length(n), content |-> 0]>>, n |-> 1 + Len(der_length(n))]

Bytes(n) == [pieces |-> <<[tag |-> 0, octets |-> <<>>, content |-> n]>>, n |-> n]

tlv(tag, n) == Then(tlv_head(tag, n), Bytes(n))

Version == tlv(2, 1)

-----------------------------------------------------------------------------
(* Encodings *)

Curve == {"P256", "P384", "P521"}

\* Bytes of the scalar, of an uncompressed point, and of the curve's OID.
ec_bytes(c) == CASE c = "P256" -> 32 [] c = "P384" -> 48 [] OTHER -> 66

point_len(c) == 1 + 2 * ec_bytes(c)

curve_oid(c) == IF c = "P256" THEN 10 ELSE 7

Oid(size) == tlv(6, size - 2)

ec_sec1_body(c, params) ==
    3 + tlv_size(ec_bytes(c)) + (IF params THEN tlv_size(curve_oid(c)) ELSE 0)
      + tlv_size(tlv_size(point_len(c) + 1))

ec_sec1_size(c, params) == tlv_size(ec_sec1_body(c, params))

\* Mutant: the inner element's length leaves out the unused-bits octet.
ec_sec1_NoPad(c, params) ==
    LET start == Then(Then(tlv_head(48, ec_sec1_body(c, params)), Version), tlv(4, ec_bytes(c)))
        curve == IF params THEN Then(start, Then(tlv_head(160, curve_oid(c)), Oid(curve_oid(c)))) ELSE start
        outer == Then(curve, tlv_head(161, tlv_size(point_len(c) + 1)))
    IN  Then(Then(outer, tlv_head(3, point_len(c))), Bytes(1 + point_len(c)))

ec_sec1(c, params) ==
    LET start == Then(Then(tlv_head(48, ec_sec1_body(c, params)), Version), tlv(4, ec_bytes(c)))
        curve == IF params THEN Then(start, Then(tlv_head(160, curve_oid(c)), Oid(curve_oid(c)))) ELSE start
        outer == Then(curve, tlv_head(161, tlv_size(point_len(c) + 1)))
    IN  Then(Then(outer, tlv_head(3, point_len(c) + 1)), Bytes(1 + point_len(c)))

pkcs8_body(c) ==
    3 + tlv_size(9 + curve_oid(c)) + tlv_size(ec_sec1_size(c, FALSE))

ec_pkcs8(c) ==
    LET alg   == Then(tlv_head(48, 9 + curve_oid(c)), Then(Oid(9), Oid(curve_oid(c))))
        start == Then(Then(tlv_head(48, pkcs8_body(c)), Version), alg)
    IN  Then(Then(start, tlv_head(4, ec_sec1_size(c, FALSE))), ec_sec1(c, FALSE))

x25519_body == 3 + tlv_size(5) + tlv_size(tlv_size(32))

x25519_pkcs8 ==
    LET start == Then(Then(tlv_head(48, x25519_body), Version), Then(tlv_head(48, 5), Oid(5)))
    IN  Then(Then(start, tlv_head(4, tlv_size(32))), tlv(4, 32))

\* An RSAPrivateKey of n bytes, whose encoding is not looked into.
wrap_body(n) == 18 + 1 + Len(der_length(n)) + n

wrap_size(n) == 1 + Len(der_length(wrap_body(n))) + wrap_body(n)

\* The version, the algorithm { rsaEncryption, NULL } and the octet string.
pkcs8_wrap(n) ==
    LET alg == Then(tlv_head(48, 13), Then(Oid(11), tlv_head(5, 0)))
    IN  Then(Then(Then(tlv_head(48, wrap_body(n)), Version), alg), tlv(4, n))

PrivateKey == [type: Curve \union {"X25519"}, len: {0}] \union [type: {"RSA"}, len: RsaLength]

Form == {"PKCS1", "INFO"}

\* What is written of a private key, and the buffer it is written to.  An
\* RSAPrivateKey is the handle's own material.
Encoding(k, fmt) ==
    CASE k.type \in Curve /\ fmt = "PKCS1" -> [written |-> ec_sec1(k.type, TRUE), size |-> ec_sec1_size(k.type, TRUE)]
      [] k.type \in Curve /\ fmt = "INFO"  -> [written |-> ec_pkcs8(k.type), size |-> tlv_size(pkcs8_body(k.type))]
      [] k.type = "X25519"                 -> [written |-> x25519_pkcs8, size |-> tlv_size(x25519_body)]
      [] k.type = "RSA" /\ fmt = "PKCS1"   -> [written |-> Bytes(k.len), size |-> k.len]
      [] OTHER                             -> [written |-> pkcs8_wrap(k.len), size |-> wrap_size(k.len)]

ZUC_PKEY_MAX_WRITE_SIZE == 8192

\* The longest label is that of an RSA private key.
label_len == 15

\* mbedtls_pem_write_buffer(): Base64 in lines of 64, between the header, the
\* footer and a NUL.
pem_size(n) ==
    LET chars == 4 * ((n + 2) \div 3)
    IN  (11 + label_len + 6) + (9 + label_len + 6) + chars + (chars + 63) \div 64 + 1

\* An encoding that is not refused: there is no PKCS#1 form of an X25519 key,
\* and pkcs8_wrap() stops short of lengths that need three octets.
pkey_write_impl(k, fmt) ==
    /\ k.type = "X25519" => fmt = "INFO"
    /\ k.type = "RSA" /\ fmt = "INFO" => k.len <= 65535 - 64
    /\ key' = k
    /\ form' = fmt
    /\ der' = Encoding(k, fmt).written
    /\ total' = Encoding(k, fmt).size
    /\ todo' = Encoding(k, fmt).written.pieces
    /\ open' = <<Encoding(k, fmt).size>>
    /\ UNCHANGED <<pos, strict>>

-----------------------------------------------------------------------------
(* The reader *)

Innermost == IF open = <<>> THEN 0 ELSE open[Len(open)]

\* The length that octets announce, and whether they are the shortest form.
Announced(o) ==
    CASE Len(o) = 1 -> o[1] [] Len(o) = 2 -> o[2] [] OTHER -> 256 * o[2] + o[3]

Shortest(o) ==
    CASE Len(o) = 1 -> o[1] < 128 [] Len(o) = 2 -> o[2] >= 128 [] OTHER -> o[2] > 0

\* At offset p, the elements that end there are left behind.
Leave(ends, p) == SelectSeq(ends, LAMBDA e : e > p)

\* An element begins: it must end within the one around it.
ReadHead ==
    /\ todo # <<>> /\ Head(todo).octets # <<>>
    /\ LET o    == Head(todo).octets
           from == pos + 1 + Len(o)
           end  == from + Announced(o)
       IN  /\ pos' = from
           /\ strict' = (strict /\ end <= Innermost /\ Shortest(o))
           /\ open' = Leave(Append(open, end), from)
    /\ todo' = Tail(todo)
    /\ UNCHANGED <<key, form, der, total>>

\* Content fills the element it is in.
ReadContent ==
    /\ todo # <<>> /\ Head(todo).octets = <<>>
    /\ pos' = pos + Head(todo).content
    /\ strict' = (strict /\ pos + Head(todo).content = Innermost)
    /\ open' = Leave(open, pos + Head(todo).content)
    /\ todo' = Tail(todo)
    /\ UNCHANGED <<key, form, der, total>>

Nothing == [pieces |-> <<>>, n |-> 0]

X25519Key == [type |-> "X25519", len |-> 0]

Init ==
    /\ key = X25519Key
    /\ form = "INFO"
    /\ der = Nothing
    /\ total = 0
    /\ pos = 0
    /\ open = <<>>
    /\ todo = <<>>
    /\ strict = TRUE

\* The next key.
Again ==
    /\ total # 0 /\ todo = <<>>
    /\ key' = X25519Key
    /\ form' = "INFO"
    /\ der' = Nothing
    /\ total' = 0
    /\ pos' = 0
    /\ open' = <<>>
    /\ strict' = TRUE
    /\ UNCHANGED todo

Next ==
    \/ total = 0 /\ \E k \in PrivateKey, fmt \in Form : pkey_write_impl(k, fmt)
    \/ ReadHead
    \/ ReadContent
    \/ Again

Spec == Init /\ [][Next]_vars

-----------------------------------------------------------------------------
(* Properties *)

TypeOK ==
    /\ key \in PrivateKey
    /\ form \in Form
    /\ der \in [pieces: Seq(Piece), n: Nat]
    /\ total \in Nat
    /\ pos \in Nat
    /\ open \in Seq(Nat)
    /\ todo \in Seq(Piece)
    /\ strict \in BOOLEAN

\* What is written is exactly as long as the buffer sized for it by separate
\* arithmetic: no length, and no change of the number of length octets in an
\* outer or inner element, makes the writer run past the end or stop short.
\* A strict reader finds every element inside the one around it, every length
\* in its shortest form and all content accounted for, and ends where the
\* encoding ends.
WrittenExactly ==
    /\ der.n = total
    /\ strict
    /\ todo = <<>> /\ total # 0 => open = <<>> /\ pos = total

\* zucrypt.h: "a buffer of ZUC_PKEY_MAX_WRITE_SIZE always suffices", for DER
\* and for PEM.
MaxWriteSuffices == pem_size(total) <= ZUC_PKEY_MAX_WRITE_SIZE

=============================================================================
