-------------------------------- MODULE PKey ---------------------------------
(***************************************************************************)
(* Public keys (zuc_pkey.c).  A handle holds key material, not a key in    *)
(* the backend's store: an operation loads the key, uses it and removes it *)
(* again, with temporary buffers on the way.  Every operation runs under   *)
(* the allocation watch of zuc_util.c.  The library runs on one thread, so *)
(* a call is the sequence of its steps, one per backend call or            *)
(* allocation, each of which may fail.  NULL handles and buffers, which    *)
(* every entry point refuses at once, are not passed.                      *)
(*                                                                         *)
(* A key is a model value; what is told apart of its encodings is whether  *)
(* they hold the private half.  Sizes are the flag small: the caller's     *)
(* buffer is too short, or its digest has the wrong length.                *)
(***************************************************************************)
EXTENDS PKeyData

VARIABLES
    ready,         \* zuc_int_ready()
    pkey,          \* the material each handle holds
    live,          \* zuc_live_contexts, as far as public keys count
    store,         \* the keys in the backend's store
    alloc_failed,  \* the allocation watch
    tmp,           \* what each temporary buffer holds
    out,           \* what the caller's output buffer holds
    call,          \* the call under way
    ret,           \* the last call and what it returned
    lacked,        \* ghost: an allocation failed in this call
    dry,           \* ghost: the random source failed in this call
    spilled        \* ghost: memory was freed with a private key in it

vars == <<ready, pkey, live, store, alloc_failed, tmp, out, call, ret, lacked, dry, spilled>>

Half(m) == IF m.private THEN "private" ELSE "public"

Buffer == {"copy", "buf", "point", "der"}

Content == {"none", "blank", "public", "private"}

\* "before": as the caller passed it; "result": a signature, ciphertext,
\* plaintext or shared secret.
Output == {"before", "zero", "public", "private", "result"}

Usage == {"EXPORT", "SIGN_HASH", "VERIFY_HASH", "ENCRYPT", "DECRYPT", "DERIVE"}

Call == [fn: Fn, pc: {"idle", "copy", "read", "attrs", "load", "from_psa", "export", "steal",
                      "point", "spki", "spki_write", "encode", "operate", "deliver"},
         h: Handle \union {NoHandle}, peer: Handle \union {NoHandle}, private: BOOLEAN,
         arg: Format \union Input \union Scheme, truth: Truth, small: BOOLEAN,
         m: Material \union {NoMaterial}, usage: Usage, pub: BOOLEAN]

Idle == [fn |-> "none", pc |-> "idle", h |-> NoHandle, peer |-> NoHandle, private |-> FALSE,
         arg |-> "none", truth |-> "valid", small |-> FALSE, m |-> NoMaterial,
         usage |-> "EXPORT", pub |-> FALSE]

\* What psa_* and mbedtls_* functions return.
Error == {"NOT_SUPPORTED", "INVALID_ARGUMENT", "BUFFER_TOO_SMALL", "INSUFFICIENT_MEMORY",
          "BAD_STATE", "INSUFFICIENT_ENTROPY", "INVALID_SIGNATURE", "GENERIC"}

Psa == Error \union {"SUCCESS"}

zuc_int_from_psa(e) ==
    CASE e = "SUCCESS"              -> "OK"
      [] e = "NOT_SUPPORTED"        -> "UNSUPPORTED"
      [] e = "INVALID_ARGUMENT"     -> "INVALID_ARGUMENT"
      [] e = "BUFFER_TOO_SMALL"     -> "BAD_LENGTH"
      [] e = "INSUFFICIENT_MEMORY"  -> "MEMORY"
      [] e = "BAD_STATE"            -> "INTERNAL"
      [] e = "INSUFFICIENT_ENTROPY" -> "ENTROPY"
      [] OTHER                      -> "BACKEND"

\* The calls that keep "out of memory" apart and report s for any other error.
MemoryOr(e, s) == IF e = "INSUFFICIENT_MEMORY" THEN "MEMORY" ELSE s

TypeOK ==
    /\ ready \in BOOLEAN
    /\ pkey \in [Handle -> Material \union {NoMaterial}]
    /\ live \in Nat
    /\ store \in SUBSET [key: Key, private: BOOLEAN, usage: Usage]
    /\ alloc_failed \in BOOLEAN
    /\ tmp \in [Buffer -> Content]
    /\ out \in Output
    /\ call \in Call
    /\ ret \in [call: Call, st: Status]
    /\ lacked \in BOOLEAN
    /\ dry \in BOOLEAN
    /\ spilled \in BOOLEAN

Init ==
    /\ ready = FALSE
    /\ pkey = [h \in Handle |-> NoMaterial]
    /\ live = 0
    /\ store = {}
    /\ alloc_failed = FALSE
    /\ tmp = [b \in Buffer |-> "none"]
    /\ out = "before"
    /\ call = Idle
    /\ ret = [call |-> Idle, st |-> "OK"]
    /\ lacked = FALSE
    /\ dry = FALSE
    /\ spilled = FALSE

-----------------------------------------------------------------------------
(* Allocation, and the end of a call *)

\* A backend call ends with e.  An allocation that fails inside it sets the
\* watch, whether the backend reports it as such, as another error, or
\* recovers.  Its key store grows, so it is out of memory only when calloc()
\* is.
zuc_int_calloc(e) ==
    \E f \in BOOLEAN :
        /\ e = "INSUFFICIENT_MEMORY" => f
        /\ alloc_failed' = (alloc_failed \/ f)
        /\ lacked' = (lacked \/ f)
        /\ dry' = (dry \/ e = "INSUFFICIENT_ENTROPY")

\* No backend call, and a malloc() of the library's own that fails.
NoBackend == UNCHANGED <<alloc_failed, lacked, dry>>

MallocFails == lacked' = TRUE /\ UNCHANGED <<alloc_failed, dry>>

\* Mutant: only a backend error is relabelled.
zuc_int_memory_or_Backend(st) == IF st = "BACKEND" /\ alloc_failed' THEN "MEMORY" ELSE st

zuc_int_memory_or(st) == IF st # "OK" /\ alloc_failed' THEN "MEMORY" ELSE st

Return(st) ==
    /\ call' = Idle
    /\ ret' = [call |-> [call EXCEPT !.pc = "idle"], st |-> zuc_int_memory_or(st)]

Goto(c) == call' = c /\ UNCHANGED ret

\* free() of a temporary buffer that holds c by then, and after a wipe.
FreeHolding(b, c) ==
    /\ tmp' = [tmp EXCEPT ![b] = "none"]
    /\ spilled' = (spilled \/ c = "private")

Free(b) == FreeHolding(b, tmp[b])

WipeFree(b) == FreeHolding(b, "blank")

Fill(b, c) == tmp' = [tmp EXCEPT ![b] = c] /\ UNCHANGED spilled

-----------------------------------------------------------------------------
(* Entry: the watch is cleared, then the arguments are checked *)

\* Mutant: an earlier failure stays in the watch.
zuc_int_alloc_watch_Kept == UNCHANGED alloc_failed

zuc_int_alloc_watch == alloc_failed' = FALSE

\* A call c whose checks give st: it returns st, or goes on at c.pc.
Enter(c, st) ==
    /\ call = Idle
    /\ zuc_int_alloc_watch
    /\ lacked' = FALSE /\ dry' = FALSE
    /\ out' = "before"
    /\ IF st = "OK" THEN call' = c /\ ret' = [call |-> Idle, st |-> "OK"]
       ELSE call' = Idle /\ ret' = [call |-> [c EXCEPT !.pc = "idle"], st |-> zuc_int_memory_or(st)]
    /\ UNCHANGED <<ready, pkey, live, store, tmp, spilled>>

Held(h) == pkey[h] # NoMaterial

FreeHandle == {h \in Handle : ~Held(h)}

zuc_pkey_parse(k, private, wanted, in) ==
    Enter([Idle EXCEPT !.fn = "parse", !.pc = IF in = "pem" THEN "copy" ELSE "read",
                       !.private = wanted, !.arg = in, !.m = [key |-> k, private |-> private]],
          IF ~ready THEN "NOT_READY" ELSE IF in \in {"null", "nul"} THEN "INVALID_ARGUMENT" ELSE "OK")

\* known: the type asked for is one of this build's; small: the size is out
\* of range or not the curve's.
zuc_pkey_generate(k, known, small) ==
    Enter([Idle EXCEPT !.fn = "generate", !.pc = "load", !.private = TRUE, !.small = small,
                       !.m = [key |-> k, private |-> TRUE]],
          IF ~ready THEN "NOT_READY" ELSE IF ~known THEN "UNSUPPORTED"
          ELSE IF small THEN "BAD_LENGTH" ELSE "OK")

zuc_pkey_import(k, private, null, known) ==
    Enter([Idle EXCEPT !.fn = "import", !.pc = "load", !.private = private,
                       !.m = [key |-> k, private |-> private]],
          IF ~ready THEN "NOT_READY" ELSE IF null THEN "INVALID_ARGUMENT"
          ELSE IF ~known THEN "UNSUPPORTED" ELSE "OK")

zuc_pkey_public(h) ==
    /\ Held(h)
    /\ Enter([Idle EXCEPT !.fn = "public", !.pc = "load", !.h = h, !.m = pkey[h]],
             IF ~ready THEN "NOT_READY" ELSE "OK")

\* Mutant: public_only is overlooked.
pkey_write_impl_Whole(h, fmt, private) ==
    IF pkey[h].private /\ fmt # "other" THEN "encode" ELSE "UNSUPPORTED"

\* The first step of each encoding, after the refusals of ec_encode() and of
\* the switch over format.
pkey_write_impl(h, fmt, private) ==
    LET pkcs1 == fmt \in {"PKCS1_DER", "PKCS1_PEM"}
        type  == Type[pkey[h].key]
    IN  IF fmt = "other" THEN "INVALID_ARGUMENT"
        ELSE IF type # "RSA" /\ pkcs1 /\ (type = "X25519" \/ ~private) THEN "UNSUPPORTED"
        ELSE IF ~private /\ ~pkcs1 THEN "load"
        ELSE IF ~private \/ type \notin {"RSA", "X25519"} THEN "point"
        ELSE "encode"

zuc_pkey_write(h, fmt, public_only, small) ==
    /\ Held(h)
    /\ LET private == pkey[h].private /\ ~public_only
           first   == pkey_write_impl(h, fmt, private)
       IN  Enter([Idle EXCEPT !.fn = "write", !.h = h, !.private = private, !.arg = fmt,
                              !.small = small, !.m = pkey[h],
                              !.pc = IF first \in Status THEN "idle" ELSE first],
                 IF ~ready THEN "NOT_READY" ELSE IF first \in Status THEN first ELSE "OK")

\* A private key is copied without further ado.
zuc_pkey_export(h, public_only, small) ==
    /\ Held(h)
    /\ LET private == pkey[h].private /\ ~public_only
       IN  Enter([Idle EXCEPT !.fn = "export", !.pc = IF private THEN "deliver" ELSE "point", !.h = h,
                              !.private = private, !.small = small, !.m = pkey[h]],
                 IF ~ready THEN "NOT_READY" ELSE "OK")

scheme_fits(h, scheme) ==
    IF scheme = "rsa" THEN Type[pkey[h].key] = "RSA"
    ELSE scheme = "ecdsa" /\ Type[pkey[h].key] \in {"P256", "P384", "P521"}

\* One operation with the handle's own key: its arguments, and what
\* pkey_import() loads the key for.
Operation(fn, usage, h, scheme, truth, small) ==
    [Idle EXCEPT !.fn = fn, !.pc = "load", !.h = h, !.arg = scheme, !.truth = truth,
                 !.small = small, !.m = pkey[h], !.usage = usage]

zuc_pkey_sign_hash(h, scheme, small) ==
    /\ Held(h)
    /\ Enter(Operation("sign", "SIGN_HASH", h, scheme, "valid", small),
             IF ~ready THEN "NOT_READY"
             ELSE IF ~pkey[h].private THEN "INVALID_ARGUMENT"
             ELSE IF scheme = "none" THEN "UNSUPPORTED"
             ELSE IF ~scheme_fits(h, scheme) THEN "INVALID_ARGUMENT"
             ELSE IF small THEN "BAD_LENGTH" ELSE "OK")

zuc_pkey_verify_hash(h, scheme, truth, small) ==
    /\ Held(h)
    /\ Enter(Operation("verify", "VERIFY_HASH", h, scheme, truth, small),
             IF ~ready THEN "NOT_READY"
             ELSE IF scheme = "none" THEN "UNSUPPORTED"
             ELSE IF ~scheme_fits(h, scheme) THEN "INVALID_ARGUMENT"
             ELSE IF small THEN "BAD_LENGTH"
             ELSE IF truth = "length" THEN "AUTH" ELSE "OK")

zuc_pkey_encrypt(h, scheme, small) ==
    /\ Held(h)
    /\ Enter(Operation("encrypt", "ENCRYPT", h, scheme, "valid", small),
             IF ~ready THEN "NOT_READY"
             ELSE IF scheme = "none" \/ Type[pkey[h].key] # "RSA" THEN "UNSUPPORTED"
             ELSE IF small THEN "BAD_LENGTH" ELSE "OK")

zuc_pkey_decrypt(h, scheme, truth, small) ==
    /\ Held(h)
    /\ Enter(Operation("decrypt", "DECRYPT", h, scheme, truth, small),
             IF ~ready THEN "NOT_READY"
             ELSE IF ~pkey[h].private THEN "INVALID_ARGUMENT"
             ELSE IF scheme = "none" \/ Type[pkey[h].key] # "RSA" THEN "UNSUPPORTED" ELSE "OK")

\* Mutant: the peer may be on any curve.
zuc_pkey_agree_AnyCurve(h, peer, small) ==
    /\ Held(h) /\ Held(peer)
    /\ Enter([Idle EXCEPT !.fn = "agree", !.pc = "point", !.h = h, !.peer = peer,
                          !.small = small, !.m = pkey[peer]],
             IF ~ready THEN "NOT_READY"
             ELSE IF Type[pkey[h].key] = "RSA" THEN "UNSUPPORTED"
             ELSE IF ~pkey[h].private THEN "INVALID_ARGUMENT"
             ELSE IF small THEN "BAD_LENGTH" ELSE "OK")

zuc_pkey_agree(h, peer, small) ==
    /\ Held(h) /\ Held(peer)
    /\ Enter([Idle EXCEPT !.fn = "agree", !.pc = "point", !.h = h, !.peer = peer,
                          !.small = small, !.m = pkey[peer]],
             IF ~ready THEN "NOT_READY"
             ELSE IF Type[pkey[h].key] = "RSA" THEN "UNSUPPORTED"
             ELSE IF ~pkey[h].private \/ Type[pkey[peer].key] # Type[pkey[h].key] THEN "INVALID_ARGUMENT"
             ELSE IF small THEN "BAD_LENGTH" ELSE "OK")

\* The material is wiped before it is freed.
zuc_pkey_free(h) ==
    /\ call = Idle
    /\ Held(h)
    /\ pkey' = [pkey EXCEPT ![h] = NoMaterial]
    /\ live' = live - 1
    /\ ret' = [call |-> Idle, st |-> "OK"]
    /\ UNCHANGED <<ready, store, alloc_failed, tmp, out, call, lacked, dry, spilled>>

-----------------------------------------------------------------------------
(* Reading a key *)

\* The PK reader takes PEM as a string of its own.
parse_copy ==
    /\ call.pc = "copy"
    /\ \/ MallocFails /\ Return("MEMORY") /\ UNCHANGED <<tmp, spilled>>
       \/ NoBackend /\ Fill("copy", Half(call.m)) /\ Goto([call EXCEPT !.pc = "read"])
    /\ UNCHANGED <<ready, pkey, live, store, out>>

\* What a failed read means; NOT_SUPPORTED stands for the three PK errors
\* about a key the reader recognises.
parse_status(e) ==
    IF e = "NOT_SUPPORTED" THEN "UNSUPPORTED" ELSE MemoryOr(e, "INVALID_ARGUMENT")

\* Mutant: the copy of the input is freed as it is.
parse_read_NoWipe ==
    /\ call.pc = "read"
    /\ zuc_int_calloc("SUCCESS")
    /\ Free("copy")
    /\ Goto([call EXCEPT !.pc = "attrs"])
    /\ UNCHANGED <<ready, pkey, live, store, out>>

\* As a private key, and if that fails and will do, as a public key.
parse_read ==
    /\ call.pc = "read"
    /\ \E first, second \in {"SUCCESS", "GENERIC", "NOT_SUPPORTED", "INSUFFICIENT_MEMORY"} :
          LET again  == first # "SUCCESS" /\ ~call.private
              result == IF again /\ (second = "SUCCESS" \/ parse_status(first) # "UNSUPPORTED")
                        THEN second ELSE first
              failed == {first} \union (IF again THEN {second} ELSE {})
          IN  /\ first = "SUCCESS" => call.arg \in {"der", "pem"} /\ call.m.private
              /\ second = "SUCCESS" => call.arg \in {"der", "pem"} /\ ~call.m.private
              /\ zuc_int_calloc(IF "INSUFFICIENT_MEMORY" \in failed THEN "INSUFFICIENT_MEMORY" ELSE "SUCCESS")
              /\ IF result = "SUCCESS" THEN Goto([call EXCEPT !.pc = "attrs"])
                 ELSE Return(parse_status(result))
    /\ WipeFree("copy")
    /\ UNCHANGED <<ready, pkey, live, store, out>>

\* The reader's key is described for import, or turns out to be of a kind the
\* build does not handle.
parse_attributes ==
    /\ call.pc = "attrs"
    /\ zuc_int_calloc("SUCCESS")
    /\ Goto([call EXCEPT !.pc = "load"]) \/ Return("UNSUPPORTED")
    /\ UNCHANGED <<ready, pkey, live, store, tmp, out, spilled>>

-----------------------------------------------------------------------------
(* A key in the backend's store, and a handle from it *)

\* A key that is read or passed in is refused in the same words whatever the
\* backend says of it.
LoadStatus(e) ==
    IF call.fn \in {"parse", "import"} THEN MemoryOr(e, "INVALID_ARGUMENT") ELSE zuc_int_from_psa(e)

AfterLoad ==
    IF call.fn \in Maker \/ call.pub THEN "from_psa"
    ELSE IF call.fn = "write" THEN "spki" ELSE "operate"

\* Mutant: an agreement whose own key cannot be loaded returns at once.
pkey_import_Returns ==
    /\ call.pc = "load"
    /\ \E e \in Psa :
          /\ zuc_int_calloc(e)
          /\ \/ /\ e = "SUCCESS"
                /\ store' = store \union {[key |-> call.m.key, private |-> call.m.private, usage |-> call.usage]}
                /\ Goto([call EXCEPT !.pc = AfterLoad])
             \/ /\ e # "SUCCESS"
                /\ Return(LoadStatus(e))
                /\ UNCHANGED store
    /\ UNCHANGED <<ready, pkey, live, tmp, spilled, out>>

\* psa_import_key(), psa_generate_key() or mbedtls_pk_import_into_psa() of the
\* material at hand.  pkey_agree_impl() frees the point and zeroes its output
\* when its own key, the last of two, cannot be loaded.
pkey_import ==
    /\ call.pc = "load"
    /\ \E e \in Psa :
          /\ zuc_int_calloc(e)
          /\ \/ /\ e = "SUCCESS"
                /\ store' = store \union {[key |-> call.m.key, private |-> call.m.private, usage |-> call.usage]}
                /\ Goto([call EXCEPT !.pc = AfterLoad])
                /\ UNCHANGED <<tmp, spilled, out>>
             \/ /\ e # "SUCCESS"
                /\ Return(LoadStatus(e))
                /\ IF call.fn = "agree" /\ ~call.pub
                   THEN Free("point") /\ out' = "zero"
                   ELSE UNCHANGED <<tmp, spilled, out>>
                /\ UNCHANGED store
    /\ UNCHANGED <<ready, pkey, live>>

\* The half of the stored key that is taken: of a private key the private
\* one, if the call wants it.
Taken == [key |-> call.m.key, private |-> call.m.private /\ call.private /\ ~call.pub]

\* The stored key's attributes are read, then the handle and a buffer for its
\* material are allocated.
from_psa_alloc ==
    /\ call.pc = "from_psa"
    /\ \/ /\ \/ \E e \in Error : zuc_int_calloc(e) /\ Return(zuc_int_from_psa(e))
             \/ NoBackend /\ Return("UNSUPPORTED")
             \/ MallocFails /\ Return("MEMORY")
          /\ store' = {}
          /\ UNCHANGED <<tmp, spilled>>
       \/ /\ NoBackend
          /\ Fill("buf", "blank")
          /\ Goto([call EXCEPT !.pc = "export"])
          /\ UNCHANGED store
    /\ UNCHANGED <<ready, pkey, live, out>>

\* Mutant: the stored key is always exported whole.
from_psa_export_Whole ==
    /\ call.pc = "export"
    /\ ~call.pub
    /\ zuc_int_calloc("SUCCESS")
    /\ \E h \in FreeHandle : pkey' = [pkey EXCEPT ![h] = call.m]
    /\ live' = live + 1
    /\ WipeFree("buf")
    /\ store' = {}
    /\ Return("OK")
    /\ UNCHANGED <<ready, out>>

\* The buffer becomes the handle's; a failed export wipes it.  Every caller
\* then destroys the stored key.
from_psa_export ==
    /\ call.pc = "export"
    /\ \E e \in Psa :
          /\ zuc_int_calloc(e)
          /\ \/ /\ e = "SUCCESS"
                /\ live' = live + 1
                /\ \/ /\ call.pub
                      /\ Goto([call EXCEPT !.pc = "steal"])
                      /\ UNCHANGED pkey
                   \/ /\ ~call.pub
                      /\ \E h \in FreeHandle : pkey' = [pkey EXCEPT ![h] = Taken]
                      /\ Return("OK")
             \/ /\ e # "SUCCESS"
                /\ Return(zuc_int_from_psa(e))
                /\ UNCHANGED <<pkey, live>>
    /\ WipeFree("buf")
    /\ store' = {}
    /\ UNCHANGED <<ready, out>>

-----------------------------------------------------------------------------
(* The public half, and the encodings *)

\* Where public_der() returns to.
AfterPoint ==
    CASE call.fn = "export" -> [call EXCEPT !.pc = "deliver", !.pub = FALSE]
      [] call.fn = "write"  -> [call EXCEPT !.pc = IF call.private THEN "encode" ELSE "deliver", !.pub = FALSE]
      [] OTHER              -> [call EXCEPT !.pc = "load", !.pub = FALSE, !.m = pkey[call.h], !.usage = "DERIVE"]

\* A public handle's material is copied; a private one's is loaded, and taken
\* through a handle of its own (call.pub).
public_der ==
    /\ call.pc = "point"
    /\ \/ /\ call.m.private
          /\ NoBackend
          /\ Goto([call EXCEPT !.pc = "load", !.pub = TRUE])
          /\ UNCHANGED <<tmp, spilled>>
       \/ /\ ~call.m.private
          /\ MallocFails
          /\ Return("MEMORY")
          /\ UNCHANGED <<tmp, spilled>>
       \/ /\ ~call.m.private
          /\ NoBackend
          /\ Fill("point", "public")
          /\ Goto(AfterPoint)
    /\ UNCHANGED <<ready, pkey, live, store, out>>

public_der_steal ==
    /\ call.pc = "steal"
    /\ live' = live - 1
    /\ Fill("point", "public")
    /\ Goto(AfterPoint)
    /\ NoBackend
    /\ UNCHANGED <<ready, pkey, store, out>>

\* SubjectPublicKeyInfo through the PK writer, from the stored key.
spki_der ==
    /\ call.pc = "spki"
    /\ \E e \in Psa :
          /\ zuc_int_calloc(e)
          /\ IF e = "SUCCESS" THEN Goto([call EXCEPT !.pc = "spki_write"])
             ELSE Return(MemoryOr(e, "BACKEND"))
    /\ store' = {}
    /\ UNCHANGED <<ready, pkey, live, tmp, out, spilled>>

spki_der_write ==
    /\ call.pc = "spki_write"
    /\ \/ MallocFails /\ Return("MEMORY") /\ UNCHANGED <<tmp, spilled>>
       \/ \E e \in Psa :
             /\ zuc_int_calloc(e)
             /\ \/ e = "SUCCESS" /\ Fill("der", "public") /\ Goto([call EXCEPT !.pc = "deliver"])
                \/ e # "SUCCESS" /\ Return(MemoryOr(e, "BACKEND")) /\ UNCHANGED <<tmp, spilled>>
    /\ UNCHANGED <<ready, pkey, live, store, out>>

\* A private encoding (RSAPrivateKey, pkcs8_wrap(), ec_sec1(), the X25519
\* form) in a buffer of its own; ec_encode() is done with the point then.
\* pkcs8_wrap() also refuses lengths that no key of this build has.
ec_encode ==
    /\ call.pc = "encode"
    /\ UNCHANGED spilled
    /\ \/ MallocFails /\ Return("MEMORY") /\ tmp' = [tmp EXCEPT !["point"] = "none"]
       \/ /\ NoBackend
          /\ tmp' = [tmp EXCEPT !["point"] = "none", !["der"] = "private"]
          /\ Goto([call EXCEPT !.pc = "deliver"])
    /\ UNCHANGED <<ready, pkey, live, store, out>>

\* What is delivered: an encoding, the point, or the handle's own material.
Delivered ==
    IF tmp["der"] # "none" THEN tmp["der"] ELSE IF tmp["point"] # "none" THEN tmp["point"] ELSE Half(call.m)

export_deliver ==
    /\ call.pc = "deliver" /\ call.fn = "export"
    /\ NoBackend
    /\ IF call.small THEN Return("BAD_LENGTH") /\ UNCHANGED out
       ELSE Return("OK") /\ out' = Delivered
    /\ Free("point")
    /\ UNCHANGED <<ready, pkey, live, store>>

\* DER is copied, PEM is written by the backend; the encoding is wiped and, on
\* failure, the output zeroed.
write_deliver ==
    /\ call.pc = "deliver" /\ call.fn = "write"
    /\ tmp' = [tmp EXCEPT !["der"] = "none", !["point"] = "none"]
    /\ \/ /\ call.arg \in {"PKCS1_DER", "INFO_DER"}
          /\ NoBackend
          /\ IF call.small THEN Return("BAD_LENGTH") /\ out' = "zero"
             ELSE Return("OK") /\ out' = Delivered
       \/ /\ call.arg \in {"PKCS1_PEM", "INFO_PEM"}
          /\ \E e \in Psa :
                /\ call.small => e # "SUCCESS"
                /\ zuc_int_calloc(e)
                /\ CASE e = "SUCCESS"          -> Return("OK") /\ out' = Delivered
                     [] e = "BUFFER_TOO_SMALL" -> Return("BAD_LENGTH") /\ out' = "zero"
                     [] OTHER                  -> Return("BACKEND") /\ out' = "zero"
    /\ UNCHANGED <<ready, pkey, live, store, spilled>>

-----------------------------------------------------------------------------
(* Operations *)

\* The backend's operation ends with e, and the key is destroyed.
Operate(fn, e) ==
    /\ call.pc = "operate" /\ call.fn = fn
    /\ zuc_int_calloc(e)
    /\ store' = {}
    /\ UNCHANGED <<ready, pkey, live>>

sign_operate ==
    /\ \E e \in Psa :
          /\ Operate("sign", e)
          /\ Return(zuc_int_from_psa(e))
          /\ out' = IF e = "SUCCESS" THEN "result" ELSE "zero"
    /\ UNCHANGED <<tmp, spilled>>

\* The backend accepts valid signatures only.  It refuses a valid one only
\* where an allocation failed; an integer out of range is an invalid argument.
verify_operate ==
    /\ \E e \in Psa :
          /\ Operate("verify", e)
          /\ e = "SUCCESS" => call.truth = "valid"
          /\ e \in {"INVALID_SIGNATURE", "INVALID_ARGUMENT"} => (call.truth = "invalid" \/ alloc_failed')
          /\ Return(IF e \in {"INVALID_SIGNATURE", "INVALID_ARGUMENT"} THEN "AUTH" ELSE zuc_int_from_psa(e))
    /\ UNCHANGED <<tmp, out, spilled>>

encrypt_operate ==
    /\ \E e \in Psa :
          /\ Operate("encrypt", e)
          /\ Return(IF e = "INVALID_ARGUMENT" THEN "BAD_LENGTH" ELSE zuc_int_from_psa(e))
          /\ out' = IF e = "SUCCESS" THEN "result" ELSE "zero"
    /\ UNCHANGED <<tmp, spilled>>

\* Every failure but one is AUTH.
decrypt_operate ==
    /\ \E e \in Psa :
          /\ Operate("decrypt", e)
          /\ e = "SUCCESS" => call.truth = "valid" /\ ~call.small
          /\ Return(IF e = "SUCCESS" THEN "OK" ELSE MemoryOr(e, "AUTH"))
          /\ out' = IF e = "SUCCESS" THEN "result" ELSE "zero"
    /\ UNCHANGED <<tmp, spilled>>

\* Mutant: the shared secret is not looked at.
agree_operate_Unchecked ==
    /\ \E secret \in {"result", "zero"} :
          /\ Operate("agree", "SUCCESS")
          /\ secret = "zero" => Type[pkey[call.h].key] = "X25519"
          /\ Return("OK")
          /\ out' = secret
    /\ Free("point")

\* An all-zero secret, which only X25519 can give, is refused.
agree_operate ==
    /\ \E e \in Psa, secret \in {"result", "zero"} :
          /\ Operate("agree", e)
          /\ secret = "zero" => Type[pkey[call.h].key] = "X25519"
          /\ IF e = "SUCCESS" /\ secret = "result" THEN Return("OK") /\ out' = "result"
             ELSE Return(MemoryOr(e, "INVALID_ARGUMENT")) /\ out' = "zero"
    /\ Free("point")

-----------------------------------------------------------------------------

\* zuc_init() and zuc_shutdown() between calls: the handles stay good.
Window ==
    /\ call = Idle
    /\ ready' = ~ready
    /\ UNCHANGED <<pkey, live, store, alloc_failed, tmp, out, call, ret, lacked, dry, spilled>>

\* Another part of the library runs out of memory inside the backend.
OtherCall ==
    /\ call = Idle
    /\ ready
    /\ alloc_failed' = TRUE
    /\ UNCHANGED <<ready, pkey, live, store, tmp, out, call, ret, lacked, dry, spilled>>

Makes ==
    /\ FreeHandle # {}
    /\ \/ \E k \in Key, private, wanted \in BOOLEAN, in \in Input : zuc_pkey_parse(k, private, wanted, in)
       \/ \E k \in Key, known, small \in BOOLEAN : zuc_pkey_generate(k, known, small)
       \/ \E k \in Key, private, null, known \in BOOLEAN : zuc_pkey_import(k, private, null, known)
       \/ \E h \in Handle : zuc_pkey_public(h)

Uses(h) ==
    \/ zuc_pkey_free(h)
    \/ \E fmt \in Format, public_only, small \in BOOLEAN : zuc_pkey_write(h, fmt, public_only, small)
    \/ \E public_only, small \in BOOLEAN : zuc_pkey_export(h, public_only, small)
    \/ \E scheme \in Scheme, small \in BOOLEAN : zuc_pkey_sign_hash(h, scheme, small)
    \/ \E scheme \in Scheme, truth \in Truth, small \in BOOLEAN : zuc_pkey_verify_hash(h, scheme, truth, small)
    \/ \E scheme \in Scheme, small \in BOOLEAN : zuc_pkey_encrypt(h, scheme, small)
    \/ \E scheme \in Scheme, truth \in Truth, small \in BOOLEAN : zuc_pkey_decrypt(h, scheme, truth, small)
    \/ \E peer \in Handle, small \in BOOLEAN : zuc_pkey_agree(h, peer, small)

Steps ==
    \/ parse_copy \/ parse_read \/ parse_attributes
    \/ pkey_import \/ from_psa_alloc \/ from_psa_export
    \/ public_der \/ public_der_steal \/ spki_der \/ spki_der_write \/ ec_encode
    \/ export_deliver \/ write_deliver
    \/ sign_operate \/ verify_operate \/ encrypt_operate \/ decrypt_operate \/ agree_operate

Next ==
    \/ Window
    \/ OtherCall
    \/ Makes
    \/ \E h \in Handle : Uses(h)
    \/ Steps

Spec == Init /\ [][Next]_vars

-----------------------------------------------------------------------------
(* Properties *)

Done == call = Idle /\ ret.call.fn # "none"

\* Each operation loads its key for that one operation and removes it again,
\* on every path: no key is in the backend's store between calls, and never
\* two at once, though an agreement with a private peer loads two.  No temporary
\* buffer outlives its call, and the live count is the caller's handles and the
\* one public_der() makes for itself, so it is exact whenever the caller can look.
Accounted ==
    /\ call = Idle => store = {} /\ tmp = [b \in Buffer |-> "none"]
    /\ Cardinality(store) <= 1
    /\ live = Cardinality({h \in Handle : Held(h)}) + (IF call.pc = "steal" THEN 1 ELSE 0)

\* A call returns ZUC_ERR_MEMORY exactly when it failed and an allocation
\* failed during it: never for one that failed in an earlier call or that
\* another part of the library met, never another status for a failure the
\* backend reported as a bad key or bad padding.
MemoryHonest ==
    Done /\ ret.st # "OK" => (ret.st = "MEMORY" <=> lacked)

\* No path frees memory that still holds a private key.
FreedClean == ~spilled

\* A failed call leaves the output as it was or zeroed, and a successful one
\* leaves a whole result, never an all-zero secret.
NothingHalfMade ==
    Done => IF ret.st # "OK" THEN out \in {"before", "zero"}
            ELSE ret.call.fn \notin Maker \union {"verify"} => out \notin {"before", "zero"}

\* The private half leaves a handle only where the call asked for it, and a
\* handle holds it only where the call that made the handle asked for it.
HalfRespected ==
    Done /\ ret.st = "OK" =>
        /\ out = "private" => ret.call.private /\ pkey[ret.call.h].private
        /\ ret.call.fn \in {"write", "export"} /\ ret.call.private => out = "private"

\* A handle that is made holds the half that was asked for: the public one of
\* whatever was read, unless a private key was wanted.
MadeAsAsked ==
    [][\A h \in Handle : Held(h)' /\ ~Held(h) =>
          /\ ret'.st = "OK" /\ ret'.call.fn \in Maker
          /\ pkey[h]' = [key |-> ret'.call.m.key, private |-> ret'.call.private]]_vars

\* A verdict on a signature is right whatever fails: OK only for a valid one,
\* ZUC_ERR_AUTH only for one that is not.
VerdictTrue ==
    Done /\ ret.call.fn = "verify" =>
        /\ ret.st = "OK" => ret.call.truth = "valid"
        /\ ret.st = "AUTH" => ret.call.truth # "valid"

\* zuc_crypto_config.h, of RSA key generation, signing, encryption and the
\* blinding of a decryption: "a failure of the operating system's RNG is
\* ZUC_ERR_ENTROPY there too".
EntropyReported ==
    Done /\ ret.call.fn \in {"generate", "sign", "encrypt", "decrypt"} =>
        (ret.st # "OK" /\ dry /\ ~lacked => ret.st = "ENTROPY")

\* A failure that is not about the arguments.
Broke(fn) == Done /\ ret.call.fn = fn /\ ret.st \in {"MEMORY", "BACKEND", "INTERNAL", "ENTROPY", "AUTH"}

\* zucrypt.h, of zuc_pkey_decrypt(): "on any failure the whole output buffer is
\* zeroed", and of zuc_pkey_agree(): "On failure the output is zeroed".
FailureZeroes == Broke("decrypt") \/ Broke("agree") => out = "zero"

\* What the caller asked for in call c.
Asked(c) ==
    [fn |-> c.fn, h |-> c.h, peer |-> c.peer, private |-> c.private, arg |-> c.arg,
     truth |-> c.truth, small |-> c.small, m |-> IF c.fn \in Maker THEN c.m ELSE NoMaterial]

Contract ==
    INSTANCE PKeyContract WITH
        phase <- IF call.pc = "idle" THEN "returned" ELSE "called",
        req   <- Asked(IF call.pc = "idle" THEN ret.call ELSE call),
        st    <- IF call.pc = "idle" THEN ret.st ELSE "none"

\* The functions of zuc_pkey.c do what zucrypt.h promises of them: a call that
\* the arguments do not warrant is refused, in the words its defects deserve,
\* before anything is done, any other is carried out; whatever fails on the
\* way, the caller sees only the state before the call and one of the ends the
\* header allows, with the cause told truly.
MeetsContract == Contract!Spec

=============================================================================
