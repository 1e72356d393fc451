---------------------------- MODULE PKeyContract -----------------------------
(***************************************************************************)
(* What zucrypt.h promises of the public-key functions: a call is refused  *)
(* as it is made, or it is under way and then, in one step, fails or       *)
(* completes.  A handle is made, and the output written, by the step that  *)
(* returns.                                                                *)
(***************************************************************************)
EXTENDS PKeyData

VARIABLES
    ready,   \* the backend is up
    pkey,    \* the material each handle holds
    phase,   \* "called" or "returned"
    req,     \* the request under way, or the last one
    out,     \* the caller's output buffer
    st,      \* what the last call returned
    lacked,  \* an allocation failed during the call
    dry      \* the random source failed during the call

vars == <<ready, pkey, phase, req, out, st, lacked, dry>>

Held(h) == pkey[h] # NoMaterial

\* m: for a call that makes a handle, the key it is given, names or draws;
\* private: the half that is asked for.
Request == [fn: Fn, h: Handle \union {NoHandle}, peer: Handle \union {NoHandle}, private: BOOLEAN,
            arg: Format \union Input \union Scheme, truth: Truth, small: BOOLEAN,
            m: Material \union {NoMaterial}]

NoRequest == [fn |-> "none", h |-> NoHandle, peer |-> NoHandle, private |-> FALSE, arg |-> "none",
              truth |-> "valid", small |-> FALSE, m |-> NoMaterial]

\* The caller passes handles it has, and gets the private half only of a
\* handle that holds one.
Asks(r) ==
    /\ r \in Request
    /\ r.fn # "none"
    /\ r.fn \notin {"parse", "generate", "import"} => r.h \in Handle /\ Held(r.h)
    /\ r.fn = "agree" => r.peer \in Handle /\ Held(r.peer)
    /\ r.fn \in {"write", "export"} /\ r.private => pkey[r.h].private
    /\ r.fn = "public" => r.m = pkey[r.h] /\ ~r.private

TypeOf(h) == Type[pkey[h].key]

Nist == {"P256", "P384", "P521"}

Fits(h, scheme) ==
    (scheme = "rsa" /\ TypeOf(h) = "RSA") \/ (scheme = "ecdsa" /\ TypeOf(h) \in Nist)

\* "Signing needs a private key", "Decryption needs a private key", the secret
\* "of private key and peer, which must be on the same curve".
Invalid(r) ==
    \/ r.fn = "parse" /\ r.arg \in {"null", "nul"}
    \/ r.fn \in {"sign", "decrypt", "agree"} /\ ~pkey[r.h].private
    \/ r.fn \in {"sign", "verify"} /\ ~Fits(r.h, r.arg)
    \/ r.fn = "agree" /\ TypeOf(r.peer) # TypeOf(r.h)
    \/ r.fn = "write" /\ r.arg = "other"

\* "There is no such encoding of an EC public key or of an X25519 key", "EC
\* keys do not encrypt".
Unsupported(r) ==
    \/ r.fn \in {"sign", "verify", "encrypt", "decrypt"} /\ r.arg = "none"
    \/ r.fn \in {"encrypt", "decrypt"} /\ TypeOf(r.h) # "RSA"
    \/ r.fn = "agree" /\ TypeOf(r.h) = "RSA"
    \/ /\ r.fn = "write" /\ r.arg \in {"PKCS1_DER", "PKCS1_PEM"}
       /\ TypeOf(r.h) = "X25519" \/ (TypeOf(r.h) \in Nist /\ ~r.private)

\* The statuses the arguments deserve; which one is reported of several is
\* open.
Grounds(r) ==
    {s \in {"INVALID_ARGUMENT", "UNSUPPORTED", "BAD_LENGTH", "AUTH"} :
        \/ s = "INVALID_ARGUMENT" /\ Invalid(r)
        \/ s = "UNSUPPORTED" /\ Unsupported(r)
        \/ s = "BAD_LENGTH" /\ r.fn \in {"generate", "sign", "verify", "encrypt", "agree"} /\ r.small
        \/ s = "AUTH" /\ r.fn = "verify" /\ r.truth = "length"}

\* Arguments a request does not record: the algorithm of a new key, and NULL.
Unseen(fn) ==
    CASE fn = "generate" -> {"UNSUPPORTED"}
      [] fn = "import"   -> {"INVALID_ARGUMENT", "UNSUPPORTED"}
      [] OTHER           -> {}

Init ==
    /\ ready = FALSE
    /\ pkey = [h \in Handle |-> NoMaterial]
    /\ phase = "returned"
    /\ req = NoRequest
    /\ out = "before"
    /\ st = "OK"
    /\ lacked = FALSE
    /\ dry = FALSE

\* A call of a request that is refused at once, or goes on.
Refuse(r) ==
    /\ phase' = "returned"
    /\ IF ready THEN st' \in Grounds(r) \union Unseen(r.fn) ELSE st' = "NOT_READY"

Start(r) ==
    /\ ready /\ Grounds(r) = {}
    /\ phase' = "called"
    /\ st' = "none"

Call ==
    /\ phase = "returned"
    /\ \E r \in {req'} : Asks(r) /\ (Refuse(r) \/ Start(r))
    /\ out' = "before"
    /\ lacked' = FALSE /\ dry' = FALSE
    /\ UNCHANGED <<ready, pkey>>

Return(status) ==
    /\ phase = "called"
    /\ phase' = "returned"
    /\ st' = status
    /\ lacked => lacked'
    /\ UNCHANGED <<ready, req>>

\* A failure to allocate is told as such and as nothing else; that of the
\* random source is ZUC_ERR_ENTROPY, which nothing else is, wherever bytes are
\* drawn for a result.  A valid signature is not refused, and no handle is made.
Fail ==
    /\ \E s \in Status \ {"OK", "NOT_READY"} :
          /\ Return(s)
          /\ s = "MEMORY" <=> lacked'
          /\ s = "ENTROPY" => dry'
          /\ dry' /\ ~lacked' /\ req.fn \in {"generate", "sign", "encrypt"} => s = "ENTROPY"
          /\ s = "AUTH" => req.fn = "decrypt" \/ (req.fn = "verify" /\ req.truth # "valid")
    /\ out' \in {"before", "zero"}
    /\ UNCHANGED pkey

\* A new handle holds the half that was asked for.  Of what is read, "the input
\* must hold a private key" where one is, and "only the public half is kept"
\* where not.
Make ==
    /\ req.fn \in Maker
    /\ req.fn = "parse" => req.arg \in {"der", "pem"}
    /\ req.private => req.m.private
    /\ \E h \in Handle :
          /\ ~Held(h)
          /\ pkey' = [pkey EXCEPT ![h] = [key |-> req.m.key, private |-> req.private]]
    /\ UNCHANGED out

Give ==
    /\ req.fn \in {"write", "export"}
    /\ ~req.small
    /\ out' = IF req.private THEN "private" ELSE "public"
    /\ UNCHANGED pkey

Operate ==
    /\ req.fn \in {"sign", "encrypt", "decrypt", "agree"}
    /\ req.fn = "decrypt" => req.truth = "valid" /\ ~req.small
    /\ out' = "result"
    /\ UNCHANGED pkey

Verify ==
    /\ req.fn = "verify"
    /\ req.truth = "valid"
    /\ UNCHANGED <<out, pkey>>

Complete == Return("OK") /\ ~dry' /\ (Make \/ Give \/ Operate \/ Verify)

\* Under way, a call may miss an allocation that it can do without.
Lack ==
    /\ phase = "called"
    /\ lacked' = TRUE
    /\ UNCHANGED <<ready, pkey, phase, req, out, st, dry>>

Free(h) ==
    /\ phase = "returned"
    /\ Held(h)
    /\ pkey' = [pkey EXCEPT ![h] = NoMaterial]
    /\ req' = NoRequest
    /\ st' = "OK"
    /\ UNCHANGED <<ready, phase, out, lacked, dry>>

\* The backend comes up or goes down; handles outlive it.
Window ==
    /\ phase = "returned"
    /\ ready' = ~ready
    /\ UNCHANGED <<pkey, phase, req, out, st, lacked, dry>>

Next == Call \/ Fail \/ Complete \/ Lack \/ (\E h \in Handle : Free(h)) \/ Window

Spec == Init /\ [][Next]_vars

=============================================================================
