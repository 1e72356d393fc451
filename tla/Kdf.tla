--------------------------------- MODULE Kdf ---------------------------------
(***************************************************************************)
(* Key derivation: zuc_pbkdf2_hmac() (zuc_kdf.c), called from C, or from R *)
(* through zucrypt_pbkdf2() (zucrypt_crypt.c) and crypt_pbkdf2() (kdf.R).  *)
(*                                                                         *)
(* The backend's derivation is a machine of its own that takes the cost,   *)
(* the salt and the password in this order before it gives anything, may   *)
(* fail at each, and stays allocated until it is aborted.                  *)
(***************************************************************************)
EXTENDS Naturals

CONSTANT Mod    \* 2^32: iterations are a uint32_t; a double in R

ASSUME ModAssumption == Mod \in Nat \ {0, 1}

VARIABLES
    req,     \* the call's arguments
    pc,
    op,      \* the backend's operation: what it was given
    out,     \* the caller's output buffer
    ps,      \* the last psa_status_t
    st,      \* what the call returns
    fault    \* ghost: the backend failed of its own

vars == <<req, pc, op, out, ps, st, fault>>

\* via: "R" or "C"; null: a NULL buffer with a length, or no output buffer;
\* empty: out_len is 0; known: the build has the digest.
Request == [via: {"R", "C"}, ready: BOOLEAN, null: BOOLEAN, iterations: 0..Mod, empty: BOOLEAN, known: BOOLEAN]

NoRequest == [via |-> "C", ready |-> FALSE, null |-> FALSE, iterations |-> 0, empty |-> FALSE, known |-> FALSE]

Operation == [active: BOOLEAN, cost: 0..Mod - 1, salt: BOOLEAN, password: BOOLEAN]

Inactive == [active |-> FALSE, cost |-> 0, salt |-> FALSE, password |-> FALSE]

Error == {"INSUFFICIENT_MEMORY", "NOT_SUPPORTED", "BAD_STATE", "GENERIC"}

zuc_int_from_psa(e) ==
    CASE e = "SUCCESS"             -> "OK"
      [] e = "INSUFFICIENT_MEMORY" -> "MEMORY"
      [] e = "NOT_SUPPORTED"       -> "UNSUPPORTED"
      [] e = "BAD_STATE"           -> "INTERNAL"
      [] OTHER                     -> "BACKEND"

\* out.from: the cost a derived key was made with.
Output == [kind: {"before", "partial", "derived", "zero"}, from: 0..Mod - 1]

Plain(kind) == [kind |-> kind, from |-> 0]

TypeOK ==
    /\ req \in Request
    /\ pc \in {"idle", "setup", "cost", "salt", "password", "output", "abort"}
    /\ op \in Operation
    /\ out \in Output
    /\ ps \in Error \union {"SUCCESS"}
    /\ st \in {"none", "OK", "NOT_READY", "INVALID_ARGUMENT", "BAD_LENGTH", "UNSUPPORTED",
               "MEMORY", "INTERNAL", "BACKEND"}
    /\ fault \in BOOLEAN

Init ==
    /\ req = NoRequest
    /\ pc = "idle"
    /\ op = Inactive
    /\ out = Plain("before")
    /\ ps = "SUCCESS"
    /\ st = "none"
    /\ fault = FALSE

-----------------------------------------------------------------------------

\* What crypt_pbkdf2() and zucrypt_pbkdf2() let through: whole numbers in
\* range, the output they allocate themselves, while the package is loaded.
zucrypt_pbkdf2(r) == r.iterations \in 1..Mod - 1 /\ ~r.null /\ ~r.empty /\ r.ready

\* The checks, in their order.
Checked(r, iterations) ==
    IF ~r.ready THEN "NOT_READY"
    ELSE IF r.null \/ iterations = 0 THEN "INVALID_ARGUMENT"
    ELSE IF r.empty THEN "BAD_LENGTH"
    ELSE IF ~r.known THEN "UNSUPPORTED"
    ELSE "OK"

zuc_pbkdf2_hmac(r) ==
    /\ pc = "idle"
    /\ IF r.via = "R" THEN zucrypt_pbkdf2(r) ELSE r.iterations < Mod
    /\ req' = r
    /\ op' = Inactive
    /\ out' = Plain("before")
    /\ ps' = "SUCCESS"
    /\ fault' = FALSE
    /\ IF Checked(r, r.iterations % Mod) = "OK"
       THEN pc' = "setup" /\ st' = "none"
       ELSE pc' = "idle" /\ st' = Checked(r, r.iterations % Mod)

\* A backend call: it is out of order, fails, or goes on with the operation.
Backend(at, ordered, next, then) ==
    /\ pc = at
    /\ IF ordered
       THEN \/ ps' = "SUCCESS" /\ op' = next /\ pc' = then /\ UNCHANGED fault
            \/ ps' \in Error /\ fault' = TRUE /\ pc' = "abort" /\ UNCHANGED op
       ELSE ps' = "BAD_STATE" /\ pc' = "abort" /\ UNCHANGED <<op, fault>>
    /\ UNCHANGED <<req, st>>

setup == Backend("setup", TRUE, [Inactive EXCEPT !.active = TRUE], "cost") /\ UNCHANGED out

\* Mutant: the count passes through a signed integer.
input_cost_Signed ==
    Backend("cost", op.active, [op EXCEPT !.cost = req.iterations % (Mod \div 2)], "salt") /\ UNCHANGED out

input_cost == Backend("cost", op.active, [op EXCEPT !.cost = req.iterations % Mod], "salt") /\ UNCHANGED out

input_salt == Backend("salt", op.cost # 0, [op EXCEPT !.salt = TRUE], "password") /\ UNCHANGED out

input_password == Backend("password", op.salt, [op EXCEPT !.password = TRUE], "output") /\ UNCHANGED out

\* A derivation that fails half-way has written some of the output.
output_bytes ==
    /\ Backend("output", op.password, op, "abort")
    /\ \/ ps' = "SUCCESS" /\ out' = [kind |-> "derived", from |-> op.cost]
       \/ ps' # "SUCCESS" /\ out' \in {out, Plain("partial")}

\* Mutant: the operation is aborted only after a failure.
abort_FailureOnly ==
    /\ pc = "abort"
    /\ op' = IF ps # "SUCCESS" THEN Inactive ELSE op
    /\ out' = IF ps # "SUCCESS" THEN Plain("zero") ELSE out
    /\ st' = zuc_int_from_psa(ps)
    /\ pc' = "idle"
    /\ UNCHANGED <<req, ps, fault>>

abort ==
    /\ pc = "abort"
    /\ op' = Inactive
    /\ out' = IF ps # "SUCCESS" THEN Plain("zero") ELSE out
    /\ st' = zuc_int_from_psa(ps)
    /\ pc' = "idle"
    /\ UNCHANGED <<req, ps, fault>>

Next ==
    \/ \E r \in Request : zuc_pbkdf2_hmac(r)
    \/ setup \/ input_cost \/ input_salt \/ input_password \/ output_bytes
    \/ abort

Spec == Init /\ [][Next]_vars

-----------------------------------------------------------------------------
(* Properties *)

Returned == pc = "idle" /\ st # "none"

\* A key is returned only after the derivation was given its three inputs, and
\* with the very number of iterations the caller asked for, whether it came as
\* a uint32_t or as a double from R.
DerivedAsAsked ==
    Returned /\ st = "OK" => out = [kind |-> "derived", from |-> req.iterations]

\* "If the derivation itself fails, all out_len bytes of out are zeroed; an
\* argument error writes nothing", which the caller can tell apart by what it
\* passed.
FailureZeroes ==
    Returned /\ st # "OK" =>
        out = Plain(IF Checked(req, req.iterations) = "OK" THEN "zero" ELSE "before")

\* A call that passes the checks fails only when the backend does: the inputs
\* are never given in an order the backend refuses.
FailsWithCause == pc = "abort" /\ ps # "SUCCESS" => fault

\* No derivation stays allocated in the backend behind a call.
NoneActive == pc = "idle" => ~op.active

\* A call that ends leaves neither a part of the key nor the password behind.
NothingLeft == FailureZeroes /\ NoneActive

=============================================================================
