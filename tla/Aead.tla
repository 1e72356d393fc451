-------------------------------- MODULE Aead ---------------------------------
(***************************************************************************)
(* One-shot authenticated encryption (zuc_aead.c), one backend call per    *)
(* step.  Decryption writes plaintext before the tag has been checked, so  *)
(* what matters is what is left in the caller's buffers, in the key store  *)
(* and in the backend's operation when the call returns, whichever step    *)
(* failed.                                                                 *)
(***************************************************************************)

Defect == {"null", "alg", "length", "tag", "overlap"}

\* The statuses of backend calls that have no meaning of their own.
Failure == {"MEMORY", "BACKEND"}

VARIABLES
    pc,     \* the call that comes next in aead_run(), or "returned"
    req,    \* the request, as in AeadContract
    key,    \* the transient key is in the backend's store
    op,     \* the backend's operation is set up
    out,    \* what the output buffer holds
    tag,    \* what the tag buffer holds
    short,  \* fewer bytes of output or of tag in all than were asked for
    ps,     \* the backend's status
    st      \* the status returned

vars == <<pc, req, key, op, out, tag, short, ps, st>>

Contract ==
    INSTANCE AeadContract WITH
        phase <- IF pc = "returned" THEN "returned" ELSE "called",
        out   <- IF pc = "returned" THEN out ELSE "prior",
        tag   <- IF pc = "returned" THEN tag ELSE "prior",
        st    <- IF pc = "returned" THEN st ELSE "none"

Request == Contract!Request

Step == {"check", "import", "setup", "nonce", "ad", "update", "final", "cleanup", "wipe", "returned"}

Status == Failure \union {"none", "OK", "NOT_READY", "INVALID_ARGUMENT", "UNSUPPORTED",
                          "BAD_LENGTH", "AUTH", "OVERLAP", "INTERNAL"}

TypeOK ==
    /\ pc \in Step
    /\ req \in Request
    /\ key \in BOOLEAN
    /\ op \in BOOLEAN
    /\ out \in {"prior", "partial", "plaintext", "ciphertext", "zero"}
    /\ tag \in {"prior", "made", "junk", "zero"}
    /\ short \in BOOLEAN
    /\ ps \in Failure \union {"SUCCESS", "INVALID_SIGNATURE"}
    /\ st \in Status

Init ==
    /\ pc = "returned"
    /\ req \in Request
    /\ key = FALSE
    /\ op = FALSE
    /\ out = "prior"
    /\ tag = "prior"
    /\ short = FALSE
    /\ ps = "SUCCESS"
    /\ st = "none"

\* The caller makes a call, with buffers of its own.
Call ==
    /\ pc = "returned"
    /\ pc' = "check"
    /\ req' \in Request
    /\ out' = "prior"
    /\ tag' = "prior"
    /\ short' = FALSE
    /\ ps' = "SUCCESS"
    /\ st' = "none"
    /\ UNCHANGED <<key, op>>

\* The early returns, in their order.  A received tag of another length is an
\* authentication failure.
check_aead_args(r) ==
    IF ~r.ready THEN "NOT_READY"
    ELSE IF "null" \in r.bad THEN "INVALID_ARGUMENT"
    ELSE IF "alg" \in r.bad THEN "UNSUPPORTED"
    ELSE IF "length" \in r.bad THEN "BAD_LENGTH"
    ELSE IF "tag" \in r.bad THEN (IF r.encrypt THEN "BAD_LENGTH" ELSE "AUTH")
    ELSE IF "overlap" \in r.bad THEN "OVERLAP"
    ELSE "OK"

Check ==
    /\ pc = "check"
    /\ st' = check_aead_args(req)
    /\ pc' = IF st' = "OK" THEN "import" ELSE "returned"
    /\ UNCHANGED <<req, key, op, out, tag, short, ps>>

import_aead_key ==
    /\ pc = "import"
    /\ \/ /\ key' = TRUE
          /\ pc' = "setup"
          /\ UNCHANGED st
       \/ /\ \E s \in Failure : st' = s
          /\ pc' = "wipe"
          /\ UNCHANGED key
    /\ UNCHANGED <<req, op, out, tag, short, ps>>

\* A backend call of aead_run() that succeeds goes on to next; after a failure
\* only the clean-up is left.
Succeeds(next) == pc' = next /\ UNCHANGED ps

\* Mutant: a failure returns past the clean-up.
FailsWith_Returns(s) == pc' = "wipe" /\ ps' = s

FailsWith(s) == pc' = "cleanup" /\ ps' = s

psa_aead_setup ==
    /\ pc = "setup"
    /\ \/ op' = TRUE /\ Succeeds("nonce")
       \/ \E s \in Failure : FailsWith(s) /\ UNCHANGED op
    /\ UNCHANGED <<req, key, out, tag, short, st>>

psa_aead_set_nonce ==
    /\ pc = "nonce"
    /\ \/ Succeeds(IF req.aad THEN "ad" ELSE IF req.empty THEN "final" ELSE "update")
       \/ \E s \in Failure : FailsWith(s)
    /\ UNCHANGED <<req, key, op, out, tag, short, st>>

psa_aead_update_ad ==
    /\ pc = "ad"
    /\ \/ Succeeds(IF req.empty THEN "final" ELSE "update")
       \/ \E s \in Failure : FailsWith(s)
    /\ UNCHANGED <<req, key, op, out, tag, short, st>>

\* A failed update may have written part of its output.
psa_aead_update ==
    /\ pc = "update"
    /\ \/ /\ Succeeds("final")
          /\ \/ short' = FALSE /\ out' = IF req.encrypt THEN "ciphertext" ELSE "plaintext"
             \/ short' = TRUE /\ out' = "partial"
       \/ /\ \E s \in Failure : FailsWith(s)
          /\ out' \in {out, "partial"}
          /\ UNCHANGED short
    /\ UNCHANGED <<req, key, op, tag, st>>

\* psa_aead_finish() and psa_aead_verify() abort the operation on every path.
psa_aead_finish ==
    /\ pc = "final" /\ req.encrypt
    /\ \/ Succeeds("cleanup") /\ tag' = "made" /\ UNCHANGED short
       \/ Succeeds("cleanup") /\ tag' = "junk" /\ short' = TRUE
       \/ \E s \in Failure : FailsWith(s) /\ tag' \in {tag, "junk"} /\ UNCHANGED short
    /\ op' = FALSE
    /\ UNCHANGED <<req, key, out, st>>

psa_aead_verify ==
    /\ pc = "final" /\ ~req.encrypt
    /\ \/ req.genuine /\ Succeeds("cleanup")
       \/ ~req.genuine /\ FailsWith("INVALID_SIGNATURE")
       \/ \E s \in Failure : FailsWith(s)
    /\ op' = FALSE
    /\ UNCHANGED <<req, key, out, tag, short, st>>

\* The rest of aead_run().
Cleanup ==
    /\ pc = "cleanup"
    /\ op' = (op /\ ps = "SUCCESS")    \* psa_aead_abort()
    /\ key' = FALSE
    /\ st' = CASE ps = "INVALID_SIGNATURE" -> "AUTH"
               [] ps \in Failure -> ps
               [] ps = "SUCCESS" /\ short -> "INTERNAL"
               [] ps = "SUCCESS" /\ ~short -> "OK"
    /\ pc' = "wipe"
    /\ UNCHANGED <<req, out, tag, short, ps>>

\* Mutant: the output is zeroed only on encryption.
Wipe_EncryptOnly ==
    /\ pc = "wipe"
    /\ out' = IF st # "OK" /\ ~req.empty /\ req.encrypt THEN "zero" ELSE out
    /\ tag' = IF st # "OK" /\ req.encrypt THEN "zero" ELSE tag
    /\ pc' = "returned"
    /\ UNCHANGED <<req, key, op, short, ps, st>>

\* The rest of zuc_aead_encrypt() and zuc_aead_decrypt().
Wipe ==
    /\ pc = "wipe"
    /\ out' = IF st # "OK" /\ ~req.empty THEN "zero" ELSE out
    /\ tag' = IF st # "OK" /\ req.encrypt THEN "zero" ELSE tag
    /\ pc' = "returned"
    /\ UNCHANGED <<req, key, op, short, ps, st>>

aead_run ==
    \/ import_aead_key
    \/ psa_aead_setup
    \/ psa_aead_set_nonce
    \/ psa_aead_update_ad
    \/ psa_aead_update
    \/ psa_aead_finish
    \/ psa_aead_verify
    \/ Cleanup

Next == Call \/ Check \/ aead_run \/ Wipe

Spec == Init /\ [][Next]_vars

-----------------------------------------------------------------------------
(* Properties *)

\* When a call returns, the key it imported is destroyed and the operation
\* aborted, whichever step failed.
NothingLeftBehind == pc = "returned" => ~key /\ ~op

\* Each call is one step of the contract of zucrypt.h: no unauthenticated
\* plaintext, no half-made ciphertext or tag, nothing written on an argument
\* error, and ZUC_ERR_AUTH only for a tag that does not match.
ImplementsContract == Contract!Spec

\* "Every failure path zeroes the caller's whole output buffer before
\* returning" (zuc_aead.c, head comment).
EveryFailureZeroes ==
    pc = "returned" /\ st \notin {"none", "OK"} /\ ~req.empty => out = "zero"

=============================================================================
