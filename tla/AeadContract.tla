---------------------------- MODULE AeadContract -----------------------------
(***************************************************************************)
(* What zucrypt.h promises of zuc_aead_encrypt() and zuc_aead_decrypt():   *)
(* a call is made and, in one step, refused, failed or completed.          *)
(* Buffers are seen as the caller sees them, before and after the call.    *)
(***************************************************************************)
CONSTANT Defect    \* what can be wrong with the arguments

\* A request: the direction, whether the window is open, the defects of the
\* arguments, an empty message, associated data, and on decryption whether
\* the tag is the one of this message.
Request == [encrypt: BOOLEAN, ready: BOOLEAN, bad: SUBSET Defect,
            empty: BOOLEAN, aad: BOOLEAN, genuine: BOOLEAN]

VARIABLES phase, req, out, tag, st

vars == <<phase, req, out, tag, st>>

Call ==
    /\ phase = "returned"
    /\ phase' = "called"
    /\ req' \in Request
    /\ out' = "prior"
    /\ tag' = "prior"
    /\ st' = "none"

Return(status) ==
    /\ phase = "called"
    /\ phase' = "returned"
    /\ st' = status
    /\ UNCHANGED req

\* "An argument error is reported before anything is written."
Refuse ==
    /\ ~req.ready \/ req.bad # {}
    /\ \E s \in {"NOT_READY", "INVALID_ARGUMENT", "UNSUPPORTED", "BAD_LENGTH", "OVERLAP", "AUTH"} :
          /\ Return(s)
          /\ s = "NOT_READY" <=> ~req.ready
          /\ s = "AUTH" => ~req.encrypt /\ "tag" \in req.bad
    /\ UNCHANGED <<out, tag>>

\* "Any failure after that zeroes all len bytes of the output, and on
\* encryption the tag too."
Fail ==
    /\ req.ready /\ req.bad = {}
    /\ \E s \in {"MEMORY", "BACKEND", "INTERNAL", "AUTH"} :
          /\ Return(s)
          /\ s = "AUTH" => ~req.encrypt /\ ~req.genuine
    /\ out' = IF req.empty THEN out ELSE "zero"
    /\ tag' = IF req.encrypt THEN "zero" ELSE tag

\* "Only if it matches does it return ZUC_OK."
Complete ==
    /\ req.ready /\ req.bad = {}
    /\ ~req.encrypt => req.genuine
    /\ Return("OK")
    /\ out' = IF req.empty THEN out ELSE IF req.encrypt THEN "ciphertext" ELSE "plaintext"
    /\ tag' = IF req.encrypt THEN "made" ELSE tag

Init ==
    /\ phase = "returned"
    /\ req \in Request
    /\ out = "prior"
    /\ tag = "prior"
    /\ st = "none"

Next == Call \/ Refuse \/ Fail \/ Complete

Spec == Init /\ [][Next]_vars

=============================================================================
