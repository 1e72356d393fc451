----------------------------- MODULE AeadProofs ------------------------------
(* zuc_aead.c implements the contract of zucrypt.h. *)
EXTENDS Aead, TLAPS

\* The output the direction and the message call for.
Written ==
    out = IF req.empty THEN "prior" ELSE IF req.encrypt THEN "ciphertext" ELSE "plaintext"

\* Everything a successful call owes its caller.
Done ==
    /\ Written
    /\ tag = IF req.encrypt THEN "made" ELSE "prior"
    /\ ~req.encrypt => req.genuine

\* Where the call stands, step by step.
Progress ==
    /\ pc \notin {"check", "returned"} => req.ready /\ req.bad = {}
    /\ pc \in {"check", "import", "setup", "nonce", "ad", "update"} =>
         out = "prior" /\ ~short
    /\ pc \in {"check", "import", "setup", "nonce", "ad", "update", "final"} =>
         tag = "prior" /\ ps = "SUCCESS"
    /\ pc = "update" => ~req.empty
    /\ pc \in {"final", "cleanup", "wipe"} /\ req.empty => out = "prior"
    /\ pc \in {"cleanup", "wipe"} /\ ~req.encrypt => tag = "prior"
    /\ pc = "final" /\ ~short => Written
    /\ pc = "cleanup" /\ ps = "SUCCESS" /\ ~short => Done
    /\ pc = "cleanup" /\ ps = "INVALID_SIGNATURE" => ~req.encrypt /\ ~req.genuine
    /\ pc = "wipe" => st \in Failure \union {"OK", "AUTH", "INTERNAL"}
    /\ pc = "wipe" /\ st = "OK" => Done
    /\ pc = "wipe" /\ st = "AUTH" => ~req.encrypt /\ ~req.genuine

\* The key and the operation exist only inside aead_run().
Held ==
    /\ key => pc \in {"setup", "nonce", "ad", "update", "final", "cleanup"}
    /\ op => pc \in {"nonce", "ad", "update", "final", "cleanup"}
    /\ op /\ pc = "cleanup" => ps # "SUCCESS"

Inv == TypeOK /\ Progress /\ Held

USE DEF Failure

LEMMA TypeStep == TypeOK /\ [Next]_vars => TypeOK'
<1> SUFFICES ASSUME TypeOK, [Next]_vars PROVE TypeOK'
  OBVIOUS
<1> USE DEF TypeOK, Step, Status
<1>1. CASE Call
  BY <1>1 DEF Call
<1>2. CASE Check
  BY <1>2 DEF Check, check_aead_args
<1>3. CASE aead_run
  <2>1. CASE import_aead_key
    BY <2>1 DEF import_aead_key, Succeeds, FailsWith
  <2>2. CASE psa_aead_setup
    <3>1. pc' \in Step
      BY <2>2 DEF psa_aead_setup, Succeeds, FailsWith
    <3>2. ps' \in Failure \union {"SUCCESS", "INVALID_SIGNATURE"}
      BY <2>2 DEF psa_aead_setup, Succeeds, FailsWith
    <3>3. op' \in BOOLEAN
      BY <2>2 DEF psa_aead_setup, Succeeds, FailsWith
    <3>4. QED BY <2>2, <3>1, <3>2, <3>3 DEF psa_aead_setup
  <2>3. CASE psa_aead_set_nonce
    BY <2>3 DEF psa_aead_set_nonce, Succeeds, FailsWith
  <2>4. CASE psa_aead_update_ad
    BY <2>4 DEF psa_aead_update_ad, Succeeds, FailsWith
  <2>5. CASE psa_aead_update
    <3>1. pc' \in Step
      BY <2>5 DEF psa_aead_update, Succeeds, FailsWith
    <3>2. ps' \in Failure \union {"SUCCESS", "INVALID_SIGNATURE"}
      BY <2>5 DEF psa_aead_update, Succeeds, FailsWith
    <3>3. short' \in BOOLEAN
      BY <2>5 DEF psa_aead_update, Succeeds, FailsWith
    <3>4. out' \in {"prior", "partial", "plaintext", "ciphertext", "zero"}
      BY <2>5 DEF psa_aead_update, Succeeds, FailsWith
    <3>5. QED BY <2>5, <3>1, <3>2, <3>3, <3>4 DEF psa_aead_update
  <2>6. CASE psa_aead_finish
    BY <2>6 DEF psa_aead_finish, Succeeds, FailsWith
  <2>7. CASE psa_aead_verify
    <3>1. pc' \in Step
      BY <2>7 DEF psa_aead_verify, Succeeds, FailsWith
    <3>2. ps' \in Failure \union {"SUCCESS", "INVALID_SIGNATURE"}
      BY <2>7 DEF psa_aead_verify, Succeeds, FailsWith
    <3>3. QED BY <2>7, <3>1, <3>2 DEF psa_aead_verify
  <2>8. CASE Cleanup
    BY <2>8 DEF Cleanup, Succeeds, FailsWith
  <2>9. QED BY <1>3, <2>1, <2>2, <2>3, <2>4, <2>5, <2>6, <2>7, <2>8 DEF aead_run
<1>4. CASE Wipe
  BY <1>4 DEF Wipe
<1>5. CASE UNCHANGED vars
  BY <1>5 DEF vars
<1>6. QED BY <1>1, <1>2, <1>3, <1>4, <1>5 DEF Next

LEMMA CheckDecides ==
    ASSUME TypeOK
    PROVE  /\ check_aead_args(req) = "OK" <=> req.ready /\ req.bad = {}
           /\ check_aead_args(req) = "NOT_READY" <=> ~req.ready
           /\ check_aead_args(req) = "AUTH" => ~req.encrypt /\ "tag" \in req.bad
           /\ check_aead_args(req) \in {"OK", "NOT_READY", "INVALID_ARGUMENT", "UNSUPPORTED",
                                        "BAD_LENGTH", "OVERLAP", "AUTH"}
<1>1. req.bad \subseteq Defect
  BY DEF TypeOK, Request, Contract!Request
<1>2. QED BY <1>1 DEF check_aead_args, Defect

LEMMA ProgressStep == TypeOK /\ Progress /\ [Next]_vars => Progress'
<1> SUFFICES ASSUME TypeOK, Progress, [Next]_vars PROVE Progress'
  OBVIOUS
<1> USE DEF Progress, Written, Done
<1>1. CASE Call
  BY <1>1 DEF Call
<1>2. CASE Check
  BY <1>2, CheckDecides DEF Check
<1>3. CASE import_aead_key
  BY <1>3 DEF import_aead_key
<1>4. CASE psa_aead_setup
  BY <1>4 DEF psa_aead_setup, Succeeds, FailsWith
<1>5. CASE psa_aead_set_nonce
  BY <1>5 DEF psa_aead_set_nonce, Succeeds, FailsWith
<1>6. CASE psa_aead_update_ad
  BY <1>6 DEF psa_aead_update_ad, Succeeds, FailsWith
<1>7. CASE psa_aead_update
  BY <1>7 DEF psa_aead_update, Succeeds, FailsWith
<1>8. CASE psa_aead_finish
  BY <1>8 DEF psa_aead_finish, Succeeds, FailsWith
<1>9. CASE psa_aead_verify
  BY <1>9 DEF psa_aead_verify, Succeeds, FailsWith
<1>10. CASE Cleanup
  <2>1. /\ pc = "cleanup" /\ pc' = "wipe" /\ UNCHANGED <<req, out, tag, short, ps>>
        /\ st' \in Failure \union {"OK", "AUTH", "INTERNAL"}
        /\ st' = "OK" => ps = "SUCCESS" /\ ~short
        /\ st' = "AUTH" => ps = "INVALID_SIGNATURE"
    BY <1>10 DEF Cleanup, TypeOK
  <2>2. QED BY <2>1
<1>11. CASE Wipe
  BY <1>11 DEF Wipe
<1>12. CASE UNCHANGED vars
  BY <1>12 DEF vars
<1>13. QED BY <1>1, <1>2, <1>3, <1>4, <1>5, <1>6, <1>7, <1>8, <1>9, <1>10, <1>11, <1>12
         DEF Next, aead_run

LEMMA HeldStep == TypeOK /\ Progress /\ Held /\ [Next]_vars => Held'
<1> SUFFICES ASSUME TypeOK, Progress, Held, [Next]_vars PROVE Held'
  OBVIOUS
<1> USE DEF Held
<1>1. CASE Call \/ Check \/ Wipe
  BY <1>1 DEF Call, Check, Wipe
<1>2. CASE import_aead_key \/ psa_aead_setup
  BY <1>2 DEF import_aead_key, psa_aead_setup, Succeeds, FailsWith
<1>3. CASE psa_aead_set_nonce \/ psa_aead_update_ad \/ psa_aead_update
  BY <1>3 DEF psa_aead_set_nonce, psa_aead_update_ad, psa_aead_update, Succeeds, FailsWith
<1>4. CASE psa_aead_finish \/ psa_aead_verify
  BY <1>4 DEF psa_aead_finish, psa_aead_verify, Succeeds, FailsWith
<1>5. CASE Cleanup
  BY <1>5 DEF Cleanup, TypeOK
<1>6. CASE UNCHANGED vars
  BY <1>6 DEF vars
<1>7. QED BY <1>1, <1>2, <1>3, <1>4, <1>5, <1>6 DEF Next, aead_run

LEMMA InvAlways == Spec => []Inv
<1>1. Init => Inv
  BY DEF Init, Inv, TypeOK, Step, Status, Progress, Held
<1>2. Inv /\ [Next]_vars => Inv'
  BY TypeStep, ProgressStep, HeldStep DEF Inv
<1>3. QED BY <1>1, <1>2, PTL DEF Spec

\* Every state of a call is well typed.
THEOREM TypeCorrect == Spec => []TypeOK
BY InvAlways, PTL DEF Inv

\* No call leaves its key in the store or its operation set up, whichever of
\* its backend calls failed.
THEOREM NothingIsLeftBehind == Spec => []NothingLeftBehind
<1>1. Inv => NothingLeftBehind
  BY DEF Inv, Held, NothingLeftBehind
<1>2. QED BY <1>1, InvAlways, PTL

\* The step-by-step code implements the contract: its intermediate states,
\* unauthenticated plaintext included, are never those of a call that has
\* returned.
THEOREM AeadImplementsContract == Spec => ImplementsContract
<1>1. Init => Contract!Init
  BY DEF Init, Contract!Init, Request
<1>2. Inv /\ [Next]_vars => [Contract!Next]_Contract!vars
  <2> SUFFICES ASSUME Inv, [Next]_vars PROVE [Contract!Next]_Contract!vars
    OBVIOUS
  <2>1. CASE Call
    BY <2>1 DEF Call, Contract!Next, Contract!Call, Request
  <2>2. CASE Check
    <3>1. CASE st' = "OK"
      BY <2>2, <3>1 DEF Check, Contract!vars
    <3>2. CASE st' # "OK"
      BY <2>2, <3>2, CheckDecides DEF Check, Inv, Progress, Contract!Next, Contract!Refuse, Contract!Return
    <3>3. QED BY <3>1, <3>2
  <2>3. CASE aead_run
    <3>1. pc # "returned" /\ pc' # "returned" /\ UNCHANGED req
      BY <2>3 DEF aead_run, import_aead_key, psa_aead_setup, psa_aead_set_nonce, psa_aead_update_ad,
                  psa_aead_update, psa_aead_finish, psa_aead_verify, Cleanup, Succeeds, FailsWith
    <3>2. QED BY <3>1 DEF Contract!vars
  <2>4. CASE Wipe
    <3>1. CASE st = "OK"
      BY <2>4, <3>1 DEF Wipe, Inv, Progress, Done, Written, Contract!Next, Contract!Complete, Contract!Return
    <3>2. CASE st # "OK"
      BY <2>4, <3>2 DEF Wipe, Inv, Progress, Contract!Next, Contract!Fail, Contract!Return
    <3>3. QED BY <3>1, <3>2
  <2>5. CASE UNCHANGED vars
    BY <2>5 DEF vars, Contract!vars
  <2>6. QED BY <2>1, <2>2, <2>3, <2>4, <2>5 DEF Next
<1>3. QED BY <1>1, <1>2, InvAlways, PTL DEF Spec, ImplementsContract, Contract!Spec

=============================================================================
