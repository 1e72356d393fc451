------------------------------ MODULE KdfProofs ------------------------------
(***************************************************************************)
(* The invariants of Kdf, for integers of any width.                       *)
(***************************************************************************)
EXTENDS Kdf, TLAPS

\* How far the operation has come at each step of the call.
Progress ==
    /\ pc # "idle" => Checked(req, req.iterations) = "OK" /\ req.iterations \in 1..Mod - 1
    /\ pc = "idle" => ~op.active
    /\ pc \in {"cost", "salt", "password", "output"} => op.active /\ ps = "SUCCESS"
    /\ pc \in {"salt", "password", "output"} => op.cost = req.iterations
    /\ pc \in {"password", "output"} => op.salt
    /\ pc = "output" => op.password

\* And what the output holds.
Written ==
    /\ pc \in {"setup", "cost", "salt", "password", "output"} => out = Plain("before")
    /\ pc = "abort" /\ ps = "SUCCESS" => out = [kind |-> "derived", from |-> req.iterations]

IInv == TypeOK /\ Progress /\ Written /\ DerivedAsAsked /\ FailureZeroes /\ FailsWithCause

\* The integer the backend gets is the one the caller passed, in C and, within
\* what crypt_pbkdf2() admits, in R.
LEMMA NoWrap == ASSUME NEW n \in 0..Mod - 1 PROVE n % Mod = n
BY ModAssumption, SMT

LEMMA Blank ==
    /\ Inactive \in Operation
    /\ [Inactive EXCEPT !.active = TRUE] \in Operation
    /\ \A k \in {"before", "partial", "zero"} : Plain(k) \in Output
<1>1. 0 \in 0..Mod - 1
    BY ModAssumption
<1>2. Inactive \in Operation /\ [Inactive EXCEPT !.active = TRUE] \in Operation
    BY <1>1, Zenon DEF Inactive, Operation
<1>3. \A k \in {"before", "partial", "zero"} : Plain(k) \in Output
    BY <1>1 DEF Plain, Output
<1> QED BY <1>2, <1>3

LEMMA InitInv == Init => IInv
<1> SUFFICES ASSUME Init PROVE IInv
    OBVIOUS
<1>1. req \in Request
    BY ModAssumption DEF Init, NoRequest, Request
<1>2. TypeOK
    BY <1>1, Blank DEF Init, TypeOK, Error
<1>3. Progress /\ Written /\ DerivedAsAsked /\ FailureZeroes /\ FailsWithCause
    BY DEF Init, Progress, Written, DerivedAsAsked, FailureZeroes, FailsWithCause, Returned, Inactive
<1> QED BY <1>2, <1>3 DEF IInv

\* Every step of the call keeps the invariant.
LEMMA NextInv == IInv /\ [Next]_vars => IInv'
<1> SUFFICES ASSUME IInv, [Next]_vars PROVE IInv'
    OBVIOUS
<1> USE ModAssumption DEF IInv
<1>1. ASSUME NEW r \in Request, zuc_pbkdf2_hmac(r) PROVE IInv'
  <2>1. r.iterations \in 0..Mod - 1 /\ r.iterations % Mod = r.iterations
      BY <1>1, NoWrap DEF zuc_pbkdf2_hmac, zucrypt_pbkdf2, Request
  <2>2. TypeOK'
      BY <1>1, Blank DEF zuc_pbkdf2_hmac, TypeOK, Checked, Error
  <2>3. Progress' /\ Written' /\ FailsWithCause'
      BY <1>1, <2>1 DEF zuc_pbkdf2_hmac, Progress, Written, FailsWithCause, Inactive, Plain, Checked, Request
  <2>4. DerivedAsAsked' /\ FailureZeroes'
    <3>1. Checked(req, req.iterations)' = Checked(r, r.iterations % Mod)
        BY <1>1, <2>1 DEF zuc_pbkdf2_hmac, Checked
    <3> QED BY <1>1, <3>1 DEF zuc_pbkdf2_hmac, DerivedAsAsked, FailureZeroes, Returned
  <2> QED BY <2>2, <2>3, <2>4
<1>2. CASE setup
  <2>1. TypeOK'
      BY <1>2, Blank DEF setup, Backend, TypeOK, Error
  <2>2. Progress' /\ Written' /\ DerivedAsAsked' /\ FailureZeroes' /\ FailsWithCause'
      BY <1>2 DEF setup, Backend, Progress, Written, DerivedAsAsked, FailureZeroes, FailsWithCause,
         Returned, Inactive, Error, Checked
  <2> QED BY <2>1, <2>2
<1>3. CASE input_cost
  <2>1. pc = "cost" => req.iterations % Mod = req.iterations /\ req.iterations \in 0..Mod - 1
      BY NoWrap DEF Progress
  <2>2. TypeOK'
      BY <1>3, <2>1 DEF input_cost, Backend, TypeOK, Operation, Error
  <2>3. Progress'
      BY <1>3, <2>1 DEF input_cost, Backend, TypeOK, Operation, Progress, Checked
  <2>4. Written' /\ DerivedAsAsked' /\ FailureZeroes' /\ FailsWithCause'
      BY <1>3 DEF input_cost, Backend, TypeOK, Operation, Progress, Written, DerivedAsAsked, FailureZeroes,
         FailsWithCause, Returned, Error
  <2> QED BY <2>2, <2>3, <2>4
<1>4. CASE input_salt
  BY <1>4 DEF input_salt, Backend, TypeOK, Operation, Progress, Written, DerivedAsAsked, FailureZeroes, FailsWithCause,
      Returned, Error, Checked
<1>5. CASE input_password
  BY <1>5 DEF input_password, Backend, TypeOK, Operation, Progress, Written, DerivedAsAsked, FailureZeroes, FailsWithCause,
      Returned, Error, Checked
<1>6. CASE output_bytes
  <2>1. TypeOK'
    <3>1. [kind |-> "derived", from |-> op.cost] \in Output
        BY DEF TypeOK, Operation, Output
    <3> QED BY <1>6, <3>1, Blank DEF output_bytes, Backend, TypeOK, Error
  <2>2. Progress' /\ DerivedAsAsked' /\ FailureZeroes' /\ FailsWithCause'
      BY <1>6 DEF output_bytes, Backend, Progress, DerivedAsAsked, FailureZeroes, FailsWithCause,
         Returned, Error, Checked
  <2>3. Written'
      BY <1>6 DEF output_bytes, Backend, Progress, Written, Error
  <2> QED BY <2>1, <2>2, <2>3
<1>7. CASE abort
  <2>1. TypeOK'
      BY <1>7, Blank DEF abort, TypeOK, Error, zuc_int_from_psa
  <2>2. Progress' /\ Written' /\ FailsWithCause'
      BY <1>7 DEF abort, Progress, Written, FailsWithCause, Inactive
  <2>3. zuc_int_from_psa(ps) = "OK" <=> ps = "SUCCESS"
      BY DEF zuc_int_from_psa, TypeOK, Error
  <2>4. Checked(req, req.iterations)' = Checked(req, req.iterations)
      BY <1>7 DEF abort, Checked
  <2>5. DerivedAsAsked' /\ FailureZeroes'
      BY <1>7, <2>3, <2>4 DEF abort, Progress, Written, DerivedAsAsked, FailureZeroes, Returned
  <2> QED BY <2>1, <2>2, <2>5
<1>8. CASE UNCHANGED vars
  BY <1>8 DEF vars, TypeOK, Progress, Written, DerivedAsAsked, FailureZeroes, FailsWithCause, Returned, Checked
<1> QED BY <1>1, <1>2, <1>3, <1>4, <1>5, <1>6, <1>7, <1>8 DEF Next

LEMMA Inv == Spec => []IInv
BY InitInv, NextInv, PTL DEF Spec

\* The state of a call is well-formed at each of its steps.
THEOREM TypeCorrect == Spec => []TypeOK
BY Inv, PTL DEF IInv

\* zuc_pbkdf2_hmac() never gives a key that was made with another number of
\* iterations than the caller's, for integers of any width.
THEOREM KeyIsAsAsked == Spec => []DerivedAsAsked
BY Inv, PTL DEF IInv

\* A failed derivation leaves a zeroed output, a refused call its output as it
\* was.
THEOREM FailureLeavesNothing == Spec => []FailureZeroes
BY Inv, PTL DEF IInv

\* The backend never refuses the order in which it is given its inputs.
THEOREM InputsInOrder == Spec => []FailsWithCause
BY Inv, PTL DEF IInv

\* No call leaves the backend's operation, with the password in it, behind.
THEOREM OperationAborted == Spec => []NoneActive
<1>1. IInv => NoneActive
    BY DEF IInv, Progress, NoneActive
<1> QED BY Inv, <1>1, PTL

\* zuc_pbkdf2_hmac() leaves nothing behind, whichever of its steps fails.
THEOREM NothingIsLeft == Spec => []NothingLeft
BY FailureLeavesNothing, OperationAborted, PTL DEF NothingLeft

=============================================================================
