---------------------------- MODULE RandomProofs -----------------------------
(***************************************************************************)
(* Random bytes are all drawn or all gone, for every source, chunk size,   *)
(* word size and length.                                                   *)
(***************************************************************************)
EXTENDS Random, TLAPS

\* How far the buffer is filled while a call is in progress: up to pos with
\* random bytes and not at all behind it; a finished chunk is filled to its
\* end.  Only R's calls are split into chunks.
Filled ==
    /\ pc \in {"entry", "source"} => st = "OK"
    /\ pc # "idle" /\ st = "OK" =>
          /\ \A i \in 1..pos : buf[i] = "random"
          /\ \A i \in Byte : i > pos => buf[i] = "old"
    /\ pc \in {"loop", "poll"} /\ st = "OK" => pos = end
    /\ pc = "entry" => pos = from
    /\ pc \in {"loop", "poll"} => caller = "R"
    /\ caller # "R" => from = 0 /\ end = len

Inv == TypeOK /\ InBounds /\ Filled /\ OkMeansFilled /\ FailureLeavesNothing

LEMMA BufferInside ==
    ASSUME TypeOK
    PROVE  /\ len \in Nat /\ from \in Nat /\ pos \in Nat /\ end \in Nat
           /\ from <= pos /\ pos <= end /\ end <= len /\ len <= MaxLen
           /\ \A i \in 1..len : i \in Byte
BY RandomAssumption DEF TypeOK, Byte

\* What Fill() writes.
LEMMA FillWrites ==
    ASSUME TypeOK, NEW a \in Nat, NEW b \in Nat, NEW v \in {"old", "random", "zero"}
    PROVE  /\ Fill(a, b, v) \in [Byte -> {"old", "random", "zero"}]
           /\ \A i \in Byte : Fill(a, b, v)[i] = IF a < i /\ i <= b THEN v ELSE buf[i]
BY DEF Fill, TypeOK

LEMMA InitInv == Init => Inv
<1> SUFFICES ASSUME Init PROVE Inv
  OBVIOUS
<1>1. TypeOK
  <2>1. buf \in [Byte -> {"old", "random", "zero"}]
    BY DEF Init
  <2>2. len \in 0..MaxLen /\ from \in 0..len /\ pos \in from..len /\ end \in pos..len
    BY RandomAssumption DEF Init
  <2>3. QED BY <2>1, <2>2 DEF Init, TypeOK, Caller, Status
<1>2. InBounds /\ Filled /\ OkMeansFilled /\ FailureLeavesNothing
  BY DEF Init, InBounds, Filled, OkMeansFilled, FailureLeavesNothing, Buffer
<1>3. QED BY <1>1, <1>2 DEF Inv

LEMMA AskPreserves ==
    ASSUME Inv, NEW n \in 0..MaxLen, NEW nil \in BOOLEAN,
           RAsks(n) \/ CAsks(n, nil) \/ mbedtls_psa_external_get_random(n)
    PROVE  Inv'
<1> USE RandomAssumption DEF RAsks, CAsks, mbedtls_psa_external_get_random, Asks
<1>1. TypeOK'
  <2>1. buf' \in [Byte -> {"old", "random", "zero"}]
    OBVIOUS
  <2>2. len' \in 0..MaxLen /\ from' \in 0..len' /\ pos' \in from'..len' /\ end' \in pos'..len'
    OBVIOUS
  <2>3. QED BY <2>1, <2>2 DEF Inv, TypeOK, Caller, Status
<1>2. \A i \in Byte : buf'[i] = "old"
  OBVIOUS
<1>3. pc' # "idle" /\ pos' = 0 /\ from' = 0
  OBVIOUS
<1>4. InBounds' /\ OkMeansFilled' /\ FailureLeavesNothing'
  BY <1>2, <1>3 DEF InBounds, OkMeansFilled, FailureLeavesNothing, Returned
<1>5. Filled'
  <2>1. \A i \in 1..pos' : buf'[i] = "random"
    BY <1>3
  <2>2. QED BY <1>2, <1>3, <2>1 DEF Filled
<1>6. QED BY <1>1, <1>4, <1>5 DEF Inv

LEMMA LoopPreserves ==
    ASSUME Inv, zucrypt_rand_bytes \/ Poll
    PROVE  Inv'
<1> USE RandomAssumption, BufferInside DEF Inv
<1>1. CASE zucrypt_rand_bytes /\ NextChunk
  <2>1. TypeOK'
    BY <1>1 DEF zucrypt_rand_bytes, NextChunk, TypeOK, Smaller
  <2>2. pc' = "entry" /\ pos' = pos
    BY <1>1 DEF zucrypt_rand_bytes, NextChunk, Filled
  <2>3. QED BY <1>1, <2>1, <2>2 DEF zucrypt_rand_bytes, NextChunk, InBounds, Filled, OkMeansFilled,
                                    FailureLeavesNothing, Returned, Buffer
<1>2. CASE zucrypt_rand_bytes /\ st = "OK" /\ ~NextChunk
  <2>1. TypeOK' /\ buf' = buf /\ pc' = "idle"
    BY <1>2 DEF zucrypt_rand_bytes, TypeOK
  <2>2. end = len
    BY <1>2 DEF zucrypt_rand_bytes
  <2>3. QED BY <1>2, <2>1, <2>2 DEF zucrypt_rand_bytes, InBounds, Filled, OkMeansFilled,
                                    FailureLeavesNothing, Returned, Buffer
<1>3. CASE zucrypt_rand_bytes /\ st # "OK"
  <2>1. buf' = Fill(0, len, "zero") /\ pc' = "idle" /\ UNCHANGED <<len, st, from, pos, end>>
    BY <1>3 DEF zucrypt_rand_bytes, NextChunk
  <2>2. /\ buf' \in [Byte -> {"old", "random", "zero"}]
        /\ \A i \in Byte : buf'[i] = IF 0 < i /\ i <= len THEN "zero" ELSE buf[i]
    BY <2>1, FillWrites
  <2>3. TypeOK'
    BY <1>3, <2>1, <2>2 DEF zucrypt_rand_bytes, TypeOK
  <2>4. InBounds' /\ OkMeansFilled' /\ FailureLeavesNothing'
    BY <1>3, <2>1, <2>2 DEF InBounds, OkMeansFilled, FailureLeavesNothing, Returned, Buffer, Byte
  <2>5. Filled'
    BY <1>3, <2>1 DEF Filled, zucrypt_rand_bytes
  <2>6. QED BY <2>3, <2>4, <2>5
<1>4. CASE Poll
  <2>1. TypeOK'
    BY <1>4 DEF Poll, TypeOK
  <2>2. InBounds' /\ OkMeansFilled' /\ FailureLeavesNothing'
    BY <1>4 DEF Poll, InBounds, OkMeansFilled, FailureLeavesNothing, Returned, Buffer, Filled
  <2>3. Filled'
    BY <1>4 DEF Poll, Filled
  <2>4. QED BY <2>1, <2>2, <2>3
<1>5. QED BY <1>1, <1>2, <1>3, <1>4

LEMMA EntryPreserves ==
    ASSUME Inv, zuc_random_bytes
    PROVE  Inv'
<1> USE RandomAssumption, BufferInside DEF Inv
<1>1. pc = "entry" /\ st = "OK" /\ pos = from
  BY DEF zuc_random_bytes, Filled
<1>2. CASE UNCHANGED buf
  <2>1. TypeOK'
    BY <1>2 DEF zuc_random_bytes, Return, TypeOK, Status
  <2>2. InBounds'
    BY <1>2 DEF zuc_random_bytes, InBounds, Buffer
  <2>3. Filled'
    BY <1>1, <1>2 DEF zuc_random_bytes, Return, Filled
  <2>4. OkMeansFilled' /\ FailureLeavesNothing'
    <3>1. \A i \in 1..len : i > pos => buf[i] = "old"
      BY <1>1 DEF Filled
    <3>2. pc' = "idle" /\ st' = "OK" => \A i \in Buffer' : buf'[i] = "random"
      BY <1>1, <1>2 DEF zuc_random_bytes, Return, Filled, Buffer
    <3>3. pc' = "idle" /\ st' # "OK" => \A i \in Buffer' : buf'[i] # "random"
      BY <1>1, <1>2, <3>1 DEF zuc_random_bytes, Return, Filled, Buffer
    <3>4. QED BY <3>2, <3>3 DEF OkMeansFilled, FailureLeavesNothing, Returned
  <2>5. QED BY <2>1, <2>2, <2>3, <2>4
<1>3. CASE buf' = Fill(from, end, "zero") /\ Return("NOT_READY")
  <2>1. /\ buf' \in [Byte -> {"old", "random", "zero"}]
        /\ \A i \in Byte : buf'[i] = IF from < i /\ i <= end THEN "zero" ELSE buf[i]
    BY <1>3, FillWrites
  <2>2. UNCHANGED <<source, caller, ready, failing, signal, null, len, from, pos, end, dropped>>
    BY DEF zuc_random_bytes
  <2>3. TypeOK'
    BY <1>3, <2>1, <2>2 DEF Return, TypeOK, Status
  <2>4. InBounds'
    BY <2>1, <2>2 DEF InBounds, Buffer, Byte
  <2>5. Filled' /\ OkMeansFilled'
    BY <1>3, <2>2 DEF Return, Filled, OkMeansFilled
  <2>6. FailureLeavesNothing'
    BY <1>3, <2>1, <2>2 DEF Return, Filled, FailureLeavesNothing, Returned, Buffer
  <2>7. QED BY <2>3, <2>4, <2>5, <2>6
<1>4. QED BY <1>2, <1>3 DEF zuc_random_bytes

LEMMA SourcePreserves ==
    ASSUME Inv, os_random
    PROVE  Inv'
<1> USE RandomAssumption, BufferInside DEF Inv
<1>1. ASSUME NEW n \in 0..Left, InSource, Fails(n), signal' \in BOOLEAN PROVE Inv'
  <2>1. buf' \in [Byte -> {"old", "random", "zero"}]
    <3>1. pos + n \in Nat
      BY DEF Left
    <3>2. QED BY <1>1, <3>1, FillWrites DEF Fails
  <2>2. \A i \in Byte : i > len => buf'[i] = buf[i]
    <3>1. pos + n \in Nat /\ pos + n <= end
      BY DEF Left
    <3>2. CASE buf' = Fill(pos, pos + n, "random")
      <4>1. \A i \in Byte : buf'[i] = IF pos < i /\ i <= pos + n THEN "random" ELSE buf[i]
        BY <3>1, <3>2, FillWrites
      <4>2. QED BY <3>1, <4>1 DEF Byte
    <3>3. CASE buf' = Fill(from, end, "zero")
      <4>1. \A i \in Byte : buf'[i] = IF from < i /\ i <= end THEN "zero" ELSE buf[i]
        BY <3>3, FillWrites
      <4>2. QED BY <4>1 DEF Byte
    <3>4. QED BY <1>1, <3>2, <3>3 DEF Fails
  <2>3. caller # "backend" => \A i \in Byte : from < i /\ i <= end => buf'[i] = "zero"
    BY <1>1, FillWrites DEF Fails
  <2>4. TypeOK'
    BY <1>1, <2>1 DEF InSource, Fails, Return, TypeOK, Status
  <2>5. InBounds'
    BY <1>1, <2>2 DEF InSource, InBounds, Buffer, Byte
  <2>6. Filled' /\ OkMeansFilled'
    BY <1>1 DEF InSource, Fails, Return, Filled, OkMeansFilled
  <2>7. FailureLeavesNothing'
    BY <1>1, <2>3 DEF InSource, Fails, Return, Filled, FailureLeavesNothing, Returned, Buffer
  <2>8. QED BY <2>4, <2>5, <2>6, <2>7
<1>2. ASSUME NEW n \in 0..Left, InSource, Delivers(n), signal' \in BOOLEAN PROVE Inv'
  <2>1. pos + n \in Nat /\ pos + n <= end
    BY DEF Left
  <2>2. /\ buf' \in [Byte -> {"old", "random", "zero"}]
        /\ \A i \in Byte : buf'[i] = IF pos < i /\ i <= pos + n THEN "random" ELSE buf[i]
    BY <1>2, <2>1, FillWrites DEF Delivers
  <2>3. TypeOK'
    BY <1>2, <2>1, <2>2 DEF InSource, Delivers, TypeOK
  <2>4. InBounds'
    BY <1>2, <2>1, <2>2 DEF InSource, InBounds, Buffer, Byte
  <2>5. Filled'
    <3>1. \A i \in 1..(pos + n) : buf'[i] = "random"
      BY <1>2, <2>1, <2>2 DEF Filled, InSource
    <3>2. \A i \in Byte : i > pos + n => buf'[i] = "old"
      BY <1>2, <2>1, <2>2 DEF Filled, InSource, Byte
    <3>3. QED BY <1>2, <3>1, <3>2 DEF Filled, InSource, Delivers
  <2>6. OkMeansFilled' /\ FailureLeavesNothing'
    BY <1>2 DEF InSource, Delivers, OkMeansFilled, FailureLeavesNothing, Returned
  <2>7. QED BY <2>3, <2>4, <2>5, <2>6
<1>3. CASE SwitchedOff
  BY <1>1, <1>3 DEF SwitchedOff, Left, TypeOK
<1>4. CASE Done
  <2>1. TypeOK'
    BY <1>4 DEF Done, InSource, Return, TypeOK, Status
  <2>2. QED BY <1>4, <2>1 DEF Done, InSource, Return, InBounds, Filled, OkMeansFilled,
                              FailureLeavesNothing, Returned, Buffer, Left
<1>5. CASE Draw
  <2>1. Left \in Nat /\ Smaller(Left, WordSize) \in 0..Left /\ Left \in 0..Left /\ 0 \in 0..Left
    BY DEF Left, Smaller
  <2>2. (\E n \in 0..Left : Fails(n)) \/ (\E n \in 0..Left : Delivers(n))
    BY <1>5, <2>1 DEF Draw, rand_s, arc4random_buf, getrandom, dev_urandom
  <2>3. InSource /\ signal' \in BOOLEAN
    BY <1>5 DEF Draw, TypeOK
  <2>4. QED BY <1>1, <1>2, <2>2, <2>3
<1>6. CASE Interrupted
  <2>1. TypeOK'
    BY <1>6 DEF Interrupted, InSource, TypeOK
  <2>2. QED BY <1>6, <2>1 DEF Interrupted, InSource, InBounds, Filled, OkMeansFilled,
                              FailureLeavesNothing, Returned, Buffer
<1>7. QED BY <1>3, <1>4, <1>5, <1>6 DEF os_random

LEMMA AroundPreserves ==
    ASSUME Inv, Window \/ zuc_int_random_fail \/ Signal \/ UNCHANGED vars
    PROVE  Inv'
<1>1. TypeOK'
  BY DEF Inv, TypeOK, Window, zuc_int_random_fail, Signal, vars
<1>2. (InBounds /\ Filled /\ OkMeansFilled /\ FailureLeavesNothing)'
  BY DEF Inv, Window, zuc_int_random_fail, Signal, vars, InBounds, Filled, OkMeansFilled,
         FailureLeavesNothing, Returned, Buffer
<1>3. QED BY <1>1, <1>2 DEF Inv

LEMMA InvAlways == Spec => []Inv
<1>1. Inv /\ [Next]_vars => Inv'
  <2> SUFFICES ASSUME Inv, [Next]_vars PROVE Inv'
    OBVIOUS
  <2>1. CASE \E n \in 0..MaxLen : \/ RAsks(n)
                                  \/ \E nil \in BOOLEAN : CAsks(n, nil)
                                  \/ mbedtls_psa_external_get_random(n)
    BY <2>1, AskPreserves
  <2>2. CASE Step
    BY <2>2, LoopPreserves, EntryPreserves, SourcePreserves DEF Step
  <2>3. CASE Window \/ zuc_int_random_fail \/ Signal \/ UNCHANGED vars
    BY <2>3, AroundPreserves
  <2>4. QED BY <2>1, <2>2, <2>3 DEF Next
<1>2. QED BY <1>1, InitInv, PTL DEF Spec

\* Every state of a request is well typed, for each source, chunk and word
\* size.
THEOREM TypeCorrect == Spec => []TypeOK
BY InvAlways, PTL DEF Inv

\* A call of crypt_rand_bytes() or zuc_random_bytes() that succeeds yields
\* every byte it was asked for.
THEOREM SuccessFills == Spec => []OkMeansFilled
BY InvAlways, PTL DEF Inv

\* A failure that is reported leaves no byte that was drawn.
THEOREM FailureWipes == Spec => []FailureLeavesNothing
BY InvAlways, PTL DEF Inv

\* No source writes behind the buffer, the last bytes of a request that are
\* fewer than the word rand_s() yields included.
THEOREM NeverBehindBuffer == Spec => []InBounds
BY InvAlways, PTL DEF Inv

\* Together: each request of zuc_random_bytes() or crypt_rand_bytes() is filled
\* or wiped as a whole, whatever the source does.
THEOREM FilledOrWiped == Spec => []AllOrNothing
BY SuccessFills, FailureWipes, NeverBehindBuffer, PTL DEF AllOrNothing

=============================================================================
