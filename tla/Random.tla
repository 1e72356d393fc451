------------------------------- MODULE Random --------------------------------
(***************************************************************************)
(* Random bytes: the loop of zucrypt_rand_bytes() over chunks, the entry   *)
(* point zuc_random_bytes() and the backend's call-out, all over           *)
(* os_random() (zuc_random.c), one system call per step.  The operating    *)
(* system may fail, answer short or be interrupted by a signal.            *)
(***************************************************************************)
EXTENDS Integers

CONSTANTS
    Source,      \* the random sources a build may have
    ChunkSize,   \* ZUCRYPT_CHUNK
    WordSize,    \* bytes of an unsigned int, what rand_s() yields
    MaxLen       \* bound: bytes of a request

ASSUME RandomAssumption ==
    /\ Source \subseteq {"rand_s", "arc4random_buf", "getrandom", "/dev/urandom"}
    /\ ChunkSize \in Nat \ {0}
    /\ WordSize \in Nat \ {0}
    /\ MaxLen \in Nat

VARIABLES
    source,   \* the one compiled in
    pc,       \* "idle", at the "loop" of zucrypt_rand_bytes(), at the "entry" of
              \* zuc_random_bytes(), in os_random() ("source"), or at the "poll"
    caller,   \* who asked: R code, a C consumer, or the backend
    ready,    \* zuc_int_ready()
    failing,  \* zuc_random_failing
    signal,   \* a signal is pending for the process
    null,     \* the caller's pointer is NULL
    len,      \* bytes asked for
    from,     \* where the chunk being filled starts: its first byte is from + 1
    pos,      \* how far os_random() has filled it
    end,      \* where it ends
    buf,      \* the caller's buffer and what lies behind it
    st,       \* the status so far, and then the one returned
    dropped   \* ghost: the R vector was abandoned by a jump

vars == <<source, pc, caller, ready, failing, signal, null, len, from, pos, end, buf, st, dropped>>

Caller == {"R", "C", "backend"}

Status == {"OK", "INVALID_ARGUMENT", "NOT_READY", "ENTROPY"}

Byte == 1..(MaxLen + WordSize)

\* The bytes of the request.
Buffer == 1..len

Smaller(a, b) == IF a < b THEN a ELSE b

TypeOK ==
    /\ source \in Source
    /\ pc \in {"idle", "loop", "entry", "source", "poll"}
    /\ caller \in Caller
    /\ ready \in BOOLEAN
    /\ failing \in BOOLEAN
    /\ signal \in BOOLEAN
    /\ null \in BOOLEAN
    /\ len \in 0..MaxLen
    /\ from \in 0..len
    /\ pos \in from..len
    /\ end \in pos..len
    /\ buf \in [Byte -> {"old", "random", "zero"}]
    /\ st \in Status
    /\ dropped \in BOOLEAN

Init ==
    /\ source \in Source
    /\ pc = "idle"
    /\ caller = "C"
    /\ ready = FALSE
    /\ failing = FALSE
    /\ signal = FALSE
    /\ null = FALSE
    /\ len = 0
    /\ from = 0
    /\ pos = 0
    /\ end = 0
    /\ buf = [i \in Byte |-> "old"]
    /\ st = "OK"
    /\ dropped = FALSE

\* The bytes a + 1 to b become v.
Fill(a, b, v) == [i \in Byte |-> IF a < i /\ i <= b THEN v ELSE buf[i]]

-----------------------------------------------------------------------------
(* The callers *)

Asks(who, n) ==
    /\ pc = "idle"
    /\ caller' = who
    /\ len' = n
    /\ from' = 0
    /\ pos' = 0
    /\ buf' = [i \in Byte |-> "old"]
    /\ st' = "OK"
    /\ dropped' = FALSE
    /\ UNCHANGED <<source, ready, failing, signal>>

\* crypt_rand_bytes(): the window is open for as long as the package is loaded.
RAsks(n) == Asks("R", n) /\ ready /\ pc' = "loop" /\ end' = 0 /\ null' = FALSE

CAsks(n, nil) == Asks("C", n) /\ pc' = "entry" /\ end' = n /\ null' = nil

mbedtls_psa_external_get_random(n) ==
    Asks("backend", n) /\ pc' = "source" /\ end' = n /\ null' = FALSE

\* The next chunk of the loop.
NextChunk ==
    /\ end < len /\ st = "OK"
    /\ pc' = "entry"
    /\ from' = end
    /\ pos' = end
    /\ end' = Smaller(end + ChunkSize, len)
    /\ UNCHANGED buf

\* Mutant: only the chunk that failed is wiped.
zucrypt_rand_bytes_Keeps ==
    /\ pc = "loop"
    /\ \/ NextChunk
       \/ /\ end = len \/ st # "OK"
          /\ pc' = "idle"
          /\ UNCHANGED <<from, pos, end, buf>>
    /\ UNCHANGED <<source, caller, ready, failing, signal, null, len, st, dropped>>

\* The head of the loop, and what follows it: after a failure the whole vector
\* is wiped.
zucrypt_rand_bytes ==
    /\ pc = "loop"
    /\ \/ NextChunk
       \/ /\ end = len \/ st # "OK"
          /\ pc' = "idle"
          /\ buf' = IF st = "OK" THEN buf ELSE Fill(0, len, "zero")
          /\ UNCHANGED <<from, pos, end>>
    /\ UNCHANGED <<source, caller, ready, failing, signal, null, len, st, dropped>>

\* R_CheckUserInterrupt() after a chunk: back to the loop, or out of the call.
Poll ==
    /\ pc = "poll"
    /\ \/ pc' = "loop" /\ UNCHANGED dropped
       \/ pc' = "idle" /\ dropped' = TRUE
    /\ UNCHANGED <<source, caller, ready, failing, signal, null, len, from, pos, end, buf, st>>

-----------------------------------------------------------------------------
(* zuc_random_bytes() on one chunk *)

Return(status) ==
    /\ st' = status
    /\ pc' = IF caller = "R" THEN "poll" ELSE "idle"

\* The early returns, in their order.
zuc_random_bytes ==
    /\ pc = "entry"
    /\ \/ from = end /\ Return("OK") /\ UNCHANGED buf
       \/ from # end /\ null /\ Return("INVALID_ARGUMENT") /\ UNCHANGED buf
       \/ from # end /\ ~null /\ ~ready /\ Return("NOT_READY") /\ buf' = Fill(from, end, "zero")
       \/ from # end /\ ~null /\ ready /\ pc' = "source" /\ UNCHANGED <<buf, st>>
    /\ UNCHANGED <<source, caller, ready, failing, signal, null, len, from, pos, end, dropped>>

-----------------------------------------------------------------------------
(* os_random() *)

\* It fails after n more bytes: zuc_random_bytes() wipes the chunk; the
\* backend's call-out only says that nothing was delivered.
Fails(n) ==
    /\ Return("ENTROPY")
    /\ buf' = IF caller = "backend" THEN Fill(pos, pos + n, "random") ELSE Fill(from, end, "zero")
    /\ UNCHANGED pos

\* Mutant: a short answer is not accounted for.
Delivers_Again(n) == buf' = Fill(pos, pos + n, "random") /\ UNCHANGED <<pc, pos, st>>

\* n more bytes arrive.
Delivers(n) == pos' = pos + n /\ buf' = Fill(pos, pos + n, "random") /\ UNCHANGED <<pc, st>>

Left == end - pos

InSource ==
    /\ pc = "source"
    /\ UNCHANGED <<source, caller, ready, failing, null, len, from, end, dropped>>

\* The harness's switch.
SwitchedOff == InSource /\ failing /\ Fails(0) /\ UNCHANGED signal

Done == InSource /\ ~failing /\ Left = 0 /\ Return("OK") /\ UNCHANGED <<pos, buf, signal>>

rand_s == Delivers(Smaller(Left, WordSize)) \/ Fails(0)

arc4random_buf == Delivers(Left)

\* One getrandom(): an error, or at least one byte.
getrandom == Fails(0) \/ \E n \in 1..Left : Delivers(n)

\* fopen() and fread(), which stops short only at an error.
dev_urandom == Delivers(Left) \/ \E n \in 0..(Left - 1) : Fails(n)

Draw ==
    /\ InSource
    /\ Left > 0
    /\ ~failing
    /\ \/ source = "rand_s" /\ rand_s
       \/ source = "arc4random_buf" /\ arc4random_buf
       \/ source = "getrandom" /\ ~signal /\ getrandom
       \/ source = "/dev/urandom" /\ dev_urandom
    /\ UNCHANGED signal

\* EINTR: ask again.
Interrupted ==
    /\ InSource
    /\ source = "getrandom" /\ signal /\ Left > 0
    /\ ~failing
    /\ signal' = FALSE
    /\ UNCHANGED <<pc, pos, buf, st>>

os_random == SwitchedOff \/ Done \/ Draw \/ Interrupted

-----------------------------------------------------------------------------
(* Around the calls *)

Window ==
    /\ pc = "idle"
    /\ ready' = ~ready
    /\ UNCHANGED <<source, pc, caller, failing, signal, null, len, from, pos, end, buf, st, dropped>>

zuc_int_random_fail ==
    /\ pc = "idle"
    /\ failing' = ~failing
    /\ UNCHANGED <<source, pc, caller, ready, signal, null, len, from, pos, end, buf, st, dropped>>

Signal ==
    /\ signal' = TRUE
    /\ UNCHANGED <<source, pc, caller, ready, failing, null, len, from, pos, end, buf, st, dropped>>

Step == zucrypt_rand_bytes \/ Poll \/ zuc_random_bytes \/ os_random

Next ==
    \/ \E n \in 0..MaxLen : \/ RAsks(n)
                            \/ \E nil \in BOOLEAN : CAsks(n, nil)
                            \/ mbedtls_psa_external_get_random(n)
    \/ Step
    \/ Window
    \/ zuc_int_random_fail
    \/ Signal

Spec == Init /\ [][Next]_vars

\* The process runs, and signals do not interrupt every getrandom() for ever.
FairSpec == Spec /\ WF_vars(Step) /\ SF_vars(Draw)

-----------------------------------------------------------------------------
(* Properties *)

\* A call that returned, rather than being jumped out of.
Returned == pc = "idle" /\ ~dropped

\* "Never returns a short read as success": ZUC_OK means that every byte asked
\* for was drawn, across chunks, short answers and interruptions.
OkMeansFilled == Returned /\ st = "OK" => \A i \in Buffer : buf[i] = "random"

\* After a failure no byte drawn for the request is left in the buffer, those
\* of earlier chunks included.
FailureLeavesNothing ==
    Returned /\ st # "OK" /\ caller # "backend" => \A i \in Buffer : buf[i] # "random"

\* Nothing behind the buffer is written.
InBounds == \A i \in Byte \ Buffer : buf[i] = "old"

\* A request is filled or it is wiped, and nothing else is touched.
AllOrNothing == OkMeansFilled /\ FailureLeavesNothing /\ InBounds

\* Every call ends.
Terminates == pc # "idle" ~> pc = "idle"

\* "On a failure every byte already drawn is wiped before the vector is
\* dropped" (zucrypt_crypt.c, on zucrypt_rand_bytes()).
WipedBeforeDropped == pc = "idle" /\ st # "OK" /\ caller = "R" => \A i \in Buffer : buf[i] # "random"

=============================================================================
