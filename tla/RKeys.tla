-------------------------------- MODULE RKeys --------------------------------
(***************************************************************************)
(* R's side of public keys and of one-shot AES-CBC (zucrypt_crypt.c).      *)
(* Native handles are owned by external pointers; every R allocation may   *)
(* run the collector, with the finalizers of what nothing refers to, and   *)
(* may leave the C function by a jump that skips the rest of it.           *)
(*                                                                         *)
(* A call is the sequence of its steps, cut at R's allocations and         *)
(* interrupt checks; what runs between two of them is one step.            *)
(***************************************************************************)
EXTENDS Naturals

CONSTANTS
    Ptr,        \* external pointers
    Addr,       \* native addresses
    Null,       \* the address of none
    NoPtr,
    MaxChunk    \* bound: chunks of one AES-CBC call

ASSUME RKeysAssumption ==
    /\ Null \notin Addr
    /\ NoPtr \notin Ptr
    /\ MaxChunk \in Nat

VARIABLES
    obj,       \* the external pointers: tag, address, finalizer and whether
               \* R code refers to them
    heap,      \* what is at each address
    frame,     \* the .Call under way
    ret,       \* how the last one ended
    leftover   \* handles that the last R session left in memory when it ended

vars == <<obj, heap, frame, ret, leftover>>

Maker == {"parse", "generate", "import", "public"}

\* The functions with an output buffer, which trimmed() ends.
Buffered == {"write", "sign", "crypt", "export", "agree"}

\* The functions whose output vector is the value itself.
OneShot == {"gcm", "pbkdf2"}

Fn == Maker \union Buffered \union OneShot \union {"none", "verify", "info", "aes"}

Status == {"OK", "INVALID_ARGUMENT", "FAILED"}

Object == [tag: {"unused", "zucrypt_pkey", "nil", "foreign"}, addr: Addr \union {Null},
           fin: {"none", "pkey", "aes"}, onexit: BOOLEAN, reach: BOOLEAN]

Unused == [tag |-> "unused", addr |-> Null, fin |-> "none", onexit |-> FALSE, reach |-> FALSE]

\* key, other: the addresses read from the arguments; left: chunks to go;
\* missed: a chunk failed; buf: the output buffer or vector, "secret" once
\* output has been written to it.
Frame == [fn: Fn, pc: {"idle", "ptr", "buf", "native", "trim", "out", "chunk", "poll", "result"},
          args: SUBSET Ptr, own: Ptr \union {NoPtr}, key: Addr \union {Null}, other: Addr \union {Null},
          st: Status, buf: {"none", "blank", "secret", "zero"}, left: 0..MaxChunk, missed: BOOLEAN]

Idle == [fn |-> "none", pc |-> "idle", args |-> {}, own |-> NoPtr, key |-> Null, other |-> Null,
         st |-> "OK", buf |-> "none", left |-> 0, missed |-> FALSE]

\* How a call ended: by a jump or not, and what its frame was by then.
Outcome == [fn: Fn, st: Status, buf: {"none", "blank", "secret", "zero"}, left: 0..MaxChunk,
            missed: BOOLEAN, jumped: BOOLEAN]

Ended(f, jumped) ==
    [fn |-> f.fn, st |-> f.st, buf |-> f.buf, left |-> f.left, missed |-> f.missed, jumped |-> jumped]

TypeOK ==
    /\ obj \in [Ptr -> Object]
    /\ heap \in [Addr -> {"free", "pkey", "aes", "other"}]
    /\ frame \in Frame
    /\ ret \in Outcome
    /\ leftover \in SUBSET Addr

Start ==
    /\ obj = [p \in Ptr |-> Unused]
    /\ heap = [a \in Addr |-> "free"]

Init ==
    /\ Start
    /\ frame = Idle
    /\ ret = Ended(Idle, FALSE)
    /\ leftover = {}

-----------------------------------------------------------------------------
(* Pointers *)

\* Mutant: the tag is not looked at.
pkey_get_Untagged(p) == obj[p].addr

\* The handle of a key object; Null for another package's pointer and for one
\* that was restored.
pkey_get(p) == IF obj[p].tag = "zucrypt_pkey" THEN obj[p].addr ELSE Null

UnusedPtr == {p \in Ptr : obj[p].tag = "unused"}

FreeAddr == {a \in Addr : heap[a] = "free"}

Goto(f) == frame' = f /\ UNCHANGED ret

\* A pointer of this package's, empty so far.
NewPtr(p, tag, fin, onexit) ==
    obj' = [obj EXCEPT ![p] = [tag |-> tag, addr |-> Null, fin |-> fin, onexit |-> onexit, reach |-> FALSE]]

\* Mutant: keys are finalized by the collector only.
pkey_ptr_NotOnExit ==
    /\ frame.pc = "ptr" /\ frame.fn \in Maker
    /\ \E p \in UnusedPtr :
          /\ NewPtr(p, "zucrypt_pkey", "pkey", FALSE)
          /\ Goto([frame EXCEPT !.own = p, !.pc = "native"])
    /\ UNCHANGED <<heap, leftover>>

pkey_ptr ==
    /\ frame.pc = "ptr" /\ frame.fn \in Maker
    /\ \E p \in UnusedPtr :
          /\ NewPtr(p, "zucrypt_pkey", "pkey", TRUE)
          /\ Goto([frame EXCEPT !.own = p, !.pc = "native"])
    /\ UNCHANGED <<heap, leftover>>

-----------------------------------------------------------------------------
(* Entry: a key's address is read before anything is allocated *)

Begin(fn, pc) ==
    /\ frame = Idle
    /\ frame' = [Idle EXCEPT !.fn = fn, !.pc = pc]
    /\ ret' = Ended(Idle, FALSE)
    /\ UNCHANGED <<obj, heap, leftover>>

BeginKey(fn, pc, p, q) ==
    /\ frame = Idle
    /\ obj[p].reach /\ obj[q].reach
    /\ frame' = [Idle EXCEPT !.fn = fn, !.pc = pc, !.args = {p, q}, !.key = pkey_get(p), !.other = pkey_get(q)]
    /\ ret' = Ended(Idle, FALSE)
    /\ UNCHANGED <<obj, heap, leftover>>

zucrypt_pkey_parse == Begin("parse", "ptr")

zucrypt_pkey_generate == Begin("generate", "ptr")

zucrypt_pkey_import == Begin("import", "ptr")

zucrypt_aes_gcm == Begin("gcm", "buf")

zucrypt_pbkdf2 == Begin("pbkdf2", "buf")

zucrypt_pkey_public(p) == BeginKey("public", "ptr", p, p)

zucrypt_pkey_info(p) == BeginKey("info", "buf", p, p)

zucrypt_pkey_write(p) == BeginKey("write", "buf", p, p)

zucrypt_pkey_sign(p) == BeginKey("sign", "buf", p, p)

zucrypt_pkey_crypt(p) == BeginKey("crypt", "buf", p, p)

zucrypt_pkey_export(p) == BeginKey("export", "buf", p, p)

zucrypt_pkey_agree(p, q) == BeginKey("agree", "buf", p, q)

zucrypt_pkey_verify(p) == BeginKey("verify", "native", p, p)

-----------------------------------------------------------------------------
(* The native call *)

Refused == frame.fn = "public" /\ frame.key = Null

\* Mutant: the list is built before the handle moves into the pointer.
pkey_result_Late ==
    /\ frame.pc = "native" /\ frame.fn \in Maker
    /\ ~Refused
    /\ \E a \in FreeAddr : heap' = [heap EXCEPT ![a] = "pkey"]
    /\ Goto([frame EXCEPT !.pc = "result"])
    /\ UNCHANGED <<obj, leftover>>

\* A constructor of zuc_pkey.c; on success the handle moves into the pointer.
pkey_result ==
    /\ frame.pc = "native" /\ frame.fn \in Maker
    /\ \/ /\ ~Refused
          /\ \E a \in FreeAddr :
                /\ heap' = [heap EXCEPT ![a] = "pkey"]
                /\ obj' = [obj EXCEPT ![frame.own].addr = a]
          /\ Goto([frame EXCEPT !.pc = "result"])
       \/ /\ \/ Refused /\ Goto([frame EXCEPT !.pc = "result", !.st = "INVALID_ARGUMENT"])
             \/ ~Refused /\ Goto([frame EXCEPT !.pc = "result", !.st = "FAILED"])
          /\ UNCHANGED <<obj, heap>>
    /\ UNCHANGED leftover

\* The output buffer, or the list for zucrypt_pkey_info(); the latter returns
\* before when there is no key.
AllocateBuffer ==
    /\ frame.pc = "buf"
    /\ Goto(IF frame.fn # "info" THEN [frame EXCEPT !.pc = "native", !.buf = "blank"]
            ELSE IF frame.key # Null THEN [frame EXCEPT !.pc = "native"]
            ELSE [frame EXCEPT !.pc = "result", !.st = "INVALID_ARGUMENT"])
    /\ UNCHANGED <<obj, heap, leftover>>

\* What zuc_pkey.c writes; it leaves nothing of its own where it fails.
UseKey ==
    /\ frame.pc = "native" /\ frame.fn \in Buffered \union {"verify", "info"}
    /\ LET next == IF frame.fn \in Buffered THEN "trim" ELSE "result"
       IN  IF frame.key = Null \/ frame.other = Null
           THEN Goto([frame EXCEPT !.pc = next, !.st = "INVALID_ARGUMENT"])
           ELSE \/ Goto([frame EXCEPT !.pc = next, !.buf = IF frame.fn \in Buffered THEN "secret" ELSE "none"])
                \/ frame.fn # "info" /\ Goto([frame EXCEPT !.pc = next, !.st = "FAILED"])
    /\ UNCHANGED <<obj, heap, leftover>>

\* zuc_aead_encrypt(), zuc_aead_decrypt() or zuc_pbkdf2_hmac(): a failure
\* zeroes the output, or never touched it.
UseOutput ==
    /\ frame.pc = "native" /\ frame.fn \in OneShot
    /\ \/ Goto([frame EXCEPT !.pc = "result", !.buf = "secret"])
       \/ \E b \in {"blank", "zero"} : Goto([frame EXCEPT !.pc = "result", !.buf = b, !.st = "FAILED"])
    /\ UNCHANGED <<obj, heap, leftover>>

\* Mutant: the buffer is wiped on failure only.
trimmed_FailureOnly ==
    /\ frame.pc = "trim"
    /\ Goto([frame EXCEPT !.pc = "result", !.buf = IF frame.st = "OK" THEN @ ELSE "zero"])
    /\ UNCHANGED <<obj, heap, leftover>>

\* What was written is copied into a vector of its length, which is allocated
\* first, and the buffer is wiped, as it is on failure.
trimmed ==
    /\ frame.pc = "trim"
    /\ Goto([frame EXCEPT !.pc = "result", !.buf = "zero"])
    /\ UNCHANGED <<obj, heap, leftover>>

-----------------------------------------------------------------------------
(* AES-CBC in chunks *)

zucrypt_aes_cbc ==
    /\ frame = Idle
    /\ \E n \in 0..MaxChunk : frame' = [Idle EXCEPT !.fn = "aes", !.pc = "ptr", !.left = n]
    /\ ret' = Ended(Idle, FALSE)
    /\ UNCHANGED <<obj, heap, leftover>>

aes_ptr ==
    /\ frame.pc = "ptr" /\ frame.fn = "aes"
    /\ \E p \in UnusedPtr :
          /\ NewPtr(p, "nil", "aes", TRUE)
          /\ Goto([frame EXCEPT !.own = p, !.pc = "native"])
    /\ UNCHANGED <<heap, leftover>>

\* zuc_aes_new(), and zuc_aes_cbc_set_state().
aes_new ==
    /\ frame.pc = "native" /\ frame.fn = "aes"
    /\ \/ /\ Goto([frame EXCEPT !.pc = "result", !.st = "FAILED"])
          /\ UNCHANGED <<obj, heap>>
       \/ \E a \in FreeAddr, st \in {"OK", "FAILED"} :
             /\ heap' = [heap EXCEPT ![a] = "aes"]
             /\ obj' = [obj EXCEPT ![frame.own].addr = a]
             /\ Goto([frame EXCEPT !.pc = "out", !.st = st])
    /\ UNCHANGED leftover

\* The vector for the output, which the chunks fill.
aes_out ==
    /\ frame.pc = "out"
    /\ Goto([frame EXCEPT !.pc = "chunk", !.buf = "blank"])
    /\ UNCHANGED <<obj, heap, leftover>>

\* Mutant: the loop does not stop at a failure.
aes_chunk_Continues ==
    /\ frame.pc = "chunk" /\ frame.left > 0
    /\ \E st \in {"OK", "FAILED"}, b \in {frame.buf, "secret"} :
          /\ st = "OK" => b = "secret"
          /\ Goto([frame EXCEPT !.st = st, !.buf = b, !.missed = @ \/ st # "OK", !.left = @ - 1, !.pc = "poll"])
    /\ UNCHANGED <<obj, heap, leftover>>

\* A chunk is written straight into the vector; one that fails may have
\* written part of it.
aes_chunk ==
    /\ frame.pc = "chunk" /\ frame.left > 0 /\ frame.st = "OK"
    /\ \E st \in {"OK", "FAILED"}, b \in {frame.buf, "secret"} :
          /\ st = "OK" => b = "secret"
          /\ Goto([frame EXCEPT !.st = st, !.buf = b, !.missed = @ \/ st # "OK", !.left = @ - 1, !.pc = "poll"])
    /\ UNCHANGED <<obj, heap, leftover>>

\* R_CheckUserInterrupt() that finds none.
aes_poll ==
    /\ frame.pc = "poll"
    /\ Goto([frame EXCEPT !.pc = "chunk"])
    /\ UNCHANGED <<obj, heap, leftover>>

\* The pointer is cleared, then the context is freed.
release_ptr(p) ==
    /\ heap' = [heap EXCEPT ![obj[p].addr] = "free"]
    /\ obj' = [obj EXCEPT ![p].addr = Null]

aes_done ==
    /\ frame.pc = "chunk" /\ (frame.left = 0 \/ frame.st # "OK")
    /\ release_ptr(frame.own)
    /\ Goto([frame EXCEPT !.pc = "result"])
    /\ UNCHANGED leftover

-----------------------------------------------------------------------------
(* Leaving a call *)

\* The list for R is made, and with it a new key gets its first reference.
result ==
    /\ frame.pc = "result"
    /\ frame' = Idle
    /\ ret' = Ended(frame, FALSE)
    /\ obj' = IF frame.fn \in Maker /\ frame.st = "OK" THEN [obj EXCEPT ![frame.own].reach = TRUE] ELSE obj
    /\ UNCHANGED <<heap, leftover>>

\* An allocation fails, or an interrupt is pending.
Jump ==
    /\ frame.pc \in {"ptr", "buf", "out", "poll", "result"} \/ (frame.pc = "trim" /\ frame.st = "OK")
    /\ frame' = Idle
    /\ ret' = Ended(frame, TRUE)
    /\ UNCHANGED <<obj, heap, leftover>>

-----------------------------------------------------------------------------
(* R itself *)

\* pkey_finalizer(), aes_finalizer(), or another package's.
Finalized(p) == IF obj[p].addr = Null THEN heap ELSE [heap EXCEPT ![obj[p].addr] = "free"]

\* The collector takes a pointer that neither R code nor the call refers to.
Collect(p) ==
    /\ obj[p].tag # "unused" /\ ~obj[p].reach
    /\ p \notin frame.args \union {frame.own}
    /\ heap' = Finalized(p)
    /\ obj' = [obj EXCEPT ![p] = Unused]
    /\ UNCHANGED <<frame, ret, leftover>>

\* R code lets go of a key.
Drop(p) ==
    /\ frame = Idle /\ obj[p].reach
    /\ obj' = [obj EXCEPT ![p].reach = FALSE]
    /\ UNCHANGED <<heap, frame, ret, leftover>>

\* readRDS() of a key saved in this or an earlier session: the tag survives.
Restore(p) ==
    /\ frame = Idle /\ p \in UnusedPtr
    /\ obj' = [obj EXCEPT ![p] = [Unused EXCEPT !.tag = "zucrypt_pkey", !.reach = TRUE]]
    /\ UNCHANGED <<heap, frame, ret, leftover>>

\* A pointer another package made.
Foreign(p, a) ==
    /\ frame = Idle /\ p \in UnusedPtr /\ a \in FreeAddr
    /\ obj' = [obj EXCEPT ![p] = [Unused EXCEPT !.tag = "foreign", !.addr = a, !.reach = TRUE]]
    /\ heap' = [heap EXCEPT ![a] = "other"]
    /\ UNCHANGED <<frame, ret, leftover>>

\* The session ends: R runs the finalizers that asked for it.  Then another
\* one begins.
Quit ==
    /\ frame = Idle
    /\ leftover' = {a \in Addr : /\ heap[a] \in {"pkey", "aes"}
                                 /\ ~\E p \in Ptr : obj[p].onexit /\ Finalized(p)[a] = "free"}
    /\ obj' = [p \in Ptr |-> Unused]
    /\ heap' = [a \in Addr |-> "free"]
    /\ ret' = Ended(Idle, FALSE)
    /\ UNCHANGED frame

Entry ==
    \/ zucrypt_pkey_parse \/ zucrypt_pkey_generate \/ zucrypt_pkey_import
    \/ zucrypt_aes_cbc \/ zucrypt_aes_gcm \/ zucrypt_pbkdf2
    \/ \E p \in Ptr :
          \/ zucrypt_pkey_public(p) \/ zucrypt_pkey_info(p) \/ zucrypt_pkey_verify(p)
          \/ zucrypt_pkey_write(p) \/ zucrypt_pkey_sign(p) \/ zucrypt_pkey_crypt(p) \/ zucrypt_pkey_export(p)
          \/ \E q \in Ptr : zucrypt_pkey_agree(p, q)

Next ==
    \/ Entry
    \/ pkey_ptr \/ pkey_result \/ AllocateBuffer \/ UseKey \/ UseOutput \/ trimmed
    \/ aes_ptr \/ aes_new \/ aes_out \/ aes_chunk \/ aes_poll \/ aes_done
    \/ result \/ Jump
    \/ \E p \in Ptr : Collect(p) \/ Drop(p) \/ Restore(p) \/ (\E a \in Addr : Foreign(p, a))
    \/ Quit

Spec == Init /\ [][Next]_vars

-----------------------------------------------------------------------------
(* Properties *)

\* Every native handle is owned by exactly one pointer, with the finalizer
\* that frees its kind, from the step that makes it until it is freed, and no
\* pointer keeps the address of something freed: nothing is leaked or freed
\* twice, wherever a jump or the collector interrupts a call.
OwnedOnce ==
    /\ \A a \in Addr : heap[a] \in {"pkey", "aes"} => \E p \in Ptr : obj[p].addr = a
    /\ \A p \in Ptr : obj[p].addr # Null =>
          /\ heap[obj[p].addr] = IF obj[p].fin = "none" THEN "other" ELSE obj[p].fin
          /\ \A q \in Ptr : obj[q].addr = obj[p].addr => q = p

\* The addresses a call read from its arguments are those of live key handles
\* when it comes to use them, whatever the collector ran in between.
UsesLive ==
    frame.fn # "none" => \A a \in {frame.key, frame.other} \ {Null} : heap[a] = "pkey"

\* When a public-key call returns, its buffer is wiped, whether what was in it
\* was copied for R or not; and no call that returns an error drops a vector
\* with output in it, but for zucrypt_aes_cbc() after one of its chunks failed.
\* (A call that a jump ends returns nothing, and wipes nothing.)
WipedOnReturn ==
    ~ret.jumped =>
        /\ ret.fn \in Buffered => ret.buf = "zero"
        /\ ret.st # "OK" /\ ret.buf = "secret" => ret.fn = "aes" /\ ret.missed

\* The same without the exception, which the code does not promise and does
\* not keep: zucrypt_aes_cbc() drops the chunks decrypted before the one that
\* failed as they are.
DroppedWiped ==
    ~ret.jumped =>
        /\ ret.fn \in Buffered => ret.buf = "zero"
        /\ ret.st # "OK" => ret.buf # "secret"

\* R gets the output of zucrypt_aes_cbc() only when every chunk went through.
WholeOrNothing ==
    ret.fn = "aes" /\ ~ret.jumped /\ ret.st = "OK" => ret.left = 0 /\ ~ret.missed

\* zucrypt_aes_cbc() leaves its context to the collector only when a jump
\* leaves it no choice.
ReleasedEagerly ==
    [][frame.fn = "aes" /\ frame' = Idle /\ ~ret'.jumped => obj'[frame.own].addr = Null]_vars

\* A handle that is still there when R ends, reachable or not, is freed and so
\* wiped.
NothingLeft == leftover = {}

=============================================================================
