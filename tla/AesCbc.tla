------------------------------- MODULE AesCbc --------------------------------
(***************************************************************************)
(* AES-CBC over caller memory (zuc_aes.c): one handle, its chaining value, *)
(* and a caller that passes any two buffers, the same one twice or         *)
(* overlapping ones included, in calls of any length and direction.        *)
(*                                                                         *)
(* Memory is counted in blocks; a length that is not a whole number of     *)
(* blocks is the flag whole.  The block cipher is a parameter.             *)
(***************************************************************************)
EXTENDS Buffers, Sequences

CONSTANTS
    Key,        \* AES keys
    NoKey,
    Block,      \* contents of one block
    Zero,       \* the all-zero block
    E, D,       \* the block cipher and its inverse, per key
    X,          \* exclusive or of two blocks
    MemSize,    \* bound: blocks of caller memory
    MaxLog      \* bound: blocks processed since the last set_state

ASSUME CipherAssumption ==
    /\ NoKey \notin Key
    /\ Zero \in Block
    /\ E \in [Key -> [Block -> Block]]
    /\ D \in [Key -> [Block -> Block]]
    /\ \A k \in Key, b \in Block : E[k][D[k][b]] = b
    /\ X \in [Block -> [Block -> Block]]
    /\ \A a, b \in Block : X[X[a][b]][b] = a

ASSUME MemAssumption ==
    /\ MemSize \in Nat
    /\ MaxLog \in Nat
    /\ MemSize + 1 < PtrMod

VARIABLES
    ready,    \* zuc_int_ready()
    given,    \* the key the handle was created with; NoKey: there is no handle
    slot,     \* the key behind the handle's identifier in the backend's store
    chain,    \* aes->chain
    mem,      \* the caller's memory
    iv,       \* ghost: the chaining value last set
    plain,    \* ghost: the plaintext blocks processed since then
    cipher,   \* ghost: the ciphertext blocks processed since then
    ret       \* what the last call returned

vars == <<ready, given, slot, chain, mem, iv, plain, cipher, ret>>

Addr == 1..MemSize

\* cipher_run() fails with the mapped status of a backend call, here BACKEND
\* whatever it is, or with INTERNAL when the output comes up short.
Failure == {"BACKEND", "INTERNAL"}

Status == Failure \union {"OK", "NOT_READY", "INVALID_ARGUMENT", "BAD_LENGTH", "OVERLAP"}

Return == [fn: {"none", "new", "free", "set_state", "get_state", "crypt"}, st: Status,
           src: Nat, dst: Nat, n: Nat, state: Block]

TypeOK ==
    /\ ready \in BOOLEAN
    /\ given \in Key \union {NoKey}
    /\ slot \in {given, NoKey}
    /\ chain \in Block
    /\ mem \in [Addr -> Block]
    /\ iv \in Block
    /\ plain \in Seq(Block)
    /\ cipher \in Seq(Block)
    /\ ret \in Return

Returns(fn, st) == ret' = [fn |-> fn, st |-> st, src |-> Null, dst |-> Null, n |-> 0, state |-> Zero]

Init ==
    /\ ready = FALSE
    /\ given = NoKey
    /\ slot = NoKey
    /\ chain = Zero
    /\ mem = [a \in Addr |-> Zero]
    /\ iv = Zero
    /\ plain = <<>>
    /\ cipher = <<>>
    /\ ret = [fn |-> "none", st |-> "OK", src |-> Null, dst |-> Null, n |-> 0, state |-> Zero]

-----------------------------------------------------------------------------
(* The handle *)

\* A stream starts: the chaining value becomes s.
Restart(s) ==
    /\ chain' = s
    /\ iv' = s
    /\ plain' = <<>>
    /\ cipher' = <<>>

\* The window opens, and closes under the handle, which loses its key.  That
\* the key's identifier may then name another key is the subject of Adapter.
Window ==
    /\ ready' = ~ready
    /\ slot' = NoKey
    /\ Returns("none", "OK")
    /\ UNCHANGED <<given, chain, mem, iv, plain, cipher>>

\* A successful zuc_aes_new(); Adapter has its failures.
zuc_aes_new(k) ==
    /\ ready
    /\ given = NoKey
    /\ given' = k
    /\ slot' = k
    /\ Restart(Zero)
    /\ Returns("new", "OK")
    /\ UNCHANGED <<ready, mem>>

zuc_aes_free ==
    /\ given # NoKey
    /\ given' = NoKey
    /\ slot' = NoKey
    /\ Restart(Zero)
    /\ Returns("free", "OK")
    /\ UNCHANGED <<ready, mem>>

zuc_aes_cbc_set_state(s) ==
    /\ given # NoKey
    /\ Restart(s)
    /\ Returns("set_state", "OK")
    /\ UNCHANGED <<ready, given, slot, mem>>

zuc_aes_cbc_get_state ==
    /\ given # NoKey
    /\ ret' = [fn |-> "get_state", st |-> "OK", src |-> Null, dst |-> Null, n |-> 0, state |-> chain]
    /\ UNCHANGED <<ready, given, slot, chain, mem, iv, plain, cipher>>

-----------------------------------------------------------------------------
(* Encryption and decryption *)

\* src and dst are addresses of n blocks, or Null.
ValidBuffer(a, n) == a = Null \/ (a \in Addr /\ a + n - 1 <= MemSize)

\* The early returns of both directions, in their order.
check_block_args(src, dst, n, whole) ==
    IF ~ready THEN "NOT_READY"
    ELSE IF n = 0 /\ whole THEN "OK"
    ELSE IF src = Null \/ dst = Null THEN "INVALID_ARGUMENT"
    ELSE IF ~whole THEN "BAD_LENGTH"
    ELSE IF zuc_int_overlaps(src, dst, n) THEN "OVERLAP"
    ELSE "OK"

\* The n blocks at a, and memory after the blocks w are written there.
Read(a, n) == [i \in 1..n |-> mem[a + i - 1]]

Write(a, w) == [b \in Addr |-> IF b \in a..(a + Len(w) - 1) THEN w[b - a + 1] ELSE mem[b]]

\* The block chained into block i of w.
Before(w, i) == IF i = 1 THEN chain ELSE w[i - 1]

\* One CBC pass from the chaining value: p is the plaintext, c the ciphertext.
EncryptPass(p, c) ==
    \A i \in 1..Len(p) : c[i] = E[slot][X[p[i]][Before(c, i)]]

DecryptPass(c, p) ==
    \A i \in 1..Len(c) : p[i] = X[D[slot][c[i]]][Before(c, i)]

CryptReturns(st, src, dst, n) ==
    ret' = [fn |-> "crypt", st |-> st, src |-> src, dst |-> dst, n |-> n, state |-> Zero]

\* A call that returns before cipher_run().
Early(src, dst, n, whole) ==
    /\ check_block_args(src, dst, n, whole) # "OK" \/ n = 0
    /\ CryptReturns(check_block_args(src, dst, n, whole), src, dst, n)
    /\ UNCHANGED <<chain, mem, plain, cipher>>

\* A backend call of cipher_run() fails, as the first does when the key is
\* gone.  From psa_cipher_update() on, the output may hold anything.
Fails(src, dst, n) ==
    /\ \E st \in Failure : CryptReturns(st, src, dst, n)
    /\ mem' = mem \/ (slot # NoKey /\ \E w \in [1..n -> Block] : mem' = Write(dst, w))
    /\ UNCHANGED <<chain, plain, cipher>>

\* The pass succeeds and writes w.
Succeeds(src, dst, n, w) ==
    /\ slot # NoKey
    /\ Len(cipher) + n <= MaxLog
    /\ mem' = Write(dst, w)
    /\ CryptReturns("OK", src, dst, n)

zuc_aes_cbc_encrypt(src, dst, n, whole) ==
    /\ given # NoKey
    /\ \/ Early(src, dst, n, whole)
       \/ /\ check_block_args(src, dst, n, whole) = "OK" /\ n # 0
          /\ \/ Fails(src, dst, n)
             \/ \E w \in [1..n -> Block] :
                   /\ Succeeds(src, dst, n, w)
                   /\ EncryptPass(Read(src, n), w)
                   /\ chain' = mem'[dst + n - 1]
                   /\ plain' = plain \o Read(src, n)
                   /\ cipher' = cipher \o w
    /\ UNCHANGED <<ready, given, slot, iv>>

\* Mutant: the last ciphertext block is read after the pass.
zuc_aes_cbc_decrypt_SavesLate(src, dst, n, whole) ==
    /\ given # NoKey
    /\ check_block_args(src, dst, n, whole) = "OK" /\ n # 0
    /\ \E w \in [1..n -> Block] :
          /\ Succeeds(src, dst, n, w)
          /\ DecryptPass(Read(src, n), w)
          /\ chain' = mem'[src + n - 1]
          /\ plain' = plain \o w
          /\ cipher' = cipher \o Read(src, n)
    /\ UNCHANGED <<ready, given, slot, iv>>

\* The last ciphertext block is saved before the pass, which may overwrite it.
zuc_aes_cbc_decrypt(src, dst, n, whole) ==
    /\ given # NoKey
    /\ \/ Early(src, dst, n, whole)
       \/ /\ check_block_args(src, dst, n, whole) = "OK" /\ n # 0
          /\ \/ Fails(src, dst, n)
             \/ \E w \in [1..n -> Block] :
                   /\ Succeeds(src, dst, n, w)
                   /\ DecryptPass(Read(src, n), w)
                   /\ chain' = mem[src + n - 1]
                   /\ plain' = plain \o w
                   /\ cipher' = cipher \o Read(src, n)
    /\ UNCHANGED <<ready, given, slot, iv>>

-----------------------------------------------------------------------------

\* The caller changes its own memory between calls.
CallerWrites(a, b) ==
    /\ mem' = [mem EXCEPT ![a] = b]
    /\ Returns("none", "OK")
    /\ UNCHANGED <<ready, given, slot, chain, iv, plain, cipher>>

Next ==
    \/ Window
    \/ zuc_aes_free
    \/ zuc_aes_cbc_get_state
    \/ \E k \in Key : zuc_aes_new(k)
    \/ \E s \in Block : zuc_aes_cbc_set_state(s)
    \/ \E a \in Addr, b \in Block : CallerWrites(a, b)
    \/ \E src, dst \in 0..MemSize, n \in 0..MemSize, whole \in BOOLEAN :
          /\ ValidBuffer(src, n) /\ ValidBuffer(dst, n)
          /\ \/ zuc_aes_cbc_encrypt(src, dst, n, whole)
             \/ zuc_aes_cbc_decrypt(src, dst, n, whole)

Spec == Init /\ [][Next]_vars

-----------------------------------------------------------------------------
(* Properties *)

\* The chaining value of the i-th block processed.
Prev(i) == IF i = 1 THEN iv ELSE cipher[i - 1]

\* However the caller splits a stream into calls, mixes directions, works in
\* place and retries after failures, the blocks processed since the last
\* set_state are one CBC stream from that state, under the handle's key, and
\* aes->chain is where the stream stands.
CbcChained ==
    /\ Len(plain) = Len(cipher)
    /\ \A i \in 1..Len(cipher) : cipher[i] = E[given][X[plain[i]][Prev(i)]]
    /\ chain = Prev(Len(cipher) + 1)

\* ZUC_ERR_OVERLAP is returned exactly for a partial overlap, of buffers whose
\* other arguments are in order.
OverlapReported ==
    ret.fn = "crypt" /\ ret.st \notin {"NOT_READY", "INVALID_ARGUMENT", "BAD_LENGTH"} =>
        (ret.st = "OVERLAP" <=> PartialOverlap(ret.src, ret.dst, ret.n))

\* A call given two buffers never changes the one it reads, whether it
\* succeeds or fails half way: only an exact in-place call does.
InputSurvives ==
    [][ret'.fn = "crypt" /\ ret'.src # ret'.dst =>
         \A a \in Extent(ret'.src, ret'.n) \intersect Addr : mem'[a] = mem[a]]_vars

=============================================================================
