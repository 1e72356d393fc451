------------------------------- MODULE Adapter -------------------------------
(***************************************************************************)
(* The handle and key-store core of the C adapter: the reference-counted   *)
(* backend window (zuc_backend.c), the digest and HMAC handles             *)
(* (zuc_hash.c) and the lifetime of AES handles (zuc_aes.c), over the      *)
(* backend's volatile key store and multipart operations.                  *)
(*                                                                         *)
(* The library is main-thread only, so one call is one action.  What a     *)
(* call can meet is any earlier sequence of calls by any of its consumers, *)
(* and a failure of any backend call it makes.                             *)
(***************************************************************************)
EXTENDS Integers, Sequences, FiniteSets

CONSTANTS
    Client,      \* consumers of one copy of the library, each holding at most one reference
    Handle,      \* heap blocks a context can live in
    KeyId,       \* volatile key identifiers of the backend
    MacKey,      \* HMAC key material, up to producing the same MACs
    CipherKey,   \* AES key material
    Chunk,       \* non-empty inputs of an update
    NoKey,       \* an empty slot; also "no key" of an unkeyed digest
    NoId,        \* the key identifier of a handle without a key
    NoHandle,
    NoClient,
    MaxRef,      \* the largest reference count, 0xFFFFFFFF in the code
    MaxChunks,   \* bound: chunks accepted by a handle between two resets
    Disciplined  \* consumers keep a reference for as long as they hold a handle

Material == MacKey \union CipherKey

ASSUME ClientAssumption == IsFiniteSet(Client) /\ NoClient \notin Client
ASSUME HandleAssumption == IsFiniteSet(Handle) /\ NoHandle \notin Handle
ASSUME KeyAssumption ==
    /\ NoKey \notin Material
    /\ NoId \notin KeyId
    /\ MacKey \intersect CipherKey = {}
ASSUME BoundAssumption ==
    /\ MaxRef \in Nat \ {0}
    /\ MaxChunks \in Nat
    /\ Disciplined \in BOOLEAN

VARIABLES
    refcount,  \* zuc_refcount
    holders,   \* ghost: the clients whose zuc_init() is not yet matched
    store,     \* the backend's key slots
    ctx,       \* the contexts the clients hold
    live,      \* zuc_live
    ret        \* what the last call returned

vars == <<refcount, holders, store, ctx, live, ret>>

-----------------------------------------------------------------------------
(* Types *)

Kind == {"none", "hash", "hmac", "aes"}

\* The general statuses a failed backend call is mapped to.
Failure == {"MEMORY", "BACKEND"}

Status == Failure \union {"OK", "NOT_READY", "INVALID_ARGUMENT", "UNSUPPORTED",
                          "BAD_LENGTH", "INTERNAL"}

\* A multipart backend operation: set up or not, under which key, fed with what.
Operation == [on: BOOLEAN, mat: MacKey \union {NoKey}, fed: Seq(Chunk)]

Idle == [on |-> FALSE, mat |-> NoKey, fed |-> <<>>]

Started(m) == [on |-> TRUE, mat |-> m, fed |-> <<>>]

\* A context.  given, taken and failed are ghosts: the key the caller passed,
\* the chunks whose update returned ZUC_OK since the handle was created or
\* reset, and whether an update with data has failed since then.
Context == [kind: Kind, owner: Client \union {NoClient},
            key: KeyId \union {NoId}, active: BOOLEAN, op: Operation,
            given: Material \union {NoKey}, taken: Seq(Chunk), failed: BOOLEAN]

Unused == [kind |-> "none", owner |-> NoClient, key |-> NoId, active |-> FALSE,
           op |-> Idle, given |-> NoKey, taken |-> <<>>, failed |-> FALSE]

Fn == {"none", "init", "shutdown", "new", "update", "early", "finish", "reset", "free", "compute"}

\* A digest, or a MAC under mat, of msg.
Digest == [mat: MacKey \union {NoKey}, msg: Seq(Chunk)]

NoDigest == [mat |-> NoKey, msg |-> <<>>]

Return == [fn: Fn, h: Handle \union {NoHandle}, st: Status, out: Digest]

TypeOK ==
    /\ refcount \in 0..MaxRef
    /\ holders \subseteq Client
    /\ store \in [KeyId -> Material \union {NoKey}]
    /\ ctx \in [Handle -> Context]
    /\ live \in Int
    /\ ret \in Return

EmptyStore == [id \in KeyId |-> NoKey]

Init ==
    /\ refcount = 0
    /\ holders = {}
    /\ store = EmptyStore
    /\ ctx = [h \in Handle |-> Unused]
    /\ live = 0
    /\ ret = [fn |-> "none", h |-> NoHandle, st |-> "OK", out |-> NoDigest]

-----------------------------------------------------------------------------
(* Helpers *)

Returns(fn, h, st) == ret' = [fn |-> fn, h |-> h, st |-> st, out |-> NoDigest]

\* zuc_int_ready()
Ready == refcount > 0

\* psa_import_key() into a free slot.  Slots are reused, so an identifier
\* names different keys over time.
Import(id, m) == [store EXCEPT ![id] = m]

FreeId == {id \in KeyId : store[id] = NoKey}

\* psa_destroy_key(), which ignores an identifier with no key behind it.
Destroy(s, id) == IF id \in KeyId THEN [s EXCEPT ![id] = NoKey] ELSE s

Open(h) == ctx[h].kind # "none"

\* The handles of client c.
HandlesOf(c) == {h \in Handle : Open(h) /\ ctx[h].owner = c}

\* The rule zucrypt.h states for consumers: hold a reference while holding a
\* context.
MayCreate(c) == Disciplined /\ Ready => c \in holders

MayShutdown(c) == Disciplined => c \in holders /\ HandlesOf(c) = {}

\* The context a constructor hands out.
NewContext(k, c, id, m) ==
    [Unused EXCEPT !.kind = k, !.owner = c, !.key = id, !.given = m]

-----------------------------------------------------------------------------
(* Library lifetime: zuc_backend.c *)

\* Mutant: the reference is counted before the backend has started.
zuc_init_CountsFailures(c) ==
    /\ c \notin holders
    /\ refcount < MaxRef
    /\ refcount' = refcount + 1
    /\ \/ holders' = holders \union {c} /\ Returns("init", NoHandle, "OK")
       \/ /\ refcount = 0
          /\ \E st \in Failure : Returns("init", NoHandle, st)
          /\ UNCHANGED holders
    /\ UNCHANGED <<store, ctx, live>>

zuc_init(c) ==
    /\ c \notin holders
    /\ UNCHANGED <<ctx, live>>
    /\ \/ /\ refcount = MaxRef
          /\ Returns("init", NoHandle, "INTERNAL")
          /\ UNCHANGED <<refcount, holders, store>>
       \/ /\ refcount > 0
          /\ refcount < MaxRef
          /\ refcount' = refcount + 1
          /\ holders' = holders \union {c}
          /\ Returns("init", NoHandle, "OK")
          /\ UNCHANGED store
       \/ /\ refcount = 0
          /\ refcount' = 1
          /\ holders' = holders \union {c}
          /\ Returns("init", NoHandle, "OK")
          /\ UNCHANGED store
       \/ /\ refcount = 0
          /\ \E st \in Failure : Returns("init", NoHandle, st)
          /\ store' = EmptyStore    \* psa_crypto_init() undoes a partial start
          /\ UNCHANGED <<refcount, holders>>

\* Mutant: the backend is freed with the first reference given up.
zuc_shutdown_Early(c) ==
    /\ Ready
    /\ MayShutdown(c)
    /\ refcount' = refcount - 1
    /\ holders' = holders \ {c}
    /\ store' = EmptyStore
    /\ Returns("shutdown", NoHandle, "OK")
    /\ UNCHANGED <<ctx, live>>

zuc_shutdown(c) ==
    /\ MayShutdown(c)
    /\ UNCHANGED <<ctx, live>>
    /\ \/ /\ refcount = 0
          /\ Returns("shutdown", NoHandle, "INVALID_ARGUMENT")
          /\ UNCHANGED <<refcount, holders, store>>
       \/ /\ refcount > 0
          /\ refcount' = refcount - 1
          /\ holders' = holders \ {c}
          /\ store' = IF refcount = 1 THEN EmptyStore ELSE store
          /\ Returns("shutdown", NoHandle, "OK")

-----------------------------------------------------------------------------
(* Digest handles: zuc_hash.c *)

\* A constructor or one-shot call that returns early: outside the window, on a
\* bad argument, or before anything is acquired.  A constructor checks where it
\* is to put the handle before anything else.
Refused(c, fn, bad) ==
    /\ MayCreate(c)
    /\ \/ fn = "new" /\ Returns(fn, NoHandle, "INVALID_ARGUMENT")
       \/ ~Ready /\ Returns(fn, NoHandle, "NOT_READY")
       \/ Ready /\ \E st \in bad \union Failure : Returns(fn, NoHandle, st)
    /\ UNCHANGED <<refcount, holders, store, ctx, live>>

zuc_hash_compute(c, d) ==
    \/ Refused(c, "compute", {"BAD_LENGTH", "UNSUPPORTED", "INVALID_ARGUMENT"})
    \/ /\ MayCreate(c)
       /\ Ready
       /\ ret' = [fn |-> "compute", h |-> NoHandle, st |-> "OK",
                  out |-> [mat |-> NoKey, msg |-> <<d>>]]
       /\ UNCHANGED <<refcount, holders, store, ctx, live>>

zuc_hash_new(c, h) ==
    /\ ~Open(h)
    /\ \/ Refused(c, "new", {"UNSUPPORTED"})
       \/ /\ MayCreate(c)
          /\ Ready
          /\ ctx' = [ctx EXCEPT ![h] = [NewContext("hash", c, NoId, NoKey)
                                        EXCEPT !.active = TRUE, !.op = Started(NoKey)]]
          /\ live' = live + 1
          /\ Returns("new", h, "OK")
          /\ UNCHANGED <<refcount, holders, store>>

\* An update, finish or reset that stops before it reaches the backend.
Rejected(h, fn, st) ==
    /\ Returns(fn, h, st)
    /\ UNCHANGED <<refcount, holders, store, ctx, live>>

\* A data-carrying update of an active handle: the chunk is accepted, or the
\* call fails and leaves the operation in the state next.
Accepts(h, d) ==
    /\ ctx[h].op.on
    /\ ctx' = [ctx EXCEPT ![h].op.fed = Append(@, d), ![h].taken = Append(@, d)]
    /\ Returns("update", h, "OK")

\* Mutant: a failed update leaves the operation set up.
Fails_GoesOn(h, st, next) ==
    /\ ctx' = [ctx EXCEPT ![h].failed = TRUE]
    /\ Returns("update", h, st)

Fails(h, st, next) ==
    /\ ctx' = [ctx EXCEPT ![h].op = next, ![h].failed = TRUE]
    /\ Returns("update", h, st)

zuc_hash_update(h, d) ==
    /\ ctx[h].kind = "hash"
    /\ Len(ctx[h].taken) < MaxChunks
    /\ \/ Rejected(h, "early", "INVALID_ARGUMENT")        \* a NULL, or not active
       \/ ctx[h].active /\ Rejected(h, "early", "OK")    \* data_len == 0
       \/ /\ ctx[h].active
          /\ \/ Accepts(h, d)
             \/ ~ctx[h].op.on /\ Fails(h, "INTERNAL", ctx[h].op)
             \/ ctx[h].op.on /\ \E st \in Failure : Fails(h, st, Idle)
          /\ UNCHANGED <<refcount, holders, store, live>>

\* A finish that reaches the backend clears active whatever the backend says.
Finished(h, next) == ctx' = [ctx EXCEPT ![h].op = next, ![h].active = FALSE]

\* The part both finish functions share.  spared is the operation left behind
\* when the backend cannot allocate its copy of the output buffer.
Finish(h, spared) ==
    \/ Rejected(h, "early", "INVALID_ARGUMENT")    \* a NULL, or not active
    \/ ctx[h].active /\ Rejected(h, "early", "BAD_LENGTH")
    \/ /\ ctx[h].active
       /\ \/ /\ Finished(h, spared)
             /\ Returns("finish", h, "MEMORY")
          \/ /\ ~ctx[h].op.on
             /\ Finished(h, Idle)
             /\ Returns("finish", h, "INTERNAL")
          \/ /\ ctx[h].op.on
             /\ Finished(h, Idle)
             /\ Returns("finish", h, "BACKEND")
          \/ /\ ctx[h].op.on
             /\ Finished(h, Idle)
             /\ ret' = [fn |-> "finish", h |-> h, st |-> "OK",
                        out |-> [mat |-> ctx[h].op.mat, msg |-> ctx[h].op.fed]]
       /\ UNCHANGED <<refcount, holders, store, live>>

\* psa_hash_finish() returns before its abort when that allocation fails.
zuc_hash_finish(h) ==
    /\ ctx[h].kind = "hash"
    /\ Finish(h, ctx[h].op)

\* Mutant: the operation is set up again without having been aborted.
Restarted_Continues(h, next, on) ==
    ctx' = [ctx EXCEPT ![h].op = [next EXCEPT !.fed = ctx[h].op.fed], ![h].active = on,
                       ![h].taken = <<>>, ![h].failed = FALSE]

\* Reset: whatever operation there was is abandoned and a new one set up.
Restarted(h, next, on) ==
    ctx' = [ctx EXCEPT ![h].op = next, ![h].active = on,
                       ![h].taken = <<>>, ![h].failed = FALSE]

zuc_hash_reset(h) ==
    /\ ctx[h].kind = "hash"
    /\ \/ Restarted(h, Started(NoKey), TRUE) /\ Returns("reset", h, "OK")
       \/ Restarted(h, Idle, FALSE) /\ \E st \in Failure : Returns("reset", h, st)
    /\ UNCHANGED <<refcount, holders, store, live>>

\* Mutants: the key stays in the store; the free is not counted.
Freed_KeepsKey(h) ==
    /\ ctx' = [ctx EXCEPT ![h] = Unused]
    /\ live' = live - 1
    /\ Returns("free", h, "OK")
    /\ UNCHANGED <<refcount, holders, store>>

Freed_Uncounted(h) ==
    /\ store' = Destroy(store, ctx[h].key)
    /\ ctx' = [ctx EXCEPT ![h] = Unused]
    /\ Returns("free", h, "OK")
    /\ UNCHANGED <<refcount, holders, live>>

\* zuc_hash_free(), zuc_hmac_free() and zuc_aes_free(): abort, destroy the
\* key, wipe the struct.
Freed(h) ==
    /\ store' = Destroy(store, ctx[h].key)
    /\ ctx' = [ctx EXCEPT ![h] = Unused]
    /\ live' = live - 1
    /\ Returns("free", h, "OK")
    /\ UNCHANGED <<refcount, holders>>

zuc_hash_free(h) == ctx[h].kind = "hash" /\ Freed(h)

-----------------------------------------------------------------------------
(* HMAC handles: zuc_hash.c *)

\* Import, use, destroy: on success and on failure alike.
zuc_hmac_compute(c, m, d) ==
    \/ Refused(c, "compute", {"BAD_LENGTH", "UNSUPPORTED", "INVALID_ARGUMENT"})
    \/ /\ MayCreate(c)
       /\ Ready
       /\ \E id \in FreeId :
             /\ store' = Destroy(Import(id, m), id)
             /\ \/ \E st \in Failure : Returns("compute", NoHandle, st)
                \/ ret' = [fn |-> "compute", h |-> NoHandle, st |-> "OK",
                           out |-> [mat |-> m, msg |-> <<d>>]]
       /\ UNCHANGED <<refcount, holders, ctx, live>>

zuc_hmac_new(c, h, m) ==
    /\ ~Open(h)
    /\ \/ Refused(c, "new", {"UNSUPPORTED", "INVALID_ARGUMENT"})
       \/ /\ MayCreate(c)
          /\ Ready
          /\ \E id \in FreeId :
                \/ /\ store' = Destroy(Import(id, m), id)   \* setup failed
                   /\ \E st \in Failure : Returns("new", NoHandle, st)
                   /\ UNCHANGED <<ctx, live>>
                \/ /\ store' = Import(id, m)
                   /\ ctx' = [ctx EXCEPT ![h] = [NewContext("hmac", c, id, m)
                                                 EXCEPT !.active = TRUE, !.op = Started(m)]]
                   /\ live' = live + 1
                   /\ Returns("new", h, "OK")
          /\ UNCHANGED <<refcount, holders>>

\* psa_mac_update() keeps the operation when it cannot copy its input, and
\* aborts it on any other failure.
zuc_hmac_update(h, d) ==
    /\ ctx[h].kind = "hmac"
    /\ Len(ctx[h].taken) < MaxChunks
    /\ \/ Rejected(h, "early", "INVALID_ARGUMENT")        \* a NULL, or not active
       \/ ctx[h].active /\ Rejected(h, "early", "OK")    \* data_len == 0
       \/ /\ ctx[h].active
          /\ \/ Accepts(h, d)
             \/ ~ctx[h].op.on /\ Fails(h, "INTERNAL", ctx[h].op)
             \/ ctx[h].op.on /\ Fails(h, "MEMORY", ctx[h].op)
             \/ ctx[h].op.on /\ \E st \in Failure : Fails(h, st, Idle)
          /\ UNCHANGED <<refcount, holders, store, live>>

\* psa_mac_sign_finish() aborts the operation on every path.
zuc_hmac_finish(h) ==
    /\ ctx[h].kind = "hmac"
    /\ Finish(h, Idle)

\* The key behind the handle's identifier is looked up again, and its policy
\* must allow a MAC.
zuc_hmac_reset(h) ==
    /\ ctx[h].kind = "hmac"
    /\ \/ /\ store[ctx[h].key] \in MacKey
          /\ Restarted(h, Started(store[ctx[h].key]), TRUE)
          /\ Returns("reset", h, "OK")
       \/ /\ Restarted(h, Idle, FALSE)
          /\ \E st \in Failure \union {"INTERNAL"} : Returns("reset", h, st)
    /\ UNCHANGED <<refcount, holders, store, live>>

zuc_hmac_free(h) == ctx[h].kind = "hmac" /\ Freed(h)

-----------------------------------------------------------------------------
(* AES handles: zuc_aes.c; what the calls compute is the subject of AesCbc *)

zuc_aes_new(c, h, m) ==
    /\ ~Open(h)
    /\ \/ Refused(c, "new", {"BAD_LENGTH", "INVALID_ARGUMENT"})
       \/ /\ MayCreate(c)
          /\ Ready
          /\ \E id \in FreeId :
                /\ store' = Import(id, m)
                /\ ctx' = [ctx EXCEPT ![h] = NewContext("aes", c, id, m)]
          /\ live' = live + 1
          /\ Returns("new", h, "OK")
          /\ UNCHANGED <<refcount, holders>>

zuc_aes_free(h) == ctx[h].kind = "aes" /\ Freed(h)

-----------------------------------------------------------------------------

Lifetime(c) == zuc_init(c) \/ zuc_shutdown(c)

Create(c) ==
    \/ \E d \in Chunk : zuc_hash_compute(c, d) \/ \E m \in MacKey : zuc_hmac_compute(c, m, d)
    \/ \E h \in Handle :
          \/ zuc_hash_new(c, h)
          \/ \E m \in MacKey : zuc_hmac_new(c, h, m)
          \/ \E m \in CipherKey : zuc_aes_new(c, h, m)

Use(h) ==
    \/ \E d \in Chunk : zuc_hash_update(h, d) \/ zuc_hmac_update(h, d)
    \/ zuc_hash_finish(h)
    \/ zuc_hmac_finish(h)
    \/ zuc_hash_reset(h)
    \/ zuc_hmac_reset(h)

Free(h) == zuc_hash_free(h) \/ zuc_hmac_free(h) \/ zuc_aes_free(h)

Next ==
    \/ \E c \in Client : Lifetime(c) \/ Create(c)
    \/ \E h \in Handle : Use(h) \/ Free(h)

Spec == Init /\ [][Next]_vars

-----------------------------------------------------------------------------
(* Properties *)

\* zuc_live counts exactly the contexts the callers still hold, whatever
\* constructor failed on the way: a drift would hide or invent a leak.
LiveCount == live = Cardinality({h \in Handle : Open(h)})

\* Key material never outlives its context: a key in the backend's global
\* store belongs to an open handle, even after a failed constructor, a failed
\* one-shot HMAC, or a shutdown under a handle that is freed later.
NoOrphanKey ==
    \A id \in KeyId : store[id] # NoKey =>
        \E h \in Handle : Open(h) /\ ctx[h].key = id /\ ctx[h].given = store[id]

\* The last matching zuc_shutdown() leaves no key behind.
NoKeyOutsideWindow == ~Ready => store = EmptyStore

\* A digest or MAC that zuc_hash_finish()/zuc_hmac_finish() returns covers
\* exactly the updates that returned ZUC_OK since the last new or reset.
FinishCoversAccepted ==
    ret.fn = "finish" /\ ret.st = "OK" => ret.out.msg = ctx[ret.h].taken

\* After an update of a digest handle has failed no digest comes out of it
\* until it is reset: a caller that missed the status gets no digest of a
\* truncated message.
FailedUpdatePoisonsHash ==
    ret.fn = "finish" /\ ret.st = "OK" /\ ctx[ret.h].kind = "hash" => ~ctx[ret.h].failed

\* Among consumers that follow the rule of zucrypt.h, zuc_refcount is the
\* number of references held, so nobody's shutdown tears the backend down
\* under another.
RefcountIsHolders == refcount = Cardinality(holders)

\* Under that rule the key identifier in every open HMAC or AES handle still
\* names the key the handle was created with, and no other handle's.
KeysIntact ==
    \A h \in Handle : ctx[h].kind \in {"hmac", "aes"} =>
        /\ store[ctx[h].key] = ctx[h].given
        /\ \A g \in Handle : Open(g) /\ ctx[g].key = ctx[h].key => g = h

\* Under that rule a MAC is computed with the key given to zuc_hmac_new(),
\* across any number of resets, which look the key up by identifier again.
FinishUsesOwnKey ==
    ret.fn = "finish" /\ ret.st = "OK" => ret.out.mat = ctx[ret.h].given

\* "The backend's operation is consumed either way" (zuc_hash.c, on finish).
FinishConsumesOperation ==
    \A h \in Handle : ~ctx[h].active => ~ctx[h].op.on

\* "Every entry point that touches the backend checks it" (zuc_internal.h, on
\* zuc_int_ready()).
NotReadyOutsideWindow ==
    ret.fn \in {"update", "finish", "reset"} /\ ~Ready => ret.st = "NOT_READY"

=============================================================================
