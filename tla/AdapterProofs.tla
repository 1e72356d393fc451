---------------------------- MODULE AdapterProofs ----------------------------
(***************************************************************************)
(* Theorems about Adapter, for every value of its constants, and, at the   *)
(* end, about FunctionTable, through which other packages reach it.        *)
(***************************************************************************)
EXTENDS Adapter, FunctionTable, FiniteSetTheorems, TLAPS

-----------------------------------------------------------------------------
(* Type correctness *)

LEMMA InitTyped == Init => TypeOK
BY KeyAssumption, HandleAssumption, BoundAssumption
   DEF Init, TypeOK, EmptyStore, Unused, Idle, Context, Kind, Operation, Return,
       Fn, Status, Failure, Digest, NoDigest

\* The return value of a call that produces no digest.
LEMMA ReturnsTyped ==
    ASSUME NEW fn \in Fn, NEW h \in Handle \union {NoHandle}, NEW st \in Status,
           Returns(fn, h, st)
    PROVE  ret' \in Return
BY DEF Returns, Return, Digest, NoDigest

LEMMA StoreTyped ==
    ASSUME TypeOK, NEW id \in KeyId \union {NoId}, NEW m \in Material
    PROVE  /\ EmptyStore \in [KeyId -> Material \union {NoKey}]
           /\ Import(id, m) \in [KeyId -> Material \union {NoKey}]
           /\ Destroy(store, id) \in [KeyId -> Material \union {NoKey}]
           /\ Destroy(Import(id, m), id) \in [KeyId -> Material \union {NoKey}]
BY DEF TypeOK, EmptyStore, Import, Destroy

LEMMA LifetimeTyped ==
    ASSUME TypeOK, NEW c \in Client, Lifetime(c)
    PROVE  TypeOK'
<1>1. \A st \in Status, fn \in Fn : Returns(fn, NoHandle, st) => ret' \in Return
  BY ReturnsTyped
<1>2. CASE zuc_init(c)
  BY <1>1, <1>2, StoreTyped, BoundAssumption DEF zuc_init, TypeOK, Status, Failure, Fn, EmptyStore
<1>3. CASE zuc_shutdown(c)
  BY <1>1, <1>3, StoreTyped, BoundAssumption DEF zuc_shutdown, TypeOK, Status, Failure, Fn, EmptyStore
<1>4. QED BY <1>2, <1>3 DEF Lifetime

\* The contexts the actions write.
LEMMA ContextTyped ==
    /\ Unused \in Context
    /\ Idle \in Operation
    /\ \A m \in MacKey \union {NoKey} : Started(m) \in Operation
    /\ \A k \in Kind, c \in Client, id \in KeyId \union {NoId},
          m \in Material \union {NoKey} : NewContext(k, c, id, m) \in Context
<1>1. Idle \in Operation
  BY DEF Idle, Operation
<1>2. \A m \in MacKey \union {NoKey} : Started(m) \in Operation
  BY DEF Started, Operation
<1>3. Unused \in Context
  BY <1>1 DEF Unused, Context, Kind
<1>4. ASSUME NEW k \in Kind, NEW c \in Client, NEW id \in KeyId \union {NoId},
             NEW m \in Material \union {NoKey}
      PROVE  NewContext(k, c, id, m) \in Context
  BY <1>3 DEF NewContext, Context
<1>5. QED BY <1>1, <1>2, <1>3, <1>4

LEMMA OpenedTyped ==
    ASSUME NEW k \in Kind, NEW c \in Client, NEW id \in KeyId \union {NoId},
           NEW m \in MacKey \union {NoKey}
    PROVE  [NewContext(k, c, id, m) EXCEPT !.active = TRUE, !.op = Started(m)] \in Context
<1>1. NewContext(k, c, id, m) \in Context /\ Started(m) \in Operation
  BY ContextTyped DEF Material
<1>2. QED BY <1>1 DEF Context

\* The return value of a one-shot digest or MAC.
LEMMA ComputedTyped ==
    ASSUME NEW m \in MacKey \union {NoKey}, NEW d \in Chunk
    PROVE  [fn |-> "compute", h |-> NoHandle, st |-> "OK",
            out |-> [mat |-> m, msg |-> <<d>>]] \in Return
<1>1. <<d>> \in Seq(Chunk)
  OBVIOUS
<1>2. [mat |-> m, msg |-> <<d>>] \in Digest
  BY <1>1 DEF Digest
<1>3. QED BY <1>2 DEF Return, Fn, Status

LEMMA CreateTyped ==
    ASSUME TypeOK, NEW c \in Client, Create(c)
    PROVE  TypeOK'
<1> USE DEF Status, Failure, Fn
<1>1. \A st \in Status, fn \in Fn, h \in Handle \union {NoHandle} :
        Returns(fn, h, st) => ret' \in Return
  BY ReturnsTyped
<1>2. ASSUME NEW fn \in {"new", "compute"}, NEW bad \in SUBSET Status, Refused(c, fn, bad)
      PROVE  TypeOK'
  BY <1>1, <1>2 DEF Refused, TypeOK
<1>3. ASSUME NEW d \in Chunk, zuc_hash_compute(c, d) PROVE TypeOK'
  <2>1. [fn |-> "compute", h |-> NoHandle, st |-> "OK",
         out |-> [mat |-> NoKey, msg |-> <<d>>]] \in Return
    BY ComputedTyped
  <2>2. CASE Refused(c, "compute", {"BAD_LENGTH", "UNSUPPORTED", "INVALID_ARGUMENT"})
    BY <1>2, <2>2
  <2>3. QED BY <1>3, <2>1, <2>2 DEF zuc_hash_compute, TypeOK
<1>4. ASSUME NEW d \in Chunk, NEW m \in MacKey, zuc_hmac_compute(c, m, d) PROVE TypeOK'
  <2>1. CASE Refused(c, "compute", {"BAD_LENGTH", "UNSUPPORTED", "INVALID_ARGUMENT"})
    BY <1>2, <2>1
  <2>2. ASSUME NEW id \in FreeId PROVE Destroy(Import(id, m), id) \in [KeyId -> Material \union {NoKey}]
    BY StoreTyped DEF FreeId, Material
  <2>3. [fn |-> "compute", h |-> NoHandle, st |-> "OK",
         out |-> [mat |-> m, msg |-> <<d>>]] \in Return
    BY ComputedTyped
  <2>4. QED BY <1>1, <1>4, <2>1, <2>2, <2>3 DEF zuc_hmac_compute, TypeOK
<1>5. ASSUME NEW h \in Handle, zuc_hash_new(c, h) PROVE TypeOK'
  <2>1. CASE Refused(c, "new", {"UNSUPPORTED"})
    BY <1>2, <2>1
  <2>2. [NewContext("hash", c, NoId, NoKey) EXCEPT !.active = TRUE, !.op = Started(NoKey)] \in Context
    BY OpenedTyped DEF Kind
  <2>3. QED BY <1>1, <1>5, <2>1, <2>2 DEF zuc_hash_new, TypeOK
<1>6. ASSUME NEW h \in Handle, NEW m \in MacKey, zuc_hmac_new(c, h, m) PROVE TypeOK'
  <2>1. CASE Refused(c, "new", {"UNSUPPORTED", "INVALID_ARGUMENT"})
    BY <1>2, <2>1
  <2>2. ASSUME NEW id \in FreeId
        PROVE  /\ Destroy(Import(id, m), id) \in [KeyId -> Material \union {NoKey}]
               /\ Import(id, m) \in [KeyId -> Material \union {NoKey}]
    BY StoreTyped DEF FreeId, Material
  <2>3. ASSUME NEW id \in FreeId
        PROVE  [NewContext("hmac", c, id, m) EXCEPT !.active = TRUE, !.op = Started(m)] \in Context
    BY OpenedTyped DEF Kind, FreeId, Material
  <2>4. ASSUME ~Refused(c, "new", {"UNSUPPORTED", "INVALID_ARGUMENT"}) PROVE TypeOK'
    <3>1. PICK id \in FreeId :
            \/ /\ store' = Destroy(Import(id, m), id)
               /\ \E st \in Failure : Returns("new", NoHandle, st)
               /\ UNCHANGED <<ctx, live>>
            \/ /\ store' = Import(id, m)
               /\ ctx' = [ctx EXCEPT ![h] = [NewContext("hmac", c, id, m)
                                             EXCEPT !.active = TRUE, !.op = Started(m)]]
               /\ live' = live + 1
               /\ Returns("new", h, "OK")
      BY <1>6, <2>4 DEF zuc_hmac_new
    <3>2. UNCHANGED <<refcount, holders>>
      BY <1>6, <2>4 DEF zuc_hmac_new
    <3>3. ret' \in Return
      BY <1>1, <3>1
    <3>4. ctx' \in [Handle -> Context] /\ live' \in Int
      <4> DEFINE n == [NewContext("hmac", c, id, m) EXCEPT !.active = TRUE, !.op = Started(m)]
      <4>1. n \in Context
        BY <2>3
      <4>2. \/ UNCHANGED <<ctx, live>>
            \/ ctx' = [ctx EXCEPT ![h] = n] /\ live' = live + 1
        BY <3>1
      <4> HIDE DEF n
      <4>3. QED BY <4>1, <4>2 DEF TypeOK
    <3>5. store' \in [KeyId -> Material \union {NoKey}]
      BY <2>2, <3>1
    <3>6. QED BY <3>2, <3>3, <3>4, <3>5 DEF TypeOK
  <2>5. QED BY <2>1, <2>4
<1>7. ASSUME NEW h \in Handle, NEW m \in CipherKey, zuc_aes_new(c, h, m) PROVE TypeOK'
  <2>1. CASE Refused(c, "new", {"BAD_LENGTH", "INVALID_ARGUMENT"})
    BY <1>2, <2>1
  <2>2. ASSUME NEW id \in FreeId
        PROVE  /\ Import(id, m) \in [KeyId -> Material \union {NoKey}]
               /\ NewContext("aes", c, id, m) \in Context
    BY StoreTyped, ContextTyped DEF FreeId, Material, Kind
  <2>3. QED BY <1>1, <1>7, <2>1, <2>2 DEF zuc_aes_new, TypeOK
<1>8. QED BY <1>3, <1>4, <1>5, <1>6, <1>7 DEF Create

LEMMA UseTyped ==
    ASSUME TypeOK, NEW h \in Handle, Use(h)
    PROVE  TypeOK'
<1> USE DEF Status, Failure, Fn
<1>1. \A st \in Status, fn \in Fn : Returns(fn, h, st) => ret' \in Return
  BY ReturnsTyped
<1>2. ASSUME NEW fn \in Fn, NEW st \in Status, Rejected(h, fn, st) PROVE TypeOK'
  BY <1>1, <1>2 DEF Rejected, TypeOK
<1>3. ctx[h] \in Context
  BY DEF TypeOK
<1>4. ctx[h].op \in Operation /\ Idle \in Operation /\ ctx[h].taken \in Seq(Chunk)
  BY <1>3, ContextTyped DEF Context
<1>5. ASSUME NEW d \in Chunk, zuc_hash_update(h, d) \/ zuc_hmac_update(h, d) PROVE TypeOK'
  <2>1. CASE Accepts(h, d) /\ UNCHANGED <<refcount, holders, store, live>>
    <3>1. [ctx[h] EXCEPT !.op.fed = Append(@, d), !.taken = Append(@, d)] \in Context
      <4> DEFINE fed == Append(ctx[h].op.fed, d)
                 taken == Append(ctx[h].taken, d)
      <4>1. fed \in Seq(Chunk) /\ taken \in Seq(Chunk)
        BY <1>4 DEF Operation
      <4>2. [ctx[h].op EXCEPT !.fed = fed] \in Operation
        BY <1>4, <4>1 DEF Operation
      <4> HIDE DEF fed, taken
      <4>3. [ctx[h] EXCEPT !.op = [ctx[h].op EXCEPT !.fed = fed], !.taken = taken] \in Context
        BY <1>3, <4>1, <4>2 DEF Context
      <4>4. QED BY <1>3, <4>3 DEF fed, taken, Context
    <3>2. QED BY <1>1, <2>1, <3>1 DEF Accepts, TypeOK
  <2>2. ASSUME NEW st \in Status, NEW next \in Operation, Fails(h, st, next),
               UNCHANGED <<refcount, holders, store, live>>
        PROVE  TypeOK'
    <3>1. [ctx[h] EXCEPT !.op = next, !.failed = TRUE] \in Context
      BY <1>3 DEF Context
    <3>2. QED BY <1>1, <2>2, <3>1 DEF Fails, TypeOK
  <2>3. QED BY <1>2, <1>4, <1>5, <2>1, <2>2 DEF zuc_hash_update, zuc_hmac_update
<1>6. ASSUME zuc_hash_finish(h) \/ zuc_hmac_finish(h) PROVE TypeOK'
  <2>1. ASSUME NEW next \in Operation, Finished(h, next) PROVE ctx' \in [Handle -> Context]
    <3>1. [ctx[h] EXCEPT !.op = next, !.active = FALSE] \in Context
      BY <1>3 DEF Context
    <3>2. QED BY <2>1, <3>1 DEF Finished, TypeOK
  <2>2. [fn |-> "finish", h |-> h, st |-> "OK",
         out |-> [mat |-> ctx[h].op.mat, msg |-> ctx[h].op.fed]] \in Return
    BY <1>4 DEF Return, Digest, Operation
  <2>3. ASSUME NEW spared \in Operation, Finish(h, spared) PROVE TypeOK'
    BY <1>1, <1>2, <1>4, <2>1, <2>2, <2>3 DEF Finish, TypeOK
  <2>4. QED BY <1>4, <1>6, <2>3 DEF zuc_hash_finish, zuc_hmac_finish
<1>7. ASSUME zuc_hash_reset(h) \/ zuc_hmac_reset(h) PROVE TypeOK'
  <2>1. ASSUME NEW next \in Operation, NEW on \in BOOLEAN, Restarted(h, next, on)
        PROVE  ctx' \in [Handle -> Context]
    <3>1. [ctx[h] EXCEPT !.op = next, !.active = on, !.taken = <<>>, !.failed = FALSE] \in Context
      <4>1. <<>> \in Seq(Chunk)
        OBVIOUS
      <4>2. QED BY <1>3, <4>1 DEF Context
    <3>2. QED BY <2>1, <3>1 DEF Restarted, TypeOK
  <2>2. QED BY <1>1, <1>7, <2>1, ContextTyped DEF zuc_hash_reset, zuc_hmac_reset, TypeOK
<1>8. QED BY <1>5, <1>6, <1>7 DEF Use

LEMMA FreeTyped ==
    ASSUME TypeOK, NEW h \in Handle, Free(h)
    PROVE  TypeOK'
<1>1. ret' \in Return
  BY ReturnsTyped DEF Free, zuc_hash_free, zuc_hmac_free, zuc_aes_free, Freed, Fn, Status
<1>2. store' \in [KeyId -> Material \union {NoKey}]
  BY DEF Free, zuc_hash_free, zuc_hmac_free, zuc_aes_free, Freed, TypeOK, Destroy
<1>3. QED BY <1>1, <1>2, ContextTyped DEF Free, zuc_hash_free, zuc_hmac_free, zuc_aes_free, Freed, TypeOK

\* Every variable keeps its type under every sequence of calls: in particular
\* zuc_refcount never wraps and an operation is only fed through updates.
THEOREM TypeCorrect == Spec => []TypeOK
<1>1. TypeOK /\ [Next]_vars => TypeOK'
  <2>1. ASSUME TypeOK, UNCHANGED vars PROVE TypeOK'
    BY <2>1 DEF vars, TypeOK
  <2>2. QED BY <2>1, LifetimeTyped, CreateTyped, UseTyped, FreeTyped DEF Next
<1>2. QED BY InitTyped, <1>1, PTL DEF Spec

-----------------------------------------------------------------------------
(* What the three kinds of call do to contexts and store *)

\* A context as a constructor hands it out.
Fresh(x) ==
    /\ x.kind \in {"hash", "hmac", "aes"}
    /\ x.op.on => x.op.fed = <<>> /\ x.op.mat = x.given
    /\ x.taken = <<>>
    /\ ~x.failed

\* A constructor opens one handle and stores its key, or leaves no trace.
Opened(c, h, x) ==
    /\ ~Open(h) /\ MayCreate(c) /\ Ready
    /\ Fresh(x) /\ x.owner = c
    /\ ctx' = [ctx EXCEPT ![h] = x]
    /\ live' = live + 1
    /\ \/ x.kind = "hash" /\ x.key = NoId /\ x.given = NoKey /\ UNCHANGED store
       \/ /\ x.kind \in {"hmac", "aes"} /\ x.key \in FreeId /\ x.given \in Material
          /\ store' = [store EXCEPT ![x.key] = x.given]

\* Storing a key in a free slot and destroying it again restores the store.
LEMMA DestroyUndoesImport ==
    ASSUME TypeOK, NEW id \in FreeId, NEW m \in Material
    PROVE  Destroy(Import(id, m), id) = store
BY DEF TypeOK, FreeId, Destroy, Import

LEMMA CreateFrame ==
    ASSUME TypeOK, NEW c \in Client, Create(c)
    PROVE  /\ UNCHANGED <<refcount, holders>>
           /\ ret'.fn # "finish"
           /\ \/ UNCHANGED <<store, ctx, live>>
              \/ \E h \in Handle, x \in Context : Opened(c, h, x)
<1> DEFINE Goal == /\ UNCHANGED <<refcount, holders>>
                   /\ ret'.fn # "finish"
                   /\ \/ UNCHANGED <<store, ctx, live>>
                      \/ \E h \in Handle, x \in Context : Opened(c, h, x)
<1>1. ASSUME NEW fn \in {"new", "compute"}, NEW bad, Refused(c, fn, bad) PROVE Goal
  BY <1>1 DEF Refused, Returns
<1>2. ASSUME NEW d \in Chunk, zuc_hash_compute(c, d) PROVE Goal
  BY <1>1, <1>2 DEF zuc_hash_compute
<1>3. ASSUME NEW d \in Chunk, NEW m \in MacKey, zuc_hmac_compute(c, m, d) PROVE Goal
  BY <1>1, <1>3, DestroyUndoesImport DEF zuc_hmac_compute, Returns, Material
<1>4. ASSUME NEW h \in Handle, zuc_hash_new(c, h) PROVE Goal
  <2> DEFINE x == [NewContext("hash", c, NoId, NoKey) EXCEPT !.active = TRUE, !.op = Started(NoKey)]
  <2>1. CASE Refused(c, "new", {"UNSUPPORTED"})
    BY <1>1, <2>1
  <2>2. x \in Context
    BY OpenedTyped DEF Kind
  <2>3. /\ Fresh(x) /\ x.owner = c
        /\ x.kind = "hash" /\ x.key = NoId /\ x.given = NoKey
    BY DEF Fresh, NewContext, Unused, Started
  <2> HIDE DEF x
  <2>4. CASE ~Refused(c, "new", {"UNSUPPORTED"})
    <3>1. /\ ~Open(h) /\ MayCreate(c) /\ Ready
          /\ ctx' = [ctx EXCEPT ![h] = x] /\ live' = live + 1
          /\ ret'.fn = "new" /\ UNCHANGED <<refcount, holders, store>>
      BY <1>4, <2>4 DEF zuc_hash_new, Returns, x
    <3>2. QED BY <2>2, <2>3, <3>1 DEF Opened
  <2>5. QED BY <2>1, <2>4
<1>5. ASSUME NEW h \in Handle, NEW m \in MacKey, zuc_hmac_new(c, h, m) PROVE Goal
  <2> DEFINE x(id) == [NewContext("hmac", c, id, m) EXCEPT !.active = TRUE, !.op = Started(m)]
  <2>1. CASE Refused(c, "new", {"UNSUPPORTED", "INVALID_ARGUMENT"})
    BY <1>1, <2>1
  <2>2. ASSUME NEW id \in FreeId
        PROVE  /\ x(id) \in Context
               /\ Fresh(x(id)) /\ x(id).owner = c
               /\ x(id).kind = "hmac" /\ x(id).key = id /\ x(id).given = m
    BY OpenedTyped DEF Kind, FreeId, Fresh, NewContext, Unused, Started
  <2> HIDE DEF x
  <2>3. CASE ~Refused(c, "new", {"UNSUPPORTED", "INVALID_ARGUMENT"})
    <3>1. /\ ~Open(h) /\ MayCreate(c) /\ Ready /\ UNCHANGED <<refcount, holders>>
      BY <1>5, <2>3 DEF zuc_hmac_new
    <3>2. PICK id \in FreeId :
            \/ /\ store' = Destroy(Import(id, m), id)
               /\ \E st \in Failure : Returns("new", NoHandle, st)
               /\ UNCHANGED <<ctx, live>>
            \/ /\ store' = Import(id, m)
               /\ ctx' = [ctx EXCEPT ![h] = x(id)]
               /\ live' = live + 1
               /\ Returns("new", h, "OK")
      BY <1>5, <2>3 DEF zuc_hmac_new, x
    <3>3. ret'.fn = "new"
      BY <3>2 DEF Returns
    <3>4. CASE store' = Destroy(Import(id, m), id) /\ UNCHANGED <<ctx, live>>
      BY <3>1, <3>3, <3>4, DestroyUndoesImport DEF Material
    <3>5. CASE /\ store' = Import(id, m)
               /\ ctx' = [ctx EXCEPT ![h] = x(id)]
               /\ live' = live + 1
      <4>1. Opened(c, h, x(id))
        BY <2>2, <3>1, <3>5 DEF Opened, Import, Material
      <4>2. QED BY <2>2, <3>1, <3>3, <4>1
    <3>6. QED BY <3>2, <3>4, <3>5
  <2>4. QED BY <2>1, <2>3
<1>6. ASSUME NEW h \in Handle, NEW m \in CipherKey, zuc_aes_new(c, h, m) PROVE Goal
  <2> DEFINE x(id) == NewContext("aes", c, id, m)
  <2>1. CASE Refused(c, "new", {"BAD_LENGTH", "INVALID_ARGUMENT"})
    BY <1>1, <2>1
  <2>2. ASSUME NEW id \in FreeId
        PROVE  /\ x(id) \in Context
               /\ Fresh(x(id)) /\ x(id).owner = c
               /\ x(id).kind = "aes" /\ x(id).key = id /\ x(id).given = m
    <3>1. x(id) \in Context
      BY ContextTyped DEF Kind, FreeId, Material
    <3>2. QED BY <3>1 DEF Fresh, NewContext, Unused, Idle
  <2> HIDE DEF x
  <2>3. CASE ~Refused(c, "new", {"BAD_LENGTH", "INVALID_ARGUMENT"})
    <3>1. /\ ~Open(h) /\ MayCreate(c) /\ Ready /\ UNCHANGED <<refcount, holders>>
          /\ ret'.fn = "new" /\ live' = live + 1
      BY <1>6, <2>3 DEF zuc_aes_new, Returns
    <3>2. PICK id \in FreeId : store' = Import(id, m) /\ ctx' = [ctx EXCEPT ![h] = x(id)]
      BY <1>6, <2>3 DEF zuc_aes_new, x
    <3>3. Opened(c, h, x(id))
      BY <2>2, <3>1, <3>2 DEF Opened, Import, Material
    <3>4. QED BY <2>2, <3>1, <3>3
  <2>4. QED BY <2>1, <2>3
<1>7. QED BY <1>2, <1>3, <1>4, <1>5, <1>6 DEF Create

\* The part of a context no update, finish or reset changes.
SameIdentity(h) ==
    /\ ctx'[h].kind = ctx[h].kind /\ ctx'[h].owner = ctx[h].owner
    /\ ctx'[h].key = ctx[h].key /\ ctx'[h].given = ctx[h].given

\* How an update, finish or reset may change operation and ghosts of h.
OperationStep(h) ==
    LET x == ctx[h]
        y == ctx'[h]
    IN  \/ y = x
        \/ \E d \in Chunk : /\ x.op.on /\ y.op.on
                            /\ y.op.fed = Append(x.op.fed, d) /\ y.taken = Append(x.taken, d)
                            /\ y.op.mat = x.op.mat /\ y.failed = x.failed
        \/ ~y.op.on
        \/ /\ y.op = x.op /\ y.taken = x.taken
           /\ \/ y.failed = x.failed
              \/ x.kind = "hmac"
        \/ /\ y.op.on /\ y.op.fed = <<>> /\ y.taken = <<>> /\ ~y.failed
           /\ \/ x.kind = "hash" /\ y.op.mat = NoKey
              \/ x.kind = "hmac" /\ y.op.mat = store[x.key]

\* The digest a successful finish of h returns.
DigestStep(h) ==
    ret'.fn = "finish" /\ ret'.st = "OK" =>
        /\ ret'.h = h /\ ctx[h].op.on
        /\ ret'.out.mat = ctx[h].op.mat /\ ret'.out.msg = ctx[h].op.fed
        /\ ctx'[h].taken = ctx[h].taken /\ ctx'[h].failed = ctx[h].failed

LEMMA UseFrame ==
    ASSUME TypeOK, NEW h \in Handle, Use(h)
    PROVE  /\ UNCHANGED <<refcount, holders, store, live>>
           /\ \A g \in Handle \ {h} : ctx'[g] = ctx[g]
           /\ ctx[h].kind \in {"hash", "hmac"}
           /\ SameIdentity(h)
           /\ OperationStep(h)
           /\ DigestStep(h)
<1> DEFINE Goal == /\ UNCHANGED <<refcount, holders, store, live>>
                   /\ \A g \in Handle \ {h} : ctx'[g] = ctx[g]
                   /\ ctx[h].kind \in {"hash", "hmac"}
                   /\ SameIdentity(h)
                   /\ OperationStep(h)
                   /\ DigestStep(h)
<1>1. ctx \in [Handle -> Context] /\ ctx[h] \in Context
  BY DEF TypeOK
<1>2. ASSUME ctx[h].kind \in {"hash", "hmac"}, NEW st, Rejected(h, "early", st) PROVE Goal
  BY <1>2 DEF Rejected, Returns, SameIdentity, OperationStep, DigestStep
<1>3. ASSUME NEW d \in Chunk, zuc_hash_update(h, d) \/ zuc_hmac_update(h, d) PROVE Goal
  <2>1. CASE Accepts(h, d) /\ UNCHANGED <<refcount, holders, store, live>>
    <3>1. ctx[h].kind \in {"hash", "hmac"}
      BY <1>3 DEF zuc_hash_update, zuc_hmac_update
    <3>2. ctx[h].op \in Operation
      BY <1>1 DEF Context
    <3>3. ctx'[h] = [ctx[h] EXCEPT !.op.fed = Append(@, d), !.taken = Append(@, d)]
      BY <1>1, <2>1 DEF Accepts
    <3>4. OperationStep(h)
      BY <1>1, <2>1, <3>2, <3>3 DEF OperationStep, Accepts, Context, Operation
    <3>5. SameIdentity(h)
      BY <1>1, <3>3 DEF SameIdentity, Context
    <3>6. QED BY <1>1, <2>1, <3>1, <3>4, <3>5 DEF Accepts, Returns, DigestStep
  <2>2. ASSUME NEW st, NEW next, Fails(h, st, next), ctx[h].kind \in {"hash", "hmac"},
               \/ next = Idle
               \/ ~ctx[h].op.on /\ next = ctx[h].op
               \/ ctx[h].kind = "hmac" /\ next = ctx[h].op,
               UNCHANGED <<refcount, holders, store, live>>
        PROVE  Goal
    <3>1. ctx'[h] = [ctx[h] EXCEPT !.op = next, !.failed = TRUE]
      BY <1>1, <2>2 DEF Fails
    <3>2. ctx'[h].op = next /\ ctx'[h].taken = ctx[h].taken
      BY <1>1, <3>1 DEF Context
    <3>3. OperationStep(h)
      <4>1. CASE next = Idle
        BY <3>2, <4>1 DEF OperationStep, Idle
      <4>2. CASE ~ctx[h].op.on /\ next = ctx[h].op
        BY <3>2, <4>2 DEF OperationStep
      <4>3. CASE ctx[h].kind = "hmac" /\ next = ctx[h].op
        BY <3>2, <4>3 DEF OperationStep
      <4>4. QED BY <2>2, <4>1, <4>2, <4>3
    <3>4. SameIdentity(h)
      BY <1>1, <3>1 DEF SameIdentity, Context
    <3>5. \A g \in Handle \ {h} : ctx'[g] = ctx[g]
      BY <1>1, <2>2 DEF Fails
    <3>6. DigestStep(h)
      BY <2>2 DEF Fails, Returns, DigestStep
    <3>7. QED BY <2>2, <3>3, <3>4, <3>5, <3>6
  <2>3. CASE zuc_hash_update(h, d)
    BY <1>2, <2>1, <2>2, <2>3 DEF zuc_hash_update
  <2>4. CASE zuc_hmac_update(h, d)
    BY <1>2, <2>1, <2>2, <2>4 DEF zuc_hmac_update
  <2>5. QED BY <1>3, <2>3, <2>4
<1>4. ASSUME zuc_hash_finish(h) \/ zuc_hmac_finish(h) PROVE Goal
  <2>1. ASSUME NEW next, Finished(h, next), next = Idle \/ next = ctx[h].op
        PROVE  /\ \A g \in Handle \ {h} : ctx'[g] = ctx[g]
               /\ SameIdentity(h)
               /\ OperationStep(h)
               /\ ctx'[h].taken = ctx[h].taken /\ ctx'[h].failed = ctx[h].failed
    <3>1. ctx'[h] = [ctx[h] EXCEPT !.op = next, !.active = FALSE]
      BY <1>1, <2>1 DEF Finished
    <3>2. OperationStep(h)
      BY <1>1, <2>1, <3>1 DEF OperationStep, Context, Idle
    <3>3. SameIdentity(h)
      BY <1>1, <3>1 DEF SameIdentity, Context
    <3>4. QED BY <1>1, <2>1, <3>1, <3>2, <3>3 DEF Finished, Context
  <2>2. ASSUME NEW spared, Finish(h, spared), spared = Idle \/ spared = ctx[h].op,
               ctx[h].kind \in {"hash", "hmac"}
        PROVE  Goal
    <3>1. CASE \E st : Rejected(h, "early", st)
      BY <1>2, <2>2, <3>1
    <3>2. CASE ~\E st : Rejected(h, "early", st)
      <4>1. /\ UNCHANGED <<refcount, holders, store, live>>
            /\ Finished(h, spared) \/ Finished(h, Idle)
        BY <2>2, <3>2 DEF Finish
      <4>2. \/ ret'.st # "OK"
            \/ /\ ctx[h].op.on
               /\ ret' = [fn |-> "finish", h |-> h, st |-> "OK",
                          out |-> [mat |-> ctx[h].op.mat, msg |-> ctx[h].op.fed]]
        BY <2>2, <3>2 DEF Finish, Returns
      <4>3. DigestStep(h)
        BY <2>1, <2>2, <4>1, <4>2 DEF DigestStep
      <4>4. QED BY <2>1, <2>2, <4>1, <4>3
    <3>3. QED BY <3>1, <3>2
  <2>3. QED BY <1>4, <2>2 DEF zuc_hash_finish, zuc_hmac_finish
<1>5. ASSUME zuc_hash_reset(h) \/ zuc_hmac_reset(h) PROVE Goal
  <2>1. PICK next, on :
          /\ Restarted(h, next, on)
          /\ \/ next = Idle
             \/ ctx[h].kind = "hash" /\ next = Started(NoKey)
             \/ ctx[h].kind = "hmac" /\ next = Started(store[ctx[h].key])
    BY <1>5 DEF zuc_hash_reset, zuc_hmac_reset
  <2>2. /\ ctx[h].kind \in {"hash", "hmac"}
        /\ UNCHANGED <<refcount, holders, store, live>>
    BY <1>5 DEF zuc_hash_reset, zuc_hmac_reset
  <2> DigestStep(h)
    <3>1. PICK st : Returns("reset", h, st)
      BY <1>5 DEF zuc_hash_reset, zuc_hmac_reset
    <3>2. QED BY <3>1 DEF Returns, DigestStep
  <2>3. ctx'[h] = [ctx[h] EXCEPT !.op = next, !.active = on, !.taken = <<>>, !.failed = FALSE]
    BY <1>1, <2>1 DEF Restarted
  <2>4. OperationStep(h)
    <3>1. ctx'[h].op = next /\ ctx'[h].taken = <<>> /\ ~ctx'[h].failed
      BY <1>1, <2>3 DEF Context
    <3>2. CASE next = Idle
      BY <3>1, <3>2 DEF OperationStep, Idle
    <3>3. CASE ctx[h].kind = "hash" /\ next = Started(NoKey)
      BY <3>1, <3>3 DEF OperationStep, Started
    <3>4. CASE ctx[h].kind = "hmac" /\ next = Started(store[ctx[h].key])
      BY <3>1, <3>4 DEF OperationStep, Started
    <3>5. QED BY <2>1, <3>2, <3>3, <3>4
  <2>5. SameIdentity(h)
    BY <1>1, <2>3 DEF SameIdentity, Context
  <2>6. QED BY <1>1, <2>1, <2>2, <2>4, <2>5 DEF Restarted
<1>6. QED BY <1>3, <1>4, <1>5 DEF Use

LEMMA FreeFrame ==
    ASSUME TypeOK, NEW h \in Handle, Free(h)
    PROVE  /\ UNCHANGED <<refcount, holders>>
           /\ Open(h)
           /\ ctx' = [ctx EXCEPT ![h] = Unused]
           /\ store' = Destroy(store, ctx[h].key)
           /\ live' = live - 1
           /\ ret'.fn = "free"
BY DEF Free, zuc_hash_free, zuc_hmac_free, zuc_aes_free, Freed, Returns, Open

LEMMA LifetimeFrame ==
    ASSUME TypeOK, NEW c \in Client, Lifetime(c)
    PROVE  /\ UNCHANGED <<ctx, live>>
           /\ ret'.fn \in {"init", "shutdown"}
           /\ store' \in {store, EmptyStore}
           /\ ~Ready' => store' = EmptyStore \/ (~Ready /\ UNCHANGED store)
<1>1. CASE zuc_init(c)
  <2>1. PICK st : Returns("init", NoHandle, st)
    BY <1>1 DEF zuc_init
  <2>2. ret'.fn = "init"
    BY <2>1 DEF Returns
  <2>3. refcount \in Nat
    BY BoundAssumption DEF TypeOK
  <2>4. /\ UNCHANGED <<ctx, live>>
        /\ store' = EmptyStore \/ UNCHANGED store
    BY <1>1 DEF zuc_init
  <2>5. ~Ready' => store' = EmptyStore \/ (~Ready /\ UNCHANGED store)
    BY <1>1, <2>3, BoundAssumption DEF zuc_init, Ready
  <2>6. QED BY <2>2, <2>4, <2>5
<1>2. CASE zuc_shutdown(c)
  <2>1. PICK st : Returns("shutdown", NoHandle, st)
    BY <1>2 DEF zuc_shutdown
  <2>2. ret'.fn = "shutdown"
    BY <2>1 DEF Returns
  <2>3. refcount \in Nat
    BY BoundAssumption DEF TypeOK
  <2>4. /\ UNCHANGED <<ctx, live>>
        /\ store' = EmptyStore \/ UNCHANGED store
    BY <1>2 DEF zuc_shutdown
  <2>5. ~Ready' => store' = EmptyStore \/ (~Ready /\ UNCHANGED store)
    BY <1>2, <2>3 DEF zuc_shutdown, Ready
  <2>6. QED BY <2>2, <2>4, <2>5
<1>3. QED BY <1>1, <1>2 DEF Lifetime

-----------------------------------------------------------------------------
(* Digests cover what was accepted *)

\* A live operation has been fed exactly the accepted chunks, and that of a
\* digest handle does not survive a failed update.
Accounted(x) == x.op.on => x.op.fed = x.taken /\ (x.kind = "hash" => ~x.failed)

AllAccounted == \A h \in Handle : Accounted(ctx[h])

LEMMA UseAccounted ==
    ASSUME TypeOK, AllAccounted, NEW h \in Handle, Use(h)
    PROVE  AllAccounted' /\ FinishCoversAccepted' /\ FailedUpdatePoisonsHash'
<1>1. /\ \A g \in Handle \ {h} : ctx'[g] = ctx[g]
      /\ SameIdentity(h) /\ OperationStep(h) /\ DigestStep(h)
  BY UseFrame
<1>2. Accounted(ctx[h]) /\ ctx'[h].kind = ctx[h].kind
  BY <1>1 DEF AllAccounted, SameIdentity
<1>3. Accounted(ctx'[h])
  BY <1>1, <1>2 DEF OperationStep, Accounted
<1>4. AllAccounted'
  BY <1>1, <1>3 DEF AllAccounted, Accounted
<1>5. FinishCoversAccepted' /\ FailedUpdatePoisonsHash'
  BY <1>1, <1>2 DEF DigestStep, Accounted, FinishCoversAccepted, FailedUpdatePoisonsHash
<1>6. QED BY <1>4, <1>5

LEMMA AccountedStep ==
    ASSUME TypeOK, AllAccounted, FinishCoversAccepted, FailedUpdatePoisonsHash, [Next]_vars
    PROVE  AllAccounted' /\ FinishCoversAccepted' /\ FailedUpdatePoisonsHash'
<1> DEFINE Goal == AllAccounted' /\ FinishCoversAccepted' /\ FailedUpdatePoisonsHash'
<1>1. ASSUME NEW c \in Client, Lifetime(c) PROVE Goal
  BY <1>1, LifetimeFrame DEF AllAccounted, Accounted, FinishCoversAccepted, FailedUpdatePoisonsHash
<1>2. ASSUME NEW c \in Client, Create(c) PROVE Goal
  <2>1. FinishCoversAccepted' /\ FailedUpdatePoisonsHash'
    BY <1>2, CreateFrame DEF FinishCoversAccepted, FailedUpdatePoisonsHash
  <2>2. CASE UNCHANGED ctx
    BY <2>1, <2>2 DEF AllAccounted, Accounted
  <2>3. ASSUME NEW h \in Handle, NEW x \in Context, Opened(c, h, x) PROVE AllAccounted'
    <3>1. Accounted(x) /\ ctx' = [ctx EXCEPT ![h] = x]
      BY <2>3 DEF Opened, Fresh, Accounted
    <3>2. QED BY <3>1 DEF AllAccounted, Accounted, TypeOK
  <2>4. QED BY <1>2, <2>1, <2>2, <2>3, CreateFrame
<1>3. ASSUME NEW h \in Handle, Free(h) PROVE Goal
  <2>1. ctx' = [ctx EXCEPT ![h] = Unused] /\ ret'.fn = "free"
    BY <1>3, FreeFrame
  <2>2. Accounted(Unused)
    BY DEF Accounted, Unused, Idle
  <2>3. AllAccounted'
    BY <2>1, <2>2 DEF AllAccounted, Accounted, TypeOK
  <2>4. QED BY <2>1, <2>3 DEF FinishCoversAccepted, FailedUpdatePoisonsHash
<1>4. CASE UNCHANGED vars
  BY <1>4 DEF vars, AllAccounted, Accounted, FinishCoversAccepted, FailedUpdatePoisonsHash
<1>5. QED BY <1>1, <1>2, <1>3, <1>4, UseAccounted DEF Next

LEMMA DigestsAccounted == Spec => [](FinishCoversAccepted /\ FailedUpdatePoisonsHash)
<1>1. Init => AllAccounted /\ FinishCoversAccepted /\ FailedUpdatePoisonsHash
  BY DEF Init, AllAccounted, Accounted, Unused, Idle, FinishCoversAccepted, FailedUpdatePoisonsHash
<1>2. QED BY <1>1, AccountedStep, TypeCorrect, PTL DEF Spec

\* A digest or MAC that finish returns covers exactly the updates that
\* returned ZUC_OK since the last new or reset: for any number of handles and
\* chunks, inside the window and outside it.
THEOREM DigestsCoverAccepted == Spec => []FinishCoversAccepted
BY DigestsAccounted, PTL

\* A digest handle whose update failed yields no digest before it is reset.
THEOREM FailedUpdateYieldsNone == Spec => []FailedUpdatePoisonsHash
BY DigestsAccounted, PTL

-----------------------------------------------------------------------------
(* The leak counter *)

LEMMA LiveStep ==
    ASSUME TypeOK, LiveCount, [Next]_vars
    PROVE  LiveCount'
<1> DEFINE S == {h \in Handle : Open(h)}
           T == {h \in Handle : Open(h)'}
<1>1. IsFiniteSet(S) /\ live = Cardinality(S) /\ (LiveCount' <=> live' = Cardinality(T))
  BY HandleAssumption, FS_Subset DEF LiveCount
<1>2. ASSUME T = S, UNCHANGED live PROVE LiveCount'
  BY <1>1, <1>2
<1>3. ASSUME NEW c \in Client, Lifetime(c) PROVE LiveCount'
  BY <1>2, <1>3, LifetimeFrame DEF Open
<1>4. ASSUME NEW c \in Client, Create(c) PROVE LiveCount'
  <2>1. CASE UNCHANGED <<ctx, live>>
    BY <1>2, <2>1 DEF Open
  <2>2. ASSUME NEW h \in Handle, NEW x \in Context, Opened(c, h, x) PROVE LiveCount'
    <3>1. h \notin S /\ live' = live + 1
      BY <2>2 DEF Opened
    <3>2. x.kind # "none" /\ ctx' = [ctx EXCEPT ![h] = x]
      BY <2>2 DEF Opened, Fresh
    <3>3. T = S \union {h}
      BY <3>2 DEF Open, TypeOK
    <3>4. Cardinality(T) = Cardinality(S) + 1
      BY <1>1, <3>1, <3>3, FS_AddElement
    <3>5. QED BY <1>1, <3>1, <3>4
  <2>3. QED BY <1>4, <2>1, <2>2, CreateFrame
<1>5. ASSUME NEW h \in Handle, Use(h) PROVE LiveCount'
  <2>1. \A g \in Handle : Open(g)' <=> Open(g)
    BY <1>5, UseFrame DEF Open, SameIdentity
  <2>2. QED BY <1>2, <1>5, <2>1, UseFrame
<1>6. ASSUME NEW h \in Handle, Free(h) PROVE LiveCount'
  <2>1. /\ h \in S /\ live' = live - 1
        /\ ctx' = [ctx EXCEPT ![h] = Unused]
    BY <1>6, FreeFrame
  <2>2. T = S \ {h}
    BY <2>1 DEF Open, Unused, TypeOK
  <2>3. Cardinality(T) = Cardinality(S) - 1
    BY <1>1, <2>1, <2>2, FS_RemoveElement
  <2>4. QED BY <1>1, <2>1, <2>3
<1>7. CASE UNCHANGED vars
  BY <1>2, <1>7 DEF vars, Open
<1>8. QED BY <1>3, <1>4, <1>5, <1>6, <1>7 DEF Next

\* zuc_live equals the number of contexts held, whichever constructors failed
\* and in whatever order handles were freed.
THEOREM LiveCountExact == Spec => []LiveCount
<1>1. Init => LiveCount
  <2>1. ASSUME Init PROVE {h \in Handle : Open(h)} = {}
    BY <2>1 DEF Init, Open, Unused
  <2>2. QED BY <2>1, FS_EmptySet DEF Init, LiveCount
<1>2. QED BY <1>1, LiveStep, TypeCorrect, PTL DEF Spec

-----------------------------------------------------------------------------
(* Keys and their handles, whatever the consumers do *)

LEMMA OrphanStep ==
    ASSUME TypeOK, NoOrphanKey, NoKeyOutsideWindow, [Next]_vars
    PROVE  NoOrphanKey' /\ NoKeyOutsideWindow'
<1> DEFINE Goal == NoOrphanKey' /\ NoKeyOutsideWindow'
           Holds(y, id, s) == y.kind # "none" /\ y.key = id /\ y.given = s[id]
<1>0. \A id \in KeyId : store[id] # NoKey => \E h \in Handle : Holds(ctx[h], id, store)
  BY DEF NoOrphanKey, Open
<1>1. ASSUME \A id \in KeyId : store'[id] # NoKey => \E h \in Handle : Holds(ctx'[h], id, store')
      PROVE  NoOrphanKey'
  BY <1>1 DEF NoOrphanKey, Open
<1> HIDE DEF Holds
<1>2. ASSUME NEW c \in Client, Lifetime(c) PROVE Goal
  <2>1. /\ UNCHANGED ctx
        /\ store' \in {store, EmptyStore}
        /\ ~Ready' => store' = EmptyStore \/ (~Ready /\ UNCHANGED store)
    BY <1>2, LifetimeFrame
  <2>2. NoOrphanKey'
    BY <2>1 DEF NoOrphanKey, Open, EmptyStore
  <2>3. NoKeyOutsideWindow'
    BY <2>1 DEF NoKeyOutsideWindow, EmptyStore
  <2>4. QED BY <2>2, <2>3
<1>3. ASSUME NEW c \in Client, Create(c) PROVE Goal
  <2>1. CASE UNCHANGED <<store, ctx>>
    BY <1>3, <2>1, CreateFrame DEF NoOrphanKey, NoKeyOutsideWindow, Open, Ready, EmptyStore
  <2>2. ASSUME NEW h \in Handle, NEW x \in Context, Opened(c, h, x) PROVE Goal
    <3>1. Ready'
      BY <1>3, <2>2, CreateFrame DEF Opened, Ready
    <3>2. /\ ~Open(h) /\ ctx'[h] = x /\ x.kind # "none"
          /\ \A g \in Handle \ {h} : ctx'[g] = ctx[g]
      BY <2>2 DEF Opened, Fresh, TypeOK
    <3>3. ASSUME NEW id \in KeyId, store'[id] # NoKey
          PROVE  \E g \in Handle : Holds(ctx'[g], id, store')
      <4>1. CASE store'[id] = store[id]
        <5>1. PICK g \in Handle : Holds(ctx[g], id, store)
          BY <1>0, <3>3, <4>1
        <5>2. g # h
          BY <3>2, <5>1 DEF Holds, Open
        <5>3. QED BY <3>2, <4>1, <5>1, <5>2 DEF Holds
      <4>2. CASE store'[id] # store[id]
        <5>1. x.key = id /\ x.given = store'[id]
          BY <2>2, <4>2 DEF Opened, TypeOK, FreeId
        <5>2. QED BY <3>2, <5>1 DEF Holds
      <4>3. QED BY <4>1, <4>2
    <3>4. QED BY <1>1, <3>1, <3>3 DEF NoKeyOutsideWindow
  <2>3. QED BY <1>3, <2>1, <2>2, CreateFrame
<1>4. ASSUME NEW h \in Handle, Use(h) PROVE Goal
  <2>1. /\ UNCHANGED <<refcount, store>>
        /\ \A g \in Handle : /\ ctx'[g].kind = ctx[g].kind /\ ctx'[g].key = ctx[g].key
                             /\ ctx'[g].given = ctx[g].given
    BY <1>4, UseFrame DEF SameIdentity
  <2>2. QED BY <2>1 DEF NoOrphanKey, NoKeyOutsideWindow, Open, Ready, EmptyStore
<1>5. ASSUME NEW h \in Handle, Free(h) PROVE Goal
  <2>1. /\ UNCHANGED refcount
        /\ store' = Destroy(store, ctx[h].key)
        /\ \A g \in Handle \ {h} : ctx'[g] = ctx[g]
    BY <1>5, FreeFrame DEF TypeOK
  <2>2. NoKeyOutsideWindow'
    BY <2>1 DEF NoKeyOutsideWindow, Ready, EmptyStore, Destroy
  <2>3. ASSUME NEW id \in KeyId, store'[id] # NoKey
        PROVE  \E g \in Handle : Holds(ctx'[g], id, store')
    <3>1. id # ctx[h].key /\ store'[id] = store[id]
      BY <2>1, <2>3 DEF Destroy, TypeOK
    <3>2. PICK g \in Handle : Holds(ctx[g], id, store)
      BY <1>0, <2>3, <3>1
    <3>3. QED BY <2>1, <3>1, <3>2 DEF Holds
  <2>4. QED BY <1>1, <2>2, <2>3
<1>6. CASE UNCHANGED vars
  BY <1>6 DEF vars, NoOrphanKey, NoKeyOutsideWindow, Open, Ready, EmptyStore
<1>7. QED BY <1>2, <1>3, <1>4, <1>5, <1>6 DEF Next

LEMMA KeysAccounted == Spec => [](NoOrphanKey /\ NoKeyOutsideWindow)
<1>1. Init => NoOrphanKey /\ NoKeyOutsideWindow
  BY DEF Init, NoOrphanKey, NoKeyOutsideWindow, EmptyStore
<1>2. QED BY <1>1, OrphanStep, TypeCorrect, PTL DEF Spec

\* No key outlives the handle it was imported for, even for consumers that
\* shut down under their handles.
THEOREM NoKeyLeaks == Spec => []NoOrphanKey
BY KeysAccounted, PTL

\* No key is left in the backend's store once the window is closed.
THEOREM WindowEmptiesStore == Spec => []NoKeyOutsideWindow
BY KeysAccounted, PTL

-----------------------------------------------------------------------------
(* Keys and their handles, for disciplined consumers *)

\* The key fields of a context agree with its kind, and a live operation runs
\* under the key the caller gave.
Keyed(x) ==
    /\ x.kind = "hash" => x.key = NoId /\ x.given = NoKey
    /\ x.kind \in {"hmac", "aes"} => x.key \in KeyId /\ x.given \in Material
    /\ x.op.on => x.op.mat = x.given

\* Whoever holds a handle holds a reference.
Owned(h) == Open(h) => ctx[h].owner \in holders

DisciplineInv ==
    /\ RefcountIsHolders
    /\ \A h \in Handle : Keyed(ctx[h]) /\ Owned(h)
    /\ KeysIntact
    /\ FinishUsesOwnKey

LEMMA HoldersFinite ==
    ASSUME TypeOK
    PROVE  IsFiniteSet(holders) /\ Cardinality(holders) \in Nat
BY ClientAssumption, FS_Subset, FS_CardinalityType DEF TypeOK

\* Starting and stopping the library: a reference count that reaches or
\* stays at zero finds no open handle.
LEMMA LifetimeDiscipline ==
    ASSUME Disciplined, TypeOK, DisciplineInv, NEW c \in Client, Lifetime(c)
    PROVE  DisciplineInv'
<1>1. UNCHANGED ctx /\ ret'.fn # "finish"
  BY LifetimeFrame
<1>2. refcount = Cardinality(holders) /\ refcount \in Nat /\ IsFiniteSet(holders)
  BY HoldersFinite DEF DisciplineInv, RefcountIsHolders
<1>3. /\ RefcountIsHolders'
      /\ \A h \in Handle : Open(h) => ctx[h].owner \in holders'
      /\ (\E h \in Handle : Open(h)) => store' = store
  <2>1. CASE zuc_init(c)
    <3>1. Cardinality(holders \union {c}) = Cardinality(holders) + 1
      BY <1>2, <2>1, FS_AddElement DEF zuc_init
    <3>2. RefcountIsHolders' /\ holders \subseteq holders'
      <4>1. \/ UNCHANGED <<refcount, holders>>
            \/ refcount' = refcount + 1 /\ holders' = holders \union {c}
        BY <2>1 DEF zuc_init
      <4>2. QED BY <1>2, <3>1, <4>1 DEF RefcountIsHolders
    <3>3. CASE refcount = 0
      <4>1. holders = {}
        BY <1>2, <3>3, FS_EmptySet
      <4>2. QED BY <3>2, <4>1 DEF DisciplineInv, Owned
    <3>4. CASE refcount # 0
      BY <2>1, <3>2, <3>4 DEF zuc_init, DisciplineInv, Owned
    <3>5. QED BY <3>3, <3>4
  <2>2. CASE zuc_shutdown(c)
    <3>1. c \in holders /\ HandlesOf(c) = {}
      BY <2>2 DEF zuc_shutdown, MayShutdown
    <3>2. /\ IsFiniteSet(holders \ {c})
          /\ Cardinality(holders \ {c}) = Cardinality(holders) - 1
      BY <1>2, <3>1, FS_RemoveElement
    <3>3. refcount > 0
      BY <1>2, <3>1, FS_EmptySet
    <3>4. RefcountIsHolders' /\ holders' = holders \ {c}
      BY <1>2, <2>2, <3>2, <3>3 DEF zuc_shutdown, RefcountIsHolders
    <3>5. \A h \in Handle : Open(h) => ctx[h].owner \in holders'
      BY <3>1, <3>4 DEF DisciplineInv, Owned, HandlesOf
    <3>6. CASE refcount = 1
      <4>1. holders' = {}
        BY <1>2, <3>2, <3>4, <3>6, FS_EmptySet
      <4>2. QED BY <3>4, <3>5, <4>1
    <3>7. CASE refcount # 1
      BY <2>2, <3>3, <3>4, <3>5, <3>7 DEF zuc_shutdown
    <3>8. QED BY <3>6, <3>7
  <2>3. QED BY <2>1, <2>2 DEF Lifetime
<1>4. \A h \in Handle : Keyed(ctx[h])' /\ Owned(h)'
  BY <1>1, <1>3 DEF DisciplineInv, Keyed, Owned, Open
<1>5. KeysIntact'
  <2>1. CASE \E h \in Handle : Open(h)
    BY <1>1, <1>3, <2>1 DEF DisciplineInv, KeysIntact, Open
  <2>2. CASE ~\E h \in Handle : Open(h)
    BY <1>1, <2>2 DEF KeysIntact, Open
  <2>3. QED BY <2>1, <2>2
<1>6. QED BY <1>1, <1>3, <1>4, <1>5 DEF DisciplineInv, FinishUsesOwnKey

LEMMA CreateDiscipline ==
    ASSUME Disciplined, TypeOK, DisciplineInv, NEW c \in Client, Create(c)
    PROVE  DisciplineInv'
<1>1. UNCHANGED <<refcount, holders>> /\ ret'.fn # "finish"
  BY CreateFrame
<1>2. RefcountIsHolders' /\ FinishUsesOwnKey'
  BY <1>1 DEF DisciplineInv, RefcountIsHolders, FinishUsesOwnKey
<1>3. CASE UNCHANGED <<store, ctx>>
  BY <1>1, <1>2, <1>3 DEF DisciplineInv, Keyed, Owned, Open, KeysIntact
<1>4. ASSUME NEW h \in Handle, NEW x \in Context, Opened(c, h, x) PROVE DisciplineInv'
  <2>1. /\ ~Open(h) /\ ctx'[h] = x /\ x.kind # "none"
        /\ \A g \in Handle \ {h} : ctx'[g] = ctx[g]
    BY <1>4 DEF Opened, Fresh, TypeOK
  <2>2. c \in holders /\ x.owner = c
    BY <1>4 DEF Opened, MayCreate
  <2>3. Keyed(x)
    BY <1>4 DEF Opened, Fresh, Keyed, FreeId
  <2>4. \A g \in Handle : Keyed(ctx[g])' /\ Owned(g)'
    BY <1>1, <2>1, <2>2, <2>3 DEF DisciplineInv, Keyed, Owned, Open
  <2>5. \A g \in Handle : ctx[g].kind \in {"hmac", "aes"} =>
          ctx[g].key \in KeyId /\ store[ctx[g].key] # NoKey
    BY KeyAssumption DEF DisciplineInv, Keyed, KeysIntact
  <2>6. \A g \in Handle \ {h} : ctx'[g].kind \in {"hmac", "aes"} =>
          store'[ctx'[g].key] = ctx'[g].given /\ ctx'[g].key # x.key
    BY <1>4, <2>1, <2>5, KeyAssumption DEF Opened, FreeId, TypeOK, DisciplineInv, KeysIntact
  <2>7. x.kind \in {"hmac", "aes"} => store'[x.key] = x.given
    BY <1>4 DEF Opened, FreeId, TypeOK
  <2>8. ASSUME NEW f \in Handle, NEW g \in Handle, ctx'[f].kind \in {"hmac", "aes"},
               ctx'[g].kind # "none", ctx'[g].key = ctx'[f].key
        PROVE  f = g
    <3>1. ctx'[f].key \in KeyId
      BY <2>4, <2>8 DEF Keyed
    <3>2. ctx'[g] \in Context
      BY <2>1 DEF TypeOK
    <3>3. ctx'[g].kind \in {"hmac", "aes"}
      BY <2>4, <2>8, <3>1, <3>2, KeyAssumption DEF Keyed, Context, Kind
    <3>4. CASE f = h \/ g = h
      BY <2>1, <2>6, <2>8, <3>3, <3>4
    <3>5. CASE f # h /\ g # h
      BY <2>1, <2>8, <3>5 DEF DisciplineInv, KeysIntact, Open
    <3>6. QED BY <3>4, <3>5
  <2>9. KeysIntact'
    BY <2>1, <2>6, <2>7, <2>8 DEF KeysIntact, Open
  <2>10. QED BY <1>2, <2>4, <2>9 DEF DisciplineInv
<1>5. QED BY <1>3, <1>4, CreateFrame

LEMMA UseDiscipline ==
    ASSUME Disciplined, TypeOK, DisciplineInv, NEW h \in Handle, Use(h)
    PROVE  DisciplineInv'
<1>1. /\ UNCHANGED <<refcount, holders, store>>
      /\ \A g \in Handle \ {h} : ctx'[g] = ctx[g]
      /\ SameIdentity(h) /\ OperationStep(h) /\ DigestStep(h)
  BY UseFrame
<1>2. RefcountIsHolders' /\ KeysIntact' /\ \A g \in Handle : Owned(g)'
  BY <1>1 DEF DisciplineInv, RefcountIsHolders, KeysIntact, Owned, Open, SameIdentity
<1>3. Keyed(ctx[h]) /\ (ctx[h].kind = "hmac" => store[ctx[h].key] = ctx[h].given)
  BY DEF DisciplineInv, KeysIntact
<1>4. ctx'[h].op.on => ctx'[h].op.mat = ctx'[h].given
  BY <1>1, <1>3 DEF OperationStep, SameIdentity, Keyed
<1>5. Keyed(ctx'[h])
  BY <1>1, <1>3, <1>4 DEF SameIdentity, Keyed
<1>6. \A g \in Handle : Keyed(ctx[g])'
  BY <1>1, <1>5 DEF DisciplineInv, Keyed
<1>7. FinishUsesOwnKey'
  BY <1>1, <1>3 DEF DigestStep, SameIdentity, Keyed, FinishUsesOwnKey
<1>8. QED BY <1>2, <1>6, <1>7 DEF DisciplineInv

LEMMA FreeDiscipline ==
    ASSUME Disciplined, TypeOK, DisciplineInv, NEW h \in Handle, Free(h)
    PROVE  DisciplineInv'
<1>1. /\ UNCHANGED <<refcount, holders>> /\ ret'.fn # "finish"
      /\ Open(h) /\ store' = Destroy(store, ctx[h].key)
      /\ ctx'[h] = Unused /\ \A g \in Handle \ {h} : ctx'[g] = ctx[g]
  BY FreeFrame DEF TypeOK
<1>2. RefcountIsHolders' /\ FinishUsesOwnKey'
  BY <1>1 DEF DisciplineInv, RefcountIsHolders, FinishUsesOwnKey
<1>3. \A g \in Handle : Keyed(ctx[g])' /\ Owned(g)'
  BY <1>1 DEF DisciplineInv, Keyed, Owned, Open, Unused, Idle
<1>4. \A g \in Handle \ {h} : ctx[g].kind \in {"hmac", "aes"} => store'[ctx[g].key] = store[ctx[g].key]
  BY <1>1 DEF DisciplineInv, KeysIntact, Destroy, TypeOK
<1>5. KeysIntact'
  BY <1>1, <1>4 DEF DisciplineInv, KeysIntact, Open, Unused
<1>6. QED BY <1>2, <1>3, <1>5 DEF DisciplineInv

LEMMA DisciplineHolds ==
    ASSUME Disciplined
    PROVE  Spec => [](RefcountIsHolders /\ KeysIntact /\ FinishUsesOwnKey)
<1>1. Init => DisciplineInv
  <2>1. ASSUME Init PROVE RefcountIsHolders
    BY <2>1, FS_EmptySet DEF Init, RefcountIsHolders
  <2>2. QED BY <2>1 DEF Init, DisciplineInv, Keyed, Owned, Open, Unused, Idle, KeysIntact, FinishUsesOwnKey
<1>2. TypeOK /\ DisciplineInv /\ [Next]_vars => DisciplineInv'
  <2>1. ASSUME DisciplineInv, UNCHANGED vars PROVE DisciplineInv'
    BY <2>1 DEF vars, DisciplineInv, RefcountIsHolders, Keyed, Owned, Open, KeysIntact, FinishUsesOwnKey
  <2>2. QED BY <2>1, LifetimeDiscipline, CreateDiscipline, UseDiscipline, FreeDiscipline DEF Next
<1>3. DisciplineInv => RefcountIsHolders /\ KeysIntact /\ FinishUsesOwnKey
  BY DEF DisciplineInv
<1>4. QED BY <1>1, <1>2, <1>3, TypeCorrect, PTL DEF Spec

\* Among consumers that hold a reference while they hold a handle, the
\* reference count is the number of its holders, saturated.
THEOREM RefcountExact ==
    ASSUME Disciplined
    PROVE  Spec => []RefcountIsHolders
BY DisciplineHolds, PTL

\* Nobody's shutdown invalidates another's keys: every handle's identifier
\* names the key it was created with, however identifiers are reused.
THEOREM DisciplineSuffices ==
    ASSUME Disciplined
    PROVE  Spec => []KeysIntact
BY DisciplineHolds, PTL

\* Every MAC is computed with the key its own handle was created with.
THEOREM MacsUseOwnKey ==
    ASSUME Disciplined
    PROVE  Spec => []FinishUsesOwnKey
BY DisciplineHolds, PTL

-----------------------------------------------------------------------------
(* The function table: about its own specification, with which Adapter's    *)
(* shares no variable.                                                      *)

Called == [field: 0..46, held: BOOLEAN, past: BOOLEAN, info: 0..7, written: SUBSET (1..7)]

Api == [ready: BOOLEAN, struct_size: Nat, filled: SUBSET (1..46)]

\* The types, with the numbers of stages and fields.
Formed ==
    /\ provider \in 1..5
    /\ loaded \in {"no", "routines", "yes", "failed"}
    /\ zuc_refcount \in {0, 1}
    /\ registered \in BOOLEAN
    /\ api \in Api
    /\ header \in [Consumer -> 1..5]
    /\ requested \in [Consumer -> Abi]
    /\ cached \in [Consumer -> BOOLEAN]
    /\ called \in Called

\* A consumer that has the table got it from a package whose backend is up,
\* and a table that was filled holds every field of the package's version.
Reached ==
    /\ registered => zuc_refcount = 1
    /\ \A c \in Consumer : cached[c] => registered /\ api.ready
    /\ api.ready => api = fill_api

TableInv == Formed /\ Reached /\ CallsPresent /\ InfoWithin

LEMMA StageBounds ==
    /\ Stage = 1..5 /\ Last[Len(Last)] = 46
    /\ \A s \in 1..5 : Last[s] \in 1..46
    /\ \A s \in 1..5 : Last[s] >= 27
    /\ Last[1] = 27
BY DEF Stage, Last

LEMMA StageOfField ==
    ASSUME NEW f \in 1..46
    PROVE  StageOf(f) \in 1..5 /\ f <= Last[StageOf(f)]
<1>1. \E s \in Stage : f <= Last[s] /\ (s > 1 => f > Last[s - 1])
  <2>1. CASE f <= 27
      BY <2>1 DEF Stage, Last
  <2>2. CASE f > 27 /\ f <= 28
      BY <2>2 DEF Stage, Last
  <2>3. CASE f > 28 /\ f <= 31
      BY <2>3 DEF Stage, Last
  <2>4. CASE f > 31 /\ f <= 43
      BY <2>4 DEF Stage, Last
  <2>5. CASE f > 43
      BY <2>5 DEF Stage, Last
  <2> QED BY <2>1, <2>2, <2>3, <2>4, <2>5
<1> DEFINE P(s) == f <= Last[s] /\ (s > 1 => f > Last[s - 1])
<1>2. StageOf(f) = CHOOSE s \in Stage : P(s)
    BY DEF StageOf
<1> HIDE DEF P
<1>3. StageOf(f) \in Stage /\ P(StageOf(f))
    BY <1>1, <1>2 DEF P
<1> QED BY <1>3, StageBounds DEF P

\* Fields lie in the order of their numbers.
LEMMA FieldsOrdered ==
    ASSUME NEW f \in 1..46, NEW g \in 1..46
    PROVE  /\ EndOf(f) \in Nat
           /\ EndOf(f) <= EndOf(g) <=> f <= g
<1>1. EndOf(f) = 8 + f * Ptr /\ EndOf(g) = 8 + g * Ptr
    BY PtrSize DEF EndOf, offsetof
<1>2. f * Ptr \in Nat /\ g * Ptr \in Nat
    BY PtrSize
<1>3. f <= g => f * Ptr <= g * Ptr
    BY PtrSize
<1>4. f > g => f * Ptr > g * Ptr
    BY PtrSize
<1> QED BY <1>1, <1>2, <1>3, <1>4

\* What zuc_get_info() writes for the struct of each header.
LEMMA InfoWritten ==
    ASSUME NEW n \in 1..7
    PROVE  LET W == zuc_get_info(SizeOfInfo(n)) IN
           /\ W = IF n < 5 THEN {} ELSE 2..n
           /\ \A f \in W : InfoOffset[f] + InfoSize[f] <= SizeOfInfo(n)
<1> USE PtrSize DEF InfoOffset, InfoSize, SizeOfInfo, ZUC_INFO_REQUIRED_SIZE,
            Covers, zuc_get_info
<1>1. CASE n < 5
  <2>1. SizeOfInfo(n) < ZUC_INFO_REQUIRED_SIZE
      BY <1>1
  <2> QED BY <1>1, <2>1
<1>2. CASE n = 5
    BY <1>2
<1>3. CASE n = 6
    BY <1>3
<1>4. CASE n = 7
    BY <1>4
<1> QED BY <1>1, <1>2, <1>3, <1>4

LEMMA TableInitInv == TableInit => TableInv
<1> SUFFICES ASSUME TableInit PROVE TableInv
    OBVIOUS
<1>1. Formed
  <2>1. api \in Api
      BY DEF TableInit, Empty, Api
  <2>2. called \in Called
      BY DEF TableInit, NoCall, Called
  <2>3. provider \in 1..5 /\ header \in [Consumer -> 1..5]
      BY StageBounds, Zenon DEF TableInit
  <2> QED BY <2>1, <2>2, <2>3 DEF TableInit, Formed
<1>2. Reached
    BY DEF TableInit, Reached, Empty
<1>3. CallsPresent /\ InfoWithin
    BY DEF TableInit, CallsPresent, InfoWithin, NoCall
<1> QED BY <1>1, <1>2, <1>3 DEF TableInv

LEMMA TableFilled ==
    ASSUME Formed
    PROVE  /\ Last[provider] \in 1..46 /\ Last[provider] >= 27
           /\ fill_api \in Api
           /\ fill_api.ready
           /\ fill_api.struct_size = EndOf(Last[provider])
           /\ fill_api.filled = 1..Last[provider]
<1>1. Last[provider] \in 1..46 /\ Last[provider] >= 27
    BY StageBounds DEF Formed
<1>2. EndOf(Last[provider]) \in Nat
    BY <1>1, FieldsOrdered
<1> QED BY <1>1, <1>2 DEF fill_api, Api

\* A field that a consumer calls is in the table it met.
LEMMA FieldPresent ==
    ASSUME TableInv, NEW c \in Consumer, NEW f \in 1..46, cached[c],
           StageOf(f) = 1 \/ ZUCRYPT_API_HAS(Last[StageOf(f)])
    PROVE  f \in api.filled /\ ~(EndOf(f) > api.struct_size)
<1> DEFINE L == Last[provider]
           s == StageOf(f)
           M == Last[s]
<1>1. api = fill_api
    BY DEF TableInv, Reached
<1>2. L \in 1..46 /\ L >= 27 /\ api.struct_size = EndOf(L) /\ api.filled = 1..L
    BY <1>1, TableFilled DEF TableInv
<1>3. s \in 1..5 /\ M \in 1..46 /\ f <= M /\ (s = 1 => M = 27)
    BY StageOfField, StageBounds
<1>4. M <= L
  <2>1. CASE s = 1
      BY <1>2, <1>3, <2>1
  <2>2. CASE ZUCRYPT_API_HAS(M)
    <3>1. EndOf(M) \in Nat /\ EndOf(L) \in Nat /\ (EndOf(M) <= EndOf(L) <=> M <= L)
      <4> HIDE DEF L, M
      <4> QED BY <1>2, <1>3, FieldsOrdered
    <3>2. EndOf(L) >= EndOf(M)
        BY <1>2, <2>2 DEF ZUCRYPT_API_HAS
    <3> HIDE DEF L, M
    <3> QED BY <3>1, <3>2
  <2> QED BY <2>1, <2>2
<1> HIDE DEF L, M
<1>5. f <= L
    BY <1>2, <1>3, <1>4
<1>6. EndOf(f) \in Nat /\ EndOf(L) \in Nat /\ EndOf(f) <= EndOf(L)
    BY <1>2, <1>5, FieldsOrdered
<1> QED BY <1>2, <1>5, <1>6

LEMMA TableStep ==
    ASSUME TableInv, [TableNext]_tableVars
    PROVE  TableInv'
<1>1. Formed /\ Reached /\ CallsPresent /\ InfoWithin
    BY DEF TableInv
<1>2. NoCall \in Called
    BY DEF NoCall, Called
\* A step that leaves the package, the table and the consumers as they are.
<1>3. ASSUME UNCHANGED <<provider, loaded, zuc_refcount, registered, api, header, requested, cached>>,
             called' \in Called,
             CallsPresent', InfoWithin'
      PROVE  TableInv'
  <2>1. Formed'
      BY <1>1, <1>3 DEF Formed
  <2>2. Reached'
      BY <1>1, <1>3 DEF Reached, fill_api
  <2> QED BY <1>3, <2>1, <2>2 DEF TableInv
<1>4. CASE UNCHANGED tableVars
    BY <1>1, <1>3, <1>4 DEF tableVars, Formed, CallsPresent, InfoWithin
<1>5. CASE all_call_methods \/ R_init_zucrypt \/ reload
  <2>1. /\ loaded' \in {"no", "routines", "yes", "failed"}
        /\ registered' \in BOOLEAN /\ zuc_refcount' \in {0, 1} /\ (registered' => zuc_refcount' = 1)
        /\ registered => registered'
        /\ UNCHANGED <<provider, api, header, requested, cached, called>>
    <3>1. CASE all_call_methods
        BY <1>1, <3>1 DEF all_call_methods, Formed, Reached
    <3>2. CASE R_init_zucrypt
      <4>1. /\ loaded' \in {"yes", "failed"} /\ UNCHANGED <<provider, api, header, requested, cached, called>>
            /\ (zuc_refcount' = 1 /\ registered' = TRUE) \/ UNCHANGED <<zuc_refcount, registered>>
          BY <3>2 DEF R_init_zucrypt
      <4>2. CASE zuc_refcount' = 1 /\ registered' = TRUE
          BY <4>1, <4>2
      <4>3. CASE UNCHANGED <<zuc_refcount, registered>>
          BY <1>1, <4>1, <4>3 DEF Formed, Reached
      <4> QED BY <4>1, <4>2, <4>3
    <3>3. CASE reload
        BY <1>1, <3>3 DEF reload, Formed, Reached
    <3> QED BY <1>5, <3>1, <3>2, <3>3
  <2>2. Formed'
      BY <1>1, <2>1 DEF Formed
  <2>3. Reached'
      BY <1>1, <2>1 DEF Reached, fill_api
  <2>4. CallsPresent' /\ InfoWithin'
      BY <1>1, <2>1 DEF CallsPresent, InfoWithin
  <2> QED BY <2>2, <2>3, <2>4 DEF TableInv
<1>6. ASSUME NEW c \in Consumer, zucrypt_api(c) PROVE TableInv'
  <2>1. /\ registered /\ called' = NoCall /\ cached' = [cached EXCEPT ![c] = TRUE]
        /\ UNCHANGED <<provider, loaded, zuc_refcount, registered, header, requested>>
      BY <1>6 DEF zucrypt_api
  <2>2. api' = fill_api
      BY <1>1, <1>6 DEF zucrypt_api, Reached
  <2>3. api' \in Api /\ api'.ready
      BY <1>1, <2>2, TableFilled
  <2>4. Formed'
      BY <1>1, <1>2, <2>1, <2>3 DEF Formed
  <2>5. Reached'
    <3>1. fill_api' = fill_api
        BY <2>1 DEF fill_api
    <3> QED BY <1>1, <2>1, <2>2, <2>3, <3>1 DEF Reached, Formed
  <2>6. CallsPresent' /\ InfoWithin'
      BY <2>1 DEF CallsPresent, InfoWithin, NoCall
  <2> QED BY <2>4, <2>5, <2>6 DEF TableInv
<1>7. ASSUME NEW c \in Consumer, zucrypt_api_fails(c) PROVE TableInv'
    BY <1>2, <1>3, <1>7 DEF zucrypt_api_fails, CallsPresent, InfoWithin, NoCall
<1>8. ASSUME NEW c \in Consumer, NEW f \in 1..46, CallField(c, f) PROVE TableInv'
  <2>1. f \in api.filled /\ ~(EndOf(f) > api.struct_size)
      BY <1>8, FieldPresent DEF CallField
  <2>2. called' = [NoCall EXCEPT !.field = f, !.held = TRUE, !.past = FALSE]
    <3>1. called' = [NoCall EXCEPT !.field = f, !.held = f \in api.filled, !.past = EndOf(f) > api.struct_size]
        BY <1>8 DEF CallField
    <3>2. (f \in api.filled) = TRUE /\ (EndOf(f) > api.struct_size) = FALSE
        BY <2>1
    <3> QED BY <3>1, <3>2, Zenon
  <2>3. CallsPresent' /\ InfoWithin'
      BY <2>2 DEF CallsPresent, InfoWithin, NoCall
  <2>4. called' \in Called
    <3>1. f \in 0..46
        OBVIOUS
    <3> QED BY <1>2, <2>2, <3>1 DEF Called
  <2> QED BY <1>3, <1>8, <2>3, <2>4 DEF CallField
<1>9. ASSUME NEW c \in Consumer, NEW n \in 1..7, GetInfo(c, n) PROVE TableInv'
  <2> DEFINE W == zuc_get_info(SizeOfInfo(n))
  <2>1. called' = [field |-> 0, held |-> TRUE, past |-> FALSE, info |-> n, written |-> W]
      BY <1>9 DEF GetInfo, NoCall
  <2>2. /\ W = IF n < 5 THEN {} ELSE 2..n
        /\ \A f \in W : InfoOffset[f] + InfoSize[f] <= SizeOfInfo(n)
      BY InfoWritten
  <2> HIDE DEF W
  <2>3. CallsPresent'
      BY <2>1 DEF CallsPresent
  <2>4. InfoWithin'
      BY <2>1, <2>2 DEF InfoWithin, InfoOffset, InfoSize, SizeOfInfo
  <2>5. called' \in Called
      BY <2>1, <2>2 DEF Called
  <2> QED BY <1>3, <1>9, <2>3, <2>4, <2>5 DEF GetInfo
<1> QED BY <1>4, <1>5, <1>6, <1>7, <1>8, <1>9, StageBounds DEF TableNext

LEMMA TableHolds == TableSpec => []TableInv
<1>1. TableInv /\ [TableNext]_tableVars => TableInv'
    BY TableStep
<1> QED BY <1>1, TableInitInv, PTL DEF TableSpec

\* The table, what consumers have of it and what they called is well typed: the
\* fields filled in are those of zucrypt_api, and their sizes are sizes.
THEOREM TableTyped == TableSpec => []TableTypeOK
<1>1. TableInv => TableTypeOK
  <2>1. Stage = 1..5 /\ Last[Len(Last)] = 46
      BY StageBounds
  <2> QED BY <2>1, Zenon DEF TableInv, Formed, Api, Called, TableTypeOK
<1> QED BY <1>1, TableHolds, PTL

\* Whatever versions of zucrypt-r.h and of the package meet, a consumer that
\* tests the last field of a stage as ZUCRYPT_API_HAS prescribes calls no field
\* past the end of the table and none that was not filled in, for pointers of
\* any width.
THEOREM FieldsPresent == TableSpec => []CallsPresent
<1>1. TableInv => CallsPresent
    BY DEF TableInv
<1> QED BY <1>1, TableHolds, PTL

\* R_init_zucrypt() registers the table only once zuc_init() has succeeded, so
\* a consumer that holds the table holds it over a backend that is up.
THEOREM TableMeansBackend == TableSpec => []BackendUp
<1>1. TableInv => BackendUp
    BY DEF TableInv, Reached, BackendUp
<1> QED BY <1>1, TableHolds, PTL

\* zuc_get_info() writes every field the caller's struct has and no byte behind
\* it, whatever header the caller was compiled against.
THEOREM InfoInBounds == TableSpec => []InfoWithin
<1>1. TableInv => InfoWithin
    BY DEF TableInv
<1> QED BY <1>1, TableHolds, PTL

=============================================================================
