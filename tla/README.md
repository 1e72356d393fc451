# TLA+ models of zucrypt

zucrypt is an R package for digests, HMAC, AES, authenticated encryption, key
derivation, random bytes and public keys. Its core is an adapter in C99
(`src/zuc_*.c`) over a vendored copy of TF-PSA-Crypto, offered to R
(`src/zucrypt_*.c`, `R/`), to other packages through a registered function
table, and as a static archive. This directory holds TLA+ models of the
adapter and of the R glue, TLC runs over small instances and TLAPS proofs for
every instance. Paths below are relative to the repository.

## 1. Inventory

The library is main-thread only. What makes it hard is not concurrency but
that any backend call may fail, that R may jump out of C code at any
allocation or interrupt check and run finalizers at any allocation, that keys
live in a global store under identifiers that are reused, and that several
consumers share one copy.

| component | state | operations | interacts with | what makes it correct |
|---|---|---|---|---|
| backend lifetime, `src/zuc_backend.c` | `zuc_refcount`, `zuc_live` | `zuc_init`, `zuc_shutdown`, `zuc_get_info` | opens and closes the window every other call needs; closing wipes the key store | the count is the number of references held; no key outlives the window |
| digests and HMAC, `src/zuc_hash.c` | handle: backend operation, key identifier, `active` | one-shot, new, update, finish, reset, free | key store; `zuc_live` | a digest is of exactly the accepted updates, a MAC is under the handle's own key, nothing leaks on failure |
| AES-CBC, `src/zuc_aes.c` | handle: key identifier, chaining value | new, free, set/get state, encrypt, decrypt | key store; caller memory | any split into calls is one CBC stream; in place works; overlap is refused |
| authenticated encryption, `src/zuc_aead.c` | none between calls; a transient key and operation within | encrypt, decrypt | key store; caller memory | no unauthenticated plaintext, nothing half-made, nothing left behind |
| utilities, `src/zuc_util.c` | allocation-failure flag | overlap test, compare, wipe, allocation watch | used by all | the overlap test is exact at every address |
| random bytes, `src/zuc_random.c` | failure switch for tests | `zuc_random_bytes`, the backend's call-out | operating system | all bytes or none |
| key derivation, `src/zuc_kdf.c` | none between calls; a derivation operation within | PBKDF2 | backend | the caller's iterations and nothing else; output wiped on failure; no operation left with the password in it |
| public keys, `src/zuc_pkey.c` | key material in the handle; transient keys | parse, generate, import, export, write, sign, verify, encrypt, decrypt, agree | key store, DER reader and writer, allocation watch | transient keys destroyed; DER lengths right at their boundaries; memory errors reported as such |
| status and algorithm tables, `src/zuc_status.c` | none | mapping, names, sizes | all | backend failures keep a meaning |
| R glue, `src/zucrypt_crypt.c`, `R/*.R` | external pointers, R connections | `crypt_*` functions | R's collector, interrupts, conditions | every context has one owner; every connection is put back; no digest of a prefix; no part of a result for the whole; public-key, GCM and PBKDF2 output wiped where it is not returned |
| key objects in R, `R/pkey.R`, `R/ec.R`, `R/sign.R` | none | reading and writing keys and signatures | public keys; other programs' encodings | one encoding per signature; integers are read back |
| function table, `src/zucrypt_api.c`, `src/zucrypt_r.c`, `inst/include/zucrypt-r.h` | one table, registered when the package loads | resolve, test for a field | other packages | no call past the end of an older table; found in whatever order packages load |
| consumer fixtures, `tools/zucryptlink`, `tools/zucrypttest` | a reference, contexts in C variables | derive, encrypt by segments, sign, agree | the archive, the function table, R's jumps | no context is lost; the running digest is wiped |

`PROJECT.json` lists the same components with their status, and under
`hazards` the places where something can go wrong that a test would hardly
reach.

## 2. Modules

| module | models | state and actions |
|---|---|---|
| `Adapter` | `zuc_backend.c`, `zuc_hash.c`, handle lifetime of `zuc_aes.c` | reference count, key store, contexts, live count; one action per entry point. Since the library is main-thread only a call is one step, and what interleaves are whole calls of several consumers. Every way a call can fail is an alternative of its action |
| `AdapterProofs` | | theorems about `Adapter`, and about `FunctionTable`, through which other packages reach it; it extends both, so the specification of the latter is called `TableSpec` |
| `Buffers` | `zuc_int_overlaps` | address arithmetic modulo the width of a pointer |
| `AesCbc` | the rest of `zuc_aes.c` | one handle, caller memory in blocks, any two buffers. The block cipher, its inverse and exclusive-or are parameters with the three laws CBC needs |
| `AesCbcProofs` | | theorems about `AesCbc` and `Buffers` |
| `AeadContract` | the promise of `inst/include/zucrypt.h` on AEAD | a call and its outcome, each one step |
| `Aead` | `zuc_aead.c` | one backend call per step; `ImplementsContract` maps the intermediate states to "called" |
| `AeadProofs` | | theorems about `Aead` |
| `Streams` | digest and HMAC glue of `zucrypt_crypt.c`, `R/hash.R`, `key_input` of `R/pkey.R` | a call split where R may run; external pointers, contexts, the connection; the collector, jumps and arriving data are actions of their own |
| `StreamsProofs` | | theorems about `Streams` |
| `Random` | `zuc_random.c`, `zucrypt_rand_bytes` | one system call per step, four sources |
| `RandomProofs` | | theorems about `Random` |
| `PKeyData` | the key pairs, formats and statuses of `zucrypt.h` and `zuc_pkey.c` | constants and sets only |
| `PKeyContract` | the promise of `zucrypt.h` on public keys | a call is refused as it is made, or is under way and then fails or completes in one step |
| `PKey` | `zuc_pkey.c`, the allocation watch of `zuc_util.c` | handles that hold key material, the transient keys and buffers of the call under way; one action per backend call or allocation, each of which may fail; `MeetsContract` shows the caller a request and its end |
| `PKeyProofs` | | theorems about `PKey` |
| `Der` | the encodings `zuc_pkey_write` makes itself | the size computed first and the running offset of the writer, piece by piece; a strict reader, defined apart, takes the result back |
| `Kdf` | `zuc_kdf.c`, `zucrypt_pbkdf2`, `R/kdf.R` | one backend call per step; iterations modulo the width of a `uint32_t` |
| `KdfProofs` | | theorems about `Kdf` |
| `RKeys` | the key, AES, GCM and PBKDF2 glue of `zucrypt_crypt.c` | external pointers and the objects behind them, a call cut where R allocates or checks for interrupts; the collector, jumps, the end of the session, and pointers that are foreign or restored from a file |
| `RKeysProofs` | | theorems about `RKeys` |
| `KeyForms` | the DER of `R/pkey.R` and `R/ec.R`, signing and verifying in `R/sign.R` | the octets of a signature or key; damage on the way of a signature is an action |
| `FunctionTable` | `zucrypt-r.h`, `zucrypt_api.c`, `zucrypt_r.c`, `zuc_get_info` | which headers each consumer was built against, which version of the package is installed and whether it has loaded (a load that failed may be tried again), resolved pointers |
| `MC*` | | instances for TLC: symmetry sets, a small block cipher; `MCEncodings` runs `KeyForms` and an instance of `Der` side by side |

Definitions carry the names of the C functions they translate. Operators with
a suffix after an underscore, introduced by a comment "Mutant", are plausible
wrong versions of the definition after them; no specification uses them, and
each exists to show that a property can fail.

Two abstractions run through the modules. Statuses a failed backend call may
be mapped to are represented by a few ("MEMORY", "BACKEND", "INTERNAL" where
the code tells them apart). Message contents are chunks, blocks or the
question "which message", since no property depends on the bytes.

The backend is modelled from what its source does where the adapter depends
on it: key identifiers are reused; `psa_hash_update` aborts the operation on
every failure, `psa_mac_update` on every failure but that of copying its
input; `psa_hash_finish` does not abort when it cannot copy its output, the
MAC, AEAD and cipher finishes always do; outputs may be partly written when
a call fails; the multipart calls on an operation that is already set up do
not ask whether the backend is initialised; a key derivation takes its inputs
in one order only and stays allocated until it is aborted.

How they fit. `Adapter` is the library as one process's consumers share it;
`AesCbc`, `Aead`, `Kdf`, `Random` and `PKey` look inside single calls, where
`Adapter` sees one step. `Streams` and `RKeys` are the two users inside the
package, with the same answer to R's jumps, a finalized pointer that exists
before what it owns; `FunctionTable` is how other packages become users.
`AesCbc` extends `Buffers`; `Aead` refines `AeadContract`, and `PKey` refines
`PKeyContract`; the last two share only `PKeyData`.

## 3. Runs

| run | checks | result |
|---|---|---|
| `adapter` | counts, keys and digests stay right for consumers that keep a reference while they hold a handle, whatever call fails; no digest after a failed update | holds |
| `adapter_window` | "every entry point checks `zuc_int_ready`" | violated: the update, finish and reset functions do not |
| `aes_cbc` | calls chain as one stream; the input survives | holds |
| `aead` | nothing left behind; refinement of `AeadContract` | holds |
| `streams` | ownership, no use of a freed context, whole input, connection restored; every context is freed in the end | holds |
| `random` | all or nothing, in bounds; termination | holds |
| `pkey` | no transient key, buffer or live handle is left behind; private material is wiped before it is freed and stays in private halves; a memory status means that memory ran out; a verdict on a signature is one; what is made is what was asked for; refinement of `PKeyContract` | holds |
| `pkey_zeroes` | "on any failure the whole output buffer is zeroed" | violated when a key cannot be loaded or a peer's public half cannot be had |
| `function_table` | no call past the table, the backend is up when the table is found, `zuc_get_info` writes within the caller's struct; a consumer that keeps asking resolves it | holds |
| `rkeys` | ownership, no use after free, whole results, nothing left at exit; of the calls that return, only an AES-CBC call that failed at a chunk drops output unwiped | holds |
| `kdf` | the iterations asked for; zeroed output and no operation left on failure | holds |
| `encodings` | signatures written are strict DER and of damaged ones exactly strict DER is passed on; integers read back; every private key written fills the buffer sized for it and is strict DER of what went in; `ZUC_PKEY_MAX_WRITE` is enough | holds |

The violated runs state what a comment or the header says and the code does
not do; `findings` in `PROJECT.json` quotes the line and the code.

Bounds.

* `adapter`: three consumers and a largest count of 2, so that the count
  saturates while a consumer still wants a reference; two handles and two key
  identifiers, enough for an identifier to be given up by one handle and taken
  by another; two MAC keys, so that a wrong key shows; two different chunks
  and up to two per message, so that order, omission and repetition show.
* `aes_cbc`: three blocks of memory hold disjoint, adjacent, overlapping and
  identical buffers of one block and overlapping ones of two; three blocks of
  history hold a call of two blocks followed by another and three of one. A
  one-bit block with two different ciphers separates the streams that matter;
  the proof is for every cipher.
* `aead` needs no bounds.
* `streams`: two contexts and two pointers, so that a stranded context and its
  pointer coexist with a later call and starve a third until they are
  collected; inputs of no chunk or one, which may arrive late, so that an
  early end is a digest of less than the input. No symmetry, since liveness is
  checked too.
* `random`: chunks of 3 bytes, words of 2 and requests of up to 7 give a
  request of several chunks, a short last chunk and a short last word.
* `pkey`: three key pairs, one of each kind of type (RSA, curve, X25519), and
  two handles, since an agreement needs two and two may hold the same key.
* `kdf`: integers modulo 8, so that 0, 1, the largest count and one too many
  are all arguments.
* `rkeys`: three pointers and three addresses: two keys of an agreement, or a
  key and a foreign pointer, and the object a call makes; three chunks of AES
  input, so that an interrupt may come before, between and after.
* `encodings`: scalars of one byte, with two bytes of the signature damaged,
  and of 66 bytes as on P-521, with one: there the sequence's length passes
  128. Damaged octets are those that mean something to a reader (tags, zero,
  small lengths, the long form). RSA integers lie on either side of 128 and
  256 bytes. Lengths beyond 4096 are longer than any input and are one. For
  the C writer: every curve, and every length of an RSA private key from 600,
  below that of 1024 bits, to the longest the backend exports for 4096 bits.
  The two have no state in common; one call is under way at a time.
* `function_table`: two consumers of any two header versions against a package
  of any version; offsets are those of 8-byte pointers.

Fairness. `streams` assumes that R goes on with the call it evaluates,
that a connection delivers what it has, and that an unreachable pointer is
finalized; the last is what R guarantees at the latest at exit, because the
finalizers are registered with `onexit = TRUE`. `random` assumes that the
process runs and, strongly, that not every `getrandom` is interrupted.
`function_table` assumes that the package loads in the end and that a consumer
asks again, which is what makes the lazy resolution of `zucrypt-r.h` enough.

Deadlock is checked in every run.

## 4. Proofs

Everything below is proved for every value of the constants, from the named
assumptions of the modules (finite sets of consumers and handles, a positive
largest count, distinct kinds of key material, the laws of the block cipher, a
memory that ends below the last address, a pointer no shorter than an int).

* `TypeCorrect` of `AdapterProofs`: `Adapter` is well typed.
* `DigestsCoverAccepted`: an operation that is set up has been fed exactly the
  accepted chunks, and that of a digest handle has had no failed update. This
  relation between the operation and the ghosts is the inductive part.
* `LiveCountExact`: by the effect of each action on the set of open handles.
* `NoKeyLeaks`: `AllAccounted` strengthens `NoOrphanKey`; it holds without the
  reference rule, because a handle whose identifier was reused may destroy
  another's key but never leave one behind.
* `DisciplineSuffices`: with `Disciplined`, `DisciplineInv` says that the count
  is the number of holders, that every owner of a handle is a holder (`Owned`),
  and that every identifier in a handle names its own key, as does every
  operation (`Keyed`). `Owned` is what rules out a last shutdown with handles
  open; without it `KeysIntact` is not inductive.
* `OverlapExact`: the C comparison equals "two different buffers that share an
  address" for buffers that end below the last address. C guarantees that.
* `CallsMakeOneStream`: the invariant is `CbcChained` itself with types; the
  decrypting step uses that E inverts D and that exclusive-or cancels.
* `OverlapReportedAlways`, `InputAlwaysSurvives`: from `OverlapExact`.
* `NothingIsLeftBehind`, `AeadImplementsContract`: `Progress` ties each program
  point to what the buffers may hold, `Held` to whether the key and the
  operation exist; every internal step is then a stutter of the contract.
* `FilledOrWiped` of `RandomProofs`, with its three parts as theorems of their
  own: `Filled` says how far the buffer is filled at each point of a call, and that only R's
  calls are split into chunks.
* `FailedUpdateYieldsNone`, `WindowEmptiesStore`, `RefcountExact` and
  `MacsUseOwnKey` of `AdapterProofs`: consequences of the invariants above. All
  but `DisciplineSuffices`, `RefcountExact` and `MacsUseOwnKey` hold with or
  without the reference rule.
* `KeyIsAsAsked`, `InputsInOrder` and `NothingIsLeft` of `KdfProofs`: `Progress` ties each program point to the state of the backend's
  operation, so that no input comes out of order, and `Written` to what the
  output holds. The theorems are for every width of the iteration count.
* `HandlesOwnedOnce`, `UsedHandlesLive`, `ReturnsWiped`, `ResultsWhole`,
  `NothingLeftAtExit`, `ContextReleased` of `RKeysProofs`, for any number of
  pointers and addresses. The invariant has eight parts: types; `Tags` (a
  pointer's tag tells its finalizer, and every finalizer runs at exit too);
  `OwnedOnce`; `Args` (what a call read from its arguments is still in them);
  `Owner` (the pointer a call made, and what it owns at each point); `Work`
  (what the call has computed and its buffers hold); `Ret`; and `NothingLeft`.
  For `ReturnsWiped`, `Work` says that nothing has been written before the
  native call, and that a call with an error and output in its buffer is an
  AES-CBC call one of whose chunks failed; section 5 has the strong form, which
  that exception refutes.
  `Args` is what makes `UsesLive` inductive: a handle in use has an owner that
  the collector cannot take.
* `ContextsOwnedOnce`, `TouchedContextsLive`, `DigestsWhole` and
  `ConnectionsRestored` of `StreamsProofs`, for any number of pointers and contexts and input of any
  length. Beside the types and the properties the invariant says that no two
  pointers have one address (`Owners`); which pointer and context the call
  owns at each point, and that the collector cannot have taken them
  (`Points`); that what was fed to the context is what was read, save the chunk
  in hand, and that a finish follows only a complete read (`Progress`); and
  who is to close the connection (`Opened`). `WholeInput` is about a value
  already returned; `Progress` is what makes it inductive, since the value is
  computed several steps, and possibly a jump, earlier. `Points` and `Owners`
  together give `TouchesLive`: the pointer is protected while the call runs,
  and a context in a pointer is live.
* `EveryKeyAccounted`, `MemoryToldTruly`, `NothingSpilled`, `OutputWhole`,
  `HalvesRespected`, `VerdictsTrue` and the action property
  `HandlesMadeAsAsked` of `PKeyProofs`, for any key pairs and any finite set of
  handles. `Route` says which calls pass which points and where the detour of
  `public_der` is under way, `Halves` which half of which key the call works
  on, `Stored` that the store holds that key from its loading to its use and
  is empty otherwise, `Temps` which buffers exist and what they hold, `Counted`
  the live count, and `Watched` that until a call returns its allocation watch
  has seen just the allocations that failed in it. None of the properties is
  inductive alone: that a delivered encoding is the half asked for needs
  `Temps` and `Halves` from the entry on, and that nothing is freed dirty
  needs that the point is public and the buffers of private encodings are
  wiped. The proof has a lemma for going on, one for failing and one for
  succeeding, and each step is one of the three.
* `PKeyMeetsContract` of `PKeyProofs`: `zuc_pkey.c` implements `PKeyContract`.
  The mapping shows the program points of a call as "called" and its record as
  the request; the backend's store, the buffers and the watch are not seen. An
  entry is a `Refuse` or a `Start` of the contract: what the C code returns,
  in its order of tests, is one of the grounds its arguments give, and it goes
  on only when there is none (one lemma per entry point). Every later step is
  `Shaped`: it goes on with the same request (`Going`), a stutter or an
  allocation missed, or it ends the call (`Ending`), which is a `Fail` or a
  `Complete`. That the ends are those the contract allows follows from the
  invariants above, from `Steady` (a call whose random source failed has
  ended, and a key that was read came from an input that holds one), and from
  `Achieved`, what was made or written with `ZUC_OK`.
* `FieldsPresent`, `TableMeansBackend`, `InfoInBounds` and `TableTyped` of
  `AdapterProofs`, the invariants of `FunctionTable`, for any consumers, any
  major versions and pointers of any width of at least 4 bytes, where the run
  has 8. `Reached` says that a consumer with the table got it from a
  registered package whose backend is up and that a filled table has every
  field of its version; `FieldsOrdered`, that offsets grow with field numbers,
  turns the test of one field into the presence of those before it.
* `TypeCorrect` in each of the proof modules.

Every invariant and action property that a run checks is a theorem here, except
those named below, and so are both refinements.

Some of this is proved and has no run, the proof being for every instance: the
types of the modules with proofs, `NoKeyOutsideWindow` and `FinishUsesOwnKey`
of `Adapter`, `OverlapReported` of
`AesCbc`, `FailsWithCause` of `Kdf` and `ReleasedEagerly` of `RKeys`.

Only model-checked: `Freed`, `Terminates` and `Resolves`, which need fairness;
`MCTypeOK`, `OneEncoding`, `ReadBack` and `KeysWritten`, which are about what a
recursion over octets computes and so need induction over data, which the
provers do not have. The violated runs are TLC's by nature.

## 5. Where comments and code differ

Besides the two with runs, six statements of comments or messages are kept as
definitions; each is violated when it is made an invariant of its component's
configuration.

| definition | the statement | what the code does |
|---|---|---|
| `Adapter!FinishConsumesOperation` | `src/zuc_hash.c:155`, "The backend's operation is consumed either way" | `psa_hash_finish` that cannot copy its output leaves the operation set up; reset and free abort it |
| `Aead!EveryFailureZeroes` | `src/zuc_aead.c:6`, "every failure path zeroes the caller's whole output buffer" | argument errors leave it alone, as the header documents |
| `Random!WipedBeforeDropped` | `src/zucrypt_crypt.c:474`, "every byte already drawn is wiped before the vector is dropped" | an interrupt pending when a chunk fails jumps away before the wipe |
| `PKey!EntropyReported` | `src/zuc_crypto_config.h:174`, a failing random source "is ZUC_ERR_ENTROPY there too" | a failed decryption is `ZUC_ERR_AUTH` whatever its cause |
| `Streams!KeyReadToEnd` | `R/pkey.R:81`, "a connection read to its end" | a non-blocking connection with nothing at the moment ends the read |
| `KeyForms!ParsesDerOnly` | `R/ec.R:271`, "is not a DER ECDSA signature." | `crypt_ecdsa_parse` also takes encodings that are not DER |

One more definition, `RKeys!DroppedWiped`, states what no comment promises and
the neighbouring code would suggest: that no call which returns an error drops
a vector with output in it. It is violated too. `zucrypt_aes_cbc` decrypts chunk
by chunk straight into the vector meant for R (`src/zucrypt_crypt.c:386`); when a
later chunk fails the vector is dropped at line 402 with the chunks before it
decrypted, and perhaps part of the failing one, whereas `trimmed`
(`src/zucrypt_crypt.c:687`) and `zucrypt_rand_bytes` (line 491) wipe theirs and
the native GCM and PBKDF2 functions zero their output. `WipedOnReturn` is the
same with that one exception. Neither covers a call that a jump ends: R frees its
vectors without wiping them, whatever they hold.

## 6. Not modelled, and the plan

Next: a module that puts `RKeys` on top of `Adapter`, with finalizers that run
after the last shutdown.

Left out for good: the cryptographic algorithms and the rest of the vendored
backend (third-party, and specified by test vectors), and the header that
configures it (compile-time switches); `zuc_equal` and `zuc_secure_zero`, which
are about timing and the compiler; names, messages, hex formatting and
documentation; printing and the JWK, OpenSSH and raw-point forms of keys, which
are functions of bytes without state and are tested against published
examples; the test harness and the consumer fixtures under `tools/`, which call
the interface in a straight line.
