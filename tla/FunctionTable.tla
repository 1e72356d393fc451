---------------------------- MODULE FunctionTable ----------------------------
(***************************************************************************)
(* The registered function table (zucrypt-r.h, zucrypt_api.c), and the     *)
(* package that registers it when it loads (zucrypt_r.c).  Consumers are   *)
(* compiled against one version of the headers and meet another version of *)
(* the package at run time, loaded before or after them.                   *)
(*                                                                         *)
(* A version is the number of stages in which fields were appended; fields *)
(* are numbered in their order, offsets are in bytes.                      *)
(***************************************************************************)
EXTENDS Integers, Sequences

CONSTANTS
    Consumer,    \* translation units that include zucrypt-r.h
    Abi,         \* major versions a header may ask for
    Ptr          \* bytes in a pointer, no fewer than in an int

ASSUME PtrSize == Ptr \in Nat /\ Ptr >= 4

VARIABLES
    provider,    \* the stage of the package that is installed
    loaded,      \* "no", "routines" (R_init_zucrypt half-way), "yes" or "failed"
    zuc_refcount,\* of the package's own copy of the library
    registered,  \* zucrypt_get_api is a registered C-callable
    api,         \* the table: whether it was filled, its size and its fields
    header,      \* the stage each consumer was compiled against
    requested,   \* and the major version its header asks for
    cached,      \* whether its static pointer is set
    called       \* the last call: of a field of the table, or zuc_get_info()

tableVars == <<provider, loaded, zuc_refcount, registered, api, header, requested, cached, called>>

\* ABI 1, random_bytes, AEAD and PBKDF2, RSA keys, key agreement: the last
\* field of each stage.
Last == <<27, 28, 31, 43, 46>>

Stage == 1..Len(Last)

StageOf(f) == CHOOSE s \in Stage : f <= Last[s] /\ (s > 1 => f > Last[s - 1])

\* Where field f begins, behind abi_version and struct_size, and ends.
offsetof(f) == 8 + (f - 1) * Ptr

EndOf(f) == offsetof(f) + Ptr

Empty == [ready |-> FALSE, struct_size |-> 0, filled |-> {}]

\* field: the field called, whether the table held it and ended before it;
\* info: the last field of the caller's zuc_info, and the fields written.
NoCall == [field |-> 0, held |-> TRUE, past |-> FALSE, info |-> 0, written |-> {}]

TableTypeOK ==
    /\ provider \in Stage
    /\ loaded \in {"no", "routines", "yes", "failed"}
    /\ zuc_refcount \in {0, 1}
    /\ registered \in BOOLEAN
    /\ api \in [ready: BOOLEAN, struct_size: Nat, filled: SUBSET (1..Last[Len(Last)])]
    /\ header \in [Consumer -> Stage]
    /\ requested \in [Consumer -> Abi]
    /\ cached \in [Consumer -> BOOLEAN]
    /\ called \in [field: 0..Last[Len(Last)], held: BOOLEAN, past: BOOLEAN,
                   info: 0..7, written: SUBSET (1..7)]

TableInit ==
    /\ provider \in Stage
    /\ loaded = "no"
    /\ zuc_refcount = 0
    /\ registered = FALSE
    /\ api = Empty
    /\ header \in [Consumer -> Stage]
    /\ requested \in [Consumer -> Abi]
    /\ cached = [c \in Consumer |-> FALSE]
    /\ called = NoCall

-----------------------------------------------------------------------------
(* The package *)

\* R_init_zucrypt: the routines are registered, or memory for them lacks.
all_call_methods ==
    /\ loaded = "no"
    /\ loaded' \in {"routines", "failed"}
    /\ UNCHANGED <<provider, zuc_refcount, registered, api, header, requested, cached, called>>

\* Mutant: the table is registered before the backend is up.
R_init_zucrypt_Early ==
    /\ loaded = "routines"
    /\ registered' = TRUE
    /\ \/ loaded' = "yes" /\ zuc_refcount' = 1
       \/ loaded' = "failed" /\ UNCHANGED zuc_refcount
    /\ UNCHANGED <<provider, api, header, requested, cached, called>>

\* zuc_init(), then zucrypt_register_api(); when the first fails an R error
\* leaves the package half-loaded.
R_init_zucrypt ==
    /\ loaded = "routines"
    /\ \/ loaded' = "yes" /\ zuc_refcount' = 1 /\ registered' = TRUE
       \/ loaded' = "failed" /\ UNCHANGED <<zuc_refcount, registered>>
    /\ UNCHANGED <<provider, api, header, requested, cached, called>>

\* R drops a package whose load failed, and the next use loads it again.
reload ==
    /\ loaded = "failed"
    /\ loaded' = "no"
    /\ UNCHANGED <<provider, zuc_refcount, registered, api, header, requested, cached, called>>

\* Mutant: a field is appended to the struct and forgotten here.
fill_api_Forgets ==
    [ready |-> TRUE, struct_size |-> EndOf(Last[provider]), filled |-> (1..Last[provider]) \ {Last[provider]}]

fill_api ==
    [ready |-> TRUE, struct_size |-> EndOf(Last[provider]), filled |-> 1..Last[provider]]

\* The package's version is 1; any other request gets NULL.
zucrypt_get_api(version) == version = 1

-----------------------------------------------------------------------------
(* Consumers *)

\* Mutant: the table is returned only by the call that fills it in.
zucrypt_api_First(c) ==
    /\ ~cached[c]
    /\ registered /\ api = Empty /\ zucrypt_get_api(requested[c])
    /\ api' = fill_api
    /\ cached' = [cached EXCEPT ![c] = TRUE]
    /\ called' = NoCall
    /\ UNCHANGED <<provider, loaded, zuc_refcount, registered, header, requested>>

\* Resolution on use, until one succeeds: R_GetCCallable() raises an R error
\* when there is no such callable, and the next use tries again.
zucrypt_api(c) ==
    /\ ~cached[c]
    /\ registered
    /\ zucrypt_get_api(requested[c])
    /\ api' = IF api.ready THEN api ELSE fill_api
    /\ cached' = [cached EXCEPT ![c] = TRUE]
    /\ called' = NoCall
    /\ UNCHANGED <<provider, loaded, zuc_refcount, registered, header, requested>>

\* A resolution that gives nothing: an R error, or NULL.
zucrypt_api_fails(c) ==
    /\ ~cached[c]
    /\ ~registered \/ ~zucrypt_get_api(requested[c])
    /\ called' = NoCall
    /\ UNCHANGED <<provider, loaded, zuc_refcount, registered, api, header, requested, cached>>

ZUCRYPT_API_HAS(f) == api.struct_size >= EndOf(f)

\* A consumer calls a field its header has: one of ABI 1 as it is, a later one
\* after the test the header prescribes, of the last field of its stage.
CallField(c, f) ==
    /\ cached[c]
    /\ f <= Last[header[c]]
    /\ StageOf(f) = 1 \/ ZUCRYPT_API_HAS(Last[StageOf(f)])
    /\ called' = [NoCall EXCEPT !.field = f, !.held = f \in api.filled, !.past = EndOf(f) > api.struct_size]
    /\ UNCHANGED <<provider, loaded, zuc_refcount, registered, api, header, requested, cached>>

-----------------------------------------------------------------------------
(* zuc_get_info(), whose struct carries its size the same way *)

\* Offset and size of each field from struct_size on: hardware_acceleration,
\* the sixth, is an int, and the pointer behind it is aligned.
InfoOffset == <<0, 4, 8, 8 + Ptr, 8 + 2 * Ptr, 8 + 3 * Ptr, 8 + 4 * Ptr>>

InfoSize == <<4, 4, Ptr, Ptr, Ptr, 4, Ptr>>

\* sizeof(zuc_info) where the header ends with field n.
SizeOfInfo(n) == InfoOffset[n] + (IF n < 3 THEN 4 ELSE Ptr)

ZUC_INFO_REQUIRED_SIZE == InfoOffset[5] + Ptr

\* Mutant: the test forgets the size of the field.
Covers_Begins(size, f) == size >= InfoOffset[f]

Covers(size, f) == size >= InfoOffset[f] + InfoSize[f]

\* The fields that are written for a caller whose struct has this size; none
\* stands for ZUC_ERR_ABI.
zuc_get_info(size) ==
    IF size < ZUC_INFO_REQUIRED_SIZE THEN {}
    ELSE 2..5 \union {f \in {6, 7} : Covers(size, f)}

\* A consumer asks, through the table, with the zuc_info of its own header.
GetInfo(c, n) ==
    /\ cached[c]
    /\ called' = [NoCall EXCEPT !.info = n, !.written = zuc_get_info(SizeOfInfo(n))]
    /\ UNCHANGED <<provider, loaded, zuc_refcount, registered, api, header, requested, cached>>

-----------------------------------------------------------------------------

TableNext ==
    \/ all_call_methods
    \/ R_init_zucrypt
    \/ reload
    \/ \E c \in Consumer :
          \/ zucrypt_api(c)
          \/ zucrypt_api_fails(c)
          \/ \E f \in 1..Last[Len(Last)] : CallField(c, f)
          \/ \E n \in 1..7 : GetInfo(c, n)

\* The package is loaded when the first consumer that imports it is, and a
\* consumer resolves the table whenever it uses it.
TableFairness ==
    /\ WF_tableVars(R_init_zucrypt)
    /\ \A c \in Consumer : WF_tableVars(zucrypt_api(c))

TableSpec == TableInit /\ [][TableNext]_tableVars /\ TableFairness

-----------------------------------------------------------------------------
(* Properties *)

\* No consumer, however old or new its header, calls past the end of the table
\* it met or through a pointer that was never filled in.
CallsPresent == called.held /\ ~called.past

\* "A consumer that resolves the table is entitled to assume the functions in
\* it will work": a table is reached only while the backend is up.
BackendUp == (\E c \in Consumer : cached[c]) => zuc_refcount > 0

\* Whatever the order in which the package and its consumers load, and however
\* many resolutions failed before, a consumer of this major version gets the
\* table once the package is up.
Resolves ==
    \A c \in Consumer : loaded = "yes" /\ requested[c] = 1 ~> cached[c]

\* Whatever header the caller was compiled against, zuc_get_info() writes every
\* field it knows and no byte behind its struct; a struct shorter than the
\* required prefix is left alone.
InfoWithin ==
    called.info > 0 =>
        /\ called.written = IF called.info < 5 THEN {} ELSE 2..called.info
        /\ \A f \in called.written : InfoOffset[f] + InfoSize[f] <= SizeOfInfo(called.info)

=============================================================================
