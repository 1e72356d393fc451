----------------------------- MODULE PKeyProofs ------------------------------
(***************************************************************************)
(* What public-key calls leave behind and what they say, for any number of *)
(* handles and keys, whichever backend call or allocation fails.           *)
(***************************************************************************)
EXTENDS PKey, TLAPS, FiniteSetTheorems

Operating == {"sign", "verify", "encrypt", "decrypt", "agree"}

\* Which calls pass which points.  pub marks the detour of public_der().
Route(c) ==
    /\ c.pc = "idle" => c = Idle
    /\ c.pc \in {"copy", "read", "attrs"} => c.fn = "parse"
    /\ c.pc = "load" /\ ~c.pub => c.fn \in Maker \union Operating \union {"write"}
    /\ c.pc \in {"from_psa", "export"} /\ ~c.pub => c.fn \in Maker
    /\ c.pc = "steal" => c.pub
    /\ c.pub => c.pc \in {"load", "from_psa", "export", "steal"}
    /\ c.pc = "point" \/ c.pub => c.fn \in {"write", "export", "agree"}
    /\ c.pc \in {"spki", "spki_write", "encode"} => c.fn = "write"
    /\ c.pc = "operate" => c.fn \in Operating
    /\ c.pc = "deliver" => c.fn \in {"write", "export"}

\* Which halves a call works on: what is delivered or made is private only
\* where it was asked for and is there.
Halves(c) ==
    /\ c.pc # "idle" => c.m \in Material
    /\ c.pc # "idle" /\ c.fn \notin {"parse", "generate", "import"} => c.h \in Handle /\ Held(c.h)
    /\ c.fn \in {"write", "export"} => c.m = pkey[c.h] /\ (c.private => c.m.private)
    /\ c.fn \in Maker /\ c.private /\ c.pc \notin {"copy", "read"} => c.m.private
    /\ c.fn = "export" /\ c.private => c.pc = "deliver"
    /\ c.fn = "write" /\ c.private /\ ~c.pub => c.pc \in {"point", "encode", "deliver"}
    /\ c.pc = "encode" => c.private

\* The store holds the key of the call from its loading to its use.
Stored ==
    store = IF call.pc \in {"from_psa", "export", "spki", "operate"}
            THEN {[key |-> call.m.key, private |-> call.m.private, usage |-> call.usage]}
            ELSE {}

\* Which temporary buffers there are, and what they hold.
Temps ==
    /\ call.pc # "read" => tmp["copy"] = "none"
    /\ tmp["buf"] = IF call.pc = "export" THEN "blank" ELSE "none"
    /\ tmp["point"] \in {"none", "public"}
    /\ tmp["point"] = "public" =>
          \/ call.pc \in {"encode", "deliver"}
          \/ call.fn = "agree" /\ call.pc \in {"load", "operate"} /\ ~call.pub
    /\ tmp["der"] # "none" => call.pc = "deliver" /\ call.fn = "write"
    /\ call.pc = "deliver" => Delivered = IF call.private THEN "private" ELSE "public"

Counted == live = Cardinality({h \in Handle : Held(h)}) + (IF call.pc = "steal" THEN 1 ELSE 0)

\* Until a call returns, the watch tells what happened in it, and its output
\* is as it was.
Watched == call.pc # "idle" => alloc_failed = lacked /\ out = "before"

Told == MemoryHonest /\ NothingHalfMade /\ HalfRespected /\ VerdictTrue

IInv ==
    TypeOK /\ Route(call) /\ Halves(call) /\ Stored /\ Temps /\ Counted /\ Watched /\ Told /\ FreedClean

None == [b \in Buffer |-> "none"]

\* The watch after a step: it has seen every allocation that failed, save one
\* of the library's own that the step itself reports as status st.
Tracked(st) ==
    /\ alloc_failed' \in BOOLEAN /\ lacked' \in BOOLEAN /\ dry' \in BOOLEAN
    /\ alloc_failed' = lacked' \/ (st = "MEMORY" /\ lacked')
    /\ st = "MEMORY" => lacked'

-----------------------------------------------------------------------------
(* Entering a call, going on and returning *)

LEMMA IdleTyped ==
    /\ Idle \in Call /\ Idle.pc = "idle" /\ Idle.fn = "none" /\ ~Idle.pub /\ ~Idle.private
    /\ NoMaterial \notin Material
<1>1. NoMaterial \notin Material
    BY KeyAssumption DEF NoMaterial, Material
<1>2. Idle \in Call
    BY DEF Idle, Call, Fn, Scheme, Truth, Usage
<1> QED BY <1>1, <1>2 DEF Idle

LEMMA IdleControl == Route(Idle) /\ Halves(Idle)
BY DEF Route, Halves, Idle, Maker

LEMMA InitInv == Init => IInv
<1> SUFFICES ASSUME Init PROVE IInv
    OBVIOUS
<1>1. call = Idle /\ ret = [call |-> Idle, st |-> "OK"] /\ Idle.pc = "idle" /\ Idle.fn = "none"
    BY IdleTyped DEF Init
<1>2. TypeOK
    BY IdleTyped DEF Init, TypeOK, Buffer, Content, Output, Status
<1>3. Route(call) /\ Halves(call)
    BY <1>1, IdleControl
<1>4. Stored /\ Temps /\ Watched
    BY <1>1 DEF Init, Stored, Temps, Watched, Buffer
<1>5. Counted
  <2>1. {h \in Handle : Held(h)} = {}
      BY DEF Init, Held
  <2> QED BY <1>1, <2>1, FS_EmptySet DEF Init, Counted
<1>6. Told /\ FreedClean
  <2>1. ~Done
      BY <1>1 DEF Done
  <2> QED BY <2>1 DEF Init, Told, MemoryHonest, NothingHalfMade, HalfRespected, VerdictTrue, FreedClean
<1> QED BY <1>2, <1>3, <1>4, <1>5, <1>6 DEF IInv

LEMMA NoneTyped ==
    ASSUME TypeOK, tmp["copy"] = "none", tmp["buf"] = "none", tmp["point"] = "none", tmp["der"] = "none"
    PROVE  tmp = None
BY DEF TypeOK, Buffer, None

\* A call under way goes on at c.
LEMMA GotoInv ==
    ASSUME IInv, NEW c \in Call, c.pc # "idle", Goto(c), Route(c), Halves(c), Tracked("OK"),
           alloc_failed' = lacked', out = "before", UNCHANGED <<ready, pkey, out, spilled>>,
           tmp' \in [Buffer -> Content], store' \in SUBSET [key: Key, private: BOOLEAN, usage: Usage],
           live' \in Nat, Stored', Temps', Counted'
    PROVE  IInv'
<1>1. call' = c /\ ret' = ret
    BY DEF Goto
<1>2. TypeOK'
    BY <1>1 DEF IInv, TypeOK, Tracked
<1>3. Route(call)' /\ Halves(call)'
    BY <1>1 DEF Route, Halves, Held
<1>4. Watched' /\ FreedClean'
    BY DEF IInv, Watched, FreedClean
<1>5. Told'
  <2>1. ~Done'
      BY <1>1, IdleTyped DEF Done
  <2> QED BY <2>1 DEF Told, MemoryHonest, NothingHalfMade, HalfRespected, VerdictTrue
<1> QED BY <1>2, <1>3, <1>4, <1>5 DEF IInv

\* A call returns st: nothing of it is left, and what it returns is true.
LEMMA ReturnInv ==
    ASSUME IInv, NEW st \in Status, Return(st), Tracked(st),
           ready' = ready, store' = {}, tmp' = None, spilled' = FALSE,
           pkey' \in [Handle -> Material \union {NoMaterial}], live' \in Nat,
           live' = Cardinality({h \in Handle : pkey'[h] # NoMaterial}), out' \in Output,
           st # "OK" => out' \in {"before", "zero"},
           st = "OK" /\ call.fn \notin Maker \union {"verify"} => out' \notin {"before", "zero"},
           st = "OK" /\ out' = "private" => call.private /\ pkey'[call.h].private,
           st = "OK" /\ call.fn \in {"write", "export"} /\ call.private => out' = "private",
           st = "OK" /\ call.fn = "verify" => call.truth = "valid",
           st = "AUTH" /\ call.fn = "verify" => call.truth # "valid" \/ alloc_failed'
    PROVE  IInv'
<1> DEFINE r == [call EXCEPT !.pc = "idle"]
<1>1. /\ r \in Call /\ r.fn = call.fn /\ r.h = call.h /\ r.private = call.private /\ r.truth = call.truth
    BY DEF IInv, TypeOK, Call
<1>2. /\ call' = Idle /\ ret'.call = r /\ ret' \in [call: Call, st: Status]
      /\ ret'.st = IF st # "OK" /\ alloc_failed' THEN "MEMORY" ELSE st
    BY <1>1 DEF Return, zuc_int_memory_or, Status
<1>3. TypeOK'
  <2>1. {} \in SUBSET [key: Key, private: BOOLEAN, usage: Usage] /\ None \in [Buffer -> Content]
      BY DEF None, Content
  <2> QED BY <1>2, <2>1, IdleTyped DEF IInv, TypeOK, Tracked
<1>4. Route(call)' /\ Halves(call)'
    BY <1>2, IdleTyped DEF Route, Halves, Maker
<1>5. Stored' /\ Temps' /\ Watched' /\ FreedClean'
    BY <1>2, IdleTyped DEF Stored, Temps, Watched, FreedClean, None, Buffer
<1>6. Counted'
    BY <1>2, IdleTyped DEF Counted, Held
<1>7. MemoryHonest'
    BY <1>2 DEF MemoryHonest, Tracked, Done
<1>8. NothingHalfMade' /\ HalfRespected'
    BY <1>1, <1>2 DEF NothingHalfMade, HalfRespected, Done
<1>9. VerdictTrue'
    BY <1>1, <1>2 DEF VerdictTrue, Done
<1> QED BY <1>3, <1>4, <1>5, <1>6, <1>7, <1>8, <1>9 DEF IInv, Told

\* Between calls nothing is in the store or in temporary buffers.
LEMMA AtIdle ==
    ASSUME IInv, call.pc = "idle"
    PROVE  call = Idle /\ store = {} /\ tmp = None /\ live = Cardinality({h \in Handle : Held(h)})
<1>1. tmp["copy"] = "none" /\ tmp["buf"] = "none" /\ tmp["point"] = "none" /\ tmp["der"] = "none"
  <2>1. call.fn # "agree"
      BY IdleTyped DEF IInv, Route
  <2> QED BY <2>1 DEF IInv, Temps
<1>2. tmp = None
    BY <1>1, NoneTyped DEF IInv
<1>3. live \in Nat /\ live = Cardinality({h \in Handle : Held(h)}) + 0
    BY DEF IInv, Counted, TypeOK
<1>4. Cardinality({h \in Handle : Held(h)}) \in Nat
  <2>1. IsFiniteSet({h \in Handle : Held(h)})
      BY KeyAssumption, FS_Subset
  <2> QED BY <2>1, FS_CardinalityType
<1> QED BY <1>2, <1>3, <1>4 DEF IInv, Route, Stored

\* A call is entered: its checks refuse it, or it starts at c.
LEMMA EnterInv ==
    ASSUME IInv, NEW c \in Call, NEW st \in Status, Enter(c, st), st # "MEMORY",
           st = "OK" =>
              /\ c.pc \in {"copy", "read", "load", "point", "encode", "deliver"} /\ ~c.pub
              /\ Route(c) /\ Halves(c)
              /\ c.pc = "deliver" => c.private /\ c.m.private,
           st = "AUTH" /\ c.fn = "verify" => c.truth # "valid"
    PROVE  IInv'
<1>1. /\ call = Idle /\ call.pc = "idle" /\ tmp = None /\ store = {}
      /\ live = Cardinality({h \in Handle : Held(h)})
    BY AtIdle, IdleTyped DEF Enter
<1>2. /\ alloc_failed' = FALSE /\ lacked' = FALSE /\ dry' = FALSE /\ out' = "before"
      /\ UNCHANGED <<ready, pkey, live, store, tmp, spilled>>
    BY DEF Enter, zuc_int_alloc_watch
<1>3. CASE st = "OK"
  <2>1. call' = c /\ ret' = [call |-> Idle, st |-> "OK"]
      BY <1>3 DEF Enter
  <2>2. TypeOK'
      BY <1>2, <2>1, IdleTyped DEF IInv, TypeOK, Output, Status
  <2>3. Route(call)' /\ Halves(call)'
      BY <1>2, <1>3, <2>1 DEF Route, Halves, Held
  <2>4. Stored' /\ Watched' /\ FreedClean'
      BY <1>1, <1>2, <1>3, <2>1 DEF Stored, Watched, FreedClean, IInv
  <2>5. Temps'
      BY <1>1, <1>2, <1>3, <2>1 DEF Temps, None, Buffer, Delivered, Half
  <2>6. Counted'
    <3>1. live \in Nat /\ c.pc # "steal"
        BY <1>3 DEF IInv, TypeOK
    <3> QED BY <1>1, <1>2, <2>1, <3>1 DEF Counted, Held
  <2>7. Told'
    <3>1. ~Done'
        BY <1>3, <2>1, IdleTyped DEF Done
    <3> QED BY <3>1 DEF Told, MemoryHonest, NothingHalfMade, HalfRespected, VerdictTrue
  <2> QED BY <2>2, <2>3, <2>4, <2>5, <2>6, <2>7 DEF IInv
<1>4. CASE st # "OK"
  <2> DEFINE r == [c EXCEPT !.pc = "idle"]
  <2>1. r \in Call /\ r.fn = c.fn /\ r.truth = c.truth
      BY DEF Call
  <2>2. call' = Idle /\ ret' = [call |-> r, st |-> st]
      BY <1>2, <1>4 DEF Enter, zuc_int_memory_or
  <2>3. TypeOK'
      BY <1>2, <2>1, <2>2, IdleTyped DEF IInv, TypeOK, Output
  <2>4. Route(call)' /\ Halves(call)'
      BY <2>2, IdleTyped DEF Route, Halves, Maker
  <2>5. Stored' /\ Temps' /\ Watched' /\ FreedClean'
      BY <1>1, <1>2, <2>2, IdleTyped DEF Stored, Temps, Watched, FreedClean, None, Buffer, IInv
  <2>6. Counted'
      BY <1>1, <1>2, <2>2 DEF IInv, Counted, Held
  <2>7. Told'
      BY <1>2, <1>4, <2>1, <2>2 DEF Told, MemoryHonest, NothingHalfMade, HalfRespected, VerdictTrue, Done
  <2> QED BY <2>3, <2>4, <2>5, <2>6, <2>7 DEF IInv
<1> QED BY <1>3, <1>4

-----------------------------------------------------------------------------
(* The entry points *)

LEMMA ParseEntry ==
    ASSUME IInv, NEW k \in Key, NEW private \in BOOLEAN, NEW wanted \in BOOLEAN, NEW in \in Input,
           zuc_pkey_parse(k, private, wanted, in)
    PROVE  IInv'
<1> DEFINE pc == IF in = "pem" THEN "copy" ELSE "read"
           c == [Idle EXCEPT !.fn = "parse", !.pc = pc, !.private = wanted, !.arg = in,
                             !.m = [key |-> k, private |-> private]]
           st == IF ~ready THEN "NOT_READY" ELSE IF in \in {"null", "nul"} THEN "INVALID_ARGUMENT" ELSE "OK"
<1>1. pc \in {"copy", "read"} /\ Enter(c, st)
    BY DEF zuc_pkey_parse
<1> HIDE DEF pc
<1>2. c \in Call /\ c.fn = "parse" /\ c.pc \in {"copy", "read"} /\ ~c.pub /\ c.m \in Material
  <2>1. [key |-> k, private |-> private] \in Material /\ "parse" \in Fn /\ in \in Format \union Input \union Scheme
      BY DEF Material, Fn, Maker
  <2> QED BY <1>1, <2>1, IdleTyped DEF Call
<1> HIDE DEF c
<1>3. Route(c) /\ Halves(c)
    BY <1>2 DEF Route, Halves
<1>4. st \in Status /\ st \notin {"MEMORY", "AUTH"}
    BY DEF Status
<1> QED BY <1>1, <1>2, <1>3, <1>4, EnterInv

LEMMA GenerateEntry ==
    ASSUME IInv, NEW k \in Key, NEW known \in BOOLEAN, NEW small \in BOOLEAN, zuc_pkey_generate(k, known, small)
    PROVE  IInv'
<1> DEFINE c == [Idle EXCEPT !.fn = "generate", !.pc = "load", !.private = TRUE, !.small = small,
                             !.m = [key |-> k, private |-> TRUE]]
           st == IF ~ready THEN "NOT_READY" ELSE IF ~known THEN "UNSUPPORTED"
                 ELSE IF small THEN "BAD_LENGTH" ELSE "OK"
<1>1. [key |-> k, private |-> TRUE] \in Material
    BY DEF Material
<1>2. c \in Call /\ c.fn = "generate" /\ c.pc = "load" /\ ~c.pub /\ c.m \in Material /\ c.m.private
    BY <1>1, IdleTyped DEF Call, Fn, Maker, Idle
<1>3. Route(c) /\ Halves(c)
    BY <1>2 DEF Route, Halves, Maker
<1>4. st \in Status /\ st \notin {"MEMORY", "AUTH"}
    BY DEF Status
<1>5. Enter(c, st)
    BY DEF zuc_pkey_generate
<1> QED BY <1>2, <1>3, <1>4, <1>5, EnterInv

LEMMA ImportEntry ==
    ASSUME IInv, NEW k \in Key, NEW private \in BOOLEAN, NEW null \in BOOLEAN, NEW known \in BOOLEAN,
           zuc_pkey_import(k, private, null, known)
    PROVE  IInv'
<1> DEFINE c == [Idle EXCEPT !.fn = "import", !.pc = "load", !.private = private,
                             !.m = [key |-> k, private |-> private]]
           st == IF ~ready THEN "NOT_READY" ELSE IF null THEN "INVALID_ARGUMENT"
                 ELSE IF ~known THEN "UNSUPPORTED" ELSE "OK"
<1>1. [key |-> k, private |-> private] \in Material
    BY DEF Material
<1>2. /\ c \in Call /\ c.fn = "import" /\ c.pc = "load" /\ ~c.pub /\ c.m \in Material
      /\ c.private => c.m.private
    BY <1>1, IdleTyped DEF Call, Fn, Maker, Idle
<1>3. Route(c) /\ Halves(c)
    BY <1>2 DEF Route, Halves, Maker
<1>4. st \in Status /\ st \notin {"MEMORY", "AUTH"}
    BY DEF Status
<1>5. Enter(c, st)
    BY DEF zuc_pkey_import
<1> QED BY <1>2, <1>3, <1>4, <1>5, EnterInv

LEMMA HeldMaterial ==
    ASSUME IInv, NEW h \in Handle, Held(h)
    PROVE  pkey[h] \in Material /\ pkey[h].private \in BOOLEAN
BY DEF IInv, TypeOK, Held, Material

LEMMA PublicEntry ==
    ASSUME IInv, NEW h \in Handle, zuc_pkey_public(h)
    PROVE  IInv'
<1> DEFINE c == [Idle EXCEPT !.fn = "public", !.pc = "load", !.h = h, !.m = pkey[h]]
           st == IF ~ready THEN "NOT_READY" ELSE "OK"
<1>1. Held(h) /\ pkey[h] \in Material
    BY HeldMaterial DEF zuc_pkey_public
<1>2. /\ c \in Call /\ c.fn = "public" /\ c.pc = "load" /\ ~c.pub /\ c.m \in Material /\ c.h = h
      /\ ~c.private
    BY <1>1, IdleTyped DEF Call, Fn, Maker, Idle
<1>3. Route(c) /\ Halves(c)
    BY <1>1, <1>2 DEF Route, Halves, Maker
<1>4. st \in Status /\ st \notin {"MEMORY", "AUTH"}
    BY DEF Status
<1>5. Enter(c, st)
    BY DEF zuc_pkey_public
<1> QED BY <1>2, <1>3, <1>4, <1>5, EnterInv

\* zuc_pkey_write() starts where its format and the half asked for say.
LEMMA WriteEntry ==
    ASSUME IInv, NEW h \in Handle, NEW fmt \in Format, NEW public_only \in BOOLEAN, NEW small \in BOOLEAN,
           zuc_pkey_write(h, fmt, public_only, small)
    PROVE  IInv'
<1> DEFINE private == pkey[h].private /\ ~public_only
           first == pkey_write_impl(h, fmt, private)
           pc == IF first \in Status THEN "idle" ELSE first
           c == [Idle EXCEPT !.fn = "write", !.h = h, !.private = private, !.arg = fmt,
                             !.small = small, !.m = pkey[h], !.pc = pc]
           st == IF ~ready THEN "NOT_READY" ELSE IF first \in Status THEN first ELSE "OK"
<1>1. Held(h) /\ pkey[h] \in Material /\ private \in BOOLEAN /\ (private => pkey[h].private)
    BY HeldMaterial DEF zuc_pkey_write
<1>2. /\ first \in {"INVALID_ARGUMENT", "UNSUPPORTED", "load", "point", "encode"}
      /\ first = "load" => ~private
      /\ first = "encode" => private
    BY DEF pkey_write_impl
<1>3. first \notin {"INVALID_ARGUMENT", "UNSUPPORTED"} <=> first \notin Status
    BY <1>2 DEF Status
<1> HIDE DEF private, first
<1>4. pc \in {"idle", "load", "point", "encode"} /\ (first \notin Status => pc = first)
    BY <1>2, <1>3
<1> HIDE DEF pc
<1>5. /\ c \in Call /\ c.fn = "write" /\ ~c.pub /\ c.m = pkey[h] /\ c.h = h /\ c.private = private
      /\ c.pc = pc
  <2>1. "write" \in Fn /\ Idle \in Call /\ ~Idle.pub
      BY IdleTyped DEF Fn
  <2>2. c \in Call
      BY <1>1, <1>4, <2>1 DEF Call
  <2> QED BY <2>1, <2>2 DEF Call
<1>6. first \notin Status => c.pc = first /\ Route(c) /\ Halves(c)
    BY <1>1, <1>2, <1>3, <1>4, <1>5 DEF Route, Halves, Maker
<1>7. /\ st \in Status /\ st \notin {"MEMORY", "AUTH"}
      /\ st = "OK" => first \notin Status
    BY <1>2, <1>3 DEF Status
<1>8. Enter(c, st)
    BY DEF zuc_pkey_write, private, first, pc
<1> HIDE DEF c, st
<1> QED BY <1>2, <1>3, <1>5, <1>6, <1>7, <1>8, EnterInv

LEMMA ExportEntry ==
    ASSUME IInv, NEW h \in Handle, NEW public_only \in BOOLEAN, NEW small \in BOOLEAN,
           zuc_pkey_export(h, public_only, small)
    PROVE  IInv'
<1> DEFINE private == pkey[h].private /\ ~public_only
           c == [Idle EXCEPT !.fn = "export", !.pc = IF private THEN "deliver" ELSE "point", !.h = h,
                             !.private = private, !.small = small, !.m = pkey[h]]
           st == IF ~ready THEN "NOT_READY" ELSE "OK"
<1>1. Held(h) /\ pkey[h] \in Material /\ private \in BOOLEAN /\ (private => pkey[h].private)
    BY HeldMaterial DEF zuc_pkey_export
<1> HIDE DEF private
<1>2. /\ c \in Call /\ c.fn = "export" /\ ~c.pub /\ c.m = pkey[h] /\ c.h = h /\ c.private = private
      /\ c.pc = IF private THEN "deliver" ELSE "point"
    BY <1>1, IdleTyped DEF Call, Fn, Maker, Idle
<1>3. Route(c) /\ Halves(c)
    BY <1>1, <1>2 DEF Route, Halves, Maker
<1>4. st \in Status /\ st \notin {"MEMORY", "AUTH"}
    BY DEF Status
<1>5. Enter(c, st)
    BY DEF zuc_pkey_export, private
<1> HIDE DEF c, st
<1> QED BY <1>1, <1>2, <1>3, <1>4, <1>5, EnterInv

\* The four operations with the handle's own key.
LEMMA OperationEntry ==
    ASSUME IInv, NEW fn \in Operating \ {"agree"}, NEW usage \in Usage, NEW h \in Handle, NEW scheme \in Scheme,
           NEW truth \in Truth, NEW small \in BOOLEAN, NEW st \in Status \ {"MEMORY"}, Held(h),
           Enter(Operation(fn, usage, h, scheme, truth, small), st),
           st = "AUTH" => truth = "length"
    PROVE  IInv'
<1> DEFINE c == Operation(fn, usage, h, scheme, truth, small)
<1>1. pkey[h] \in Material
    BY HeldMaterial
<1>2. fn \in Fn /\ fn \in {"sign", "verify", "encrypt", "decrypt"}
    BY DEF Operating, Fn
<1>3. /\ c \in Call /\ c.fn = fn /\ c.pc = "load" /\ ~c.pub /\ c.m = pkey[h] /\ c.h = h /\ ~c.private
      /\ c.truth = truth
    BY <1>1, <1>2, IdleTyped DEF Operation, Call, Idle
<1>4. Route(c) /\ Halves(c)
    BY <1>1, <1>2, <1>3 DEF Route, Halves, Maker, Operating
<1> HIDE DEF c
<1>5. Enter(c, st)
    BY DEF c
<1> QED BY <1>3, <1>4, <1>5, EnterInv

LEMMA SignEntry ==
    ASSUME IInv, NEW h \in Handle, NEW scheme \in Scheme, NEW small \in BOOLEAN,
           zuc_pkey_sign_hash(h, scheme, small)
    PROVE  IInv'
<1>1. PICK st \in Status \ {"MEMORY", "AUTH"} :
         Held(h) /\ Enter(Operation("sign", "SIGN_HASH", h, scheme, "valid", small), st)
    BY DEF zuc_pkey_sign_hash, Status
<1> QED BY <1>1, OperationEntry DEF Operating, Usage, Truth

LEMMA VerifyEntry ==
    ASSUME IInv, NEW h \in Handle, NEW scheme \in Scheme, NEW truth \in Truth, NEW small \in BOOLEAN,
           zuc_pkey_verify_hash(h, scheme, truth, small)
    PROVE  IInv'
<1>1. PICK st \in Status \ {"MEMORY"} :
         /\ Held(h) /\ Enter(Operation("verify", "VERIFY_HASH", h, scheme, truth, small), st)
         /\ st = "AUTH" => truth = "length"
    BY DEF zuc_pkey_verify_hash, Status
<1> QED BY <1>1, OperationEntry DEF Operating, Usage

LEMMA EncryptEntry ==
    ASSUME IInv, NEW h \in Handle, NEW scheme \in Scheme, NEW small \in BOOLEAN,
           zuc_pkey_encrypt(h, scheme, small)
    PROVE  IInv'
<1>1. PICK st \in Status \ {"MEMORY", "AUTH"} :
         Held(h) /\ Enter(Operation("encrypt", "ENCRYPT", h, scheme, "valid", small), st)
    BY DEF zuc_pkey_encrypt, Status
<1> QED BY <1>1, OperationEntry DEF Operating, Usage, Truth

LEMMA DecryptEntry ==
    ASSUME IInv, NEW h \in Handle, NEW scheme \in Scheme, NEW truth \in Truth, NEW small \in BOOLEAN,
           zuc_pkey_decrypt(h, scheme, truth, small)
    PROVE  IInv'
<1>1. PICK st \in Status \ {"MEMORY", "AUTH"} :
         Held(h) /\ Enter(Operation("decrypt", "DECRYPT", h, scheme, truth, small), st)
    BY DEF zuc_pkey_decrypt, Status
<1> QED BY <1>1, OperationEntry DEF Operating, Usage

LEMMA AgreeEntry ==
    ASSUME IInv, NEW h \in Handle, NEW peer \in Handle, NEW small \in BOOLEAN, zuc_pkey_agree(h, peer, small)
    PROVE  IInv'
<1> DEFINE c == [Idle EXCEPT !.fn = "agree", !.pc = "point", !.h = h, !.peer = peer,
                             !.small = small, !.m = pkey[peer]]
<1>1. PICK st \in Status \ {"MEMORY", "AUTH"} : Enter(c, st)
    BY DEF zuc_pkey_agree, Status
<1>2. Held(h) /\ Held(peer) /\ pkey[peer] \in Material
    BY HeldMaterial DEF zuc_pkey_agree
<1>3. c \in Call /\ c.fn = "agree" /\ c.pc = "point" /\ ~c.pub /\ c.m = pkey[peer] /\ c.h = h /\ ~c.private
    BY <1>2, IdleTyped DEF Call, Fn, Maker, Idle
<1>4. Route(c) /\ Halves(c)
    BY <1>2, <1>3 DEF Route, Halves, Maker
<1> HIDE DEF c
<1> QED BY <1>1, <1>3, <1>4, EnterInv

-----------------------------------------------------------------------------
(* Counting handles *)

LEMMA HeldFinite ==
    ASSUME NEW f PROVE IsFiniteSet({h \in Handle : f[h] # NoMaterial})
BY KeyAssumption, FS_Subset

LEMMA FreeInv == ASSUME IInv, NEW h \in Handle, zuc_pkey_free(h) PROVE IInv'
<1> DEFINE S == {g \in Handle : Held(g)}
           T == {g \in Handle : pkey'[g] # NoMaterial}
<1>1. /\ call = Idle /\ call.pc = "idle" /\ live = Cardinality(S) /\ store = {} /\ tmp = None
    BY AtIdle, IdleTyped DEF zuc_pkey_free
<1>2. pkey' \in [Handle -> Material \union {NoMaterial}]
    BY DEF zuc_pkey_free, IInv, TypeOK
<1>3. T = S \ {h} /\ h \in S
    BY DEF zuc_pkey_free, Held, IInv, TypeOK
<1>4. live' = Cardinality(T) /\ live' \in Nat
  <2>1. IsFiniteSet(S) /\ IsFiniteSet(T)
      BY HeldFinite DEF Held
  <2>2. Cardinality(T) = Cardinality(S) - 1
      BY <1>3, <2>1, FS_RemoveElement
  <2>3. Cardinality(T) \in Nat
      BY <2>1, FS_CardinalityType
  <2> QED BY <1>1, <2>2, <2>3 DEF zuc_pkey_free
<1>5. TypeOK'
    BY <1>2, <1>4, IdleTyped DEF zuc_pkey_free, IInv, TypeOK, Status
<1>6. Route(call)' /\ Halves(call)'
    BY <1>1, IdleTyped DEF zuc_pkey_free, Route, Halves, Maker
<1>7. Stored' /\ Temps' /\ Watched' /\ FreedClean'
    BY <1>1 DEF zuc_pkey_free, IInv, Stored, Temps, Watched, FreedClean, Delivered
<1>8. Counted'
    BY <1>1, <1>4 DEF zuc_pkey_free, Counted, Held
<1>9. Told'
  <2>1. ~Done'
      BY IdleTyped DEF zuc_pkey_free, Done
  <2> QED BY <2>1 DEF Told, MemoryHonest, NothingHalfMade, HalfRespected, VerdictTrue
<1> QED BY <1>5, <1>6, <1>7, <1>8, <1>9 DEF IInv

-----------------------------------------------------------------------------
(* What a step reports, and what it leaves *)

LEMMA FromPsa ==
    ASSUME NEW e \in Psa
    PROVE  /\ zuc_int_from_psa(e) \in Status \ {"AUTH"}
           /\ zuc_int_from_psa(e) = "OK" <=> e = "SUCCESS"
           /\ zuc_int_from_psa(e) = "MEMORY" <=> e = "INSUFFICIENT_MEMORY"
BY DEF zuc_int_from_psa, Psa, Error, Status

LEMMA CallocTracked ==
    ASSUME IInv, call.pc # "idle", NEW e, zuc_int_calloc(e)
    PROVE  Tracked("OK") /\ alloc_failed' = lacked' /\ (e = "INSUFFICIENT_MEMORY" => lacked')
<1>1. PICK f \in BOOLEAN : /\ e = "INSUFFICIENT_MEMORY" => f
                           /\ alloc_failed' = (alloc_failed \/ f)
                           /\ lacked' = (lacked \/ f)
                           /\ dry' = (dry \/ e = "INSUFFICIENT_ENTROPY")
    BY DEF zuc_int_calloc
<1>2. alloc_failed = lacked /\ lacked \in BOOLEAN /\ dry \in BOOLEAN
    BY DEF IInv, TypeOK, Watched
<1> QED BY <1>1, <1>2 DEF Tracked

LEMMA QuietTracked ==
    ASSUME IInv, call.pc # "idle", NoBackend
    PROVE  Tracked("OK") /\ alloc_failed' = lacked'
BY DEF NoBackend, IInv, TypeOK, Watched, Tracked

LEMMA MallocTracked == ASSUME IInv, MallocFails PROVE Tracked("MEMORY")
BY DEF MallocFails, IInv, TypeOK, Tracked

LEMMA TrackedAs ==
    ASSUME NEW st, Tracked("OK"), st = "MEMORY" => lacked'
    PROVE  Tracked(st)
BY DEF Tracked

\* A call fails: nothing of it is left.
LEMMA FailInv ==
    ASSUME IInv, call.pc \notin {"idle", "steal"}, NEW st \in Status \ {"OK"}, Return(st), Tracked(st),
           call.fn = "verify" /\ st = "AUTH" => call.truth # "valid" \/ alloc_failed',
           store' = {}, tmp' = None, out' \in {"before", "zero"}, UNCHANGED <<ready, pkey, live, spilled>>
    PROVE  IInv'
<1>1. /\ pkey' \in [Handle -> Material \union {NoMaterial}] /\ live' \in Nat /\ out' \in Output
      /\ spilled' = FALSE
    BY DEF IInv, TypeOK, Output, FreedClean
<1>2. live' = Cardinality({h \in Handle : pkey'[h] # NoMaterial})
  <2>1. Cardinality({h \in Handle : pkey[h] # NoMaterial}) \in Nat
      BY HeldFinite, FS_CardinalityType
  <2> QED BY <2>1 DEF IInv, Counted, Held
<1> QED BY <1>1, <1>2, ReturnInv

\* Where there is no temporary buffer.
LEMMA NoTemps ==
    ASSUME IInv, \/ call.pc \in {"copy", "attrs", "from_psa", "point", "spki", "spki_write", "steal"}
                 \/ call.pc \in {"load", "operate"} /\ (call.fn # "agree" \/ call.pub)
    PROVE  tmp = None
<1>1. tmp["copy"] = "none" /\ tmp["buf"] = "none" /\ tmp["point"] = "none" /\ tmp["der"] = "none"
    BY DEF IInv, Temps
<1> QED BY <1>1, NoneTyped DEF IInv

LEMMA NoStore ==
    ASSUME IInv, call.pc \notin {"from_psa", "export", "spki", "operate"}
    PROVE  store = {}
BY DEF IInv, Stored

\* What is said of temporary buffers and of the count where a call goes on at
\* a point that neither delivers nor holds a buffer.
LEMMA PlainPoint ==
    ASSUME tmp' = None, call'.pc \notin {"export", "deliver"}
    PROVE  Temps'
BY DEF Temps, None, Buffer

LEMMA SameCount ==
    ASSUME IInv, UNCHANGED <<pkey, live>>, call.pc # "steal", call'.pc # "steal"
    PROVE  Counted' /\ live' \in Nat
BY DEF IInv, TypeOK, Counted, Held

\* A call goes on without temporary buffers.
LEMMA GoOnInv ==
    ASSUME IInv, call.pc \notin {"idle", "steal"}, NEW c \in Call,
           c.pc \notin {"idle", "steal", "export", "deliver"}, Goto(c), Route(c), Halves(c),
           Tracked("OK"), alloc_failed' = lacked', tmp' = None, spilled' = FALSE,
           \/ store' = {} /\ c.pc \notin {"from_psa", "spki", "operate"}
           \/ /\ store' = {[key |-> c.m.key, private |-> c.m.private, usage |-> c.usage]}
              /\ c.pc \in {"from_psa", "spki", "operate"},
           UNCHANGED <<ready, pkey, live, out>>
    PROVE  IInv'
<1>1. call' = c /\ out = "before" /\ spilled = FALSE
    BY DEF Goto, IInv, Watched, FreedClean, TypeOK
<1>2. store' \in SUBSET [key: Key, private: BOOLEAN, usage: Usage]
  <2>1. c.m \in Material /\ c.usage \in Usage
      BY DEF Halves, Call
  <2>2. [key |-> c.m.key, private |-> c.m.private, usage |-> c.usage] \in [key: Key, private: BOOLEAN, usage: Usage]
      BY <2>1 DEF Material
  <2> QED BY <2>2
<1>3. Stored'
    BY <1>1 DEF Stored
<1>4. Temps' /\ tmp' \in [Buffer -> Content]
    BY <1>1, PlainPoint DEF None, Content
<1>5. Counted' /\ live' \in Nat
    BY <1>1, SameCount
<1> QED BY <1>1, <1>2, <1>3, <1>4, <1>5, GotoInv

-----------------------------------------------------------------------------
(* Reading a key *)

LEMMA ParseCopyInv == ASSUME IInv, parse_copy PROVE IInv'
<1>1. call \in Call /\ call.pc = "copy" /\ call.fn = "parse" /\ call.m \in Material /\ out = "before" /\ ~call.pub
    BY DEF parse_copy, IInv, TypeOK, Route, Halves, Watched
<1>2. tmp = None /\ store = {}
    BY <1>1, NoTemps, NoStore
<1>3. CASE MallocFails /\ Return("MEMORY") /\ UNCHANGED <<tmp, spilled>>
    BY <1>1, <1>2, <1>3, MallocTracked, FailInv DEF parse_copy, Status
<1>4. CASE NoBackend /\ Fill("copy", Half(call.m)) /\ Goto([call EXCEPT !.pc = "read"])
  <2> DEFINE c == [call EXCEPT !.pc = "read"]
  <2>1. c \in Call /\ c.pc = "read" /\ c.fn = "parse" /\ c.m = call.m /\ ~c.pub
      BY <1>1 DEF Call
  <2>2. Route(c) /\ Halves(c)
      BY <1>1, <2>1 DEF Route, Halves
  <2>3. Half(call.m) \in {"public", "private"}
      BY DEF Half
  <2>4. /\ tmp' \in [Buffer -> Content] /\ tmp'["buf"] = "none" /\ tmp'["point"] = "none"
        /\ tmp'["der"] = "none"
      BY <1>2, <1>4, <2>3 DEF Fill, None, Buffer, Content
  <2> HIDE DEF c
  <2>5. Goto(c)
      BY <1>4 DEF c
  <2>6. call' = c /\ store' = {} /\ spilled' = spilled
      BY <1>2, <1>4, <2>5 DEF Goto, Fill, parse_copy
  <2>7. Stored' /\ Temps'
      BY <2>1, <2>4, <2>6 DEF Stored, Temps
  <2>8. Counted' /\ live' \in Nat
      BY <1>1, <2>1, <2>6, SameCount DEF parse_copy
  <2> QED BY <1>1, <1>4, <2>1, <2>2, <2>4, <2>5, <2>6, <2>7, <2>8, QuietTracked, GotoInv DEF parse_copy
<1> QED BY <1>3, <1>4 DEF parse_copy

LEMMA ParseStatus ==
    ASSUME NEW e \in {"GENERIC", "NOT_SUPPORTED", "INSUFFICIENT_MEMORY"}
    PROVE  /\ parse_status(e) \in Status \ {"OK", "AUTH"}
           /\ parse_status(e) = "MEMORY" => e = "INSUFFICIENT_MEMORY"
BY DEF parse_status, MemoryOr, Status

\* A read that was to find a private key goes on only with one.
LEMMA ParseReadInv == ASSUME IInv, parse_read PROVE IInv'
<1>1. call \in Call /\ call.pc = "read" /\ call.fn = "parse" /\ call.m \in Material /\ out = "before" /\ ~call.pub
    BY DEF parse_read, IInv, TypeOK, Route, Halves, Watched
<1>2. store = {} /\ tmp' = None /\ spilled' = FALSE /\ spilled = FALSE
  <2>1. tmp' = [tmp EXCEPT !["copy"] = "none"] /\ spilled' = (spilled \/ "blank" = "private")
      BY DEF parse_read, WipeFree, FreeHolding
  <2>2. tmp["buf"] = "none" /\ tmp["point"] = "none" /\ tmp["der"] = "none"
      BY <1>1 DEF IInv, Temps
  <2>3. tmp' = None
      BY <2>1, <2>2 DEF IInv, TypeOK, None, Buffer
  <2>4. spilled = FALSE
      BY DEF IInv, TypeOK, FreedClean
  <2> QED BY <1>1, <2>1, <2>3, <2>4, NoStore
<1> DEFINE R == {"SUCCESS", "GENERIC", "NOT_SUPPORTED", "INSUFFICIENT_MEMORY"}
<1>3. PICK result \in R :
         /\ Tracked("OK") /\ alloc_failed' = lacked'
         /\ result = "INSUFFICIENT_MEMORY" => lacked'
         /\ result = "SUCCESS" => (call.private => call.m.private)
         /\ IF result = "SUCCESS" THEN Goto([call EXCEPT !.pc = "attrs"]) ELSE Return(parse_status(result))
  <2>1. PICK first \in R, second \in R :
          LET again  == first # "SUCCESS" /\ ~call.private
              result == IF again /\ (second = "SUCCESS" \/ parse_status(first) # "UNSUPPORTED")
                        THEN second ELSE first
              failed == {first} \union (IF again THEN {second} ELSE {})
          IN  /\ first = "SUCCESS" => call.m.private
              /\ zuc_int_calloc(IF "INSUFFICIENT_MEMORY" \in failed THEN "INSUFFICIENT_MEMORY" ELSE "SUCCESS")
              /\ IF result = "SUCCESS" THEN Goto([call EXCEPT !.pc = "attrs"])
                 ELSE Return(parse_status(result))
      BY DEF parse_read
  <2> DEFINE again  == first # "SUCCESS" /\ ~call.private
             result == IF again /\ (second = "SUCCESS" \/ parse_status(first) # "UNSUPPORTED")
                       THEN second ELSE first
             failed == {first} \union (IF again THEN {second} ELSE {})
             e == IF "INSUFFICIENT_MEMORY" \in failed THEN "INSUFFICIENT_MEMORY" ELSE "SUCCESS"
  <2>2. zuc_int_calloc(e)
      BY <2>1
  <2>3. Tracked("OK") /\ alloc_failed' = lacked' /\ (e = "INSUFFICIENT_MEMORY" => lacked')
    <3> HIDE DEF e
    <3> QED BY <1>1, <2>2, CallocTracked
  <2>4. result \in R /\ (result = "INSUFFICIENT_MEMORY" => e = "INSUFFICIENT_MEMORY")
      OBVIOUS
  <2>5. result = "SUCCESS" => (call.private => call.m.private)
      BY <2>1
  <2>6. IF result = "SUCCESS" THEN Goto([call EXCEPT !.pc = "attrs"]) ELSE Return(parse_status(result))
      BY <2>1
  <2> HIDE DEF result, e
  <2> QED BY <2>3, <2>4, <2>5, <2>6
<1>4. CASE result = "SUCCESS"
  <2> DEFINE c == [call EXCEPT !.pc = "attrs"]
  <2>1. c \in Call /\ c.pc = "attrs" /\ c.fn = "parse" /\ c.m = call.m /\ ~c.pub /\ c.private = call.private
      BY <1>1 DEF Call
  <2>2. Route(c) /\ Halves(c)
      BY <1>1, <1>3, <1>4, <2>1 DEF Route, Halves
  <2>3. Goto(c) /\ store' = {} /\ UNCHANGED <<ready, pkey, live, out>>
      BY <1>2, <1>3, <1>4 DEF parse_read
  <2> HIDE DEF c
  <2> QED BY <1>1, <1>2, <1>3, <2>1, <2>2, <2>3, GoOnInv
<1>5. CASE result # "SUCCESS"
  <2> DEFINE st == parse_status(result)
  <2>1. st \in Status \ {"OK", "AUTH"} /\ (st = "MEMORY" => lacked')
      BY <1>3, <1>5, ParseStatus
  <2>2. Return(st) /\ store' = {} /\ UNCHANGED <<ready, pkey, live, out>>
      BY <1>2, <1>3, <1>5 DEF parse_read
  <2> HIDE DEF st
  <2>3. Tracked(st)
      BY <1>3, <2>1, TrackedAs
  <2> QED BY <1>1, <1>2, <2>1, <2>2, <2>3, FailInv
<1> QED BY <1>4, <1>5

LEMMA ParseAttributesInv == ASSUME IInv, parse_attributes PROVE IInv'
<1>1. /\ call \in Call /\ call.pc = "attrs" /\ call.fn = "parse" /\ call.m \in Material /\ out = "before"
      /\ ~call.pub /\ spilled = FALSE /\ (call.private => call.m.private)
    BY DEF parse_attributes, IInv, TypeOK, Route, Halves, Watched, FreedClean, Maker
<1>2. tmp = None /\ store = {}
    BY <1>1, NoTemps, NoStore
<1>3. Tracked("OK") /\ alloc_failed' = lacked'
    BY <1>1, CallocTracked DEF parse_attributes
<1>4. CASE Goto([call EXCEPT !.pc = "load"])
  <2> DEFINE c == [call EXCEPT !.pc = "load"]
  <2>1. c \in Call /\ c.pc = "load" /\ c.fn = "parse" /\ c.m = call.m /\ ~c.pub /\ c.private = call.private
      BY <1>1 DEF Call
  <2>2. Route(c) /\ Halves(c)
      BY <1>1, <2>1 DEF Route, Halves, Maker
  <2> HIDE DEF c
  <2>3. Goto(c)
      BY <1>4 DEF c
  <2> QED BY <1>1, <1>2, <1>3, <2>1, <2>2, <2>3, GoOnInv DEF parse_attributes
<1>5. CASE Return("UNSUPPORTED")
  <2>1. Tracked("UNSUPPORTED")
      BY <1>3, TrackedAs
  <2> QED BY <1>1, <1>2, <1>5, <2>1, FailInv DEF parse_attributes, Status
<1> QED BY <1>4, <1>5 DEF parse_attributes

-----------------------------------------------------------------------------
(* A key in the store, and a handle from it *)

LEMMA LoadFails ==
    ASSUME NEW e \in Error
    PROVE  /\ LoadStatus(e) \in Status \ {"OK", "AUTH"}
           /\ LoadStatus(e) = "MEMORY" => e = "INSUFFICIENT_MEMORY"
<1>1. e \in Psa /\ e # "SUCCESS"
    BY DEF Psa, Error
<1> QED BY <1>1, FromPsa DEF LoadStatus, MemoryOr, Status

\* The point an agreement keeps is freed as it is: it is public.
LEMMA FreePoint ==
    ASSUME IInv, call.pc \notin {"read", "export"}, tmp["der"] = "none", Free("point")
    PROVE  tmp' = None /\ spilled' = FALSE
<1>1. tmp["copy"] = "none" /\ tmp["buf"] = "none" /\ tmp["point"] # "private"
    BY DEF IInv, Temps
<1>2. tmp' = [tmp EXCEPT !["point"] = "none"] /\ spilled' = (spilled \/ tmp["point"] = "private")
    BY DEF Free, FreeHolding
<1>3. tmp' = None
    BY <1>1, <1>2 DEF IInv, TypeOK, None, Buffer
<1> QED BY <1>1, <1>2, <1>3 DEF IInv, TypeOK, FreedClean

LEMMA PKeyImportInv == ASSUME IInv, pkey_import PROVE IInv'
<1>1. /\ call \in Call /\ call.pc = "load" /\ call.m \in Material /\ out = "before"
      /\ spilled = FALSE /\ call.usage \in Usage
    BY DEF pkey_import, IInv, TypeOK, Halves, Watched, FreedClean, Call
<1>2. store = {} /\ (call.fn # "agree" \/ call.pub => tmp = None)
    BY <1>1, NoTemps, NoStore
<1>3. PICK e \in Psa :
         /\ zuc_int_calloc(e)
         /\ \/ /\ e = "SUCCESS"
               /\ store' = store \union {[key |-> call.m.key, private |-> call.m.private, usage |-> call.usage]}
               /\ Goto([call EXCEPT !.pc = AfterLoad])
               /\ UNCHANGED <<tmp, spilled, out>>
            \/ /\ e # "SUCCESS"
               /\ Return(LoadStatus(e))
               /\ IF call.fn = "agree" /\ ~call.pub
                  THEN Free("point") /\ out' = "zero"
                  ELSE UNCHANGED <<tmp, spilled, out>>
               /\ UNCHANGED store
    BY DEF pkey_import
<1>4. Tracked("OK") /\ alloc_failed' = lacked' /\ (e = "INSUFFICIENT_MEMORY" => lacked')
    BY <1>1, <1>3, CallocTracked
<1>5. CASE e = "SUCCESS"
  <2> DEFINE c == [call EXCEPT !.pc = AfterLoad]
  <2>1. /\ AfterLoad \in {"from_psa", "spki", "operate"}
        /\ AfterLoad = "from_psa" <=> call.fn \in Maker \/ call.pub
        /\ AfterLoad = "spki" => call.fn = "write" /\ ~call.private
        /\ AfterLoad = "operate" => call.fn \in Operating /\ ~call.pub
    <3>1. call.fn = "write" /\ ~call.pub => ~call.private
        BY <1>1 DEF IInv, Halves
    <3>2. ~call.pub => call.fn \in Maker \union Operating \union {"write"}
        BY <1>1 DEF IInv, Route
    <3> QED BY <3>1, <3>2 DEF AfterLoad
  <2>2. /\ c \in Call /\ c.pc = AfterLoad /\ c.fn = call.fn /\ c.m = call.m /\ c.pub = call.pub
        /\ c.private = call.private /\ c.h = call.h /\ c.usage = call.usage
      BY <1>1, <2>1 DEF Call
  <2>3. Route(c)
      BY <1>1, <2>1, <2>2 DEF IInv, Route, Operating
  <2>4. Halves(c)
      BY <1>1, <2>1, <2>2 DEF IInv, Halves, Operating, Maker
  <2>5. Goto(c) /\ store' = {[key |-> c.m.key, private |-> c.m.private, usage |-> c.usage]}
        /\ UNCHANGED <<tmp, spilled, out>>
      BY <1>2, <1>3, <1>5, <2>2
  <2> HIDE DEF c
  <2>6. CASE call.fn # "agree" \/ call.pub
      BY <1>1, <1>2, <1>4, <2>1, <2>2, <2>3, <2>4, <2>5, <2>6, GoOnInv DEF pkey_import
  <2>7. CASE call.fn = "agree" /\ ~call.pub
    <3>1. c.pc = "operate" /\ call' = c
        BY <2>1, <2>2, <2>5, <2>7 DEF Maker, Goto
    <3>2. Stored' /\ store' \in SUBSET [key: Key, private: BOOLEAN, usage: Usage]
        BY <1>1, <2>2, <2>5, <3>1 DEF Stored, Material
    <3>3. Temps' /\ tmp' \in [Buffer -> Content]
        BY <1>1, <2>2, <2>5, <2>7, <3>1 DEF IInv, TypeOK, Temps
    <3>4. Counted' /\ live' \in Nat
        BY <1>1, <3>1, SameCount DEF pkey_import
    <3> QED BY <1>1, <1>4, <2>2, <2>3, <2>4, <2>5, <3>1, <3>2, <3>3, <3>4, GotoInv DEF pkey_import
  <2> QED BY <2>6, <2>7
<1>6. CASE e # "SUCCESS"
  <2> DEFINE st == LoadStatus(e)
  <2>1. st \in Status \ {"OK", "AUTH"} /\ (st = "MEMORY" => lacked')
      BY <1>4, <1>6, LoadFails DEF Psa
  <2>2. Return(st) /\ store' = {}
      BY <1>2, <1>3, <1>6
  <2>3. tmp' = None /\ spilled' = spilled /\ out' \in {"before", "zero"}
    <3>1. CASE call.fn = "agree" /\ ~call.pub
      <4>1. tmp["der"] = "none"
          BY <1>1 DEF IInv, Temps
      <4> QED BY <1>1, <1>3, <1>6, <3>1, <4>1, FreePoint
    <3>2. CASE ~(call.fn = "agree" /\ ~call.pub)
      <4>1. UNCHANGED <<tmp, spilled, out>>
          BY <1>3, <1>6, <3>2
      <4> QED BY <1>1, <1>2, <3>2, <4>1
    <3> QED BY <3>1, <3>2
  <2> HIDE DEF st
  <2>4. Tracked(st)
      BY <1>4, <2>1, TrackedAs
  <2> QED BY <1>1, <2>1, <2>2, <2>3, <2>4, FailInv DEF pkey_import
<1> QED BY <1>5, <1>6

LEMMA FromPsaAllocInv == ASSUME IInv, from_psa_alloc PROVE IInv'
<1>1. call \in Call /\ call.pc = "from_psa" /\ out = "before" /\ spilled = FALSE
    BY DEF from_psa_alloc, IInv, TypeOK, Watched, FreedClean
<1>2. tmp = None
    BY <1>1, NoTemps
<1>3. ASSUME NEW st \in Status \ {"OK", "AUTH"}, Return(st), Tracked(st), store' = {}, UNCHANGED <<tmp, spilled>>
      PROVE  IInv'
    BY <1>1, <1>2, <1>3, FailInv DEF from_psa_alloc
<1>4. CASE /\ \/ \E e \in Error : zuc_int_calloc(e) /\ Return(zuc_int_from_psa(e))
              \/ NoBackend /\ Return("UNSUPPORTED")
              \/ MallocFails /\ Return("MEMORY")
           /\ store' = {}
           /\ UNCHANGED <<tmp, spilled>>
  <2>1. ASSUME NEW e \in Error, zuc_int_calloc(e), Return(zuc_int_from_psa(e))
        PROVE  IInv'
    <3>1. e \in Psa /\ e # "SUCCESS"
        BY DEF Psa, Error
    <3>2. zuc_int_from_psa(e) \in Status \ {"OK", "AUTH"} /\ Tracked(zuc_int_from_psa(e))
        BY <1>1, <2>1, <3>1, FromPsa, CallocTracked, TrackedAs
    <3> QED BY <1>3, <1>4, <2>1, <3>2
  <2>2. CASE NoBackend /\ Return("UNSUPPORTED")
      BY <1>1, <1>3, <1>4, <2>2, QuietTracked, TrackedAs DEF Status
  <2>3. CASE MallocFails /\ Return("MEMORY")
      BY <1>3, <1>4, <2>3, MallocTracked DEF Status
  <2> QED BY <1>4, <2>1, <2>2, <2>3
<1>5. CASE NoBackend /\ Fill("buf", "blank") /\ Goto([call EXCEPT !.pc = "export"]) /\ UNCHANGED store
  <2> DEFINE c == [call EXCEPT !.pc = "export"]
  <2>1. /\ c \in Call /\ c.pc = "export" /\ c.fn = call.fn /\ c.m = call.m /\ c.pub = call.pub
        /\ c.private = call.private /\ c.h = call.h /\ c.usage = call.usage
      BY <1>1 DEF Call
  <2>2. Route(c) /\ Halves(c)
      BY <1>1, <2>1 DEF IInv, Route, Halves
  <2> HIDE DEF c
  <2>3. Goto(c) /\ call' = c
      BY <1>5 DEF c, Goto
  <2>4. Stored' /\ store' \in SUBSET [key: Key, private: BOOLEAN, usage: Usage]
      BY <1>1, <1>5, <2>1, <2>3 DEF IInv, TypeOK, Stored
  <2>5. Temps' /\ tmp' \in [Buffer -> Content] /\ spilled' = spilled
      BY <1>2, <1>5, <2>1, <2>3 DEF Fill, Temps, None, Buffer, Content
  <2>6. Counted' /\ live' \in Nat
      BY <1>1, <2>1, <2>3, SameCount DEF from_psa_alloc
  <2> QED BY <1>1, <1>5, <2>1, <2>2, <2>3, <2>4, <2>5, <2>6, QuietTracked, GotoInv DEF from_psa_alloc
<1> QED BY <1>4, <1>5 DEF from_psa_alloc

\* A handle that is made holds the half that was asked for.
LEMMA TakenAsAsked ==
    ASSUME IInv, call.pc = "export", ~call.pub
    PROVE  /\ call.fn \in Maker /\ Taken \in Material
           /\ Taken = [key |-> call.m.key, private |-> call.private]
<1>1. /\ call.fn \in Maker /\ call.m \in Material /\ (call.private => call.m.private)
      /\ call.private \in BOOLEAN
    BY DEF IInv, TypeOK, Call, Route, Halves
<1>2. (call.m.private /\ call.private /\ ~call.pub) = call.private
    BY <1>1 DEF Material
<1>3. Taken = [key |-> call.m.key, private |-> call.private]
    BY <1>2 DEF Taken
<1> QED BY <1>1, <1>3 DEF Material

LEMMA FromPsaExportInv == ASSUME IInv, from_psa_export PROVE IInv'
<1>1. call \in Call /\ call.pc = "export" /\ call.m \in Material /\ out = "before" /\ spilled = FALSE
    BY DEF from_psa_export, IInv, TypeOK, Halves, Watched, FreedClean
<1>2. tmp' = None /\ spilled' = FALSE /\ store' = {} /\ ready' = ready /\ out' = "before"
  <2>1. tmp["copy"] = "none" /\ tmp["point"] = "none" /\ tmp["der"] = "none"
      BY <1>1 DEF IInv, Temps
  <2>2. tmp' = [tmp EXCEPT !["buf"] = "none"] /\ spilled' = (spilled \/ "blank" = "private")
      BY DEF from_psa_export, WipeFree, FreeHolding
  <2>3. tmp' = None
      BY <2>1, <2>2 DEF IInv, TypeOK, None, Buffer
  <2> QED BY <1>1, <2>2, <2>3 DEF from_psa_export
<1>3. PICK e \in Psa :
         /\ zuc_int_calloc(e)
         /\ \/ /\ e = "SUCCESS"
               /\ live' = live + 1
               /\ \/ /\ call.pub
                     /\ Goto([call EXCEPT !.pc = "steal"])
                     /\ UNCHANGED pkey
                  \/ /\ ~call.pub
                     /\ \E h \in FreeHandle : pkey' = [pkey EXCEPT ![h] = Taken]
                     /\ Return("OK")
            \/ /\ e # "SUCCESS"
               /\ Return(zuc_int_from_psa(e))
               /\ UNCHANGED <<pkey, live>>
    BY DEF from_psa_export
<1>4. Tracked("OK") /\ alloc_failed' = lacked' /\ (e = "INSUFFICIENT_MEMORY" => lacked')
    BY <1>1, <1>3, CallocTracked
<1> DEFINE S == {h \in Handle : pkey[h] # NoMaterial}
<1>5. IsFiniteSet(S) /\ Cardinality(S) \in Nat /\ live = Cardinality(S)
  <2>1. IsFiniteSet(S) /\ Cardinality(S) \in Nat
      BY HeldFinite, FS_CardinalityType
  <2>2. live = Cardinality(S) + 0
      BY <1>1 DEF IInv, Counted, Held
  <2> QED BY <2>1, <2>2
<1>6. CASE e = "SUCCESS" /\ call.pub
  <2> DEFINE c == [call EXCEPT !.pc = "steal"]
  <2>1. /\ c \in Call /\ c.pc = "steal" /\ c.fn = call.fn /\ c.m = call.m /\ c.pub = call.pub
        /\ c.private = call.private /\ c.h = call.h
      BY <1>1 DEF Call
  <2>2. Route(c) /\ Halves(c)
      BY <1>1, <1>6, <2>1 DEF IInv, Route, Halves, Maker
  <2> HIDE DEF c
  <2>3. Goto(c) /\ call' = c /\ pkey' = pkey /\ live' = live + 1
      BY <1>3, <1>6 DEF c, Goto
  <2>4. Stored' /\ Temps' /\ tmp' \in [Buffer -> Content]
      BY <1>2, <2>1, <2>3, PlainPoint DEF Stored, None, Content
  <2>5. Counted' /\ live' \in Nat
      BY <1>5, <2>1, <2>3 DEF Counted, Held
  <2>6. store' \in SUBSET [key: Key, private: BOOLEAN, usage: Usage]
      BY <1>2
  <2> QED BY <1>1, <1>2, <1>4, <2>1, <2>2, <2>3, <2>4, <2>5, <2>6, GotoInv
<1>7. CASE e = "SUCCESS" /\ ~call.pub
  <2>1. PICK h \in FreeHandle : pkey' = [pkey EXCEPT ![h] = Taken]
      BY <1>3, <1>7
  <2>2. Return("OK") /\ live' = live + 1 /\ "OK" \in Status
      BY <1>3, <1>7 DEF Status
  <2>3. call.fn \in Maker /\ Taken \in Material
      BY <1>1, <1>7, TakenAsAsked
  <2>4. h \in Handle /\ h \notin S
      BY DEF FreeHandle, Held
  <2>5. pkey \in [Handle -> Material \union {NoMaterial}]
      BY DEF IInv, TypeOK
  <2>6. pkey' \in [Handle -> Material \union {NoMaterial}]
      BY <2>1, <2>3, <2>4, <2>5
  <2>7. {g \in Handle : pkey'[g] # NoMaterial} = S \union {h}
      BY <2>1, <2>3, <2>4, <2>5, IdleTyped
  <2>8. Cardinality(S \union {h}) = Cardinality(S) + 1
      BY <1>5, <2>4, FS_AddElement
  <2>9. live' \in Nat /\ live' = Cardinality({g \in Handle : pkey'[g] # NoMaterial})
      BY <1>5, <2>2, <2>7, <2>8
  <2>10. call.fn \notin {"write", "export", "verify"} /\ "before" \in Output
      BY <2>3 DEF Maker, Output
  <2> QED BY <1>2, <1>4, <2>2, <2>3, <2>6, <2>9, <2>10, ReturnInv
<1>8. CASE e # "SUCCESS"
  <2> DEFINE st == zuc_int_from_psa(e)
  <2>1. st \in Status \ {"OK", "AUTH"} /\ (st = "MEMORY" => lacked')
      BY <1>4, <1>8, FromPsa
  <2>2. Return(st) /\ UNCHANGED <<pkey, live>>
      BY <1>3, <1>8
  <2> HIDE DEF st
  <2>3. Tracked(st)
      BY <1>4, <2>1, TrackedAs
  <2> QED BY <1>1, <1>2, <2>1, <2>2, <2>3, FailInv
<1> QED BY <1>3, <1>6, <1>7, <1>8

-----------------------------------------------------------------------------
(* The public half, and the encodings *)

\* public_der() returns to the call it was made for, which may still need the
\* handle's own key (an agreement).
LEMMA AfterPointControl ==
    ASSUME IInv, call.pc = "point" \/ call.pc = "steal"
    PROVE  /\ AfterPoint \in Call /\ Route(AfterPoint) /\ Halves(AfterPoint) /\ ~AfterPoint.pub
           /\ \/ AfterPoint.pc = "deliver" /\ ~AfterPoint.private
              \/ AfterPoint.pc = "encode"
              \/ AfterPoint.pc = "load" /\ AfterPoint.fn = "agree"
<1>1. /\ call \in Call /\ call.fn \in {"write", "export", "agree"} /\ call.m \in Material
      /\ call.h \in Handle /\ Held(call.h)
    BY DEF IInv, TypeOK, Route, Halves
<1>2. pkey[call.h] \in Material
    BY <1>1, HeldMaterial
<1>3. CASE call.fn = "export"
  <2> DEFINE c == [call EXCEPT !.pc = "deliver", !.pub = FALSE]
  <2>1. /\ c \in Call /\ c.pc = "deliver" /\ ~c.pub /\ c.fn = "export" /\ c.m = call.m
        /\ c.private = call.private /\ c.h = call.h
      BY <1>1, <1>3 DEF Call
  <2>2. ~call.private /\ call.m = pkey[call.h]
      BY <1>3 DEF IInv, Halves
  <2>3. Route(c) /\ Halves(c)
      BY <1>1, <2>1, <2>2 DEF Route, Halves, Maker
  <2>4. AfterPoint = c
      BY <1>3 DEF AfterPoint
  <2> HIDE DEF c
  <2> QED BY <2>1, <2>2, <2>3, <2>4
<1>4. CASE call.fn = "write"
  <2> DEFINE pc == IF call.private THEN "encode" ELSE "deliver"
             c == [call EXCEPT !.pc = pc, !.pub = FALSE]
  <2>1. pc \in {"encode", "deliver"} /\ (pc = "encode" <=> call.private)
      OBVIOUS
  <2> HIDE DEF pc
  <2>2. /\ c \in Call /\ c.pc = pc /\ ~c.pub /\ c.fn = "write" /\ c.m = call.m
        /\ c.private = call.private /\ c.h = call.h
      BY <1>1, <1>4, <2>1 DEF Call
  <2>3. call.m = pkey[call.h] /\ (call.private => call.m.private)
      BY <1>4 DEF IInv, Halves
  <2>4. Route(c) /\ Halves(c)
      BY <1>1, <2>1, <2>2, <2>3 DEF Route, Halves, Maker
  <2>5. AfterPoint = c
      BY <1>4 DEF AfterPoint, pc
  <2> HIDE DEF c
  <2> QED BY <2>1, <2>2, <2>4, <2>5
<1>5. CASE call.fn = "agree"
  <2> DEFINE c == [call EXCEPT !.pc = "load", !.pub = FALSE, !.m = pkey[call.h], !.usage = "DERIVE"]
  <2>1. /\ c \in Call /\ c.pc = "load" /\ ~c.pub /\ c.fn = "agree" /\ c.m = pkey[call.h]
        /\ c.private = call.private /\ c.h = call.h
      BY <1>1, <1>2, <1>5 DEF Call, Usage
  <2>2. Route(c) /\ Halves(c)
      BY <1>1, <1>2, <2>1 DEF Route, Halves, Maker, Operating
  <2>3. AfterPoint = c
      BY <1>5 DEF AfterPoint
  <2> HIDE DEF c
  <2> QED BY <2>1, <2>2, <2>3
<1> QED BY <1>1, <1>3, <1>4, <1>5

LEMMA FillPointInv ==
    ASSUME IInv, call.pc \in {"point", "steal"}, NoBackend, Fill("point", "public"), Goto(AfterPoint),
           live' = Cardinality({h \in Handle : pkey[h] # NoMaterial}), UNCHANGED <<ready, pkey, store, out>>
    PROVE  IInv'
<1> DEFINE c == AfterPoint
<1>1. /\ c \in Call /\ Route(c) /\ Halves(c) /\ ~c.pub
      /\ \/ c.pc = "deliver" /\ ~c.private
         \/ c.pc = "encode"
         \/ c.pc = "load" /\ c.fn = "agree"
    BY AfterPointControl
<1> HIDE DEF c
<1>2. Goto(c) /\ call' = c
    BY DEF c, Goto
<1>3. tmp = None /\ store = {} /\ out = "before"
    BY NoTemps, NoStore DEF IInv, Watched
<1>4. /\ tmp' \in [Buffer -> Content] /\ spilled' = spilled /\ tmp'["copy"] = "none" /\ tmp'["buf"] = "none"
      /\ tmp'["der"] = "none" /\ tmp'["point"] = "public"
    BY <1>3 DEF Fill, None, Buffer, Content
<1>5. Temps'
    BY <1>1, <1>2, <1>4 DEF Temps, Delivered
<1>6. Stored' /\ store' \in SUBSET [key: Key, private: BOOLEAN, usage: Usage]
    BY <1>1, <1>2, <1>3 DEF Stored
<1>7. Counted' /\ live' \in Nat
  <2>1. Cardinality({h \in Handle : pkey[h] # NoMaterial}) \in Nat
      BY HeldFinite, FS_CardinalityType
  <2> QED BY <1>1, <1>2, <2>1 DEF Counted, Held
<1> QED BY <1>1, <1>2, <1>3, <1>4, <1>5, <1>6, <1>7, QuietTracked, GotoInv

LEMMA PublicDerInv == ASSUME IInv, public_der PROVE IInv'
<1>1. /\ call \in Call /\ call.pc = "point" /\ call.m \in Material /\ out = "before" /\ spilled = FALSE
      /\ call.fn \in {"write", "export", "agree"}
    BY DEF public_der, IInv, TypeOK, Halves, Route, Watched, FreedClean
<1>2. tmp = None /\ store = {}
    BY <1>1, NoTemps, NoStore
<1>3. CASE call.m.private /\ NoBackend /\ Goto([call EXCEPT !.pc = "load", !.pub = TRUE]) /\ UNCHANGED <<tmp, spilled>>
  <2> DEFINE c == [call EXCEPT !.pc = "load", !.pub = TRUE]
  <2>1. /\ c \in Call /\ c.pc = "load" /\ c.pub /\ c.fn = call.fn /\ c.m = call.m
        /\ c.private = call.private /\ c.h = call.h
      BY <1>1 DEF Call
  <2>2. Route(c) /\ Halves(c)
      BY <1>1, <2>1 DEF IInv, Route, Halves, Maker
  <2> HIDE DEF c
  <2>3. Goto(c)
      BY <1>3 DEF c
  <2> QED BY <1>1, <1>2, <1>3, <2>1, <2>2, <2>3, QuietTracked, GoOnInv DEF public_der
<1>4. CASE MallocFails /\ Return("MEMORY") /\ UNCHANGED <<tmp, spilled>>
    BY <1>1, <1>2, <1>4, MallocTracked, FailInv DEF public_der, Status
<1>5. CASE NoBackend /\ Fill("point", "public") /\ Goto(AfterPoint)
  <2>1. live = Cardinality({h \in Handle : pkey[h] # NoMaterial}) + 0
      BY <1>1 DEF IInv, Counted, Held
  <2>2. Cardinality({h \in Handle : pkey[h] # NoMaterial}) \in Nat
      BY HeldFinite, FS_CardinalityType
  <2> QED BY <1>1, <1>5, <2>1, <2>2, FillPointInv DEF public_der
<1> QED BY <1>3, <1>4, <1>5 DEF public_der

LEMMA PublicDerStealInv == ASSUME IInv, public_der_steal PROVE IInv'
<1>1. live = Cardinality({h \in Handle : pkey[h] # NoMaterial}) + 1
    BY DEF public_der_steal, IInv, Counted, Held
<1>2. Cardinality({h \in Handle : pkey[h] # NoMaterial}) \in Nat
    BY HeldFinite, FS_CardinalityType
<1> QED BY <1>1, <1>2, FillPointInv DEF public_der_steal

LEMMA MemoryOrStatus ==
    ASSUME NEW e \in Psa, NEW s \in Status \ {"OK", "MEMORY"}
    PROVE  /\ MemoryOr(e, s) \in {"MEMORY", s}
           /\ MemoryOr(e, s) = "MEMORY" => e = "INSUFFICIENT_MEMORY"
BY DEF MemoryOr

LEMMA SpkiDerInv == ASSUME IInv, spki_der PROVE IInv'
<1>1. call \in Call /\ call.pc = "spki" /\ call.m \in Material /\ out = "before" /\ spilled = FALSE
    BY DEF spki_der, IInv, TypeOK, Halves, Watched, FreedClean
<1>2. tmp = None
    BY <1>1, NoTemps
<1>3. PICK e \in Psa :
         /\ zuc_int_calloc(e)
         /\ IF e = "SUCCESS" THEN Goto([call EXCEPT !.pc = "spki_write"]) ELSE Return(MemoryOr(e, "BACKEND"))
    BY DEF spki_der
<1>4. Tracked("OK") /\ alloc_failed' = lacked' /\ (e = "INSUFFICIENT_MEMORY" => lacked')
    BY <1>1, <1>3, CallocTracked
<1>5. CASE e = "SUCCESS"
  <2> DEFINE c == [call EXCEPT !.pc = "spki_write"]
  <2>1. /\ c \in Call /\ c.pc = "spki_write" /\ c.pub = call.pub /\ c.fn = call.fn /\ c.m = call.m
        /\ c.private = call.private /\ c.h = call.h
      BY <1>1 DEF Call
  <2>2. call.fn = "write" /\ ~call.pub /\ ~call.private
      BY <1>1 DEF IInv, Route, Halves
  <2>3. Route(c) /\ Halves(c)
      BY <1>1, <2>1, <2>2 DEF IInv, Route, Halves, Maker
  <2> HIDE DEF c
  <2>4. Goto(c)
      BY <1>3, <1>5 DEF c
  <2> QED BY <1>1, <1>2, <1>4, <2>1, <2>3, <2>4, GoOnInv DEF spki_der
<1>6. CASE e # "SUCCESS"
  <2> DEFINE st == MemoryOr(e, "BACKEND")
  <2>1. st \in Status \ {"OK", "AUTH"} /\ (st = "MEMORY" => lacked')
      BY <1>4, MemoryOrStatus DEF Status
  <2>2. Return(st)
      BY <1>3, <1>6
  <2> HIDE DEF st
  <2>3. Tracked(st)
      BY <1>4, <2>1, TrackedAs
  <2> QED BY <1>1, <1>2, <2>1, <2>2, <2>3, FailInv DEF spki_der
<1> QED BY <1>5, <1>6

\* An encoding is in its buffer: what is delivered is the half it holds.
LEMMA EncodedInv ==
    ASSUME IInv, call.pc \in {"spki_write", "encode"}, NEW half \in {"public", "private"},
           half = IF call.private THEN "private" ELSE "public",
           tmp' = [None EXCEPT !["der"] = half], Goto([call EXCEPT !.pc = "deliver"]),
           Tracked("OK"), alloc_failed' = lacked', UNCHANGED <<ready, pkey, live, store, out, spilled>>
    PROVE  IInv'
<1> DEFINE c == [call EXCEPT !.pc = "deliver"]
<1>1. /\ call \in Call /\ call.m \in Material /\ out = "before" /\ call.fn = "write" /\ ~call.pub
      /\ call.pc \notin {"idle", "steal"}
    BY DEF IInv, TypeOK, Halves, Route, Watched
<1>2. /\ c \in Call /\ c.pc = "deliver" /\ ~c.pub /\ c.fn = "write" /\ c.m = call.m
      /\ c.private = call.private /\ c.h = call.h
    BY <1>1 DEF Call
<1>3. Route(c) /\ Halves(c)
    BY <1>1, <1>2 DEF IInv, Route, Halves, Maker
<1> HIDE DEF c
<1>4. Goto(c) /\ call' = c
    BY DEF c, Goto
<1>5. /\ tmp' \in [Buffer -> Content] /\ tmp'["copy"] = "none" /\ tmp'["buf"] = "none"
      /\ tmp'["point"] = "none" /\ tmp'["der"] = half
    BY DEF None, Buffer, Content
<1>6. Temps'
    BY <1>2, <1>4, <1>5 DEF Temps, Delivered
<1>7. Stored' /\ store' \in SUBSET [key: Key, private: BOOLEAN, usage: Usage]
    BY <1>2, <1>4, NoStore DEF Stored
<1>8. Counted' /\ live' \in Nat
    BY <1>1, <1>2, <1>4, SameCount
<1> QED BY <1>1, <1>2, <1>3, <1>4, <1>5, <1>6, <1>7, <1>8, GotoInv

LEMMA SpkiDerWriteInv == ASSUME IInv, spki_der_write PROVE IInv'
<1>1. /\ call \in Call /\ call.pc = "spki_write" /\ out = "before" /\ spilled = FALSE
      /\ call.fn = "write" /\ ~call.private
    BY DEF spki_der_write, IInv, TypeOK, Halves, Route, Watched, FreedClean
<1>2. tmp = None /\ store = {}
    BY <1>1, NoTemps, NoStore
<1>3. CASE MallocFails /\ Return("MEMORY") /\ UNCHANGED <<tmp, spilled>>
    BY <1>1, <1>2, <1>3, MallocTracked, FailInv DEF spki_der_write, Status
<1>4. ASSUME NEW e \in Psa, zuc_int_calloc(e),
             \/ e = "SUCCESS" /\ Fill("der", "public") /\ Goto([call EXCEPT !.pc = "deliver"])
             \/ e # "SUCCESS" /\ Return(MemoryOr(e, "BACKEND")) /\ UNCHANGED <<tmp, spilled>>
      PROVE  IInv'
  <2>1. Tracked("OK") /\ alloc_failed' = lacked' /\ (e = "INSUFFICIENT_MEMORY" => lacked')
      BY <1>1, <1>4, CallocTracked
  <2>2. CASE e = "SUCCESS"
    <3>1. tmp' = [None EXCEPT !["der"] = "public"] /\ spilled' = spilled /\ Goto([call EXCEPT !.pc = "deliver"])
        BY <1>2, <1>4, <2>2 DEF Fill
    <3> QED BY <1>1, <2>1, <3>1, EncodedInv DEF spki_der_write
  <2>3. CASE e # "SUCCESS"
    <3> DEFINE st == MemoryOr(e, "BACKEND")
    <3>1. st \in Status \ {"OK", "AUTH"} /\ (st = "MEMORY" => lacked')
        BY <2>1, MemoryOrStatus DEF Status
    <3>2. Return(st) /\ UNCHANGED <<tmp, spilled>>
        BY <1>4, <2>3
    <3> HIDE DEF st
    <3>3. Tracked(st)
        BY <2>1, <3>1, TrackedAs
    <3> QED BY <1>1, <1>2, <3>1, <3>2, <3>3, FailInv DEF spki_der_write
  <2> QED BY <2>2, <2>3
<1> QED BY <1>3, <1>4 DEF spki_der_write

LEMMA EcEncodeInv == ASSUME IInv, ec_encode PROVE IInv'
<1>1. /\ call \in Call /\ call.pc = "encode" /\ out = "before" /\ spilled = FALSE /\ call.private
      /\ tmp["copy"] = "none" /\ tmp["buf"] = "none" /\ tmp["der"] = "none"
    BY DEF ec_encode, IInv, TypeOK, Halves, Watched, FreedClean, Temps
<1>2. store = {}
    BY <1>1, NoStore
<1>3. CASE MallocFails /\ Return("MEMORY") /\ tmp' = [tmp EXCEPT !["point"] = "none"]
  <2>1. tmp' = None
      BY <1>1, <1>3 DEF IInv, TypeOK, None, Buffer
  <2> QED BY <1>1, <1>2, <1>3, <2>1, MallocTracked, FailInv DEF ec_encode, Status
<1>4. CASE /\ NoBackend
           /\ tmp' = [tmp EXCEPT !["point"] = "none", !["der"] = "private"]
           /\ Goto([call EXCEPT !.pc = "deliver"])
  <2>1. tmp' = [None EXCEPT !["der"] = "private"]
      BY <1>1, <1>4 DEF IInv, TypeOK, None, Buffer
  <2> QED BY <1>1, <1>4, <2>1, QuietTracked, EncodedInv DEF ec_encode
<1> QED BY <1>3, <1>4 DEF ec_encode

-----------------------------------------------------------------------------
(* The end of a call *)

\* A call ends well, with its output.
LEMMA SucceedInv ==
    ASSUME IInv, call.pc \notin {"idle", "steal"}, Return("OK"), Tracked("OK"), call.fn \notin Maker,
           store' = {}, tmp' = None, spilled' = FALSE, UNCHANGED <<ready, pkey, live>>, out' \in Output,
           call.fn # "verify" => out' \notin {"before", "zero"},
           out' = "private" => call.private /\ pkey[call.h].private,
           call.fn \in {"write", "export"} /\ call.private => out' = "private",
           call.fn = "verify" => call.truth = "valid"
    PROVE  IInv'
<1>1. pkey' \in [Handle -> Material \union {NoMaterial}] /\ live' \in Nat /\ "OK" \in Status
    BY DEF IInv, TypeOK, Status
<1>2. live' = Cardinality({h \in Handle : pkey'[h] # NoMaterial})
  <2>1. Cardinality({h \in Handle : pkey[h] # NoMaterial}) \in Nat
      BY HeldFinite, FS_CardinalityType
  <2> QED BY <2>1 DEF IInv, Counted, Held
<1> QED BY <1>1, <1>2, ReturnInv

\* What is delivered is the half asked for.
LEMMA DeliverInv ==
    ASSUME IInv, call.pc = "deliver", Return("OK"), Tracked("OK"), out' = Delivered,
           tmp' = None, spilled' = FALSE, UNCHANGED <<ready, pkey, live, store>>
    PROVE  IInv'
<1>1. /\ call.fn \in {"write", "export"} /\ call.fn \notin Maker \union {"verify"}
      /\ call.private => pkey[call.h].private
    BY DEF IInv, Route, Halves, Maker
<1>2. out' = IF call.private THEN "private" ELSE "public"
    BY DEF IInv, Temps
<1>3. store' = {}
    BY NoStore
<1>4. out' \in Output /\ out' \notin {"before", "zero"}
    BY <1>2 DEF Output
<1> QED BY <1>1, <1>2, <1>3, <1>4, SucceedInv

LEMMA ExportDeliverInv == ASSUME IInv, export_deliver PROVE IInv'
<1>1. call.pc = "deliver" /\ call.fn = "export" /\ out = "before" /\ spilled = FALSE
    BY DEF export_deliver, IInv, TypeOK, Watched, FreedClean
<1>2. tmp' = None /\ spilled' = FALSE
  <2>1. tmp["der"] = "none"
      BY <1>1 DEF IInv, Temps
  <2> QED BY <1>1, <2>1, FreePoint DEF export_deliver
<1>3. Tracked("OK") /\ store = {}
    BY <1>1, QuietTracked, NoStore DEF export_deliver
<1>4. CASE call.small
  <2>1. Tracked("BAD_LENGTH")
      BY <1>3, TrackedAs
  <2> QED BY <1>1, <1>2, <1>3, <1>4, <2>1, FailInv DEF export_deliver, Status
<1>5. CASE ~call.small
    BY <1>1, <1>2, <1>3, <1>5, DeliverInv DEF export_deliver
<1> QED BY <1>4, <1>5

LEMMA WriteDeliverInv == ASSUME IInv, write_deliver PROVE IInv'
<1>1. call.pc = "deliver" /\ call.fn = "write" /\ out = "before" /\ spilled = FALSE /\ spilled' = FALSE
    BY DEF write_deliver, IInv, TypeOK, Watched, FreedClean
<1>2. tmp' = None
  <2>1. tmp["copy"] = "none" /\ tmp["buf"] = "none"
      BY <1>1 DEF IInv, Temps
  <2> QED BY <2>1 DEF write_deliver, IInv, TypeOK, None, Buffer
<1>3. store = {}
    BY <1>1, NoStore
<1>4. ASSUME NEW st \in Status \ {"OK", "MEMORY", "AUTH"}, Tracked("OK"), Return(st), out' = "zero"
      PROVE  IInv'
  <2>1. Tracked(st)
      BY <1>4, TrackedAs
  <2> QED BY <1>1, <1>2, <1>3, <1>4, <2>1, FailInv DEF write_deliver
<1>5. CASE Tracked("OK") /\ Return("OK") /\ out' = Delivered
    BY <1>1, <1>2, <1>5, DeliverInv DEF write_deliver
<1>6. CASE NoBackend /\ IF call.small THEN Return("BAD_LENGTH") /\ out' = "zero" ELSE Return("OK") /\ out' = Delivered
    BY <1>1, <1>4, <1>5, <1>6, QuietTracked DEF Status
<1>7. ASSUME NEW e \in Psa, zuc_int_calloc(e),
             CASE e = "SUCCESS"          -> Return("OK") /\ out' = Delivered
               [] e = "BUFFER_TOO_SMALL" -> Return("BAD_LENGTH") /\ out' = "zero"
               [] OTHER                  -> Return("BACKEND") /\ out' = "zero"
      PROVE  IInv'
  <2>1. Tracked("OK")
      BY <1>1, <1>7, CallocTracked
  <2>2. CASE e = "SUCCESS"
      BY <1>5, <1>7, <2>1, <2>2
  <2>3. CASE e # "SUCCESS"
    <3>1. PICK st \in {"BAD_LENGTH", "BACKEND"} : Return(st) /\ out' = "zero"
        BY <1>7, <2>3
    <3> QED BY <1>4, <2>1, <3>1 DEF Status
  <2> QED BY <2>2, <2>3
<1> QED BY <1>6, <1>7 DEF write_deliver

-----------------------------------------------------------------------------
(* Operations *)

LEMMA OperateFacts ==
    ASSUME IInv, NEW fn \in Operating, NEW e \in Psa, Operate(fn, e)
    PROVE  /\ call.pc = "operate" /\ call.fn = fn /\ call.fn \notin Maker /\ out = "before" /\ spilled = FALSE
           /\ store' = {} /\ UNCHANGED <<ready, pkey, live>>
           /\ Tracked("OK") /\ (e = "INSUFFICIENT_MEMORY" => lacked')
           /\ fn # "agree" => tmp = None
<1>1. call.pc = "operate" /\ call.fn = fn
    BY DEF Operate
<1>2. call.fn \notin Maker /\ out = "before" /\ spilled = FALSE
    BY <1>1 DEF IInv, TypeOK, Route, Operating, Maker, Watched, FreedClean
<1>3. Tracked("OK") /\ (e = "INSUFFICIENT_MEMORY" => lacked')
    BY <1>1, CallocTracked DEF Operate
<1> QED BY <1>1, <1>2, <1>3, NoTemps DEF Operate

\* An operation that has an output, and ends with status st.
LEMMA OperationInv ==
    ASSUME IInv, NEW fn \in Operating \ {"verify"}, NEW e \in Psa, Operate(fn, e), NEW st \in Status, Return(st),
           tmp' = None, spilled' = FALSE, st = "MEMORY" => e = "INSUFFICIENT_MEMORY",
           out' = IF st = "OK" THEN "result" ELSE "zero"
    PROVE  IInv'
<1>1. /\ call.pc = "operate" /\ call.fn = fn /\ call.fn \notin Maker /\ spilled = FALSE
      /\ store' = {} /\ UNCHANGED <<ready, pkey, live>>
      /\ Tracked("OK") /\ (e = "INSUFFICIENT_MEMORY" => lacked')
    BY OperateFacts
<1>2. call.fn \notin {"verify", "write", "export"}
    BY <1>1 DEF Operating
<1>3. CASE st = "OK"
    BY <1>1, <1>2, <1>3, SucceedInv DEF Output
<1>4. CASE st # "OK"
  <2>1. Tracked(st)
      BY <1>1, TrackedAs
  <2> QED BY <1>1, <1>2, <1>4, <2>1, FailInv
<1> QED BY <1>3, <1>4

LEMMA SignOperateInv == ASSUME IInv, sign_operate PROVE IInv'
<1>1. PICK e \in Psa : /\ Operate("sign", e)
                       /\ Return(zuc_int_from_psa(e))
                       /\ out' = IF e = "SUCCESS" THEN "result" ELSE "zero"
    BY DEF sign_operate
<1>2. tmp' = None /\ spilled' = FALSE
    BY <1>1, OperateFacts DEF sign_operate, Operating
<1> QED BY <1>1, <1>2, FromPsa, OperationInv DEF Operating

LEMMA EncryptOperateInv == ASSUME IInv, encrypt_operate PROVE IInv'
<1>1. PICK e \in Psa : /\ Operate("encrypt", e)
                       /\ Return(IF e = "INVALID_ARGUMENT" THEN "BAD_LENGTH" ELSE zuc_int_from_psa(e))
                       /\ out' = IF e = "SUCCESS" THEN "result" ELSE "zero"
    BY DEF encrypt_operate
<1> DEFINE st == IF e = "INVALID_ARGUMENT" THEN "BAD_LENGTH" ELSE zuc_int_from_psa(e)
<1>2. tmp' = None /\ spilled' = FALSE
    BY <1>1, OperateFacts DEF encrypt_operate, Operating
<1>3. st \in Status /\ (st = "OK" <=> e = "SUCCESS") /\ (st = "MEMORY" => e = "INSUFFICIENT_MEMORY")
    BY FromPsa DEF Status
<1>4. Return(st)
    BY <1>1
<1> HIDE DEF st
<1> QED BY <1>1, <1>2, <1>3, <1>4, OperationInv DEF Operating

LEMMA DecryptOperateInv == ASSUME IInv, decrypt_operate PROVE IInv'
<1>1. PICK e \in Psa : /\ Operate("decrypt", e)
                       /\ Return(IF e = "SUCCESS" THEN "OK" ELSE MemoryOr(e, "AUTH"))
                       /\ out' = IF e = "SUCCESS" THEN "result" ELSE "zero"
    BY DEF decrypt_operate
<1> DEFINE st == IF e = "SUCCESS" THEN "OK" ELSE MemoryOr(e, "AUTH")
<1>2. tmp' = None /\ spilled' = FALSE
    BY <1>1, OperateFacts DEF decrypt_operate, Operating
<1>3. st \in Status /\ (st = "OK" <=> e = "SUCCESS") /\ (st = "MEMORY" => e = "INSUFFICIENT_MEMORY")
    BY MemoryOrStatus DEF Status
<1>4. Return(st)
    BY <1>1
<1> HIDE DEF st
<1> QED BY <1>1, <1>2, <1>3, <1>4, OperationInv DEF Operating

LEMMA AgreeOperateInv == ASSUME IInv, agree_operate PROVE IInv'
<1>1. PICK e \in Psa, secret \in {"result", "zero"} :
         /\ Operate("agree", e)
         /\ IF e = "SUCCESS" /\ secret = "result" THEN Return("OK") /\ out' = "result"
            ELSE Return(MemoryOr(e, "INVALID_ARGUMENT")) /\ out' = "zero"
    BY DEF agree_operate
<1>2. tmp' = None /\ spilled' = FALSE
  <2>1. call.pc = "operate" /\ tmp["der"] = "none"
      BY <1>1, OperateFacts DEF IInv, Temps, Operating
  <2> QED BY <2>1, FreePoint DEF agree_operate
<1>3. PICK st \in Status : /\ Return(st) /\ (st = "MEMORY" => e = "INSUFFICIENT_MEMORY")
                           /\ out' = IF st = "OK" THEN "result" ELSE "zero"
    BY <1>1, MemoryOrStatus DEF Status
<1> QED BY <1>1, <1>2, <1>3, OperationInv DEF Operating

\* A signature is refused only where it is not valid or an allocation failed,
\* which the watch turns into ZUC_ERR_MEMORY.
LEMMA VerifyOperateInv == ASSUME IInv, verify_operate PROVE IInv'
<1>1. PICK e \in Psa :
         /\ Operate("verify", e)
         /\ e = "SUCCESS" => call.truth = "valid"
         /\ e \in {"INVALID_SIGNATURE", "INVALID_ARGUMENT"} => (call.truth = "invalid" \/ alloc_failed')
         /\ Return(IF e \in {"INVALID_SIGNATURE", "INVALID_ARGUMENT"} THEN "AUTH" ELSE zuc_int_from_psa(e))
    BY DEF verify_operate
<1> DEFINE st == IF e \in {"INVALID_SIGNATURE", "INVALID_ARGUMENT"} THEN "AUTH" ELSE zuc_int_from_psa(e)
<1>2. /\ call.pc = "operate" /\ call.fn = "verify" /\ call.fn \notin Maker /\ out = "before" /\ spilled = FALSE
      /\ store' = {} /\ UNCHANGED <<ready, pkey, live>>
      /\ Tracked("OK") /\ (e = "INSUFFICIENT_MEMORY" => lacked') /\ tmp = None
    BY <1>1, OperateFacts DEF Operating
<1>3. tmp' = None /\ spilled' = FALSE /\ out' = "before"
    BY <1>2 DEF verify_operate
<1>4. /\ st \in Status /\ (st = "OK" => e = "SUCCESS") /\ (st = "MEMORY" => e = "INSUFFICIENT_MEMORY")
      /\ st = "AUTH" => call.truth # "valid" \/ alloc_failed'
    BY <1>1, FromPsa DEF Status
<1>5. Return(st)
    BY <1>1
<1> HIDE DEF st
<1>6. CASE st = "OK"
    BY <1>1, <1>2, <1>3, <1>4, <1>5, <1>6, SucceedInv DEF Output
<1>7. CASE st # "OK"
  <2>1. Tracked(st)
      BY <1>2, <1>4, TrackedAs
  <2> QED BY <1>2, <1>3, <1>4, <1>5, <1>7, <2>1, FailInv
<1> QED BY <1>6, <1>7

-----------------------------------------------------------------------------
(* The invariant *)

\* Between calls the backend comes and goes, and others may run out of memory.
LEMMA BetweenCalls == ASSUME IInv, Window \/ OtherCall PROVE IInv'
<1>1. /\ call = Idle /\ call.pc = "idle" /\ ready \in BOOLEAN /\ ready' \in BOOLEAN /\ alloc_failed' \in BOOLEAN
      /\ UNCHANGED <<pkey, live, store, tmp, out, call, ret, lacked, dry, spilled>>
    BY IdleTyped DEF Window, OtherCall, IInv, TypeOK
<1>2. TypeOK'
    BY <1>1 DEF IInv, TypeOK
<1>3. Route(call)' /\ Halves(call)'
    BY <1>1 DEF IInv, Route, Halves, Held
<1>4. Stored' /\ Temps' /\ Counted' /\ Watched' /\ FreedClean'
    BY <1>1 DEF IInv, Stored, Temps, Delivered, Counted, Held, Watched, FreedClean
<1>5. Told'
    BY <1>1 DEF IInv, Told, MemoryHonest, NothingHalfMade, HalfRespected, VerdictTrue, Done
<1> QED BY <1>2, <1>3, <1>4, <1>5 DEF IInv

LEMMA StutterInv == ASSUME IInv, UNCHANGED vars PROVE IInv'
<1>1. TypeOK' /\ Route(call)' /\ Halves(call)'
    BY DEF vars, IInv, TypeOK, Route, Halves, Held
<1>2. Stored' /\ Temps' /\ Counted' /\ Watched' /\ FreedClean'
    BY DEF vars, IInv, Stored, Temps, Delivered, Counted, Held, Watched, FreedClean
<1>3. Told'
    BY DEF vars, IInv, Told, MemoryHonest, NothingHalfMade, HalfRespected, VerdictTrue, Done
<1> QED BY <1>1, <1>2, <1>3 DEF IInv

LEMMA StepInv == IInv /\ [Next]_vars => IInv'
<1> SUFFICES ASSUME IInv, [Next]_vars PROVE IInv'
    OBVIOUS
<1>1. CASE UNCHANGED vars
    BY <1>1, StutterInv
<1>2. CASE Window \/ OtherCall
    BY <1>2, BetweenCalls
<1>3. CASE Makes
    BY <1>3, ParseEntry, GenerateEntry, ImportEntry, PublicEntry DEF Makes
<1>4. ASSUME NEW h \in Handle, Uses(h) PROVE IInv'
    BY <1>4, FreeInv, WriteEntry, ExportEntry, SignEntry, VerifyEntry, EncryptEntry, DecryptEntry, AgreeEntry
    DEF Uses
<1>5. CASE Steps
  <2>1. CASE parse_copy \/ parse_read \/ parse_attributes
      BY <2>1, ParseCopyInv, ParseReadInv, ParseAttributesInv
  <2>2. CASE pkey_import \/ from_psa_alloc \/ from_psa_export
      BY <2>2, PKeyImportInv, FromPsaAllocInv, FromPsaExportInv
  <2>3. CASE public_der \/ public_der_steal \/ spki_der \/ spki_der_write \/ ec_encode
      BY <2>3, PublicDerInv, PublicDerStealInv, SpkiDerInv, SpkiDerWriteInv, EcEncodeInv
  <2>4. CASE export_deliver \/ write_deliver
      BY <2>4, ExportDeliverInv, WriteDeliverInv
  <2>5. CASE sign_operate \/ verify_operate \/ encrypt_operate \/ decrypt_operate \/ agree_operate
      BY <2>5, SignOperateInv, VerifyOperateInv, EncryptOperateInv, DecryptOperateInv, AgreeOperateInv
  <2> QED BY <1>5, <2>1, <2>2, <2>3, <2>4, <2>5 DEF Steps
<1> QED BY <1>1, <1>2, <1>3, <1>4, <1>5 DEF Next

\* The invariant holds of every behaviour of public keys.
THEOREM Invariant == Spec => []IInv
<1> QED BY InitInv, StepInv, PTL DEF Spec

\* Every variable of the model of zuc_pkey.c keeps to its type, the live count
\* of zuc_util.c included: it never falls below zero.
THEOREM TypeCorrect == Spec => []TypeOK
<1>1. IInv => TypeOK
    BY DEF IInv
<1> QED BY <1>1, Invariant, PTL

\* Whatever fails, a call of zuc_pkey.c leaves no key in the backend's store and
\* no temporary buffer, never holds two stored keys at once, and the live count
\* is the caller's handles and the one public_der() makes for itself.
THEOREM EveryKeyAccounted == Spec => []Accounted
<1>1. ASSUME IInv PROVE Accounted
  <2>1. call = Idle => store = {} /\ tmp = [b \in Buffer |-> "none"]
      BY <1>1, AtIdle, IdleTyped DEF None
  <2>2. Cardinality(store) <= 1
    <3>1. Cardinality({}) = 0
        BY FS_EmptySet
    <3>2. \A x : Cardinality({x}) = 1
        BY FS_Singleton
    <3>3. store = {} \/ \E x : store = {x}
        BY <1>1 DEF IInv, Stored
    <3>4. Cardinality(store) \in {0, 1}
        BY <3>1, <3>2, <3>3, Zenon
    <3> QED BY <3>4
  <2>3. Counted
      BY <1>1 DEF IInv
  <2> QED BY <2>1, <2>2, <2>3 DEF Accounted, Counted
<1> QED BY <1>1, Invariant, PTL

\* A failed call returns ZUC_ERR_MEMORY exactly when an allocation failed during
\* it: the watch of zuc_int_alloc_watch() and zuc_int_memory_or() misses none
\* and remembers none of an earlier call.
THEOREM MemoryToldTruly == Spec => []MemoryHonest
<1>1. IInv => MemoryHonest
    BY DEF IInv, Told
<1> QED BY <1>1, Invariant, PTL

\* No free() of zuc_pkey.c, on any path, releases memory that still holds a
\* private key.
THEOREM NothingSpilled == Spec => []FreedClean
<1>1. IInv => FreedClean
    BY DEF IInv
<1> QED BY <1>1, Invariant, PTL

\* A failed call of zuc_pkey.c leaves its output buffer as it was or zeroed, a
\* successful one leaves a whole result, and an agreement no all-zero secret.
THEOREM OutputWhole == Spec => []NothingHalfMade
<1>1. IInv => NothingHalfMade
    BY DEF IInv, Told
<1> QED BY <1>1, Invariant, PTL

\* zuc_pkey_write() and zuc_pkey_export() give the private half exactly where
\* the caller asked for it and the handle has it, and no other call gives it.
THEOREM HalvesRespected == Spec => []HalfRespected
<1>1. IInv => HalfRespected
    BY DEF IInv, Told
<1> QED BY <1>1, Invariant, PTL

\* zuc_pkey_verify_hash() says OK of valid signatures only and ZUC_ERR_AUTH of
\* the others only, though an allocation that fails inside the backend can make
\* it refuse a valid one.
THEOREM VerdictsTrue == Spec => []VerdictTrue
<1>1. IInv => VerdictTrue
    BY DEF IInv, Told
<1> QED BY <1>1, Invariant, PTL

-----------------------------------------------------------------------------
(* How handles are made *)

\* Only the end of pkey_from_psa() and zuc_pkey_free() write to a handle.
LEMMA OnlyExportMakes ==
    ASSUME [Next]_vars
    PROVE  \/ pkey' = pkey
           \/ from_psa_export
           \/ \E h \in Handle : zuc_pkey_free(h)
<1>1. CASE UNCHANGED vars \/ Window \/ OtherCall
    BY <1>1 DEF vars, Window, OtherCall
<1>2. ASSUME NEW c, NEW st, Enter(c, st) PROVE pkey' = pkey
    BY <1>2 DEF Enter
<1>3. CASE Makes
    BY <1>2, <1>3 DEF Makes, zuc_pkey_parse, zuc_pkey_generate, zuc_pkey_import, zuc_pkey_public
<1>4. ASSUME NEW h \in Handle, Uses(h) PROVE pkey' = pkey \/ zuc_pkey_free(h)
    BY <1>2, <1>4 DEF Uses, zuc_pkey_write, zuc_pkey_export, zuc_pkey_sign_hash, zuc_pkey_verify_hash,
                      zuc_pkey_encrypt, zuc_pkey_decrypt, zuc_pkey_agree
<1>5. CASE Steps
  <2>1. parse_copy \/ parse_read \/ parse_attributes \/ pkey_import \/ from_psa_alloc => pkey' = pkey
      BY DEF parse_copy, parse_read, parse_attributes, pkey_import, from_psa_alloc
  <2>2. public_der \/ public_der_steal \/ spki_der \/ spki_der_write \/ ec_encode => pkey' = pkey
      BY DEF public_der, public_der_steal, spki_der, spki_der_write, ec_encode
  <2>3. export_deliver \/ write_deliver => pkey' = pkey
      BY DEF export_deliver, write_deliver
  <2>4. ASSUME NEW fn, NEW e, Operate(fn, e) PROVE pkey' = pkey
      BY <2>4 DEF Operate
  <2>5. sign_operate \/ verify_operate \/ encrypt_operate \/ decrypt_operate \/ agree_operate => pkey' = pkey
      BY <2>4 DEF sign_operate, verify_operate, encrypt_operate, decrypt_operate, agree_operate
  <2> QED BY <1>5, <2>1, <2>2, <2>3, <2>5 DEF Steps
<1> QED BY <1>1, <1>3, <1>4, <1>5 DEF Next

\* A handle that pkey_from_psa() makes holds the half of the key that the call
\* asked for, the public one unless a private key was wanted, and is made only
\* by a call that then returns ZUC_OK.
THEOREM HandlesMadeAsAsked == Spec => MadeAsAsked
<1>1. ASSUME IInv, [Next]_vars, NEW h \in Handle, Held(h)', ~Held(h)
      PROVE  /\ ret'.st = "OK" /\ ret'.call.fn \in Maker
             /\ pkey[h]' = [key |-> ret'.call.m.key, private |-> ret'.call.private]
  <2>1. pkey \in [Handle -> Material \union {NoMaterial}] /\ call \in Call
      BY <1>1 DEF IInv, TypeOK
  <2>2. from_psa_export
    <3>1. pkey' # pkey
        BY <1>1 DEF Held
    <3>2. ASSUME NEW g \in Handle, zuc_pkey_free(g) PROVE FALSE
        BY <1>1, <2>1, <3>2 DEF zuc_pkey_free, Held
    <3> QED BY <1>1, <3>1, <3>2, OnlyExportMakes
  <2>3. PICK g \in FreeHandle : ~call.pub /\ pkey' = [pkey EXCEPT ![g] = Taken] /\ Return("OK")
      BY <1>1, <2>2 DEF from_psa_export, Held
  <2>4. call.fn \in Maker /\ Taken = [key |-> call.m.key, private |-> call.private]
      BY <1>1, <2>2, <2>3, TakenAsAsked DEF from_psa_export
  <2>5. g = h /\ pkey'[h] = Taken
      BY <1>1, <2>1, <2>3 DEF Held
  <2>6. /\ ret'.st = "OK" /\ ret'.call.fn = call.fn /\ ret'.call.m = call.m
        /\ ret'.call.private = call.private
      BY <2>1, <2>3 DEF Return, zuc_int_memory_or, Call
  <2> QED BY <2>4, <2>5, <2>6
<1>2. IInv /\ [Next]_vars =>
         [\A h \in Handle : Held(h)' /\ ~Held(h) =>
             /\ ret'.st = "OK" /\ ret'.call.fn \in Maker
             /\ pkey[h]' = [key |-> ret'.call.m.key, private |-> ret'.call.private]]_vars
    BY <1>1
<1> QED BY <1>2, Invariant, PTL DEF Spec, MadeAsAsked

-----------------------------------------------------------------------------
(* zucrypt.h's contract *)

\* While a call is under way the random source has not failed, and a key that
\* was read came from an input that holds one.
Steady ==
    call.pc # "idle" =>
        /\ ~dry
        /\ call.fn = "parse" /\ call.pc \notin {"copy", "read"} => call.arg \in {"der", "pem"}

\* What the random source is asked for.
Drawing == {"generate", "sign", "encrypt"}

\* A step with which the call goes on as call c: the caller sees nothing of it.
Going(c) ==
    /\ Goto(c)
    /\ c.pc # "idle" /\ Asked(c) = Asked(call)
    /\ ~dry'
    /\ c.fn = "parse" /\ c.pc \notin {"copy", "read"} => c.arg \in {"der", "pem"}
    /\ UNCHANGED <<pkey, out>>

\* What the call has done when it returns ZUC_OK.
Achieved ==
    \/ /\ call.fn \in Maker
       /\ call.fn = "parse" => call.arg \in {"der", "pem"}
       /\ call.private => call.m.private
       /\ \E h \in Handle : ~Held(h) /\ pkey' = [pkey EXCEPT ![h] = [key |-> call.m.key, private |-> call.private]]
       /\ UNCHANGED out
    \/ /\ call.fn \in {"write", "export"} /\ ~call.small
       /\ out' = IF call.private THEN "private" ELSE "public"
       /\ UNCHANGED pkey
    \/ /\ call.fn \in {"sign", "encrypt", "decrypt", "agree"}
       /\ call.fn = "decrypt" => call.truth = "valid" /\ ~call.small
       /\ out' = "result"
       /\ UNCHANGED pkey
    \/ /\ call.fn = "verify" /\ call.truth = "valid"
       /\ UNCHANGED <<out, pkey>>

\* A step with which the call returns st, before the watch has its say.
Ending(st) ==
    /\ Return(st)
    /\ st = "AUTH" => call.fn \in {"verify", "decrypt"}
    /\ st = "ENTROPY" => dry'
    /\ dry' /\ call.fn \in Drawing => st = "ENTROPY"
    /\ IF st = "OK" THEN ~dry' /\ Achieved ELSE st # "NOT_READY" /\ UNCHANGED pkey

\* Every step of a call under way is of one of these kinds.
Shaped ==
    /\ call.pc # "idle"
    /\ ready' = ready /\ lacked' \in BOOLEAN /\ (lacked => lacked')
    /\ (\E c \in Call : Going(c)) \/ (\E st \in Status : Ending(st))

LEMMA UnderWay ==
    ASSUME IInv, call.pc # "idle"
    PROVE  /\ call \in Call /\ call.fn \in Fn \ {"none"} /\ out = "before" /\ lacked \in BOOLEAN /\ dry \in BOOLEAN
           /\ call.private \in BOOLEAN /\ call.small \in BOOLEAN
<1>1. /\ call \in Call /\ out = "before" /\ lacked \in BOOLEAN /\ dry \in BOOLEAN
    BY DEF IInv, TypeOK, Watched
<1>2. call.fn # "none"
    BY <1>1 DEF IInv, Route, Call, Maker, Operating
<1> QED BY <1>1, <1>2 DEF Call

LEMMA AskedTyped ==
    ASSUME NEW c \in Call
    PROVE  /\ Asked(c) \in Contract!Request
           /\ Asked([c EXCEPT !.pc = "idle"]) = Asked(c)
<1>1. /\ c.fn \in Fn /\ c.h \in Handle \union {NoHandle} /\ c.peer \in Handle \union {NoHandle}
      /\ c.private \in BOOLEAN /\ c.arg \in Format \union Input \union Scheme /\ c.truth \in Truth
      /\ c.small \in BOOLEAN /\ c.m \in Material \union {NoMaterial}
    BY DEF Call
<1>2. Asked(c) \in Contract!Request
    BY <1>1 DEF Asked, Contract!Request, Contract!Fn, Contract!Maker, Contract!Format, Contract!Input, Contract!Scheme,
        Contract!Truth, Contract!Material, Contract!NoMaterial, Fn, Maker, Format, Input, Scheme, Truth,
        Material, NoMaterial
<1>3. Asked([c EXCEPT !.pc = "idle"]) = Asked(c)
    BY DEF Call, Asked
<1> QED BY <1>2, <1>3

\* A call goes on: the contract sees an allocation fail, or nothing.
LEMMA GoingMeets ==
    ASSUME IInv, Steady, Shaped, NEW c \in Call, Going(c)
    PROVE  [Contract!Next]_(Contract!vars) /\ Steady'
<1>1. /\ call.pc # "idle" /\ call'.pc # "idle" /\ Asked(call') = Asked(call) /\ ret' = ret
      /\ ready' = ready /\ lacked' \in BOOLEAN /\ (lacked => lacked') /\ dry' = dry /\ UNCHANGED <<pkey, out>>
  <2>1. dry = FALSE /\ dry' = FALSE
      BY UnderWay DEF Shaped, Steady, Going
  <2> QED BY <2>1 DEF Shaped, Going, Goto
<1>2. Steady'
    BY DEF Going, Goto, Steady
<1>3. CASE lacked' = lacked
    BY <1>1, <1>2, <1>3 DEF Contract!vars
<1>4. CASE lacked' # lacked
  <2>1. lacked' = TRUE
    <3>1. lacked \in BOOLEAN
        BY <1>1, UnderWay
    <3> QED BY <1>1, <1>4, <3>1
  <2> QED BY <1>1, <1>2, <2>1 DEF Contract!Next, Contract!Lack
<1> QED BY <1>2, <1>3, <1>4

LEMMA EndingMeets ==
    ASSUME IInv, IInv', Steady, Shaped, NEW st \in Status, Ending(st)
    PROVE  Contract!Next /\ Steady'
<1> DEFINE q == Asked(call)
<1>1. /\ call.pc # "idle" /\ call \in Call /\ call.fn \in Fn \ {"none"} /\ out = "before"
      /\ call' = Idle /\ call'.pc = "idle" /\ Asked(ret'.call) = q
      /\ ret'.call.fn = call.fn /\ ret'.call.truth = call.truth
      /\ ret'.st = IF st # "OK" /\ alloc_failed' THEN "MEMORY" ELSE st
  <2>1. call.pc # "idle" /\ call \in Call /\ call.fn \in Fn \ {"none"} /\ out = "before"
      BY UnderWay DEF Shaped
  <2>2. call' = Idle /\ ret' = [call |-> [call EXCEPT !.pc = "idle"], st |-> zuc_int_memory_or(st)]
      BY DEF Ending, Return
  <2>3. [call EXCEPT !.pc = "idle"].fn = call.fn /\ [call EXCEPT !.pc = "idle"].truth = call.truth
      BY <2>1 DEF Call
  <2> QED BY <2>1, <2>2, <2>3, AskedTyped, IdleTyped DEF zuc_int_memory_or
<1>2. /\ q.fn = call.fn /\ q.arg = call.arg /\ q.private = call.private /\ q.small = call.small /\ q.truth = call.truth
      /\ call.fn \in Maker => q.m = call.m
    BY DEF Asked
<1> HIDE DEF q
<1>3. Done'
    BY <1>1 DEF Done
<1>4. Steady'
    BY <1>1 DEF Steady
<1>5. CASE st = "OK"
  <2>1. Contract!Return("OK")
      BY <1>1, <1>5 DEF Contract!Return, Shaped, q
  <2>2. ~dry' /\ Achieved
      BY <1>5 DEF Ending
  <2>3. Contract!Make \/ Contract!Give \/ Contract!Operate \/ Contract!Verify
      BY <1>1, <1>2, <2>2 DEF Achieved, Contract!Make, Contract!Give, Contract!Operate, Contract!Verify, Contract!Held,
         Contract!Maker, Maker, Held, Contract!NoMaterial, NoMaterial, q
  <2> QED BY <1>4, <2>1, <2>2, <2>3 DEF Contract!Next, Contract!Complete
<1>6. CASE st # "OK"
  <2>1. ret'.st \in Status \ {"OK", "NOT_READY"}
      BY <1>1, <1>6 DEF Ending, Status
  <2>2. /\ ret'.st = "MEMORY" <=> lacked'
        /\ out' \in {"before", "zero"}
        /\ ret'.st = "AUTH" /\ call.fn = "verify" => call.truth # "valid"
      BY <1>1, <1>3, <2>1 DEF IInv, Told, MemoryHonest, NothingHalfMade, VerdictTrue
  <2>3. /\ ret'.st # "MEMORY" => ret'.st = st
        /\ st = "MEMORY" => ret'.st = "MEMORY"
      BY <1>1
  <2>4. /\ ret'.st = "ENTROPY" => dry'
        /\ dry' /\ ~lacked' /\ call.fn \in Drawing => ret'.st = "ENTROPY"
        /\ ret'.st = "AUTH" => call.fn \in {"verify", "decrypt"}
        /\ pkey' = pkey
      BY <1>6, <2>2, <2>3 DEF Ending
  <2>5. Contract!Return(ret'.st)
      BY <1>1 DEF Contract!Return, Shaped, q
  <2>6. Contract!Fail
      BY <1>1, <1>2, <2>1, <2>2, <2>4, <2>5 DEF Contract!Fail, Drawing, Contract!Status, Status, q
  <2> QED BY <1>4, <2>6 DEF Contract!Next
<1> QED BY <1>5, <1>6

\* What a backend call that ends with e tells.
LEMMA CallocTells ==
    ASSUME IInv, Steady, call.pc # "idle", NEW e, zuc_int_calloc(e)
    PROVE  /\ lacked' \in BOOLEAN /\ (lacked => lacked')
           /\ dry' <=> e = "INSUFFICIENT_ENTROPY"
BY UnderWay DEF Steady, zuc_int_calloc

LEMMA QuietTells ==
    ASSUME IInv, Steady, call.pc # "idle", NoBackend \/ MallocFails
    PROVE  lacked' \in BOOLEAN /\ (lacked => lacked') /\ ~dry'
<1>1. lacked \in BOOLEAN /\ dry = FALSE
    BY UnderWay DEF Steady
<1>2. dry' = dry /\ (lacked' = lacked \/ lacked' = TRUE)
    BY DEF NoBackend, MallocFails
<1> QED BY <1>1, <1>2

LEMMA FromPsaTells ==
    ASSUME NEW e \in Psa
    PROVE  /\ zuc_int_from_psa(e) = "ENTROPY" <=> e = "INSUFFICIENT_ENTROPY"
           /\ zuc_int_from_psa(e) \notin {"AUTH", "NOT_READY"}
BY DEF zuc_int_from_psa, Psa, Error

\* The call goes on at another point.
LEMMA GoesOn ==
    ASSUME IInv, Steady, call.pc # "idle", ~dry', NEW c \in Call, Goto(c), c.pc # "idle",
           c.fn = call.fn, c.h = call.h, c.peer = call.peer, c.private = call.private, c.arg = call.arg,
           c.truth = call.truth, c.small = call.small, call.fn \in Maker => c.m = call.m,
           call.pc \in {"copy", "read"} => c.pc = "read" \/ call.arg \in {"der", "pem"},
           UNCHANGED <<ready, pkey, out>>, lacked' \in BOOLEAN, lacked => lacked'
    PROVE  Shaped
<1>1. Asked(c) = Asked(call)
    BY DEF Asked
<1>2. c.fn = "parse" /\ c.pc \notin {"copy", "read"} => c.arg \in {"der", "pem"}
    BY DEF Steady
<1> QED BY <1>1, <1>2 DEF Shaped, Going

LEMMA GoesOnAt ==
    ASSUME IInv, Steady, call.pc \notin {"idle", "copy", "read"}, ~dry', NEW p, [call EXCEPT !.pc = p] \in Call,
           p # "idle", Goto([call EXCEPT !.pc = p]),
           UNCHANGED <<ready, pkey, out>>, lacked' \in BOOLEAN, lacked => lacked'
    PROVE  Shaped
<1> DEFINE c == [call EXCEPT !.pc = p]
<1>1. /\ c \in Call /\ c.pc = p /\ c.fn = call.fn /\ c.h = call.h /\ c.peer = call.peer /\ c.private = call.private
      /\ c.arg = call.arg /\ c.truth = call.truth /\ c.small = call.small /\ c.m = call.m
    BY UnderWay DEF Call
<1>2. Goto(c)
    OBVIOUS
<1> HIDE DEF c
<1> QED BY <1>1, <1>2, GoesOn

\* The call fails for a reason that is not its random source.
LEMMA FailsPlainly ==
    ASSUME IInv, Steady, call.pc # "idle", NEW st \in Status \ {"OK", "NOT_READY", "AUTH", "ENTROPY"}, Return(st),
           dry' => call.fn \notin Drawing,
           UNCHANGED <<ready, pkey>>, lacked' \in BOOLEAN, lacked => lacked'
    PROVE  Shaped
BY DEF Shaped, Ending

\* The call passes on what the backend said.
LEMMA FailsAsTold ==
    ASSUME IInv, Steady, call.pc # "idle", NEW e \in Error, zuc_int_calloc(e), Return(zuc_int_from_psa(e)),
           UNCHANGED <<ready, pkey>>
    PROVE  Shaped
<1>1. e \in Psa /\ e # "SUCCESS"
    BY DEF Psa, Error
<1>2. PICK st \in Status : st = zuc_int_from_psa(e)
    BY <1>1, FromPsa
<1>3. st \notin {"OK", "AUTH", "NOT_READY"} /\ (st = "ENTROPY" <=> dry') /\ lacked' \in BOOLEAN /\ (lacked => lacked')
    BY <1>1, <1>2, FromPsa, FromPsaTells, CallocTells
<1>4. Ending(st)
    BY <1>2, <1>3 DEF Ending
<1> QED BY <1>3, <1>4 DEF Shaped

LEMMA ParseShaped ==
    ASSUME IInv, Steady, parse_copy \/ parse_read \/ parse_attributes
    PROVE  Shaped
<1>1. /\ call.pc \in {"copy", "read", "attrs"} /\ call.pc # "idle" /\ call.fn = "parse" /\ call \in Call
      /\ UNCHANGED <<ready, pkey, out>>
    BY DEF parse_copy, parse_read, parse_attributes, IInv, Route, TypeOK
<1>2. CASE parse_copy
  <2> DEFINE c == [call EXCEPT !.pc = "read"]
  <2>1. CASE MallocFails /\ Return("MEMORY")
      BY <1>1, <2>1, QuietTells, FailsPlainly DEF Status
  <2>2. CASE NoBackend /\ Goto(c)
    <3>1. /\ c \in Call /\ c.pc = "read" /\ c.fn = call.fn /\ c.h = call.h /\ c.peer = call.peer
          /\ c.private = call.private /\ c.arg = call.arg /\ c.truth = call.truth /\ c.small = call.small /\ c.m = call.m
        BY <1>1 DEF Call
    <3> HIDE DEF c
    <3> QED BY <1>1, <2>2, <3>1, QuietTells, GoesOn
  <2> QED BY <1>2, <2>1, <2>2 DEF parse_copy
<1>3. CASE parse_read
  <2> DEFINE c == [call EXCEPT !.pc = "attrs"]
  <2>1. PICK e \in {"SUCCESS", "INSUFFICIENT_MEMORY"},
             r \in {"SUCCESS", "GENERIC", "NOT_SUPPORTED", "INSUFFICIENT_MEMORY"} :
           /\ zuc_int_calloc(e)
           /\ r = "SUCCESS" => call.arg \in {"der", "pem"}
           /\ IF r = "SUCCESS" THEN Goto(c) ELSE Return(parse_status(r))
      BY <1>3 DEF parse_read
  <2>2. ~dry' /\ lacked' \in BOOLEAN /\ (lacked => lacked')
      BY <1>1, <2>1, CallocTells
  <2>3. CASE r = "SUCCESS"
    <3>1. /\ c \in Call /\ c.pc = "attrs" /\ c.fn = call.fn /\ c.h = call.h /\ c.peer = call.peer
          /\ c.private = call.private /\ c.arg = call.arg /\ c.truth = call.truth /\ c.small = call.small /\ c.m = call.m
        BY <1>1 DEF Call
    <3>2. Goto(c)
        BY <2>1, <2>3
    <3> HIDE DEF c
    <3> QED BY <1>1, <2>1, <2>2, <2>3, <3>1, <3>2, GoesOn
  <2>4. CASE r # "SUCCESS"
    <3>1. parse_status(r) \in {"UNSUPPORTED", "MEMORY", "INVALID_ARGUMENT"}
        BY DEF parse_status, MemoryOr
    <3> QED BY <1>1, <2>1, <2>2, <2>4, <3>1, FailsPlainly DEF Status
  <2> QED BY <2>3, <2>4
<1>4. CASE parse_attributes
  <2>1. ~dry' /\ lacked' \in BOOLEAN /\ (lacked => lacked') /\ call.pc = "attrs"
      BY <1>1, <1>4, CallocTells DEF parse_attributes
  <2>2. [call EXCEPT !.pc = "load"] \in Call
      BY <1>1 DEF Call
  <2> QED BY <1>1, <1>4, <2>1, <2>2, GoesOnAt, FailsPlainly DEF parse_attributes, Status
<1> QED BY <1>2, <1>3, <1>4

LEMMA StoreShaped ==
    ASSUME IInv, Steady, pkey_import \/ from_psa_alloc \/ from_psa_export
    PROVE  Shaped
<1>1. /\ call.pc \in {"load", "from_psa", "export"} /\ call \in Call /\ ready' = ready
    BY DEF pkey_import, from_psa_alloc, from_psa_export, IInv, TypeOK
<1>2. CASE pkey_import
  <2>1. PICK e \in Psa :
           /\ zuc_int_calloc(e)
           /\ \/ e = "SUCCESS" /\ Goto([call EXCEPT !.pc = AfterLoad]) /\ out' = out
              \/ e # "SUCCESS" /\ Return(LoadStatus(e))
      BY <1>2 DEF pkey_import
  <2>2. pkey' = pkey
      BY <1>2 DEF pkey_import
  <2>3. CASE e = "SUCCESS"
    <3>1. [call EXCEPT !.pc = AfterLoad] \in Call /\ AfterLoad # "idle"
        BY <1>1 DEF Call, AfterLoad
    <3>2. ~dry' /\ lacked' \in BOOLEAN /\ (lacked => lacked')
        BY <1>1, <2>1, <2>3, CallocTells
    <3> QED BY <1>1, <2>1, <2>2, <2>3, <3>1, <3>2, GoesOnAt
  <2>4. CASE e # "SUCCESS"
    <3>1. e \in Error
        BY <2>4 DEF Psa
    <3>2. CASE call.fn \in {"parse", "import"}
      <4>1. LoadStatus(e) \in {"MEMORY", "INVALID_ARGUMENT"}
          BY <3>2 DEF LoadStatus, MemoryOr
      <4>2. call.fn \notin Drawing
          BY <3>2 DEF Drawing
      <4> QED BY <1>1, <2>1, <2>2, <2>4, <4>1, <4>2, CallocTells, FailsPlainly DEF Status
    <3>3. CASE call.fn \notin {"parse", "import"}
      <4>1. Return(zuc_int_from_psa(e))
          BY <2>1, <2>4, <3>3 DEF LoadStatus
      <4> QED BY <1>1, <2>1, <2>2, <3>1, <4>1, FailsAsTold
    <3> QED BY <3>2, <3>3
  <2> QED BY <2>3, <2>4
<1>3. CASE from_psa_alloc
  <2>1. pkey' = pkey /\ out' = out
      BY <1>3 DEF from_psa_alloc
  <2>2. ASSUME NEW e \in Error, zuc_int_calloc(e), Return(zuc_int_from_psa(e)) PROVE Shaped
      BY <1>1, <2>1, <2>2, FailsAsTold
  <2>3. CASE NoBackend /\ Return("UNSUPPORTED")
      BY <1>1, <2>1, <2>3, QuietTells, FailsPlainly DEF Status
  <2>4. CASE MallocFails /\ Return("MEMORY")
      BY <1>1, <2>1, <2>4, QuietTells, FailsPlainly DEF Status
  <2>5. CASE NoBackend /\ Goto([call EXCEPT !.pc = "export"])
    <3>1. [call EXCEPT !.pc = "export"] \in Call
        BY <1>1 DEF Call
    <3> QED BY <1>1, <2>1, <2>5, <3>1, QuietTells, GoesOnAt
  <2> QED BY <1>3, <2>2, <2>3, <2>4, <2>5 DEF from_psa_alloc
<1>4. CASE from_psa_export
  <2>1. PICK e \in Psa :
           /\ zuc_int_calloc(e)
           /\ \/ /\ e = "SUCCESS"
                 /\ \/ call.pub /\ Goto([call EXCEPT !.pc = "steal"]) /\ pkey' = pkey
                    \/ /\ ~call.pub
                       /\ \E h \in FreeHandle : pkey' = [pkey EXCEPT ![h] = Taken]
                       /\ Return("OK")
              \/ e # "SUCCESS" /\ Return(zuc_int_from_psa(e)) /\ pkey' = pkey
      BY <1>4 DEF from_psa_export
  <2>2. out' = out /\ call.pc = "export"
      BY <1>4 DEF from_psa_export
  <2>3. CASE e # "SUCCESS"
    <3>1. e \in Error
        BY <2>3 DEF Psa
    <3> QED BY <1>1, <2>1, <2>3, <3>1, FailsAsTold
  <2>4. CASE e = "SUCCESS" /\ call.pub
    <3>1. [call EXCEPT !.pc = "steal"] \in Call
        BY <1>1 DEF Call
    <3> QED BY <1>1, <2>1, <2>2, <2>4, <3>1, CallocTells, GoesOnAt
  <2>5. CASE e = "SUCCESS" /\ ~call.pub
    <3>1. ~dry' /\ lacked' \in BOOLEAN /\ (lacked => lacked')
        BY <1>1, <2>1, <2>5, CallocTells
    <3>2. call.fn \in Maker /\ Taken = [key |-> call.m.key, private |-> call.private]
        BY <2>2, <2>5, TakenAsAsked
    <3>3. /\ call.private => call.m.private
          /\ call.fn = "parse" => call.arg \in {"der", "pem"}
        BY <2>2, <3>2 DEF IInv, Halves, Steady
    <3>4. Achieved
        BY <2>1, <2>2, <2>5, <3>2, <3>3 DEF Achieved, FreeHandle
    <3>5. Ending("OK")
        BY <2>1, <2>5, <3>1, <3>4 DEF Ending
    <3> QED BY <1>1, <3>1, <3>5 DEF Shaped, Status
  <2> QED BY <2>3, <2>4, <2>5
<1> QED BY <1>2, <1>3, <1>4

\* public_der() returns to the call that the caller made.
LEMMA AfterPointAsked ==
    ASSUME IInv, call.pc = "point" \/ call.pc = "steal"
    PROVE  LET c == AfterPoint IN
           /\ c \in Call /\ c.pc # "idle" /\ c.fn = call.fn /\ c.h = call.h /\ c.peer = call.peer
           /\ c.private = call.private /\ c.arg = call.arg /\ c.truth = call.truth /\ c.small = call.small
           /\ call.fn \notin Maker
<1>1. call \in Call /\ call.fn \in {"write", "export", "agree"}
    BY DEF IInv, TypeOK, Route
<1>2. AfterPoint \in Call /\ AfterPoint.pc # "idle"
    BY AfterPointControl
<1>3. CASE call.fn = "export"
    BY <1>1, <1>2, <1>3 DEF AfterPoint, Call, Maker
<1>4. CASE call.fn = "write"
    BY <1>1, <1>2, <1>4 DEF AfterPoint, Call, Maker
<1>5. CASE call.fn = "agree"
    BY <1>1, <1>2, <1>5 DEF AfterPoint, Call, Maker
<1> QED BY <1>1, <1>3, <1>4, <1>5

LEMMA EncodeShaped ==
    ASSUME IInv, Steady, public_der \/ public_der_steal \/ spki_der \/ spki_der_write \/ ec_encode
    PROVE  Shaped
<1>1. /\ call.pc \in {"point", "steal", "spki", "spki_write", "encode"} /\ call \in Call
      /\ UNCHANGED <<ready, pkey, out>>
    BY DEF public_der, public_der_steal, spki_der, spki_der_write, ec_encode, IInv, TypeOK
<1>2. CASE MallocFails /\ Return("MEMORY")
    BY <1>1, <1>2, QuietTells, FailsPlainly DEF Status
<1>3. CASE NoBackend /\ Goto(AfterPoint) /\ call.pc \in {"point", "steal"}
  <2>1. PICK c \in Call : c = AfterPoint
      BY <1>3, AfterPointControl
  <2>2. /\ c.pc # "idle" /\ c.fn = call.fn /\ c.h = call.h /\ c.peer = call.peer
        /\ c.private = call.private /\ c.arg = call.arg /\ c.truth = call.truth /\ c.small = call.small
        /\ call.fn \notin Maker
      BY <1>3, <2>1, AfterPointAsked
  <2> QED BY <1>1, <1>3, <2>1, <2>2, QuietTells, GoesOn
<1>4. CASE public_der /\ NoBackend /\ Goto([call EXCEPT !.pc = "load", !.pub = TRUE])
  <2> DEFINE c == [call EXCEPT !.pc = "load", !.pub = TRUE]
  <2>1. /\ c \in Call /\ c.pc = "load" /\ c.fn = call.fn /\ c.h = call.h /\ c.peer = call.peer
        /\ c.private = call.private /\ c.arg = call.arg /\ c.truth = call.truth /\ c.small = call.small /\ c.m = call.m
      BY <1>1 DEF Call
  <2>2. Goto(c)
      BY <1>4
  <2> HIDE DEF c
  <2> QED BY <1>1, <1>4, <2>1, <2>2, QuietTells, GoesOn
<1>5. CASE spki_der \/ spki_der_write
  <2>1. call.pc \in {"spki", "spki_write"} /\ call.fn = "write" /\ call.fn \notin Drawing
      BY <1>5 DEF spki_der, spki_der_write, IInv, Route, Drawing
  <2>2. ASSUME NEW e \in Psa, zuc_int_calloc(e), Return(MemoryOr(e, "BACKEND")) PROVE Shaped
    <3>1. MemoryOr(e, "BACKEND") \in {"MEMORY", "BACKEND"}
        BY DEF MemoryOr
    <3> QED BY <1>1, <2>1, <2>2, <3>1, CallocTells, FailsPlainly DEF Status
  <2>3. ASSUME NEW p \in {"spki_write", "deliver"}, zuc_int_calloc("SUCCESS"), Goto([call EXCEPT !.pc = p]) PROVE Shaped
    <3>1. [call EXCEPT !.pc = p] \in Call
        BY <1>1 DEF Call
    <3> QED BY <1>1, <2>3, <3>1, CallocTells, GoesOnAt
  <2>4. CASE spki_der
      BY <2>2, <2>3, <2>4 DEF spki_der
  <2>5. CASE spki_der_write
      BY <1>2, <2>2, <2>3, <2>5 DEF spki_der_write
  <2> QED BY <1>5, <2>4, <2>5
<1>6. CASE NoBackend /\ Goto([call EXCEPT !.pc = "deliver"])
  <2>1. [call EXCEPT !.pc = "deliver"] \in Call
      BY <1>1 DEF Call
  <2> QED BY <1>1, <1>6, <2>1, QuietTells, GoesOnAt
<1>7. CASE public_der
    BY <1>2, <1>3, <1>4, <1>7 DEF public_der
<1>8. CASE public_der_steal
    BY <1>3, <1>8 DEF public_der_steal
<1>9. CASE ec_encode
    BY <1>2, <1>6, <1>9 DEF ec_encode
<1> QED BY <1>5, <1>7, <1>8, <1>9

LEMMA DeliverShaped ==
    ASSUME IInv, Steady, export_deliver \/ write_deliver
    PROVE  Shaped
<1>1. /\ call.pc = "deliver" /\ call.fn \in {"write", "export"} /\ call.fn \notin Drawing /\ call \in Call
      /\ UNCHANGED <<ready, pkey>>
      /\ Delivered = IF call.private THEN "private" ELSE "public"
    BY DEF export_deliver, write_deliver, IInv, TypeOK, Temps, Drawing
<1>2. ASSUME Return("OK"), out' = Delivered, ~call.small, ~dry', lacked' \in BOOLEAN, lacked => lacked'
      PROVE  Shaped
  <2>1. Achieved
      BY <1>1, <1>2 DEF Achieved
  <2>2. Ending("OK")
      BY <1>2, <2>1 DEF Ending
  <2> QED BY <1>1, <1>2, <2>2 DEF Shaped, Status
<1>3. ASSUME NEW st \in {"BAD_LENGTH", "BACKEND"}, Return(st), lacked' \in BOOLEAN, lacked => lacked'
      PROVE  Shaped
    BY <1>1, <1>3, FailsPlainly DEF Status
<1>4. CASE export_deliver
  <2>1. ~dry' /\ lacked' \in BOOLEAN /\ (lacked => lacked')
      BY <1>1, <1>4, QuietTells DEF export_deliver
  <2> QED BY <1>2, <1>3, <1>4, <2>1 DEF export_deliver
<1>5. CASE write_deliver
  <2>1. CASE NoBackend /\ IF call.small THEN Return("BAD_LENGTH") ELSE Return("OK") /\ out' = Delivered
    <3>1. ~dry' /\ lacked' \in BOOLEAN /\ (lacked => lacked')
        BY <1>1, <2>1, QuietTells
    <3> QED BY <1>2, <1>3, <2>1, <3>1
  <2>2. ASSUME NEW e \in Psa, call.small => e # "SUCCESS", zuc_int_calloc(e),
               CASE e = "SUCCESS"          -> Return("OK") /\ out' = Delivered
                 [] e = "BUFFER_TOO_SMALL" -> Return("BAD_LENGTH") /\ out' = "zero"
                 [] OTHER                  -> Return("BACKEND") /\ out' = "zero"
        PROVE  Shaped
    <3>1. lacked' \in BOOLEAN /\ (lacked => lacked') /\ (dry' <=> e = "INSUFFICIENT_ENTROPY")
        BY <1>1, <2>2, CallocTells
    <3>2. CASE e = "SUCCESS"
        BY <1>2, <2>2, <3>1, <3>2
    <3>3. CASE e = "BUFFER_TOO_SMALL"
        BY <1>3, <2>2, <3>1, <3>3
    <3>4. CASE e \notin {"SUCCESS", "BUFFER_TOO_SMALL"}
        BY <1>3, <2>2, <3>1, <3>4
    <3> QED BY <3>2, <3>3, <3>4
  <2> QED BY <1>5, <2>1, <2>2 DEF write_deliver
<1> QED BY <1>4, <1>5

LEMMA OperateShaped ==
    ASSUME IInv, Steady, sign_operate \/ verify_operate \/ encrypt_operate \/ decrypt_operate \/ agree_operate
    PROVE  Shaped
<1>1. /\ call.pc = "operate" /\ call.fn \in Operating /\ UNCHANGED <<ready, pkey>>
    BY DEF sign_operate, verify_operate, encrypt_operate, decrypt_operate, agree_operate, Operate, Operating
<1>2. ASSUME NEW e \in Psa, zuc_int_calloc(e)
      PROVE  lacked' \in BOOLEAN /\ (lacked => lacked') /\ (dry' <=> e = "INSUFFICIENT_ENTROPY")
    BY <1>1, <1>2, CallocTells
<1>3. ASSUME NEW e \in Psa, zuc_int_calloc(e), e # "SUCCESS", Return(zuc_int_from_psa(e))
      PROVE  Shaped
  <2>1. e \in Error
      BY <1>3 DEF Psa
  <2> QED BY <1>1, <1>3, <2>1, FailsAsTold
<1>4. ASSUME zuc_int_calloc("SUCCESS"), Return("OK"), Achieved
      PROVE  Shaped
  <2>1. lacked' \in BOOLEAN /\ (lacked => lacked') /\ ~dry'
      BY <1>2, <1>4 DEF Psa
  <2>2. Ending("OK")
      BY <1>4, <2>1 DEF Ending
  <2> QED BY <1>1, <2>1, <2>2 DEF Shaped, Status
<1>5. CASE sign_operate
  <2>1. PICK e \in Psa : /\ Operate("sign", e) /\ Return(zuc_int_from_psa(e))
                         /\ out' = IF e = "SUCCESS" THEN "result" ELSE "zero"
      BY <1>5 DEF sign_operate
  <2>2. CASE e = "SUCCESS"
    <3>1. Achieved /\ Return("OK")
        BY <1>1, <2>1, <2>2, FromPsa DEF Achieved, Operate
    <3> QED BY <1>4, <2>1, <2>2, <3>1 DEF Operate
  <2>3. CASE e # "SUCCESS"
      BY <1>3, <2>1, <2>3 DEF Operate
  <2> QED BY <2>2, <2>3
<1>6. CASE verify_operate
  <2>1. PICK e \in Psa :
           /\ Operate("verify", e)
           /\ e = "SUCCESS" => call.truth = "valid"
           /\ Return(IF e \in {"INVALID_SIGNATURE", "INVALID_ARGUMENT"} THEN "AUTH" ELSE zuc_int_from_psa(e))
      BY <1>6 DEF verify_operate
  <2>2. out' = out /\ call.fn = "verify" /\ call.fn \notin Drawing /\ zuc_int_calloc(e)
      BY <1>6, <2>1 DEF verify_operate, Operate, Drawing
  <2>3. CASE e = "SUCCESS"
    <3>1. Achieved /\ Return("OK")
        BY <1>1, <2>1, <2>2, <2>3, FromPsa DEF Achieved
    <3> QED BY <1>4, <2>2, <2>3, <3>1
  <2>4. CASE e \in {"INVALID_SIGNATURE", "INVALID_ARGUMENT"}
    <3>1. Ending("AUTH")
        BY <1>1, <2>1, <2>2, <2>4 DEF Ending
    <3> QED BY <1>1, <1>2, <2>2, <3>1 DEF Shaped, Status
  <2>5. CASE e \notin {"SUCCESS", "INVALID_SIGNATURE", "INVALID_ARGUMENT"}
      BY <1>3, <2>1, <2>2, <2>5
  <2> QED BY <2>3, <2>4, <2>5
<1>7. CASE encrypt_operate
  <2>1. PICK e \in Psa :
           /\ Operate("encrypt", e)
           /\ Return(IF e = "INVALID_ARGUMENT" THEN "BAD_LENGTH" ELSE zuc_int_from_psa(e))
           /\ out' = IF e = "SUCCESS" THEN "result" ELSE "zero"
      BY <1>7 DEF encrypt_operate
  <2>2. zuc_int_calloc(e) /\ call.fn = "encrypt"
      BY <2>1 DEF Operate
  <2>3. CASE e = "SUCCESS"
    <3>1. Achieved /\ Return("OK")
        BY <1>1, <2>1, <2>2, <2>3, FromPsa DEF Achieved
    <3> QED BY <1>4, <2>2, <2>3, <3>1
  <2>4. CASE e = "INVALID_ARGUMENT"
    <3>1. ~dry' /\ lacked' \in BOOLEAN /\ (lacked => lacked') /\ Return("BAD_LENGTH")
        BY <1>2, <2>1, <2>2, <2>4
    <3> QED BY <1>1, <3>1, FailsPlainly DEF Status
  <2>5. CASE e \notin {"SUCCESS", "INVALID_ARGUMENT"}
      BY <1>3, <2>1, <2>2, <2>5
  <2> QED BY <2>3, <2>4, <2>5
<1>8. CASE decrypt_operate
  <2>1. PICK e \in Psa :
           /\ Operate("decrypt", e)
           /\ e = "SUCCESS" => call.truth = "valid" /\ ~call.small
           /\ Return(IF e = "SUCCESS" THEN "OK" ELSE MemoryOr(e, "AUTH"))
           /\ out' = IF e = "SUCCESS" THEN "result" ELSE "zero"
      BY <1>8 DEF decrypt_operate
  <2>2. zuc_int_calloc(e) /\ call.fn = "decrypt" /\ call.fn \notin Drawing
      BY <2>1 DEF Operate, Drawing
  <2>3. CASE e = "SUCCESS"
    <3>1. Achieved /\ Return("OK")
        BY <1>1, <2>1, <2>2, <2>3 DEF Achieved
    <3> QED BY <1>4, <2>2, <2>3, <3>1
  <2>4. CASE e # "SUCCESS"
    <3>1. PICK s \in {"MEMORY", "AUTH"} : Return(s)
        BY <2>1, <2>4 DEF MemoryOr
    <3>2. Ending(s)
        BY <1>1, <2>2, <3>1 DEF Ending
    <3> QED BY <1>1, <1>2, <2>2, <3>2 DEF Shaped, Status
  <2> QED BY <2>3, <2>4
<1>9. CASE agree_operate
  <2>1. PICK e \in Psa, secret \in {"result", "zero"} :
           /\ Operate("agree", e)
           /\ IF e = "SUCCESS" /\ secret = "result" THEN Return("OK") /\ out' = "result"
              ELSE Return(MemoryOr(e, "INVALID_ARGUMENT")) /\ out' = "zero"
      BY <1>9 DEF agree_operate
  <2>2. zuc_int_calloc(e) /\ call.fn = "agree" /\ call.fn \notin Drawing
      BY <2>1 DEF Operate, Drawing
  <2>3. CASE e = "SUCCESS" /\ secret = "result"
    <3>1. Achieved /\ Return("OK")
        BY <1>1, <2>1, <2>2, <2>3 DEF Achieved
    <3> QED BY <1>4, <2>2, <2>3, <3>1
  <2>4. CASE ~(e = "SUCCESS" /\ secret = "result")
    <3>1. PICK s \in {"MEMORY", "INVALID_ARGUMENT"} : Return(s)
        BY <2>1, <2>4 DEF MemoryOr
    <3> QED BY <1>1, <1>2, <2>2, <3>1, FailsPlainly DEF Status
  <2> QED BY <2>3, <2>4
<1> QED BY <1>5, <1>6, <1>7, <1>8, <1>9

\* A call is answered by its arguments: the status is one they deserve, or they
\* deserve none.
Answers(c, st) ==
    IF ~ready THEN st = "NOT_READY"
    ELSE IF st = "OK" THEN Contract!Grounds(Asked(c)) = {}
    ELSE st \in Contract!Grounds(Asked(c)) \union Contract!Unseen(c.fn)

LEMMA EnterMeets ==
    ASSUME IInv, NEW c \in Call, NEW st, Enter(c, st), Answers(c, st), Contract!Asks(Asked(c)),
           st = "OK" => c.pc # "idle" /\ (c.fn = "parse" => c.pc \in {"copy", "read"})
    PROVE  Contract!Next /\ Steady'
<1> DEFINE r == Asked(c)
<1>1. /\ call.pc = "idle" /\ alloc_failed' = FALSE /\ lacked' = FALSE /\ dry' = FALSE /\ out' = "before"
      /\ UNCHANGED <<ready, pkey>>
    BY IdleTyped DEF Enter, zuc_int_alloc_watch
<1>2. r.fn = c.fn
    BY DEF Asked
<1>3. CASE st = "OK"
  <2>1. call' = c /\ ready /\ Contract!Grounds(r) = {}
      BY <1>3 DEF Enter, Answers
  <2>2. Contract!Start(r)
      BY <1>3, <2>1 DEF Contract!Start
  <2>3. Contract!Call
      BY <1>1, <1>3, <2>1, <2>2 DEF Contract!Call
  <2>4. Steady'
      BY <1>1, <1>3, <2>1 DEF Steady
  <2> QED BY <2>3, <2>4 DEF Contract!Next
<1>4. CASE st # "OK"
  <2>1. call' = Idle /\ ret' = [call |-> [c EXCEPT !.pc = "idle"], st |-> st]
      BY <1>1, <1>4 DEF Enter, zuc_int_memory_or
  <2>2. call'.pc = "idle" /\ Asked(ret'.call) = r /\ ret'.st = st
      BY <2>1, AskedTyped, IdleTyped
  <2>3. Contract!Refuse(r)
      BY <1>2, <1>4, <2>2 DEF Contract!Refuse, Answers
  <2>4. Contract!Call
      BY <1>1, <2>2, <2>3 DEF Contract!Call
  <2>5. Steady'
      BY <2>2 DEF Steady
  <2> QED BY <2>4, <2>5 DEF Contract!Next
<1> QED BY <1>3, <1>4

LEMMA HeldAlike == \A h \in Handle : Contract!Held(h) <=> Held(h)
BY DEF Contract!Held, Held, Contract!NoMaterial, NoMaterial

LEMMA MakesMeet == ASSUME IInv, Makes PROVE Contract!Next /\ Steady'
<1>1. ASSUME NEW k \in Key, NEW private \in BOOLEAN, NEW wanted \in BOOLEAN, NEW in \in Input,
             zuc_pkey_parse(k, private, wanted, in)
      PROVE  Contract!Next /\ Steady'
  <2> DEFINE pc == IF in = "pem" THEN "copy" ELSE "read"
             c == [Idle EXCEPT !.fn = "parse", !.pc = pc, !.private = wanted, !.arg = in,
                               !.m = [key |-> k, private |-> private]]
             st == IF ~ready THEN "NOT_READY" ELSE IF in \in {"null", "nul"} THEN "INVALID_ARGUMENT" ELSE "OK"
  <2>1. pc \in {"copy", "read"} /\ Enter(c, st)
      BY <1>1 DEF zuc_pkey_parse
  <2> HIDE DEF pc
  <2>2. c \in Call /\ c.fn = "parse" /\ c.pc \in {"copy", "read"} /\ c.arg = in
    <3>1. [key |-> k, private |-> private] \in Material /\ "parse" \in Fn /\ in \in Format \union Input \union Scheme
        BY DEF Material, Fn, Maker
    <3> QED BY <2>1, <3>1, IdleTyped DEF Call
  <2>3. Enter(c, st)
      BY <2>1
  <2> HIDE DEF c
  <2>4. Asked(c).fn = "parse" /\ Asked(c).arg = in
      BY <2>2 DEF Asked
  <2>5. Answers(c, st)
      BY <2>4 DEF Answers, Contract!Grounds, Contract!Invalid, Contract!Unsupported
  <2>6. Contract!Asks(Asked(c))
      BY <2>2, <2>4, AskedTyped DEF Contract!Asks
  <2> QED BY <2>2, <2>3, <2>5, <2>6, EnterMeets
<1>2. ASSUME NEW k \in Key, NEW known \in BOOLEAN, NEW small \in BOOLEAN, zuc_pkey_generate(k, known, small)
      PROVE  Contract!Next /\ Steady'
  <2> DEFINE c == [Idle EXCEPT !.fn = "generate", !.pc = "load", !.private = TRUE, !.small = small,
                               !.m = [key |-> k, private |-> TRUE]]
             st == IF ~ready THEN "NOT_READY" ELSE IF ~known THEN "UNSUPPORTED"
                   ELSE IF small THEN "BAD_LENGTH" ELSE "OK"
  <2>1. [key |-> k, private |-> TRUE] \in Material
      BY DEF Material
  <2>2. c \in Call /\ c.fn = "generate" /\ c.pc = "load" /\ c.small = small
      BY <2>1, IdleTyped DEF Call, Fn, Maker, Idle
  <2>3. Enter(c, st)
      BY <1>2 DEF zuc_pkey_generate
  <2> HIDE DEF c
  <2>4. Asked(c).fn = "generate" /\ Asked(c).small = small
      BY <2>2 DEF Asked
  <2>5. Answers(c, st)
      BY <2>2, <2>4 DEF Answers, Contract!Grounds, Contract!Invalid, Contract!Unsupported, Contract!Unseen
  <2>6. Contract!Asks(Asked(c))
      BY <2>2, <2>4, AskedTyped DEF Contract!Asks
  <2> QED BY <2>2, <2>3, <2>5, <2>6, EnterMeets
<1>3. ASSUME NEW k \in Key, NEW private \in BOOLEAN, NEW null \in BOOLEAN, NEW known \in BOOLEAN,
             zuc_pkey_import(k, private, null, known)
      PROVE  Contract!Next /\ Steady'
  <2> DEFINE c == [Idle EXCEPT !.fn = "import", !.pc = "load", !.private = private,
                               !.m = [key |-> k, private |-> private]]
             st == IF ~ready THEN "NOT_READY" ELSE IF null THEN "INVALID_ARGUMENT"
                   ELSE IF ~known THEN "UNSUPPORTED" ELSE "OK"
  <2>1. [key |-> k, private |-> private] \in Material
      BY DEF Material
  <2>2. c \in Call /\ c.fn = "import" /\ c.pc = "load"
      BY <2>1, IdleTyped DEF Call, Fn, Maker, Idle
  <2>3. Enter(c, st)
      BY <1>3 DEF zuc_pkey_import
  <2> HIDE DEF c
  <2>4. Asked(c).fn = "import"
      BY <2>2 DEF Asked
  <2>5. Answers(c, st)
      BY <2>2, <2>4 DEF Answers, Contract!Grounds, Contract!Invalid, Contract!Unsupported, Contract!Unseen
  <2>6. Contract!Asks(Asked(c))
      BY <2>2, <2>4, AskedTyped DEF Contract!Asks
  <2> QED BY <2>2, <2>3, <2>5, <2>6, EnterMeets
<1>4. ASSUME NEW h \in Handle, zuc_pkey_public(h)
      PROVE  Contract!Next /\ Steady'
  <2> DEFINE c == [Idle EXCEPT !.fn = "public", !.pc = "load", !.h = h, !.m = pkey[h]]
             st == IF ~ready THEN "NOT_READY" ELSE "OK"
  <2>1. Held(h) /\ pkey[h] \in Material
      BY <1>4, HeldMaterial DEF zuc_pkey_public
  <2>2. c \in Call /\ c.fn = "public" /\ c.pc = "load" /\ c.h = h /\ c.m = pkey[h] /\ ~c.private
      BY <2>1, IdleTyped DEF Call, Fn, Maker, Idle
  <2>3. Enter(c, st)
      BY <1>4 DEF zuc_pkey_public
  <2> HIDE DEF c
  <2>4. Asked(c).fn = "public" /\ Asked(c).h = h /\ Asked(c).m = pkey[h] /\ ~Asked(c).private
      BY <2>2 DEF Asked, Maker
  <2>5. Answers(c, st)
      BY <2>4 DEF Answers, Contract!Grounds, Contract!Invalid, Contract!Unsupported
  <2>6. Contract!Asks(Asked(c))
      BY <2>1, <2>2, <2>4, AskedTyped, HeldAlike DEF Contract!Asks
  <2> QED BY <2>2, <2>3, <2>5, <2>6, EnterMeets
<1> QED BY <1>1, <1>2, <1>3, <1>4 DEF Makes

LEMMA OperationMeets ==
    ASSUME IInv, NEW fn \in Operating \ {"agree"}, NEW usage \in Usage, NEW h \in Handle, NEW scheme \in Scheme,
           NEW truth \in Truth, NEW small \in BOOLEAN, NEW st, Held(h),
           Enter(Operation(fn, usage, h, scheme, truth, small), st),
           ~ready => st = "NOT_READY",
           \A r : /\ r.fn = fn /\ r.h = h /\ r.arg = scheme /\ r.truth = truth /\ r.small = small /\ ready
                  => IF st = "OK" THEN Contract!Grounds(r) = {} ELSE st \in Contract!Grounds(r)
    PROVE  Contract!Next /\ Steady'
<1> DEFINE c == Operation(fn, usage, h, scheme, truth, small)
<1>1. pkey[h] \in Material
    BY HeldMaterial
<1>2. fn \in Fn /\ fn \in {"sign", "verify", "encrypt", "decrypt"}
    BY DEF Operating, Fn
<1>3. /\ c \in Call /\ c.fn = fn /\ c.pc = "load" /\ c.h = h /\ c.arg = scheme /\ c.truth = truth
      /\ c.small = small
    BY <1>1, <1>2, IdleTyped DEF Operation, Call, Idle
<1> HIDE DEF c
<1>4. Enter(c, st)
    BY DEF c
<1>5. /\ Asked(c).fn = fn /\ Asked(c).h = h /\ Asked(c).arg = scheme /\ Asked(c).truth = truth
      /\ Asked(c).small = small
    BY <1>3 DEF Asked
<1>6. Answers(c, st)
    BY <1>5 DEF Answers
<1>7. Contract!Asks(Asked(c))
    BY <1>2, <1>3, <1>5, AskedTyped, HeldAlike DEF Contract!Asks
<1> QED BY <1>2, <1>3, <1>4, <1>6, <1>7, EnterMeets

LEMMA OperationsMeet ==
    ASSUME IInv
    PROVE  \A h \in Handle, scheme \in Scheme, truth \in Truth, small \in BOOLEAN :
              \/ zuc_pkey_sign_hash(h, scheme, small) \/ zuc_pkey_verify_hash(h, scheme, truth, small)
              \/ zuc_pkey_encrypt(h, scheme, small) \/ zuc_pkey_decrypt(h, scheme, truth, small)
              => Contract!Next /\ Steady'
<1>1. ASSUME NEW h \in Handle, NEW scheme \in Scheme, NEW small \in BOOLEAN, zuc_pkey_sign_hash(h, scheme, small)
      PROVE  Contract!Next /\ Steady'
  <2> DEFINE st == IF ~ready THEN "NOT_READY"
                   ELSE IF ~pkey[h].private THEN "INVALID_ARGUMENT"
                   ELSE IF scheme = "none" THEN "UNSUPPORTED"
                   ELSE IF ~scheme_fits(h, scheme) THEN "INVALID_ARGUMENT"
                   ELSE IF small THEN "BAD_LENGTH" ELSE "OK"
  <2>1. Held(h) /\ Enter(Operation("sign", "SIGN_HASH", h, scheme, "valid", small), st)
      BY <1>1 DEF zuc_pkey_sign_hash
  <2>2. ASSUME NEW r, r.fn = "sign", r.h = h, r.arg = scheme, r.truth = "valid", r.small = small, ready
        PROVE  IF st = "OK" THEN Contract!Grounds(r) = {} ELSE st \in Contract!Grounds(r)
      BY <1>1, <2>1, <2>2 DEF Contract!Grounds, Contract!Invalid, Contract!Unsupported, Contract!Fits, Contract!TypeOf,
         Contract!Nist, scheme_fits, Scheme
  <2>3. ~ready => st = "NOT_READY"
      OBVIOUS
  <2> HIDE DEF st
  <2> QED BY <2>1, <2>2, <2>3, OperationMeets DEF Operating, Usage, Truth
<1>2. ASSUME NEW h \in Handle, NEW scheme \in Scheme, NEW truth \in Truth, NEW small \in BOOLEAN,
             zuc_pkey_verify_hash(h, scheme, truth, small)
      PROVE  Contract!Next /\ Steady'
  <2> DEFINE st == IF ~ready THEN "NOT_READY"
                   ELSE IF scheme = "none" THEN "UNSUPPORTED"
                   ELSE IF ~scheme_fits(h, scheme) THEN "INVALID_ARGUMENT"
                   ELSE IF small THEN "BAD_LENGTH"
                   ELSE IF truth = "length" THEN "AUTH" ELSE "OK"
  <2>1. Held(h) /\ Enter(Operation("verify", "VERIFY_HASH", h, scheme, truth, small), st)
      BY <1>2 DEF zuc_pkey_verify_hash
  <2>2. ASSUME NEW r, r.fn = "verify", r.h = h, r.arg = scheme, r.truth = truth, r.small = small, ready
        PROVE  IF st = "OK" THEN Contract!Grounds(r) = {} ELSE st \in Contract!Grounds(r)
      BY <1>2, <2>1, <2>2 DEF Contract!Grounds, Contract!Invalid, Contract!Unsupported, Contract!Fits, Contract!TypeOf,
         Contract!Nist, scheme_fits, Scheme
  <2>3. ~ready => st = "NOT_READY"
      OBVIOUS
  <2> HIDE DEF st
  <2> QED BY <2>1, <2>2, <2>3, OperationMeets DEF Operating, Usage, Truth
<1>3. ASSUME NEW h \in Handle, NEW scheme \in Scheme, NEW small \in BOOLEAN, zuc_pkey_encrypt(h, scheme, small)
      PROVE  Contract!Next /\ Steady'
  <2> DEFINE st == IF ~ready THEN "NOT_READY"
                   ELSE IF scheme = "none" \/ Type[pkey[h].key] # "RSA" THEN "UNSUPPORTED"
                   ELSE IF small THEN "BAD_LENGTH" ELSE "OK"
  <2>1. Held(h) /\ Enter(Operation("encrypt", "ENCRYPT", h, scheme, "valid", small), st)
      BY <1>3 DEF zuc_pkey_encrypt
  <2>2. ASSUME NEW r, r.fn = "encrypt", r.h = h, r.arg = scheme, r.truth = "valid", r.small = small, ready
        PROVE  IF st = "OK" THEN Contract!Grounds(r) = {} ELSE st \in Contract!Grounds(r)
      BY <1>3, <2>1, <2>2 DEF Contract!Grounds, Contract!Invalid, Contract!Unsupported, Contract!Fits, Contract!TypeOf,
         Contract!Nist, scheme_fits, Scheme
  <2>3. ~ready => st = "NOT_READY"
      OBVIOUS
  <2> HIDE DEF st
  <2> QED BY <2>1, <2>2, <2>3, OperationMeets DEF Operating, Usage, Truth
<1>4. ASSUME NEW h \in Handle, NEW scheme \in Scheme, NEW truth \in Truth, NEW small \in BOOLEAN,
             zuc_pkey_decrypt(h, scheme, truth, small)
      PROVE  Contract!Next /\ Steady'
  <2> DEFINE st == IF ~ready THEN "NOT_READY"
                   ELSE IF ~pkey[h].private THEN "INVALID_ARGUMENT"
                   ELSE IF scheme = "none" \/ Type[pkey[h].key] # "RSA" THEN "UNSUPPORTED" ELSE "OK"
  <2>1. Held(h) /\ Enter(Operation("decrypt", "DECRYPT", h, scheme, truth, small), st)
      BY <1>4 DEF zuc_pkey_decrypt
  <2>2. ASSUME NEW r, r.fn = "decrypt", r.h = h, r.arg = scheme, r.truth = truth, r.small = small, ready
        PROVE  IF st = "OK" THEN Contract!Grounds(r) = {} ELSE st \in Contract!Grounds(r)
      BY <1>4, <2>1, <2>2 DEF Contract!Grounds, Contract!Invalid, Contract!Unsupported, Contract!Fits, Contract!TypeOf,
         Contract!Nist, scheme_fits, Scheme
  <2>3. ~ready => st = "NOT_READY"
      OBVIOUS
  <2> HIDE DEF st
  <2> QED BY <2>1, <2>2, <2>3, OperationMeets DEF Operating, Usage, Truth
<1> QED BY <1>1, <1>2, <1>3, <1>4

LEMMA WriteMeets ==
    ASSUME IInv, NEW h \in Handle, NEW fmt \in Format, NEW public_only \in BOOLEAN, NEW small \in BOOLEAN,
           zuc_pkey_write(h, fmt, public_only, small)
    PROVE  Contract!Next /\ Steady'
<1> DEFINE private == pkey[h].private /\ ~public_only
           first == pkey_write_impl(h, fmt, private)
           pc == IF first \in Status THEN "idle" ELSE first
           c == [Idle EXCEPT !.fn = "write", !.h = h, !.private = private, !.arg = fmt,
                             !.small = small, !.m = pkey[h], !.pc = pc]
           st == IF ~ready THEN "NOT_READY" ELSE IF first \in Status THEN first ELSE "OK"
<1>1. Held(h) /\ pkey[h] \in Material /\ private \in BOOLEAN /\ (private => pkey[h].private)
    BY HeldMaterial DEF zuc_pkey_write
<1>2. Type[pkey[h].key] \in {"RSA", "P256", "P384", "P521", "X25519"}
    BY <1>1, KeyAssumption DEF Material
<1> HIDE DEF private
<1>3. /\ first \in {"INVALID_ARGUMENT", "UNSUPPORTED", "load", "point", "encode"}
      /\ first = "INVALID_ARGUMENT" <=> fmt = "other"
      /\ first = "UNSUPPORTED" <=>
            /\ fmt \in {"PKCS1_DER", "PKCS1_PEM"}
            /\ Type[pkey[h].key] = "X25519" \/ (Type[pkey[h].key] \in {"P256", "P384", "P521"} /\ ~private)
    BY <1>2 DEF pkey_write_impl
<1> HIDE DEF first
<1>4. /\ first \in {"INVALID_ARGUMENT", "UNSUPPORTED"} <=> first \in Status
      /\ pc \in {"idle", "load", "point", "encode"} /\ (first \notin Status => pc # "idle")
    BY <1>3 DEF Status
<1> HIDE DEF pc
<1>5. /\ c \in Call /\ c.fn = "write" /\ c.h = h /\ c.private = private /\ c.arg = fmt /\ c.pc = pc
  <2>1. "write" \in Fn /\ Idle \in Call
      BY IdleTyped DEF Fn
  <2>2. c \in Call
      BY <1>1, <1>4, <2>1 DEF Call
  <2> QED BY <2>1, <2>2 DEF Call
<1>6. Enter(c, st)
    BY DEF zuc_pkey_write, private, first, pc
<1> HIDE DEF c
<1>7. Asked(c).fn = "write" /\ Asked(c).h = h /\ Asked(c).private = private /\ Asked(c).arg = fmt
    BY <1>5 DEF Asked
<1>8. Answers(c, st)
    BY <1>3, <1>4, <1>7 DEF Answers, Contract!Grounds, Contract!Invalid, Contract!Unsupported,
       Contract!TypeOf, Contract!Nist
<1>9. Contract!Asks(Asked(c))
    BY <1>1, <1>5, <1>7, AskedTyped, HeldAlike DEF Contract!Asks
<1>10. st = "OK" => c.pc # "idle" /\ c.fn # "parse"
    BY <1>3, <1>4, <1>5
<1> HIDE DEF st
<1> QED BY <1>5, <1>6, <1>8, <1>9, <1>10, EnterMeets

LEMMA ExportMeets ==
    ASSUME IInv, NEW h \in Handle, NEW public_only \in BOOLEAN, NEW small \in BOOLEAN,
           zuc_pkey_export(h, public_only, small)
    PROVE  Contract!Next /\ Steady'
<1> DEFINE private == pkey[h].private /\ ~public_only
           c == [Idle EXCEPT !.fn = "export", !.pc = IF private THEN "deliver" ELSE "point", !.h = h,
                             !.private = private, !.small = small, !.m = pkey[h]]
           st == IF ~ready THEN "NOT_READY" ELSE "OK"
<1>1. Held(h) /\ pkey[h] \in Material /\ private \in BOOLEAN /\ (private => pkey[h].private)
    BY HeldMaterial DEF zuc_pkey_export
<1> HIDE DEF private
<1>2. c \in Call /\ c.fn = "export" /\ c.h = h /\ c.private = private /\ c.pc # "idle"
    BY <1>1, IdleTyped DEF Call, Fn, Maker, Idle
<1>3. Enter(c, st)
    BY DEF zuc_pkey_export, private
<1> HIDE DEF c
<1>4. Asked(c).fn = "export" /\ Asked(c).h = h /\ Asked(c).private = private
    BY <1>2 DEF Asked
<1>5. Answers(c, st)
    BY <1>4 DEF Answers, Contract!Grounds, Contract!Invalid, Contract!Unsupported
<1>6. Contract!Asks(Asked(c))
    BY <1>1, <1>2, <1>4, AskedTyped, HeldAlike DEF Contract!Asks
<1> QED BY <1>2, <1>3, <1>5, <1>6, EnterMeets

LEMMA AgreeMeets ==
    ASSUME IInv, NEW h \in Handle, NEW peer \in Handle, NEW small \in BOOLEAN, zuc_pkey_agree(h, peer, small)
    PROVE  Contract!Next /\ Steady'
<1> DEFINE c == [Idle EXCEPT !.fn = "agree", !.pc = "point", !.h = h, !.peer = peer,
                             !.small = small, !.m = pkey[peer]]
           st == IF ~ready THEN "NOT_READY"
                 ELSE IF Type[pkey[h].key] = "RSA" THEN "UNSUPPORTED"
                 ELSE IF ~pkey[h].private \/ Type[pkey[peer].key] # Type[pkey[h].key] THEN "INVALID_ARGUMENT"
                 ELSE IF small THEN "BAD_LENGTH" ELSE "OK"
<1>1. Held(h) /\ Held(peer) /\ pkey[peer] \in Material
    BY HeldMaterial DEF zuc_pkey_agree
<1>2. c \in Call /\ c.fn = "agree" /\ c.pc = "point" /\ c.h = h /\ c.peer = peer /\ c.small = small
    BY <1>1, IdleTyped DEF Call, Fn, Maker, Idle
<1>3. Enter(c, st)
    BY DEF zuc_pkey_agree
<1> HIDE DEF c
<1>4. Asked(c).fn = "agree" /\ Asked(c).h = h /\ Asked(c).peer = peer /\ Asked(c).small = small
    BY <1>2 DEF Asked
<1>5. Answers(c, st)
    BY <1>4 DEF Answers, Contract!Grounds, Contract!Invalid, Contract!Unsupported, Contract!TypeOf
<1>6. Contract!Asks(Asked(c))
    BY <1>1, <1>2, <1>4, AskedTyped, HeldAlike DEF Contract!Asks
<1> QED BY <1>2, <1>3, <1>5, <1>6, EnterMeets

\* Freeing a handle, and what happens between calls.
LEMMA BetweenMeets ==
    ASSUME IInv, Steady, UNCHANGED vars \/ Window \/ OtherCall \/ \E h \in Handle : zuc_pkey_free(h)
    PROVE  [Contract!Next]_(Contract!vars) /\ Steady'
<1>1. ASSUME NEW h \in Handle, zuc_pkey_free(h) PROVE Contract!Next /\ Steady'
  <2>1. /\ call.pc = "idle" /\ Held(h) /\ pkey' = [pkey EXCEPT ![h] = NoMaterial]
        /\ ret' = [call |-> Idle, st |-> "OK"] /\ UNCHANGED <<ready, call, out, lacked, dry>>
      BY <1>1, IdleTyped DEF zuc_pkey_free
  <2>2. Asked(Idle) = Contract!NoRequest
      BY DEF Asked, Idle, Maker, Contract!NoRequest, Contract!NoMaterial, NoMaterial
  <2>3. Contract!Free(h)
      BY <2>1, <2>2, HeldAlike DEF Contract!Free, Contract!NoMaterial, NoMaterial
  <2> QED BY <2>1, <2>3 DEF Contract!Next, Steady
<1>2. CASE Window
  <2>1. call.pc = "idle" /\ ready' = ~ready /\ UNCHANGED <<pkey, out, call, ret, lacked, dry>>
      BY <1>2, IdleTyped DEF Window
  <2> QED BY <2>1 DEF Contract!Next, Contract!Window, Steady
<1>3. CASE OtherCall \/ UNCHANGED vars
  <2>1. UNCHANGED <<ready, pkey, out, call, ret, lacked, dry>>
      BY <1>3 DEF OtherCall, vars
  <2> QED BY <2>1 DEF Contract!vars, Steady
<1> QED BY <1>1, <1>2, <1>3

LEMMA StepMeets == IInv /\ IInv' /\ Steady /\ [Next]_vars => [Contract!Next]_(Contract!vars) /\ Steady'
<1> SUFFICES ASSUME IInv, IInv', Steady, [Next]_vars PROVE [Contract!Next]_(Contract!vars) /\ Steady'
    OBVIOUS
<1>1. CASE UNCHANGED vars \/ Window \/ OtherCall \/ \E h \in Handle : zuc_pkey_free(h)
    BY <1>1, BetweenMeets
<1>2. CASE Makes
    BY <1>2, MakesMeet
<1>3. ASSUME NEW h \in Handle, Uses(h), ~zuc_pkey_free(h) PROVE Contract!Next /\ Steady'
    BY <1>3, WriteMeets, ExportMeets, OperationsMeet, AgreeMeets DEF Uses, Truth
<1>4. CASE Steps
  <2>1. Shaped
      BY <1>4, ParseShaped, StoreShaped, EncodeShaped, DeliverShaped, OperateShaped DEF Steps
  <2> QED BY <2>1, GoingMeets, EndingMeets DEF Shaped
<1> QED BY <1>1, <1>2, <1>3, <1>4 DEF Next

\* The functions of zuc_pkey.c, step by step and whatever fails, do what
\* zucrypt.h promises of them: a call is refused for what its arguments deserve
\* and before anything is done, a handle is made and the output written only by
\* the step that returns, and the status names the cause.
THEOREM PKeyMeetsContract == Spec => MeetsContract
<1>1. Init => Contract!Init /\ Steady
  <2> SUFFICES ASSUME Init PROVE Contract!Init /\ Steady
      OBVIOUS
  <2>1. call.pc = "idle" /\ ret.call = Idle /\ ret.st = "OK"
      BY IdleTyped DEF Init
  <2>2. Asked(Idle) = Contract!NoRequest
      BY DEF Asked, Idle, Maker, Contract!NoRequest, Contract!NoMaterial, NoMaterial
  <2> QED BY <2>1, <2>2 DEF Init, Contract!Init, Steady, Contract!NoMaterial, NoMaterial
<1> QED BY <1>1, StepMeets, Invariant, PTL DEF Spec, MeetsContract, Contract!Spec

=============================================================================
