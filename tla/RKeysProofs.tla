----------------------------- MODULE RKeysProofs -----------------------------
(***************************************************************************)
(* Ownership, liveness of used handles, and what calls leave behind, for   *)
(* any number of external pointers and native handles.                     *)
(***************************************************************************)
EXTENDS RKeys, TLAPS

\* What a pointer can be: a tag tells its finalizer, and every finalizer of
\* this package's runs at exit too.
Tags ==
    \A p \in Ptr :
        /\ obj[p].tag = "unused" => obj[p] = Unused
        /\ obj[p].tag = "zucrypt_pkey" => obj[p].fin # "aes" /\ (obj[p].addr # Null => obj[p].fin = "pkey")
        /\ obj[p].fin # "none" => obj[p].onexit

\* What a call in progress read from its arguments is still in them.
Args ==
    /\ \A p \in frame.args : obj[p].tag # "unused"
    /\ \A a \in {frame.key, frame.other} \ {Null} :
          \E p \in frame.args : obj[p].tag = "zucrypt_pkey" /\ obj[p].addr = a

\* The pointer a call made, and what it owns by then.
Owner ==
    /\ frame.pc = "idle" => frame = Idle
    /\ frame.pc = "native" /\ frame.fn \in Maker =>
          frame.own \in Ptr /\ obj[frame.own].addr = Null /\ obj[frame.own].fin = "pkey"
             /\ obj[frame.own].tag = "zucrypt_pkey"
    /\ frame.pc = "native" /\ frame.fn = "aes" =>
          frame.own \in Ptr /\ obj[frame.own].addr = Null /\ obj[frame.own].fin = "aes"
             /\ obj[frame.own].tag = "nil"
    /\ frame.pc \in {"out", "chunk", "poll"} =>
          frame.fn = "aes" /\ frame.own \in Ptr /\ obj[frame.own].addr # Null
             /\ obj[frame.own].fin = "aes" /\ obj[frame.own].tag = "nil"
    /\ frame.pc = "result" /\ frame.fn \in Maker \union {"aes"} => frame.own \in Ptr /\ obj[frame.own].tag # "unused"
    /\ frame.pc = "result" /\ frame.fn = "aes" => obj[frame.own].addr = Null

\* What a call has computed.
Work ==
    /\ frame.pc = "ptr" => frame.fn \in Maker \union {"aes"}
    /\ frame.pc = "buf" => frame.fn \in Buffered \union OneShot \union {"info"}
    /\ frame.pc = "trim" => frame.fn \in Buffered
    /\ frame.pc \in {"ptr", "buf", "native"} => frame.st = "OK"
    /\ frame.pc # "result" /\ frame.st = "OK" => ~frame.missed
    /\ frame.pc = "result" /\ frame.fn = "aes" /\ frame.st = "OK" => frame.left = 0 /\ ~frame.missed
    /\ frame.pc = "result" /\ frame.fn \in Buffered => frame.buf = "zero"
    /\ frame.pc \in {"ptr", "buf", "native", "out"} => frame.buf # "secret"
    /\ frame.st # "OK" /\ frame.buf = "secret" => frame.fn = "aes" /\ frame.missed

Ret == WipedOnReturn /\ WholeOrNothing

IInv == TypeOK /\ Tags /\ OwnedOnce /\ Args /\ Owner /\ Work /\ Ret /\ NothingLeft

LEMMA IdleTyped == Idle \in Frame /\ Unused \in Object /\ Ended(Idle, FALSE) \in Outcome
BY RKeysAssumption DEF Idle, Frame, Unused, Object, Ended, Outcome, Fn, Status

LEMMA EndedTyped ==
    ASSUME NEW f \in Frame, NEW j \in BOOLEAN
    PROVE  Ended(f, j) \in Outcome
BY DEF Ended, Frame, Outcome

\* A call that is under way has no outcome.
LEMMA NoOutcome == ASSUME ret' = Ended(Idle, FALSE) PROVE Ret'
<1>1. ret'.fn = "none" /\ ret'.st = "OK"
    BY DEF Ended, Idle
<1> QED BY <1>1 DEF Ret, WipedOnReturn, WholeOrNothing, Buffered, OneShot

LEMMA InitInv == Init => IInv
<1> SUFFICES ASSUME Init PROVE IInv
    OBVIOUS
<1>1. TypeOK
    BY IdleTyped DEF Init, Start, TypeOK
<1>2. Tags /\ OwnedOnce /\ NothingLeft
    BY DEF Init, Start, Tags, OwnedOnce, NothingLeft, Unused
<1>3. Args /\ Owner /\ Work /\ Ret
    BY DEF Init, Start, Args, Owner, Work, Ret, WipedOnReturn, WholeOrNothing, Idle, Ended, Maker, Buffered, OneShot
<1> QED BY <1>1, <1>2, <1>3 DEF IInv

-----------------------------------------------------------------------------
(* Entering and leaving a call *)

LEMMA BeginInv ==
    ASSUME IInv, NEW fn, NEW pc, Begin(fn, pc),
           (pc = "ptr" /\ fn \in Maker) \/ (pc = "buf" /\ fn \in OneShot)
    PROVE  IInv'
<1>1. TypeOK'
  <2>1. [Idle EXCEPT !.fn = fn, !.pc = pc] \in Frame
    <3>1. fn \in Fn /\ pc \in {"ptr", "buf"}
        BY DEF Fn
    <3> QED BY <3>1, IdleTyped DEF Frame
  <2> QED BY <2>1, IdleTyped DEF Begin, IInv, TypeOK
<1>2. Tags' /\ OwnedOnce' /\ NothingLeft'
    BY DEF Begin, IInv, Tags, OwnedOnce, NothingLeft
<1>3. Args' /\ Owner' /\ Work' /\ Ret'
    BY DEF Begin, Args, Owner, Work, Ret, WipedOnReturn, WholeOrNothing, Idle, Ended, Maker, Buffered, OneShot
<1> QED BY <1>1, <1>2, <1>3 DEF IInv

LEMMA BeginKeyInv ==
    ASSUME IInv, NEW fn, NEW pc, NEW p \in Ptr, NEW q \in Ptr, BeginKey(fn, pc, p, q),
           \/ pc = "ptr" /\ fn = "public"
           \/ pc = "buf" /\ fn \in Buffered \union {"info"}
           \/ pc = "native" /\ fn = "verify"
    PROVE  IInv'
<1>1. pkey_get(p) \in Addr \union {Null} /\ pkey_get(q) \in Addr \union {Null}
    BY DEF IInv, TypeOK, Object, pkey_get
<1>2. TypeOK'
  <2>1. [Idle EXCEPT !.fn = fn, !.pc = pc, !.args = {p, q}, !.key = pkey_get(p), !.other = pkey_get(q)] \in Frame
    <3>1. fn \in Fn /\ pc \in {"ptr", "buf", "native"}
        BY DEF Fn, Maker
    <3> QED BY <1>1, <3>1, IdleTyped DEF Frame
  <2> QED BY <2>1, IdleTyped DEF BeginKey, IInv, TypeOK
<1>3. Tags' /\ OwnedOnce' /\ NothingLeft'
    BY DEF BeginKey, IInv, Tags, OwnedOnce, NothingLeft
<1>4. Args'
  <2>1. obj[p].tag # "unused" /\ obj[q].tag # "unused"
      BY DEF BeginKey, IInv, Tags, Unused
  <2> QED BY <2>1 DEF BeginKey, Args, Idle, pkey_get
<1>5. /\ frame'.pc = pc /\ frame'.fn = fn /\ ~frame'.missed /\ frame'.st = "OK"
      /\ frame'.buf = "none" /\ ret' = Ended(Idle, FALSE)
    BY DEF BeginKey, Idle
<1>6. Owner' /\ Work'
  <2>1. pc \notin {"idle", "trim", "out", "chunk", "poll", "result"}
      OBVIOUS
  <2>2. pc = "native" => fn \notin Maker \union {"aes"}
      BY DEF Maker
  <2>3. Owner'
      BY <1>5, <2>1, <2>2 DEF Owner
  <2>4. Work'
      BY <1>5, <2>1 DEF Work, Maker
  <2> QED BY <2>3, <2>4
<1>7. Ret'
    BY <1>5, NoOutcome
<1> QED BY <1>2, <1>3, <1>4, <1>6, <1>7 DEF IInv

LEMMA EntryInv == ASSUME IInv, Entry PROVE IInv'
<1>1. CASE zucrypt_pkey_parse \/ zucrypt_pkey_generate \/ zucrypt_pkey_import \/ zucrypt_aes_gcm \/ zucrypt_pbkdf2
  <2>1. "parse" \in Maker /\ "generate" \in Maker /\ "import" \in Maker /\ "gcm" \in OneShot /\ "pbkdf2" \in OneShot
      BY DEF Maker, OneShot
  <2>2. CASE zucrypt_pkey_parse
      BY <2>1, <2>2, BeginInv DEF zucrypt_pkey_parse
  <2>3. CASE zucrypt_pkey_generate
      BY <2>1, <2>3, BeginInv DEF zucrypt_pkey_generate
  <2>4. CASE zucrypt_pkey_import
      BY <2>1, <2>4, BeginInv DEF zucrypt_pkey_import
  <2>5. CASE zucrypt_aes_gcm
      BY <2>1, <2>5, BeginInv DEF zucrypt_aes_gcm
  <2>6. CASE zucrypt_pbkdf2
      BY <2>1, <2>6, BeginInv DEF zucrypt_pbkdf2
  <2> QED BY <1>1, <2>2, <2>3, <2>4, <2>5, <2>6
<1>2. CASE zucrypt_aes_cbc
  <2>1. PICK n \in 0..MaxChunk : frame' = [Idle EXCEPT !.fn = "aes", !.pc = "ptr", !.left = n]
      BY <1>2 DEF zucrypt_aes_cbc
  <2>2. TypeOK'
    <3>1. [Idle EXCEPT !.fn = "aes", !.pc = "ptr", !.left = n] \in Frame
        BY RKeysAssumption DEF Idle, Frame, Fn, Status
    <3> QED BY <1>2, <2>1, <3>1, IdleTyped DEF zucrypt_aes_cbc, IInv, TypeOK
  <2>3. Tags' /\ OwnedOnce' /\ NothingLeft'
      BY <1>2 DEF zucrypt_aes_cbc, IInv, Tags, OwnedOnce, NothingLeft
  <2>4. Args' /\ Owner' /\ Work' /\ Ret'
      BY <1>2, <2>1 DEF zucrypt_aes_cbc, Args, Owner, Work, Ret, WipedOnReturn, WholeOrNothing, Idle, Ended,
         Maker, Buffered, OneShot
  <2> QED BY <2>2, <2>3, <2>4 DEF IInv
<1>3. ASSUME NEW p \in Ptr,
             \/ zucrypt_pkey_public(p) \/ zucrypt_pkey_info(p) \/ zucrypt_pkey_verify(p)
             \/ zucrypt_pkey_write(p) \/ zucrypt_pkey_sign(p) \/ zucrypt_pkey_crypt(p) \/ zucrypt_pkey_export(p)
             \/ \E q \in Ptr : zucrypt_pkey_agree(p, q)
      PROVE  IInv'
    BY <1>3, BeginKeyInv DEF zucrypt_pkey_public, zucrypt_pkey_info, zucrypt_pkey_verify, zucrypt_pkey_write,
       zucrypt_pkey_sign, zucrypt_pkey_crypt, zucrypt_pkey_export, zucrypt_pkey_agree, Buffered
<1> QED BY <1>1, <1>2, <1>3 DEF Entry

-----------------------------------------------------------------------------
(* Steps that leave pointers and handles alone *)

\* Such a step keeps what is said of them; what is left is the frame.
LEMMA FrameStep ==
    ASSUME IInv, NEW f \in Frame, Goto(f), UNCHANGED <<obj, heap, leftover>>,
           f.args = frame.args, f.key = frame.key, f.other = frame.other
    PROVE  TypeOK' /\ Tags' /\ OwnedOnce' /\ Args' /\ Ret' /\ NothingLeft'
<1>1. TypeOK' /\ Ret'
    BY DEF Goto, IInv, TypeOK, Ret, WipedOnReturn, WholeOrNothing
<1>2. Tags' /\ OwnedOnce' /\ NothingLeft'
    BY DEF IInv, Tags, OwnedOnce, NothingLeft
<1>3. Args'
    BY DEF Goto, IInv, Args
<1> QED BY <1>1, <1>2, <1>3

LEMMA AllocateBufferInv == ASSUME IInv, AllocateBuffer PROVE IInv'
<1>1. PICK f \in Frame : /\ Goto(f)
                         /\ f.args = frame.args /\ f.key = frame.key /\ f.other = frame.other
                         /\ f.fn = frame.fn /\ f.missed = frame.missed
                         /\ f.buf \in {"blank", frame.buf}
                         /\ \/ f.pc = "native" /\ f.st = frame.st
                            \/ f.pc = "result" /\ f.fn = "info"
  <2>1. [frame EXCEPT !.pc = "native", !.buf = "blank"] \in Frame
      BY DEF IInv, TypeOK, Frame
  <2>2. [frame EXCEPT !.pc = "native"] \in Frame
      BY DEF IInv, TypeOK, Frame
  <2>3. [frame EXCEPT !.pc = "result", !.st = "INVALID_ARGUMENT"] \in Frame
      BY DEF IInv, TypeOK, Frame, Status
  <2>4. frame \in Frame
      BY DEF IInv, TypeOK
  <2>5. CASE frame.fn # "info"
    <3>1. Goto([frame EXCEPT !.pc = "native", !.buf = "blank"])
        BY <2>5 DEF AllocateBuffer
    <3> QED BY <2>1, <2>4, <3>1 DEF Frame
  <2>6. CASE frame.fn = "info" /\ frame.key # Null
    <3>1. Goto([frame EXCEPT !.pc = "native"])
        BY <2>6 DEF AllocateBuffer
    <3> QED BY <2>2, <2>4, <3>1 DEF Frame
  <2>7. CASE frame.fn = "info" /\ frame.key = Null
    <3>1. Goto([frame EXCEPT !.pc = "result", !.st = "INVALID_ARGUMENT"])
        BY <2>7 DEF AllocateBuffer
    <3> QED BY <2>3, <2>4, <2>7, <3>1 DEF Frame
  <2> QED BY <2>5, <2>6, <2>7
<1>2. frame.fn \in Buffered \union OneShot \union {"info"} /\ frame.pc = "buf"
    BY DEF AllocateBuffer, IInv, Work
<1>3. Owner' /\ Work'
    BY <1>1, <1>2 DEF Goto, IInv, Owner, Work, Buffered, OneShot, Maker
<1> QED BY <1>1, <1>3, FrameStep DEF AllocateBuffer, IInv

LEMMA UseKeyInv == ASSUME IInv, UseKey PROVE IInv'
<1> DEFINE next == IF frame.fn \in Buffered THEN "trim" ELSE "result"
<1>1. PICK f \in Frame : /\ Goto(f)
                         /\ f.args = frame.args /\ f.key = frame.key /\ f.other = frame.other
                         /\ f.fn = frame.fn /\ f.missed = frame.missed
                         /\ f.pc = next /\ (f.st = "OK" => frame.st = "OK")
                         /\ f.st = frame.st \/ f.buf = frame.buf
  <2>1. [frame EXCEPT !.pc = next, !.st = "INVALID_ARGUMENT"] \in Frame
      BY DEF IInv, TypeOK, Frame, Status
  <2>2. [frame EXCEPT !.pc = next, !.buf = IF frame.fn \in Buffered THEN "secret" ELSE "none"] \in Frame
      BY DEF IInv, TypeOK, Frame
  <2>3. [frame EXCEPT !.pc = next, !.st = "FAILED"] \in Frame
      BY DEF IInv, TypeOK, Frame, Status
  <2>4. frame \in Frame
      BY DEF IInv, TypeOK
  <2>5. CASE Goto([frame EXCEPT !.pc = next, !.st = "INVALID_ARGUMENT"])
      BY <2>1, <2>4, <2>5 DEF Frame
  <2>6. CASE Goto([frame EXCEPT !.pc = next, !.buf = IF frame.fn \in Buffered THEN "secret" ELSE "none"])
      BY <2>2, <2>4, <2>6 DEF Frame
  <2>7. CASE Goto([frame EXCEPT !.pc = next, !.st = "FAILED"])
      BY <2>3, <2>4, <2>7 DEF Frame
  <2> QED BY <2>5, <2>6, <2>7 DEF UseKey
<1>2. frame.fn \in Buffered \union {"verify", "info"} /\ frame.pc = "native"
    BY DEF UseKey
<1>3. Owner' /\ Work'
    BY <1>1, <1>2 DEF Goto, IInv, Owner, Work, Buffered, OneShot, Maker
<1> QED BY <1>1, <1>3, FrameStep DEF UseKey, IInv

LEMMA UseOutputInv == ASSUME IInv, UseOutput PROVE IInv'
<1>1. PICK f \in Frame : /\ Goto(f)
                         /\ f.args = frame.args /\ f.key = frame.key /\ f.other = frame.other
                         /\ f.fn = frame.fn /\ f.pc = "result"
                         /\ f.st = frame.st \/ f.buf # "secret"
  <2>1. [frame EXCEPT !.pc = "result", !.buf = "secret"] \in Frame
      BY DEF IInv, TypeOK, Frame
  <2>2. \A b \in {"blank", "zero"} : [frame EXCEPT !.pc = "result", !.buf = b, !.st = "FAILED"] \in Frame
      BY DEF IInv, TypeOK, Frame, Status
  <2>3. frame \in Frame
      BY DEF IInv, TypeOK
  <2> QED BY <2>1, <2>2, <2>3 DEF UseOutput, Frame
<1>2. frame.fn \in OneShot /\ frame.pc = "native"
    BY DEF UseOutput
<1>3. Owner' /\ Work'
    BY <1>1, <1>2 DEF Goto, IInv, Owner, Work, Buffered, OneShot, Maker
<1> QED BY <1>1, <1>3, FrameStep DEF UseOutput, IInv

LEMMA TrimmedInv == ASSUME IInv, trimmed PROVE IInv'
<1> DEFINE f == [frame EXCEPT !.pc = "result", !.buf = "zero"]
<1>1. f \in Frame /\ f.args = frame.args /\ f.key = frame.key /\ f.other = frame.other
    BY DEF IInv, TypeOK, Frame
<1>2. f.pc = "result" /\ f.fn = frame.fn /\ f.buf = "zero" /\ frame.fn \in Buffered
    BY DEF IInv, TypeOK, Frame, trimmed, Work
<1>3. Goto(f) /\ UNCHANGED <<obj, heap, leftover>>
    BY DEF trimmed
<1> HIDE DEF f
<1>4. Owner' /\ Work'
    BY <1>2, <1>3 DEF Goto, Owner, Work, Buffered, OneShot, Maker
<1>5. TypeOK' /\ Tags' /\ OwnedOnce' /\ Args' /\ Ret' /\ NothingLeft'
    BY <1>1, <1>3, FrameStep
<1> QED BY <1>4, <1>5 DEF IInv

LEMMA AesOutInv == ASSUME IInv, aes_out PROVE IInv'
<1> DEFINE f == [frame EXCEPT !.pc = "chunk", !.buf = "blank"]
<1>1. f \in Frame /\ f.args = frame.args /\ f.key = frame.key /\ f.other = frame.other
    BY DEF IInv, TypeOK, Frame
<1>2. f.pc = "chunk" /\ f.fn = frame.fn /\ f.own = frame.own /\ f.st = frame.st /\ f.missed = frame.missed
      /\ f.buf = "blank"
    BY DEF IInv, TypeOK, Frame
<1>3. Goto(f) /\ UNCHANGED <<obj, heap, leftover>> /\ frame.pc = "out"
    BY DEF aes_out
<1> HIDE DEF f
<1>4. Owner' /\ Work'
    BY <1>2, <1>3 DEF Goto, IInv, Owner, Work
<1>5. TypeOK' /\ Tags' /\ OwnedOnce' /\ Args' /\ Ret' /\ NothingLeft'
    BY <1>1, <1>3, FrameStep
<1> QED BY <1>4, <1>5 DEF IInv

LEMMA AesPollInv == ASSUME IInv, aes_poll PROVE IInv'
<1> DEFINE f == [frame EXCEPT !.pc = "chunk"]
<1>1. f \in Frame /\ f.args = frame.args /\ f.key = frame.key /\ f.other = frame.other
    BY DEF IInv, TypeOK, Frame
<1>2. f.pc = "chunk" /\ f.fn = frame.fn /\ f.own = frame.own /\ f.st = frame.st /\ f.missed = frame.missed
      /\ f.buf = frame.buf
    BY DEF IInv, TypeOK, Frame
<1>3. Goto(f) /\ UNCHANGED <<obj, heap, leftover>> /\ frame.pc = "poll"
    BY DEF aes_poll
<1> HIDE DEF f
<1>4. Owner' /\ Work'
    BY <1>2, <1>3 DEF Goto, IInv, Owner, Work
<1>5. TypeOK' /\ Tags' /\ OwnedOnce' /\ Args' /\ Ret' /\ NothingLeft'
    BY <1>1, <1>3, FrameStep
<1> QED BY <1>4, <1>5 DEF IInv

LEMMA AesChunkInv == ASSUME IInv, aes_chunk PROVE IInv'
<1>1. PICK st \in {"OK", "FAILED"}, b \in {frame.buf, "secret"} :
         Goto([frame EXCEPT !.st = st, !.buf = b, !.missed = @ \/ st # "OK", !.left = @ - 1, !.pc = "poll"])
    BY DEF aes_chunk
<1> DEFINE f == [frame EXCEPT !.st = st, !.buf = b, !.missed = @ \/ st # "OK", !.left = @ - 1, !.pc = "poll"]
<1>2. frame \in Frame /\ frame.pc = "chunk" /\ frame.left > 0 /\ frame.st = "OK"
    BY DEF IInv, TypeOK, aes_chunk
<1>3. frame.left - 1 \in 0..MaxChunk /\ (frame.missed \/ st # "OK") \in BOOLEAN
    BY <1>2, RKeysAssumption DEF Frame
<1>4. f \in Frame /\ f.args = frame.args /\ f.key = frame.key /\ f.other = frame.other
    BY <1>2, <1>3 DEF Frame, Status
<1>5. f.pc = "poll" /\ f.fn = frame.fn /\ f.own = frame.own /\ f.st = st /\ f.missed = (frame.missed \/ st # "OK")
    BY <1>2 DEF Frame
<1>6. Goto(f) /\ UNCHANGED <<obj, heap, leftover>>
    BY <1>1 DEF aes_chunk
<1> HIDE DEF f
<1>7. Owner'
    BY <1>2, <1>5, <1>6 DEF Goto, IInv, Owner
<1>8. Work'
  <2>1. frame.fn = "aes" /\ ~frame.missed
      BY <1>2 DEF IInv, Owner, Work
  <2>2. st # "OK" => f.missed
      BY <1>5
  <2>3. st = "OK" => ~f.missed
      BY <1>5, <2>1
  <2> QED BY <1>5, <1>6, <2>1, <2>2, <2>3 DEF Goto, Work
<1>9. TypeOK' /\ Tags' /\ OwnedOnce' /\ Args' /\ Ret' /\ NothingLeft'
    BY <1>4, <1>6, FrameStep
<1> QED BY <1>7, <1>8, <1>9 DEF IInv

-----------------------------------------------------------------------------
(* Steps that make, fill, clear or finalize a pointer *)

\* A pointer is made, empty: pkey_ptr() and the first lines of
\* zucrypt_aes_cbc().
LEMMA NewPtrInv ==
    ASSUME IInv, NEW p \in UnusedPtr, NEW tag, NEW fin, frame.pc = "ptr",
           NewPtr(p, tag, fin, TRUE), Goto([frame EXCEPT !.own = p, !.pc = "native"]), UNCHANGED <<heap, leftover>>,
           \/ tag = "zucrypt_pkey" /\ fin = "pkey" /\ frame.fn \in Maker
           \/ tag = "nil" /\ fin = "aes" /\ frame.fn = "aes"
    PROVE  IInv'
<1> DEFINE f == [frame EXCEPT !.own = p, !.pc = "native"]
           o == [tag |-> tag, addr |-> Null, fin |-> fin, onexit |-> TRUE, reach |-> FALSE]
<1>1. p \in Ptr /\ obj[p].tag = "unused" /\ obj[p].addr = Null
  <2>1. p \in Ptr /\ obj[p].tag = "unused" /\ obj[p] = Unused
      BY DEF UnusedPtr, IInv, Tags
  <2> QED BY <2>1 DEF Unused
<1>2. o \in Object
    BY DEF Object
<1>3. /\ f \in Frame /\ f.args = frame.args /\ f.key = frame.key /\ f.other = frame.other
      /\ f.own = p /\ f.pc = "native" /\ f.fn = frame.fn /\ f.st = frame.st /\ f.missed = frame.missed
      /\ f.buf = frame.buf
    BY <1>1 DEF IInv, TypeOK, Frame
<1>4. /\ obj' = [obj EXCEPT ![p] = o] /\ frame' = f /\ ret' = ret
      /\ obj'[p] = o /\ \A q \in Ptr : q # p => obj'[q] = obj[q]
    BY <1>1 DEF NewPtr, Goto, IInv, TypeOK
<1>5. o.tag = tag /\ o.addr = Null /\ o.fin = fin /\ o.onexit
    OBVIOUS
<1> HIDE DEF f, o
<1>6. TypeOK' /\ Ret' /\ NothingLeft'
    BY <1>2, <1>3, <1>4 DEF IInv, TypeOK, Ret, WipedOnReturn, WholeOrNothing, NothingLeft
<1>7. Tags'
    BY <1>4, <1>5 DEF IInv, Tags
<1>8. OwnedOnce'
    BY <1>1, <1>4, <1>5 DEF IInv, OwnedOnce
<1>9. Args'
  <2>1. \A q \in frame.args : q \in Ptr /\ q # p
      BY <1>1 DEF IInv, TypeOK, Frame, Args
  <2> QED BY <1>3, <1>4, <2>1 DEF IInv, Args
<1>10. Owner'
    BY <1>1, <1>3, <1>4, <1>5 DEF Owner, Maker
<1>11. Work'
    BY <1>3, <1>4 DEF IInv, Work
<1> QED BY <1>6, <1>7, <1>8, <1>9, <1>10, <1>11 DEF IInv

\* A handle moves into the pointer made for it: pkey_result() and the middle of
\* zucrypt_aes_cbc().
LEMMA FillPtrInv ==
    ASSUME IInv, NEW a \in FreeAddr, NEW kind, NEW f \in Frame, frame.pc = "native", Goto(f),
           heap' = [heap EXCEPT ![a] = kind], obj' = [obj EXCEPT ![frame.own].addr = a], UNCHANGED leftover,
           f.args = frame.args, f.key = frame.key, f.other = frame.other, f.own = frame.own, f.fn = frame.fn,
           f.missed = frame.missed, f.buf = frame.buf,
           \/ kind = "pkey" /\ frame.fn \in Maker /\ f.pc = "result"
           \/ kind = "aes" /\ frame.fn = "aes" /\ f.pc = "out"
    PROVE  IInv'
<1> DEFINE p == frame.own
<1>1. /\ p \in Ptr /\ obj[p].addr = Null /\ obj[p].fin = kind
      /\ obj[p].tag = IF kind = "pkey" THEN "zucrypt_pkey" ELSE "nil"
    BY DEF IInv, Owner
<1>2. a \in Addr /\ heap[a] = "free" /\ a # Null
    BY RKeysAssumption DEF FreeAddr
<1>3. \A q \in Ptr : obj[q].addr # a
    BY <1>2 DEF IInv, OwnedOnce, TypeOK, Object
<1>4. /\ obj'[p] = [obj[p] EXCEPT !.addr = a] /\ obj[p] \in Object
      /\ \A q \in Ptr : q # p => obj'[q] = obj[q]
    BY <1>1 DEF IInv, TypeOK
<1>5. /\ obj'[p].addr = a /\ obj'[p].tag = obj[p].tag /\ obj'[p].fin = kind
      /\ obj'[p].onexit = obj[p].onexit /\ obj'[p] \in Object
    BY <1>1, <1>2, <1>4 DEF Object
<1>6. heap'[a] = kind /\ \A b \in Addr : b # a => heap'[b] = heap[b]
    BY <1>2 DEF IInv, TypeOK
<1>7. frame' = f /\ ret' = ret
    BY DEF Goto
<1>8. TypeOK' /\ Ret' /\ NothingLeft'
    BY <1>1, <1>2, <1>5, <1>7 DEF IInv, TypeOK, Ret, WipedOnReturn, WholeOrNothing, NothingLeft
<1> HIDE DEF p
<1>9. Tags'
  <2> SUFFICES ASSUME NEW q \in Ptr
               PROVE  /\ obj'[q].tag = "unused" => obj'[q] = Unused
                      /\ obj'[q].tag = "zucrypt_pkey" =>
                            obj'[q].fin # "aes" /\ (obj'[q].addr # Null => obj'[q].fin = "pkey")
                      /\ obj'[q].fin # "none" => obj'[q].onexit
      BY DEF Tags
  <2>1. CASE q = p
      BY <2>1, <1>1, <1>5 DEF IInv, Tags
  <2>2. CASE q # p
      BY <2>2, <1>4 DEF IInv, Tags
  <2> QED BY <2>1, <2>2
<1>10. OwnedOnce'
  <2>1. ASSUME NEW b \in Addr, heap'[b] \in {"pkey", "aes"} PROVE \E q \in Ptr : obj'[q].addr = b
    <3>1. CASE b = a
        BY <3>1, <1>1, <1>5
    <3>2. CASE b # a
      <4>1. PICK q \in Ptr : obj[q].addr = b
          BY <2>1, <3>2, <1>6 DEF IInv, OwnedOnce
      <4>2. q # p
          BY <4>1, <1>1, RKeysAssumption
      <4> QED BY <4>1, <4>2, <1>4
    <3> QED BY <3>1, <3>2
  <2>2. ASSUME NEW q \in Ptr, obj'[q].addr # Null
        PROVE  /\ heap'[obj'[q].addr] = IF obj'[q].fin = "none" THEN "other" ELSE obj'[q].fin
               /\ \A r \in Ptr : obj'[r].addr = obj'[q].addr => r = q
    <3>1. CASE q = p
        BY <3>1, <1>3, <1>4, <1>5, <1>6
    <3>2. CASE q # p
      <4>1. obj'[q] = obj[q] /\ obj[q].addr \in Addr /\ obj[q].addr # a
          BY <2>2, <3>2, <1>3, <1>4 DEF IInv, TypeOK, Object
      <4>2. /\ heap[obj[q].addr] = IF obj[q].fin = "none" THEN "other" ELSE obj[q].fin
            /\ \A r \in Ptr : obj[r].addr = obj[q].addr => r = q
          BY <2>2, <4>1 DEF IInv, OwnedOnce
      <4>3. \A r \in Ptr : obj'[r].addr = obj'[q].addr => r = q
          BY <4>1, <4>2, <1>4, <1>5
      <4> QED BY <4>1, <4>2, <4>3, <1>6
    <3> QED BY <3>1, <3>2
  <2> QED BY <2>1, <2>2 DEF OwnedOnce
<1>11. Args'
  <2>1. frame.args \subseteq Ptr
      BY DEF IInv, TypeOK, Frame
  <2>2. \A q \in Ptr : obj'[q].tag = obj[q].tag /\ (obj[q].addr # Null => obj'[q].addr = obj[q].addr)
      BY <1>1, <1>4, <1>5
  <2>3. frame'.args = frame.args /\ frame'.key = frame.key /\ frame'.other = frame.other
      BY <1>7
  <2>4. \A q \in frame'.args : obj'[q].tag # "unused"
      BY <2>1, <2>2, <2>3 DEF IInv, Args
  <2>5. ASSUME NEW b \in {frame'.key, frame'.other} \ {Null}
        PROVE  \E q \in frame'.args : obj'[q].tag = "zucrypt_pkey" /\ obj'[q].addr = b
    <3>1. PICK q \in frame.args : obj[q].tag = "zucrypt_pkey" /\ obj[q].addr = b
        BY <2>3 DEF IInv, Args
    <3> QED BY <3>1, <2>1, <2>2, <2>3
  <2> QED BY <2>4, <2>5 DEF Args
<1>12. "aes" \notin Maker /\ Maker \intersect (Buffered \union OneShot) = {}
    BY DEF Maker, Buffered, OneShot
<1>13. Owner'
    BY <1>1, <1>2, <1>5, <1>7, <1>12 DEF Owner
<1>14. Work'
    BY <1>7, <1>12 DEF IInv, Work
<1> QED BY <1>8, <1>9, <1>10, <1>11, <1>13, <1>14 DEF IInv

LEMMA PkeyPtrInv == ASSUME IInv, pkey_ptr \/ aes_ptr PROVE IInv'
<1>1. CASE pkey_ptr
  <2>1. PICK p \in UnusedPtr : /\ NewPtr(p, "zucrypt_pkey", "pkey", TRUE)
                               /\ Goto([frame EXCEPT !.own = p, !.pc = "native"])
      BY <1>1 DEF pkey_ptr
  <2> QED BY <1>1, <2>1, NewPtrInv DEF pkey_ptr
<1>2. CASE aes_ptr
  <2>1. PICK p \in UnusedPtr : /\ NewPtr(p, "nil", "aes", TRUE)
                               /\ Goto([frame EXCEPT !.own = p, !.pc = "native"])
      BY <1>2 DEF aes_ptr
  <2> QED BY <1>2, <2>1, NewPtrInv DEF aes_ptr
<1> QED BY <1>1, <1>2

\* The native call fails: the pointer stays empty.
LEMMA FailedInv ==
    ASSUME IInv, NEW st \in Status, st # "OK", frame.pc = "native", frame.fn \in Maker \union {"aes"},
           Goto([frame EXCEPT !.pc = "result", !.st = st]), UNCHANGED <<obj, heap, leftover>>
    PROVE  IInv'
<1> DEFINE f == [frame EXCEPT !.pc = "result", !.st = st]
<1>1. f \in Frame /\ f.args = frame.args /\ f.key = frame.key /\ f.other = frame.other
    BY DEF IInv, TypeOK, Frame
<1>2. f.pc = "result" /\ f.fn = frame.fn /\ f.own = frame.own /\ f.st = st /\ f.buf = frame.buf
    BY DEF IInv, TypeOK, Frame
<1>3. Goto(f) /\ frame' = f
    BY DEF Goto
<1> HIDE DEF f
<1>4. Owner'
    BY <1>2, <1>3 DEF IInv, Owner, Maker
<1>5. Work'
    BY <1>2, <1>3 DEF IInv, Work, Maker, Buffered, OneShot
<1>6. TypeOK' /\ Tags' /\ OwnedOnce' /\ Args' /\ Ret' /\ NothingLeft'
    BY <1>1, <1>3, FrameStep
<1> QED BY <1>4, <1>5, <1>6 DEF IInv

LEMMA PkeyResultInv == ASSUME IInv, pkey_result PROVE IInv'
<1>0. frame \in Frame /\ frame.pc = "native" /\ frame.fn \in Maker
    BY DEF pkey_result, IInv, TypeOK
<1>1. CASE \E a \in FreeAddr : /\ heap' = [heap EXCEPT ![a] = "pkey"]
                                /\ obj' = [obj EXCEPT ![frame.own].addr = a]
                                /\ Goto([frame EXCEPT !.pc = "result"])
  <2> DEFINE f == [frame EXCEPT !.pc = "result"]
  <2>1. PICK a \in FreeAddr : /\ heap' = [heap EXCEPT ![a] = "pkey"]
                              /\ obj' = [obj EXCEPT ![frame.own].addr = a]
                              /\ Goto(f)
      BY <1>1
  <2>2. /\ f \in Frame /\ f.args = frame.args /\ f.key = frame.key /\ f.other = frame.other
        /\ f.own = frame.own /\ f.fn = frame.fn /\ f.missed = frame.missed /\ f.pc = "result"
        /\ f.buf = frame.buf
      BY <1>0 DEF Frame
  <2>3. UNCHANGED leftover
      BY DEF pkey_result
  <2> HIDE DEF f
  <2> QED BY <1>0, <2>1, <2>2, <2>3, FillPtrInv
<1>2. CASE /\ UNCHANGED <<obj, heap>>
           /\ \E st \in {"INVALID_ARGUMENT", "FAILED"} : Goto([frame EXCEPT !.pc = "result", !.st = st])
  <2>1. PICK st \in {"INVALID_ARGUMENT", "FAILED"} : Goto([frame EXCEPT !.pc = "result", !.st = st])
      BY <1>2
  <2>2. st \in Status /\ st # "OK"
      BY DEF Status
  <2>3. UNCHANGED <<obj, heap, leftover>>
      BY <1>2 DEF pkey_result
  <2> QED BY <1>0, <2>1, <2>2, <2>3, FailedInv
<1> QED BY <1>1, <1>2 DEF pkey_result

LEMMA AesNewInv == ASSUME IInv, aes_new PROVE IInv'
<1>0. frame \in Frame /\ frame.pc = "native" /\ frame.fn = "aes" /\ UNCHANGED leftover
    BY DEF aes_new, IInv, TypeOK
<1>1. CASE Goto([frame EXCEPT !.pc = "result", !.st = "FAILED"]) /\ UNCHANGED <<obj, heap>>
  <2>1. "FAILED" \in Status
      BY DEF Status
  <2> QED BY <1>0, <1>1, <2>1, FailedInv
<1>2. CASE \E a \in FreeAddr, st \in {"OK", "FAILED"} :
              /\ heap' = [heap EXCEPT ![a] = "aes"]
              /\ obj' = [obj EXCEPT ![frame.own].addr = a]
              /\ Goto([frame EXCEPT !.pc = "out", !.st = st])
  <2>1. PICK a \in FreeAddr, st \in {"OK", "FAILED"} :
              /\ heap' = [heap EXCEPT ![a] = "aes"]
              /\ obj' = [obj EXCEPT ![frame.own].addr = a]
              /\ Goto([frame EXCEPT !.pc = "out", !.st = st])
      BY <1>2
  <2> DEFINE f == [frame EXCEPT !.pc = "out", !.st = st]
  <2>2. /\ f \in Frame /\ f.args = frame.args /\ f.key = frame.key /\ f.other = frame.other
        /\ f.own = frame.own /\ f.fn = frame.fn /\ f.missed = frame.missed /\ f.pc = "out"
        /\ f.buf = frame.buf
      BY <1>0 DEF Frame, Status
  <2>3. Goto(f)
      BY <2>1
  <2> HIDE DEF f
  <2> QED BY <1>0, <2>1, <2>2, <2>3, FillPtrInv
<1> QED BY <1>1, <1>2 DEF aes_new

\* A pointer gives up what it owns, which is freed: nothing else owned it.
LEMMA ClearOwned ==
    ASSUME IInv, NEW p \in Ptr, heap' = Finalized(p), obj'[p].addr = Null,
           \A q \in Ptr : q # p => obj'[q] = obj[q]
    PROVE  OwnedOnce' /\ heap' \in [Addr -> {"free", "pkey", "aes", "other"}]
<1>1. obj[p].addr # Null => obj[p].addr \in Addr /\ \A q \in Ptr : obj[q].addr = obj[p].addr => q = p
    BY DEF IInv, TypeOK, Object, OwnedOnce
<1>2. /\ heap \in [Addr -> {"free", "pkey", "aes", "other"}]
      /\ heap' \in [Addr -> {"free", "pkey", "aes", "other"}]
    BY <1>1 DEF Finalized, IInv, TypeOK
<1>3. \A b \in Addr : heap'[b] = IF b = obj[p].addr THEN "free" ELSE heap[b]
    BY <1>1, <1>2, RKeysAssumption DEF Finalized
<1>4. ASSUME NEW b \in Addr, heap'[b] \in {"pkey", "aes"} PROVE \E q \in Ptr : obj'[q].addr = b
  <2>1. b # obj[p].addr /\ heap[b] \in {"pkey", "aes"}
      BY <1>3, <1>4
  <2>2. PICK q \in Ptr : obj[q].addr = b
      BY <2>1 DEF IInv, OwnedOnce
  <2> QED BY <2>1, <2>2
<1>5. ASSUME NEW q \in Ptr, obj'[q].addr # Null
      PROVE  /\ heap'[obj'[q].addr] = IF obj'[q].fin = "none" THEN "other" ELSE obj'[q].fin
             /\ \A r \in Ptr : obj'[r].addr = obj'[q].addr => r = q
  <2>1. q # p /\ obj'[q] = obj[q] /\ obj[q].addr \in Addr
      BY <1>5 DEF IInv, TypeOK, Object
  <2>2. /\ heap[obj[q].addr] = IF obj[q].fin = "none" THEN "other" ELSE obj[q].fin
        /\ \A r \in Ptr : obj[r].addr = obj[q].addr => r = q
      BY <1>5, <2>1 DEF IInv, OwnedOnce
  <2>3. obj[q].addr # obj[p].addr
      BY <2>1, <2>2
  <2>4. \A r \in Ptr : obj'[r].addr = obj'[q].addr => r = q
      BY <1>5, <2>1, <2>2
  <2> QED BY <1>3, <2>1, <2>2, <2>3, <2>4
<1> QED BY <1>2, <1>4, <1>5 DEF OwnedOnce

LEMMA AesDoneInv == ASSUME IInv, aes_done PROVE IInv'
<1> DEFINE p == frame.own
           f == [frame EXCEPT !.pc = "result"]
<1>1. /\ frame \in Frame /\ frame.pc = "chunk" /\ (frame.left = 0 \/ frame.st # "OK")
      /\ frame.fn = "aes" /\ p \in Ptr /\ obj[p].addr # Null /\ obj[p].fin = "aes" /\ obj[p].tag = "nil"
    BY DEF aes_done, IInv, TypeOK, Owner
<1>2. /\ f \in Frame /\ f.args = frame.args /\ f.key = frame.key /\ f.other = frame.other
      /\ f.own = p /\ f.fn = "aes" /\ f.missed = frame.missed /\ f.pc = "result" /\ f.st = frame.st
      /\ f.left = frame.left /\ f.buf = frame.buf
    BY <1>1 DEF Frame
<1>3. frame' = f /\ ret' = ret /\ leftover' = leftover /\ heap' = Finalized(p)
    BY <1>1 DEF aes_done, Goto, release_ptr, Finalized
<1>4. /\ obj'[p] = [obj[p] EXCEPT !.addr = Null] /\ obj[p] \in Object
      /\ \A q \in Ptr : q # p => obj'[q] = obj[q]
      /\ obj' \in [Ptr -> Object]
    BY <1>1 DEF aes_done, release_ptr, IInv, TypeOK, Object
<1>5. obj'[p].addr = Null /\ obj'[p].tag = "nil" /\ obj'[p].fin = "aes" /\ obj'[p].onexit = obj[p].onexit
    BY <1>1, <1>4 DEF Object
<1> HIDE DEF p, f
<1>6. OwnedOnce' /\ heap' \in [Addr -> {"free", "pkey", "aes", "other"}]
    BY <1>1, <1>3, <1>4, <1>5, ClearOwned
<1>7. TypeOK' /\ Ret' /\ NothingLeft'
    BY <1>2, <1>3, <1>4, <1>6 DEF IInv, TypeOK, Ret, WipedOnReturn, WholeOrNothing, NothingLeft
<1>8. Tags'
    BY <1>1, <1>4, <1>5 DEF IInv, Tags
<1>9. Args'
  <2>1. \A q \in Ptr : obj[q].tag # "nil" => obj'[q] = obj[q]
      BY <1>1, <1>4
  <2>2. \A q \in Ptr : obj'[q].tag = obj[q].tag
      BY <1>1, <1>4, <1>5
  <2>3. frame.args \subseteq Ptr
      BY <1>1 DEF Frame
  <2>4. \A q \in frame'.args : obj'[q].tag # "unused"
      BY <1>2, <1>3, <2>2, <2>3 DEF IInv, Args
  <2>5. ASSUME NEW b \in {frame'.key, frame'.other} \ {Null}
        PROVE  \E q \in frame'.args : obj'[q].tag = "zucrypt_pkey" /\ obj'[q].addr = b
    <3>1. PICK q \in frame.args : obj[q].tag = "zucrypt_pkey" /\ obj[q].addr = b
        BY <1>2, <1>3 DEF IInv, Args
    <3> QED BY <3>1, <2>1, <2>3, <1>2, <1>3
  <2> QED BY <2>4, <2>5 DEF Args
<1>10. Owner'
    BY <1>1, <1>2, <1>3, <1>5 DEF Owner, Maker
<1>11. Work'
    BY <1>1, <1>2, <1>3 DEF IInv, Work, Buffered, OneShot
<1> QED BY <1>6, <1>7, <1>8, <1>9, <1>10, <1>11 DEF IInv

LEMMA CollectInv == ASSUME IInv, NEW p \in Ptr, Collect(p) PROVE IInv'
<1>1. p \notin frame.args /\ p # frame.own /\ UNCHANGED <<frame, ret, leftover>> /\ heap' = Finalized(p)
    BY DEF Collect
<1>2. obj'[p] = Unused /\ (\A q \in Ptr : q # p => obj'[q] = obj[q]) /\ obj' \in [Ptr -> Object]
    BY IdleTyped DEF Collect, IInv, TypeOK
<1>3. Unused.addr = Null /\ Unused.tag = "unused" /\ Unused.fin = "none"
    BY DEF Unused
<1>4. OwnedOnce' /\ heap' \in [Addr -> {"free", "pkey", "aes", "other"}]
    BY <1>1, <1>2, <1>3, ClearOwned
<1>5. TypeOK' /\ Ret' /\ NothingLeft' /\ Work'
    BY <1>1, <1>2, <1>4 DEF IInv, TypeOK, Ret, WipedOnReturn, WholeOrNothing, NothingLeft, Work
<1>6. Tags'
    BY <1>2, <1>3 DEF IInv, Tags
<1>7. frame.args \subseteq Ptr /\ (frame.own \in Ptr => obj'[frame.own] = obj[frame.own])
    BY <1>1, <1>2 DEF IInv, TypeOK, Frame
<1>8. Args'
    BY <1>1, <1>2, <1>7 DEF IInv, Args
<1>9. Owner'
    BY <1>1, <1>7 DEF IInv, Owner, Maker
<1> QED BY <1>4, <1>5, <1>6, <1>8, <1>9 DEF IInv

-----------------------------------------------------------------------------
(* Between calls *)

\* Nothing is under way any more.
LEMMA AtIdle ==
    ASSUME frame' = Idle
    PROVE  Args' /\ Owner' /\ Work' /\ frame' \in Frame
<1>1. /\ Idle.pc = "idle" /\ Idle.args = {} /\ Idle.key = Null /\ Idle.other = Null /\ ~Idle.missed
      /\ Idle.st = "OK" /\ Idle.buf = "none"
    BY DEF Idle
<1> QED BY <1>1, IdleTyped DEF Args, Owner, Work

\* Only references change.
LEMMA SameOwnership ==
    ASSUME IInv, obj' \in [Ptr -> Object], heap' = heap, leftover' = leftover,
           \A p \in Ptr : /\ obj'[p].tag = obj[p].tag /\ obj'[p].addr = obj[p].addr /\ obj'[p].fin = obj[p].fin
                          /\ obj'[p].onexit = obj[p].onexit
                          /\ obj[p].tag = "unused" => obj'[p] = obj[p]
    PROVE  Tags' /\ OwnedOnce' /\ NothingLeft'
<1>1. Tags' /\ NothingLeft'
    BY DEF IInv, Tags, NothingLeft
<1>2. OwnedOnce'
    BY DEF IInv, OwnedOnce
<1> QED BY <1>1, <1>2

LEMMA ResultInv == ASSUME IInv, result PROVE IInv'
<1>1. frame \in Frame /\ frame.pc = "result" /\ frame' = Idle /\ ret' = Ended(frame, FALSE)
      /\ heap' = heap /\ leftover' = leftover
    BY DEF result, IInv, TypeOK
<1>2. obj' \in [Ptr -> Object] /\ \A p \in Ptr :
          /\ obj'[p].tag = obj[p].tag /\ obj'[p].addr = obj[p].addr /\ obj'[p].fin = obj[p].fin
          /\ obj'[p].onexit = obj[p].onexit
          /\ obj[p].tag = "unused" => obj'[p] = obj[p]
  <2>1. CASE frame.fn \in Maker /\ frame.st = "OK"
    <3>1. obj' = [obj EXCEPT ![frame.own].reach = TRUE] /\ frame.own \in Ptr /\ obj[frame.own].tag # "unused"
        BY <2>1, <1>1 DEF result, IInv, Owner
    <3>2. obj[frame.own] \in Object /\ obj'[frame.own] = [obj[frame.own] EXCEPT !.reach = TRUE]
          /\ \A p \in Ptr : p # frame.own => obj'[p] = obj[p]
        BY <3>1 DEF IInv, TypeOK
    <3>3. /\ obj'[frame.own].tag = obj[frame.own].tag /\ obj'[frame.own].addr = obj[frame.own].addr
          /\ obj'[frame.own].fin = obj[frame.own].fin /\ obj'[frame.own].onexit = obj[frame.own].onexit
          /\ obj'[frame.own] \in Object
        BY <3>2 DEF Object
    <3>4. obj' \in [Ptr -> Object]
        BY <3>1, <3>3 DEF IInv, TypeOK
    <3> QED BY <3>1, <3>2, <3>3, <3>4
  <2>2. CASE ~(frame.fn \in Maker /\ frame.st = "OK")
      BY <2>2 DEF result, IInv, TypeOK
  <2> QED BY <2>1, <2>2
<1>3. Ret'
  <2>1. /\ ret'.fn = frame.fn /\ ret'.st = frame.st /\ ret'.buf = frame.buf /\ ret'.left = frame.left
        /\ ret'.missed = frame.missed
      BY <1>1 DEF Ended
  <2> QED BY <1>1, <2>1 DEF IInv, Work, Ret, WipedOnReturn, WholeOrNothing
<1>4. TypeOK'
    BY <1>1, <1>2, IdleTyped, EndedTyped DEF IInv, TypeOK
<1>5. Tags' /\ OwnedOnce' /\ NothingLeft'
    BY <1>1, <1>2, SameOwnership
<1> QED BY <1>1, <1>3, <1>4, <1>5, AtIdle DEF IInv

LEMMA JumpInv == ASSUME IInv, Jump PROVE IInv'
<1>1. frame \in Frame /\ frame' = Idle /\ ret' = Ended(frame, TRUE) /\ UNCHANGED <<obj, heap, leftover>>
    BY DEF Jump, IInv, TypeOK
<1>2. Ret'
  <2>1. ret'.jumped
      BY <1>1 DEF Ended
  <2> QED BY <2>1 DEF Ret, WipedOnReturn, WholeOrNothing
<1>3. TypeOK'
    BY <1>1, IdleTyped, EndedTyped DEF IInv, TypeOK
<1>4. Tags' /\ OwnedOnce' /\ NothingLeft'
    BY <1>1 DEF IInv, Tags, OwnedOnce, NothingLeft
<1> QED BY <1>1, <1>2, <1>3, <1>4, AtIdle DEF IInv

LEMMA DropInv == ASSUME IInv, NEW p \in Ptr, Drop(p) PROVE IInv'
<1>1. frame' = Idle /\ ret' = ret /\ heap' = heap /\ leftover' = leftover
    BY DEF Drop
<1>2. obj[p].tag # "unused"
    BY DEF Drop, IInv, Tags, Unused
<1>3. obj' \in [Ptr -> Object] /\ \A q \in Ptr :
          /\ obj'[q].tag = obj[q].tag /\ obj'[q].addr = obj[q].addr /\ obj'[q].fin = obj[q].fin
          /\ obj'[q].onexit = obj[q].onexit
          /\ obj[q].tag = "unused" => obj'[q] = obj[q]
    BY <1>2 DEF Drop, IInv, TypeOK, Object
<1>4. TypeOK' /\ Ret'
    BY <1>1, <1>3, IdleTyped DEF IInv, TypeOK, Ret, WipedOnReturn, WholeOrNothing
<1>5. Tags' /\ OwnedOnce' /\ NothingLeft'
    BY <1>1, <1>3, SameOwnership
<1> QED BY <1>1, <1>4, <1>5, AtIdle DEF IInv

LEMMA RestoreInv == ASSUME IInv, NEW p \in Ptr, Restore(p) PROVE IInv'
<1> DEFINE o == [Unused EXCEPT !.tag = "zucrypt_pkey", !.reach = TRUE]
<1>1. frame' = Idle /\ ret' = ret /\ heap' = heap /\ leftover' = leftover
    BY DEF Restore
<1>2. o \in Object /\ o.tag = "zucrypt_pkey" /\ o.addr = Null /\ o.fin = "none"
    BY DEF Unused, Object
<1>3. obj'[p] = o /\ (\A q \in Ptr : q # p => obj'[q] = obj[q]) /\ obj' \in [Ptr -> Object]
    BY <1>2 DEF Restore, IInv, TypeOK
<1>4. obj[p].addr = Null
  <2>1. obj[p] = Unused
      BY DEF Restore, UnusedPtr, IInv, Tags
  <2> QED BY <2>1 DEF Unused
<1> HIDE DEF o
<1>5. TypeOK' /\ Ret' /\ NothingLeft'
    BY <1>1, <1>3, IdleTyped DEF IInv, TypeOK, Ret, WipedOnReturn, WholeOrNothing, NothingLeft
<1>6. Tags'
    BY <1>2, <1>3 DEF IInv, Tags
<1>7. OwnedOnce'
  <2>1. heap' = Finalized(p)
      BY <1>1, <1>4 DEF Finalized
  <2> QED BY <1>2, <1>3, <2>1, ClearOwned
<1> QED BY <1>1, <1>5, <1>6, <1>7, AtIdle DEF IInv

LEMMA ForeignInv == ASSUME IInv, NEW p \in Ptr, NEW a \in Addr, Foreign(p, a) PROVE IInv'
<1> DEFINE o == [Unused EXCEPT !.tag = "foreign", !.addr = a, !.reach = TRUE]
<1>1. frame' = Idle /\ ret' = ret /\ leftover' = leftover /\ heap[a] = "free" /\ a # Null
    BY RKeysAssumption DEF Foreign, FreeAddr
<1>2. o \in Object /\ o.tag = "foreign" /\ o.addr = a /\ o.fin = "none"
    BY DEF Unused, Object
<1>3. obj'[p] = o /\ (\A q \in Ptr : q # p => obj'[q] = obj[q]) /\ obj' \in [Ptr -> Object]
    BY <1>2 DEF Foreign, IInv, TypeOK
<1>4. /\ heap'[a] = "other" /\ (\A b \in Addr : b # a => heap'[b] = heap[b])
      /\ heap' \in [Addr -> {"free", "pkey", "aes", "other"}]
    BY DEF Foreign, IInv, TypeOK
<1>5. obj[p].addr = Null
  <2>1. obj[p] = Unused
      BY DEF Foreign, UnusedPtr, IInv, Tags
  <2> QED BY <2>1 DEF Unused
<1> HIDE DEF o
<1>6. TypeOK' /\ Ret' /\ NothingLeft'
    BY <1>1, <1>3, <1>4, IdleTyped DEF IInv, TypeOK, Ret, WipedOnReturn, WholeOrNothing, NothingLeft
<1>7. Tags'
    BY <1>2, <1>3 DEF IInv, Tags
<1>8. OwnedOnce'
  <2>1. ASSUME NEW b \in Addr, heap'[b] \in {"pkey", "aes"} PROVE \E q \in Ptr : obj'[q].addr = b
    <3>1. PICK q \in Ptr : obj[q].addr = b
        BY <2>1, <1>4 DEF IInv, OwnedOnce
    <3> QED BY <3>1, <1>3, <1>5, RKeysAssumption
  <2>2. \A q \in Ptr : obj[q].addr # a
      BY <1>1 DEF IInv, OwnedOnce, TypeOK, Object
  <2>3. ASSUME NEW q \in Ptr, obj'[q].addr # Null
        PROVE  /\ heap'[obj'[q].addr] = IF obj'[q].fin = "none" THEN "other" ELSE obj'[q].fin
               /\ \A r \in Ptr : obj'[r].addr = obj'[q].addr => r = q
    <3>1. CASE q = p
        BY <3>1, <2>2, <1>2, <1>3, <1>4
    <3>2. CASE q # p
      <4>1. obj'[q] = obj[q] /\ obj[q].addr \in Addr /\ obj[q].addr # a
          BY <2>2, <2>3, <3>2, <1>3 DEF IInv, TypeOK, Object
      <4>2. /\ heap[obj[q].addr] = IF obj[q].fin = "none" THEN "other" ELSE obj[q].fin
            /\ \A r \in Ptr : obj[r].addr = obj[q].addr => r = q
          BY <2>3, <4>1 DEF IInv, OwnedOnce
      <4>3. \A r \in Ptr : obj'[r].addr = obj'[q].addr => r = q
          BY <4>1, <4>2, <1>2, <1>3
      <4> QED BY <4>1, <4>2, <4>3, <1>4
    <3> QED BY <3>1, <3>2
  <2> QED BY <2>1, <2>3 DEF OwnedOnce
<1> QED BY <1>1, <1>6, <1>7, <1>8, AtIdle DEF IInv

\* Whatever is owned has a finalizer that runs at exit.
LEMMA QuitInv == ASSUME IInv, Quit PROVE IInv'
<1>1. leftover' = {}
  <2> SUFFICES ASSUME NEW a \in Addr, heap[a] \in {"pkey", "aes"}
               PROVE  \E p \in Ptr : obj[p].onexit /\ Finalized(p)[a] = "free"
      BY DEF Quit
  <2>1. PICK p \in Ptr : obj[p].addr = a
      BY DEF IInv, OwnedOnce
  <2>2. obj[p].fin # "none" /\ a # Null
      BY <2>1, RKeysAssumption DEF IInv, OwnedOnce
  <2>3. obj[p].onexit
      BY <2>2 DEF IInv, Tags
  <2>4. Finalized(p)[a] = "free"
      BY <2>1, <2>2 DEF Finalized, IInv, TypeOK
  <2> QED BY <2>3, <2>4
<1>2. frame' = Idle /\ ret' = Ended(Idle, FALSE) /\ obj' = [p \in Ptr |-> Unused] /\ heap' = [a \in Addr |-> "free"]
    BY DEF Quit
<1>3. TypeOK'
    BY <1>1, <1>2, IdleTyped DEF TypeOK
<1>4. Tags' /\ OwnedOnce' /\ NothingLeft'
    BY <1>1, <1>2 DEF Tags, OwnedOnce, NothingLeft, Unused
<1>5. Ret'
    BY <1>2, NoOutcome
<1> QED BY <1>2, <1>3, <1>4, <1>5, AtIdle DEF IInv

-----------------------------------------------------------------------------
(* The invariant, and what follows from it *)

LEMMA NextInv == IInv /\ [Next]_vars => IInv'
<1> SUFFICES ASSUME IInv, [Next]_vars PROVE IInv'
    OBVIOUS
<1>1. CASE Entry
    BY <1>1, EntryInv
<1>2. CASE pkey_ptr \/ aes_ptr
    BY <1>2, PkeyPtrInv
<1>3. CASE pkey_result
    BY <1>3, PkeyResultInv
<1>4. CASE AllocateBuffer
    BY <1>4, AllocateBufferInv
<1>5. CASE UseKey
    BY <1>5, UseKeyInv
<1>6. CASE UseOutput
    BY <1>6, UseOutputInv
<1>7. CASE trimmed
    BY <1>7, TrimmedInv
<1>8. CASE aes_new
    BY <1>8, AesNewInv
<1>9. CASE aes_out
    BY <1>9, AesOutInv
<1>10. CASE aes_chunk
    BY <1>10, AesChunkInv
<1>11. CASE aes_poll
    BY <1>11, AesPollInv
<1>12. CASE aes_done
    BY <1>12, AesDoneInv
<1>13. CASE result
    BY <1>13, ResultInv
<1>14. CASE Jump
    BY <1>14, JumpInv
<1>15. ASSUME NEW p \in Ptr, Collect(p) \/ Drop(p) \/ Restore(p) \/ (\E a \in Addr : Foreign(p, a))
       PROVE  IInv'
    BY <1>15, CollectInv, DropInv, RestoreInv, ForeignInv
<1>16. CASE Quit
    BY <1>16, QuitInv
<1>17. CASE UNCHANGED vars
    BY <1>17 DEF vars, IInv, TypeOK, Tags, OwnedOnce, Args, Owner, Work, Ret, WipedOnReturn, WholeOrNothing, NothingLeft
<1> QED BY <1>1, <1>2, <1>3, <1>4, <1>5, <1>6, <1>7, <1>8, <1>9, <1>10, <1>11, <1>12, <1>13, <1>14, <1>15, <1>16, <1>17
    DEF Next

LEMMA Inv == Spec => []IInv
BY InitInv, NextInv, PTL DEF Spec

\* The type invariant of the R side of keys holds.
THEOREM TypeCorrect == Spec => []TypeOK
<1>1. IInv => TypeOK
    BY DEF IInv
<1> QED BY <1>1, Inv, PTL

\* No native handle is leaked or freed twice: zucrypt_crypt.c's pointers and
\* finalizers own each exactly once, at every allocation a jump may leave from.
THEOREM HandlesOwnedOnce == Spec => []OwnedOnce
<1>1. IInv => OwnedOnce
    BY DEF IInv
<1> QED BY <1>1, Inv, PTL

\* The handle pkey_get() returned is live until the native call is over.
THEOREM UsedHandlesLive == Spec => []UsesLive
<1>1. ASSUME IInv PROVE UsesLive
  <2> SUFFICES ASSUME NEW a \in {frame.key, frame.other} \ {Null} PROVE heap[a] = "pkey"
      BY DEF UsesLive
  <2>1. PICK p \in frame.args : obj[p].tag = "zucrypt_pkey" /\ obj[p].addr = a
      BY <1>1 DEF IInv, Args
  <2>2. p \in Ptr /\ a # Null
      BY <1>1 DEF IInv, TypeOK, Frame
  <2>3. obj[p].fin = "pkey"
      BY <1>1, <2>1, <2>2 DEF IInv, Tags
  <2> QED BY <1>1, <2>1, <2>2, <2>3 DEF IInv, OwnedOnce
<1> QED BY <1>1, Inv, PTL

\* trimmed() wipes the buffers of the public-key calls, and no failing call
\* returns with output in the vector it drops, but zucrypt_aes_cbc() when it
\* failed at one of its chunks.
THEOREM ReturnsWiped == Spec => []WipedOnReturn
<1>1. IInv => WipedOnReturn
    BY DEF IInv, Ret
<1> QED BY <1>1, Inv, PTL

\* zucrypt_aes_cbc() hands out whole results only.
THEOREM ResultsWhole == Spec => []WholeOrNothing
<1>1. IInv => WholeOrNothing
    BY DEF IInv, Ret
<1> QED BY <1>1, Inv, PTL

\* The finalizers that run at exit leave no handle.
THEOREM NothingLeftAtExit == Spec => []NothingLeft
<1>1. IInv => NothingLeft
    BY DEF IInv
<1> QED BY <1>1, Inv, PTL

\* zucrypt_aes_cbc() frees its context itself on every path that returns.
THEOREM ContextReleased == Spec => ReleasedEagerly
<1> DEFINE Kept == frame.fn = "aes" /\ frame' = Idle /\ ~ret'.jumped => obj'[frame.own].addr = Null
<1>1. ASSUME IInv, [Next]_vars PROVE [Kept]_vars
  <2> SUFFICES ASSUME Next, frame.fn = "aes", frame' = Idle, ~ret'.jumped PROVE obj'[frame.own].addr = Null
      BY <1>1
  <2>1. Idle.fn = "none" /\ Idle.pc = "idle" /\ frame # Idle /\ frame \in Frame
      BY <1>1 DEF Idle, IInv, TypeOK
  <2>2. CASE result
      BY <1>1, <2>2 DEF result, IInv, Owner, Maker
  <2>3. CASE Jump
      BY <2>3 DEF Jump, Ended
  <2>4. CASE Entry \/ Quit
      BY <2>1, <2>4 DEF Entry, Quit, Begin, BeginKey, zucrypt_aes_cbc, zucrypt_pkey_parse, zucrypt_pkey_generate,
         zucrypt_pkey_import, zucrypt_aes_gcm, zucrypt_pbkdf2, zucrypt_pkey_public, zucrypt_pkey_info,
         zucrypt_pkey_write, zucrypt_pkey_sign, zucrypt_pkey_crypt, zucrypt_pkey_export, zucrypt_pkey_agree,
         zucrypt_pkey_verify
  <2>5. ASSUME NEW p \in Ptr, Collect(p) \/ Drop(p) \/ Restore(p) \/ (\E a \in Addr : Foreign(p, a)) PROVE FALSE
      BY <2>1, <2>5 DEF Collect, Drop, Restore, Foreign
  <2>6. CASE pkey_ptr \/ pkey_result \/ AllocateBuffer \/ UseKey \/ UseOutput \/ trimmed
      BY <2>1, <2>6 DEF pkey_ptr, pkey_result, AllocateBuffer, UseKey, UseOutput, trimmed, Maker, Buffered, OneShot,
         Goto, Frame, IInv, Work
  <2>7. CASE aes_ptr \/ aes_new \/ aes_out \/ aes_chunk \/ aes_poll \/ aes_done
      BY <2>1, <2>7 DEF aes_ptr, aes_new, aes_out, aes_chunk, aes_poll, aes_done, Goto, Frame
  <2> QED BY <2>2, <2>3, <2>4, <2>5, <2>6, <2>7 DEF Next
<1> QED BY <1>1, Inv, PTL DEF Spec, ReleasedEagerly

=============================================================================
