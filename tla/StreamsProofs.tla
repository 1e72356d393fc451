---------------------------- MODULE StreamsProofs ----------------------------
(***************************************************************************)
(* Ownership of contexts, digests of the whole input and the caller's      *)
(* connection, for any number of pointers and contexts and any input.      *)
(***************************************************************************)
EXTENDS Streams, TLAPS, FiniteSetTheorems

\* Where a call has made the pointer that owns its context.
Owning == {"new", "wrap", "read", "update", "poll", "complete", "alloc", "finish", "release", "result"}

\* Where the context is in it.
Feeding == {"read", "update", "poll", "complete", "alloc", "finish", "release"}

\* A live context has an owner, and no two pointers have one address.
Owners ==
    /\ \A c \in Context : heap[c].live => \E p \in Ptr : ptr[p].addr = c
    /\ \A p, q \in Ptr : ptr[p].addr = ptr[q].addr /\ ptr[p].addr # NoContext => p = q
    /\ \A p \in Ptr : ptr[p].addr # NoContext =>
          ptr[p].alive /\ heap[ptr[p].addr].live /\ heap[ptr[p].addr].kind = ptr[p].kind

\* What the call in progress owns.
Points ==
    /\ At("idle") => frame = NoFrame
    /\ frame.mode = "key" => frame.pc \in {"open", "on_exit", "read"}
    /\ At("on_exit") => frame.mode = "key"
    /\ frame.mode # "key" /\ frame.pc \in Owning =>
          frame.p \in Ptr /\ ptr[frame.p].alive /\ ptr[frame.p].kind = frame.kind
    /\ At("new") => Own = NoContext
    /\ frame.mode # "key" /\ (frame.pc \in Feeding \/ (At("wrap") /\ frame.ok)) => Own # NoContext

\* How much of the input has been read, and how much of that is in the context.
Progress ==
    /\ con.pos <= con.arrived /\ con.arrived <= con.len
    /\ frame.pc \in {"idle", "open", "on_exit", "summary", "ptr", "new", "wrap"} => At("idle") \/ con.pos = 0
    /\ frame.mode # "key" =>
          /\ At("wrap") /\ frame.ok => heap[Own].fed = 0
          /\ At("read") => heap[Own].fed = con.pos
          /\ At("update") => heap[Own].fed + 1 = con.pos
          /\ At("poll") /\ frame.ok => heap[Own].fed = con.pos
          /\ frame.pc \in {"complete", "alloc", "finish"} => heap[Own].fed = con.pos
          /\ At("complete") /\ ~con.incomplete => con.pos = con.len
          /\ frame.pc \in {"alloc", "finish"} => con.pos = con.len
          /\ At("release") => ~frame.ok
          /\ At("result") /\ frame.ok => frame.covered = con.len

\* Whether the connection is open, and who closes it.
Opened ==
    frame.mode = "stream" =>
        /\ At("open") => ~frame.mine
        /\ IF frame.mine THEN con.open /\ ~con.was ELSE con.open = con.was

IInv == TypeOK /\ Owners /\ Points /\ Progress /\ Opened /\ WholeInput /\ ConnectionRestored

LEMMA NoFrameTyped == NoFrame \in Frame /\ NoReturn \in [mode: Mode, outcome: Outcome, covered: 0..MaxInput]
BY StreamAssumption DEF NoFrame, NoReturn, Frame, Mode, Kind, Step, Outcome

LEMMA RawTyped == ASSUME NEW n \in 0..MaxInput PROVE RawVector(n) \in Connection
BY StreamAssumption DEF RawVector, Connection

LEMMA InitInv == Init => IInv
<1> SUFFICES ASSUME Init PROVE IInv
    OBVIOUS
<1>1. TypeOK
  <2>1. Dead \in Pointer /\ FreeBlock \in Block
      BY StreamAssumption DEF Dead, Pointer, FreeBlock, Block, Kind
  <2>2. con \in Connection
      BY RawTyped, StreamAssumption DEF Init
  <2> QED BY <2>1, <2>2, NoFrameTyped DEF Init, TypeOK
<1>2. Owners
    BY DEF Init, Owners, Dead, FreeBlock
<1>3. Points /\ Opened
    BY DEF Init, Points, Opened, NoFrame, At, Owning, Feeding
<1>4. Progress
    BY DEF Init, Progress, NoFrame, At, RawVector
<1>5. WholeInput /\ ConnectionRestored
    BY DEF Init, WholeInput, ConnectionRestored, NoReturn
<1> QED BY <1>1, <1>2, <1>3, <1>4, <1>5 DEF IInv

-----------------------------------------------------------------------------
(* Beginning and ending a call *)

LEMMA BeginInv ==
    ASSUME IInv, NEW c \in Connection, frame' \in Frame, frame'.pc \in {"ptr", "open"}, ~frame'.mine,
           frame'.mode = "key" => frame'.pc = "open",
           con' = c, ret' = NoReturn, UNCHANGED <<ptr, heap>>,
           c.pos = 0, c.arrived <= c.len, c.open = c.was
    PROVE  IInv'
<1>1. TypeOK'
    BY NoFrameTyped DEF IInv, TypeOK
<1>2. Owners'
    BY DEF IInv, Owners
<1>3. Points' /\ Opened'
    BY DEF Points, Opened, At, Owning, Feeding
<1>4. Progress'
  <2>1. 0 <= c.arrived
      BY DEF Connection
  <2> QED BY <2>1 DEF Progress, At
<1>5. WholeInput' /\ ConnectionRestored'
    BY DEF WholeInput, ConnectionRestored, NoReturn
<1> QED BY <1>1, <1>2, <1>3, <1>4, <1>5 DEF IInv

\* A call that ends puts the connection back, and returns a digest only of the
\* whole input.
LEMMA ReturnInv ==
    ASSUME IInv, NEW outcome \in Outcome, NEW n \in 0..MaxInput, Return(outcome, n),
           outcome = "value" => n = con.len, UNCHANGED <<ptr, heap>>
    PROVE  IInv'
<1>1. /\ con' \in Connection
      /\ con'.len = con.len /\ con'.arrived = con.arrived /\ con'.pos = con.pos /\ con'.was = con.was
      /\ con'.open = IF frame.mine THEN FALSE ELSE con.open
    BY DEF Return, Unwound, IInv, TypeOK, Connection
<1>2. TypeOK'
    BY <1>1, NoFrameTyped DEF Return, IInv, TypeOK, Frame
<1>3. Owners'
    BY DEF IInv, Owners
<1>4. Points' /\ Opened'
    BY DEF Return, Points, Opened, At, Owning, Feeding, NoFrame
<1>5. Progress'
    BY <1>1 DEF Return, IInv, Progress, At, NoFrame
<1>6. WholeInput'
    BY <1>1 DEF Return, WholeInput
<1>7. ConnectionRestored'
  <2>1. con.open \in BOOLEAN /\ con.was \in BOOLEAN
      BY DEF IInv, TypeOK, Connection
  <2>2. ret'.mode = frame.mode
      BY DEF Return
  <2> QED BY <1>1, <2>1, <2>2 DEF IInv, ConnectionRestored, Opened
<1> QED BY <1>2, <1>3, <1>4, <1>5, <1>6, <1>7 DEF IInv

LEMMA AbortInv ==
    ASSUME IInv, NEW outcome \in Outcome, Abort(outcome), outcome # "value", UNCHANGED <<ptr, heap>>
    PROVE  IInv'
BY ReturnInv, StreamAssumption DEF Abort

-----------------------------------------------------------------------------
(* Steps that leave pointers and contexts alone *)

\* Such a step of a call keeps who owns what; the program point is left.
LEMMA MoveInv ==
    ASSUME IInv, frame' \in Frame, con' \in Connection, con'.len = con.len,
           frame'.pc # "idle", UNCHANGED <<ptr, heap, ret>>
    PROVE  TypeOK' /\ Owners' /\ WholeInput' /\ ConnectionRestored'
<1>1. TypeOK'
    BY DEF IInv, TypeOK
<1>2. Owners'
    BY DEF IInv, Owners
<1>3. WholeInput' /\ ConnectionRestored'
    BY DEF IInv, WholeInput, ConnectionRestored, At
<1> QED BY <1>1, <1>2, <1>3

LEMMA GotoFrame ==
    ASSUME TypeOK, NEW pc \in Step, Goto(pc)
    PROVE  /\ frame' \in Frame
           /\ frame'.pc = pc /\ frame'.mode = frame.mode /\ frame'.kind = frame.kind
           /\ frame'.p = frame.p /\ frame'.ok = frame.ok /\ frame'.mine = frame.mine
           /\ frame'.covered = frame.covered
BY DEF TypeOK, Goto, Frame

\* Moves that read nothing.
LEMMA WalkInv ==
    ASSUME IInv, NEW pc \in Step, Goto(pc), UNCHANGED <<ptr, heap, con, ret>>,
           \/ At("open") /\ frame.mode = "stream" /\ pc = "summary"
           \/ At("open") /\ frame.mode = "key" /\ pc = "read"
           \/ At("summary") /\ pc = "ptr"
           \/ At("wrap") /\ frame.ok /\ pc = "read"
           \/ At("poll") /\ frame.ok /\ pc = "read"
           \/ At("poll") /\ ~frame.ok /\ pc = "release"
           \/ At("complete") /\ ~con.incomplete /\ pc = "alloc"
           \/ At("alloc") /\ pc = "finish"
    PROVE  IInv'
<1>1. /\ frame' \in Frame
      /\ frame'.pc = pc /\ frame'.mode = frame.mode /\ frame'.kind = frame.kind
      /\ frame'.p = frame.p /\ frame'.ok = frame.ok /\ frame'.mine = frame.mine
    BY GotoFrame DEF IInv
<1>2. TypeOK' /\ Owners' /\ WholeInput' /\ ConnectionRestored'
  <2>1. con \in Connection /\ frame'.pc # "idle"
      BY <1>1 DEF IInv, TypeOK
  <2> QED BY <1>1, <2>1, MoveInv
<1>3. Points'
    BY <1>1 DEF IInv, Points, At, Own, Owning, Feeding
<1>4. Progress'
    BY <1>1 DEF IInv, Points, Progress, At, Own, Owning, Feeding
<1>5. Opened'
    BY <1>1 DEF IInv, Opened, At
<1> QED BY <1>2, <1>3, <1>4, <1>5 DEF IInv

LEMMA OpenConnectionInv == ASSUME IInv, OpenConnection PROVE IInv'
<1>1. CASE con.open /\ Goto("summary") /\ UNCHANGED <<con, ret>>
    BY <1>1, WalkInv DEF OpenConnection, Step
<1>2. CASE /\ ~con.open
           /\ frame' = [frame EXCEPT !.pc = "summary", !.mine = TRUE]
           /\ con' = [con EXCEPT !.open = TRUE]
           /\ UNCHANGED ret
  <2>1. /\ frame' \in Frame /\ frame'.pc = "summary" /\ frame'.mode = "stream" /\ frame'.mine
        /\ frame'.p = frame.p
      BY <1>2 DEF OpenConnection, IInv, TypeOK, Frame, Step
  <2>2. /\ con' \in Connection /\ con'.len = con.len /\ con'.arrived = con.arrived /\ con'.pos = con.pos
        /\ con'.was = con.was /\ con'.open
      BY <1>2 DEF IInv, TypeOK, Connection
  <2>3. TypeOK' /\ Owners' /\ WholeInput' /\ ConnectionRestored'
      BY <1>2, <2>1, <2>2, MoveInv DEF OpenConnection
  <2>4. Points'
      BY <2>1 DEF Points, At, Owning, Feeding
  <2>5. Progress'
      BY <2>1, <2>2 DEF OpenConnection, IInv, Progress, At
  <2>6. Opened'
    <3>1. con.was = FALSE
      <4>1. con.was \in BOOLEAN /\ con.open = con.was
          BY DEF OpenConnection, IInv, Opened, At, TypeOK, Connection
      <4> QED BY <1>2, <4>1
    <3> QED BY <2>1, <2>2, <3>1 DEF Opened, At
  <2> QED BY <2>3, <2>4, <2>5, <2>6 DEF IInv
<1>3. CASE Abort("connection_error")
    BY <1>3, AbortInv DEF OpenConnection, Outcome
<1> QED BY <1>1, <1>2, <1>3 DEF OpenConnection

LEMMA KeyOpenInv == ASSUME IInv, key_input_open PROVE IInv'
<1>1. CASE con.open /\ Goto("read") /\ UNCHANGED <<con, ret>>
    BY <1>1, WalkInv DEF key_input_open, Step
<1>2. CASE con' = [con EXCEPT !.open = TRUE] /\ Goto("on_exit") /\ UNCHANGED ret
  <2>1. frame' \in Frame /\ frame'.pc = "on_exit" /\ frame'.mode = "key"
      BY <1>2, GotoFrame DEF key_input_open, IInv, Step
  <2>2. /\ con' \in Connection /\ con'.len = con.len /\ con'.arrived = con.arrived /\ con'.pos = con.pos
      BY <1>2 DEF IInv, TypeOK, Connection
  <2>3. TypeOK' /\ Owners' /\ WholeInput' /\ ConnectionRestored'
      BY <1>2, <2>1, <2>2, MoveInv DEF key_input_open
  <2>4. Points' /\ Opened'
      BY <2>1 DEF Points, Opened, At, Owning, Feeding
  <2>5. Progress'
      BY <2>1, <2>2 DEF key_input_open, IInv, Progress, At
  <2> QED BY <2>3, <2>4, <2>5 DEF IInv
<1>3. CASE Abort("connection_error")
    BY <1>3, AbortInv DEF key_input_open, Outcome
<1> QED BY <1>1, <1>2, <1>3 DEF key_input_open

LEMMA KeyOnExitInv == ASSUME IInv, key_input_on_exit PROVE IInv'
<1>1. frame' \in Frame /\ frame'.pc = "read" /\ frame'.mode = "key"
    BY DEF key_input_on_exit, IInv, TypeOK, Points, Frame, Step
<1>2. con' \in Connection /\ con'.len = con.len
    BY DEF key_input_on_exit, IInv, TypeOK
<1>3. TypeOK' /\ Owners' /\ WholeInput' /\ ConnectionRestored'
    BY <1>1, <1>2, MoveInv DEF key_input_on_exit
<1>4. Points' /\ Opened'
    BY <1>1 DEF Points, Opened, At
<1>5. Progress'
    BY <1>1 DEF key_input_on_exit, IInv, Progress, At
<1> QED BY <1>3, <1>4, <1>5 DEF IInv

LEMMA Advance ==
    ASSUME IInv, con.pos < con.arrived, con' = [con EXCEPT !.pos = @ + 1]
    PROVE  /\ con' \in Connection /\ con'.len = con.len /\ con'.arrived = con.arrived
           /\ con'.pos = con.pos + 1 /\ con'.pos <= con'.arrived /\ con'.arrived <= con'.len
           /\ con'.was = con.was /\ con'.open = con.open
<1>1. con.pos \in Nat /\ con.arrived \in 0..MaxInput /\ con \in Connection
    BY DEF IInv, TypeOK, Connection
<1>2. con.pos + 1 \in 0..MaxInput /\ con.pos + 1 <= con.arrived /\ con.arrived <= con.len
    BY <1>1, StreamAssumption DEF IInv, Progress
<1> QED BY <1>1, <1>2 DEF Connection

LEMMA KeyReadInv == ASSUME IInv, key_input_read PROVE IInv'
<1>1. CASE con.pos < con.arrived /\ con' = [con EXCEPT !.pos = @ + 1] /\ UNCHANGED <<frame, ret>>
  <2>1. frame' \in Frame /\ frame'.pc = "read" /\ frame'.mode = "key"
      BY <1>1 DEF key_input_read, IInv, TypeOK, At
  <2>2. TypeOK' /\ Owners' /\ WholeInput' /\ ConnectionRestored'
      BY <1>1, <2>1, Advance, MoveInv DEF key_input_read
  <2>3. Points' /\ Opened'
      BY <2>1 DEF Points, Opened, At
  <2>4. Progress'
      BY <1>1, <2>1, Advance DEF Progress, At
  <2> QED BY <2>2, <2>3, <2>4 DEF IInv
<1>2. CASE Return("bytes", con.pos)
  <2>1. con.pos \in 0..MaxInput
      BY DEF IInv, TypeOK, Connection
  <2> QED BY <1>2, <2>1, ReturnInv DEF key_input_read, Outcome
<1> QED BY <1>1, <1>2 DEF key_input_read

LEMMA CheckSummaryInv == ASSUME IInv, CheckSummary PROVE IInv'
<1>1. CASE Goto("ptr") /\ UNCHANGED <<con, ret>>
    BY <1>1, WalkInv DEF CheckSummary, Step
<1>2. CASE Abort("invalid_argument")
    BY <1>2, AbortInv DEF CheckSummary, Outcome
<1> QED BY <1>1, <1>2 DEF CheckSummary

LEMMA WrapInv == ASSUME IInv, Wrap PROVE IInv'
<1>1. CASE frame.ok /\ Goto("read") /\ UNCHANGED <<con, ret>>
    BY <1>1, WalkInv DEF Wrap, Step
<1>2. CASE Abort("native")
    BY <1>2, AbortInv DEF Wrap, Outcome
<1> QED BY <1>1, <1>2 DEF Wrap

\* A read returns a chunk, or nothing, at the end or before it.
LEMMA ReadChunkInv == ASSUME IInv, ReadChunk PROVE IInv'
<1>1. CASE con.pos < con.arrived /\ con' = [con EXCEPT !.pos = @ + 1] /\ Goto("update")
  <2>1. /\ frame' \in Frame /\ frame'.pc = "update" /\ frame'.mode = frame.mode
        /\ frame'.kind = frame.kind /\ frame'.p = frame.p /\ frame'.mine = frame.mine
      BY <1>1, GotoFrame DEF ReadChunk, IInv, Step
  <2>2. TypeOK' /\ Owners' /\ WholeInput' /\ ConnectionRestored'
      BY <1>1, <2>1, Advance, MoveInv DEF ReadChunk
  <2>3. Points'
      BY <2>1 DEF ReadChunk, IInv, Points, At, Own, Owning, Feeding
  <2>4. Opened'
      BY <1>1, <2>1, Advance DEF ReadChunk, IInv, Opened, At
  <2>5. Progress'
      BY <1>1, <2>1, Advance DEF ReadChunk, IInv, Progress, At, Own
  <2> QED BY <2>2, <2>3, <2>4, <2>5 DEF IInv
<1>2. CASE /\ con.pos = con.arrived
           /\ con' = [con EXCEPT !.incomplete = con.arrived < con.len]
           /\ Goto("complete")
  <2>1. /\ frame' \in Frame /\ frame'.pc = "complete" /\ frame'.mode = frame.mode
        /\ frame'.kind = frame.kind /\ frame'.p = frame.p /\ frame'.mine = frame.mine
      BY <1>2, GotoFrame DEF ReadChunk, IInv, Step
  <2>2. /\ con' \in Connection /\ con'.len = con.len /\ con'.arrived = con.arrived /\ con'.pos = con.pos
        /\ con'.was = con.was /\ con'.open = con.open
        /\ con.arrived < con.len => con'.incomplete
    <3>1. con \in Connection /\ con' = [con EXCEPT !.incomplete = con.arrived < con.len]
        BY <1>2 DEF IInv, TypeOK
    <3>2. CASE con.arrived < con.len
      <4>1. con' = [con EXCEPT !.incomplete = TRUE]
          BY <3>1, <3>2
      <4> QED BY <3>1, <4>1 DEF Connection
    <3>3. CASE ~(con.arrived < con.len)
      <4>1. con' = [con EXCEPT !.incomplete = FALSE]
        <5>1. con.arrived \in Nat /\ con.len \in Nat
            BY <3>1 DEF Connection
        <5>2. (con.arrived < con.len) = FALSE
            BY <3>3, <5>1
        <5> QED BY <3>1, <5>2
      <4> QED BY <3>1, <3>3, <4>1 DEF Connection
    <3> QED BY <3>2, <3>3
  <2>3. TypeOK' /\ Owners' /\ WholeInput' /\ ConnectionRestored'
      BY <1>2, <2>1, <2>2, MoveInv DEF ReadChunk
  <2>4. Points'
      BY <2>1 DEF ReadChunk, IInv, Points, At, Own, Owning, Feeding
  <2>5. Opened'
      BY <2>1, <2>2 DEF ReadChunk, IInv, Opened, At
  <2>6. Progress'
    <3>1. con.arrived \in Nat /\ con.len \in Nat
        BY DEF IInv, TypeOK, Connection
    <3> QED BY <1>2, <2>1, <2>2, <3>1 DEF ReadChunk, IInv, Progress, At, Own
  <2> QED BY <2>3, <2>4, <2>5, <2>6 DEF IInv
<1> QED BY <1>1, <1>2 DEF ReadChunk

LEMMA PollInv == ASSUME IInv, Poll PROVE IInv'
<1>1. CASE ((frame.ok /\ Goto("read")) \/ (~frame.ok /\ Goto("release"))) /\ UNCHANGED <<con, ret>>
    BY <1>1, WalkInv DEF Poll, Step
<1>2. CASE Abort("native")
    BY <1>2, AbortInv DEF Poll, Outcome
<1> QED BY <1>1, <1>2 DEF Poll

LEMMA CheckCompleteInv == ASSUME IInv, CheckComplete PROVE IInv'
<1>1. CASE ~con.incomplete /\ Goto("alloc") /\ UNCHANGED <<con, ret>>
    BY <1>1, WalkInv DEF CheckComplete, Step
<1>2. CASE Abort("connection_error")
    BY <1>2, AbortInv DEF CheckComplete, Outcome
<1> QED BY <1>1, <1>2 DEF CheckComplete

LEMMA ResultInv == ASSUME IInv, Result PROVE IInv'
<1>1. CASE frame.ok /\ Return("value", frame.covered)
  <2>1. frame.covered = con.len /\ frame.covered \in 0..MaxInput
      BY <1>1 DEF Result, IInv, TypeOK, Frame, Points, Progress, At
  <2> QED BY <1>1, <2>1, ReturnInv DEF Result, Outcome
<1>2. CASE Abort("native")
    BY <1>2, AbortInv DEF Result, Outcome
<1> QED BY <1>1, <1>2 DEF Result

-----------------------------------------------------------------------------
(* Steps of pointers and contexts *)

\* A pointer that is not in use becomes the call's, empty.
LEMMA StreamPtrInv == ASSUME IInv, stream_ptr PROVE IInv'
<1>1. PICK p \in Ptr : /\ ~ptr[p].alive
                       /\ ptr' = [ptr EXCEPT ![p] = [alive |-> TRUE, addr |-> NoContext, kind |-> frame.kind]]
                       /\ frame' = [frame EXCEPT !.pc = "new", !.p = p]
    BY DEF stream_ptr
<1>2. /\ frame' \in Frame /\ frame'.pc = "new" /\ frame'.p = p /\ frame'.mode = frame.mode
      /\ frame'.kind = frame.kind /\ frame'.mine = frame.mine /\ frame.mode # "key"
    BY <1>1 DEF stream_ptr, IInv, TypeOK, Points, Frame, Step, At
<1>3. ptr[p].addr = NoContext
    BY <1>1 DEF IInv, Owners
<1>4. TypeOK'
  <2>1. [alive |-> TRUE, addr |-> NoContext, kind |-> frame.kind] \in Pointer
      BY DEF IInv, TypeOK, Frame, Pointer
  <2> QED BY <1>1, <1>2, <2>1 DEF stream_ptr, IInv, TypeOK
<1>5. /\ ptr'[p].alive /\ ptr'[p].addr = NoContext /\ ptr'[p].kind = frame.kind
      /\ \A q \in Ptr \ {p} : ptr'[q] = ptr[q]
    BY <1>1 DEF IInv, TypeOK
<1>6. Owners'
    BY <1>3, <1>5 DEF stream_ptr, IInv, TypeOK, Owners
<1>7. Points'
    BY <1>2, <1>5 DEF Points, At, Own, Owning, Feeding
<1>8. Progress' /\ Opened' /\ WholeInput' /\ ConnectionRestored'
    BY <1>2 DEF stream_ptr, IInv, Progress, Opened, WholeInput, ConnectionRestored, At
<1> QED BY <1>4, <1>6, <1>7, <1>8 DEF IInv

\* The context moves into its owner in the step that makes it.
LEMMA StreamNewInv == ASSUME IInv, stream_new PROVE IInv'
<1>1. /\ frame \in Frame /\ frame.mode # "key" /\ frame.p \in Ptr /\ ptr[frame.p].alive
      /\ ptr[frame.p].addr = NoContext /\ ptr[frame.p].kind = frame.kind /\ con.pos = 0
    BY DEF stream_new, IInv, TypeOK, Points, Progress, At, Own, Owning
<1>2. ASSUME NEW c \in Context, ~heap[c].live,
             heap' = [heap EXCEPT ![c] = [live |-> TRUE, kind |-> frame.kind, fed |-> 0]],
             ptr' = [ptr EXCEPT ![frame.p].addr = c],
             Goto(IF frame.mode = "stream" THEN "wrap" ELSE "read")
      PROVE  IInv'
  <2>1. /\ frame' \in Frame /\ frame'.pc \in {"wrap", "read"} /\ frame'.mode = frame.mode
        /\ frame'.kind = frame.kind /\ frame'.p = frame.p /\ frame'.mine = frame.mine
      BY <1>1, <1>2 DEF Goto, Frame, Step
  <2>2. /\ ptr' \in [Ptr -> Pointer]
        /\ ptr'[frame.p].addr = c /\ ptr'[frame.p].alive /\ ptr'[frame.p].kind = frame.kind
        /\ \A q \in Ptr \ {frame.p} : ptr'[q] = ptr[q]
      BY <1>1, <1>2 DEF IInv, TypeOK, Pointer
  <2>3. /\ heap' \in [Context -> Block]
        /\ heap'[c].live /\ heap'[c].kind = frame.kind /\ heap'[c].fed = 0
        /\ \A d \in Context \ {c} : heap'[d] = heap[d]
    <3>1. [live |-> TRUE, kind |-> frame.kind, fed |-> 0] \in Block
        BY <1>1, StreamAssumption DEF Block, Frame
    <3> QED BY <1>2, <3>1 DEF IInv, TypeOK
  <2>4. TypeOK'
      BY <2>1, <2>2, <2>3 DEF stream_new, IInv, TypeOK
  <2>5. Owners'
    <3>1. \A p \in Ptr : ptr[p].addr # c
        BY <1>2, StreamAssumption DEF IInv, Owners
    <3>2. c # NoContext /\ \A p \in Ptr : ptr[p].addr \in Context \union {NoContext}
        BY StreamAssumption DEF IInv, TypeOK, Pointer
    <3>3. \A d \in Context : heap'[d].live => \E p \in Ptr : ptr'[p].addr = d
      <4> TAKE d \in Context
      <4> HAVE heap'[d].live
      <4>1. CASE d = c
          BY <1>1, <2>2, <4>1
      <4>2. CASE d # c
        <5>1. PICK p \in Ptr : ptr[p].addr = d
            BY <2>3, <4>2 DEF IInv, Owners
        <5>2. p # frame.p
            BY <1>1, <5>1, StreamAssumption
        <5> QED BY <2>2, <5>1, <5>2
      <4> QED BY <4>1, <4>2
    <3>4. \A p, q \in Ptr : ptr'[p].addr = ptr'[q].addr /\ ptr'[p].addr # NoContext => p = q
        BY <2>2, <3>1 DEF IInv, Owners
    <3>5. \A p \in Ptr : ptr'[p].addr # NoContext =>
              ptr'[p].alive /\ heap'[ptr'[p].addr].live /\ heap'[ptr'[p].addr].kind = ptr'[p].kind
        BY <2>2, <2>3, <3>1, <3>2 DEF IInv, Owners
    <3> QED BY <3>3, <3>4, <3>5 DEF Owners
  <2>6. Points'
      BY <1>1, <2>1, <2>2, StreamAssumption DEF Points, At, Own, Owning, Feeding
  <2>7. Progress'
      BY <1>1, <2>1, <2>2, <2>3 DEF stream_new, IInv, Progress, At, Own
  <2>8. Opened' /\ WholeInput' /\ ConnectionRestored'
      BY <2>1 DEF stream_new, IInv, Opened, WholeInput, ConnectionRestored, At
  <2> QED BY <2>4, <2>5, <2>6, <2>7, <2>8 DEF IInv
<1>3. CASE frame' = [frame EXCEPT !.pc = "wrap", !.ok = FALSE] /\ UNCHANGED <<ptr, heap>>
  <2>1. /\ frame' \in Frame /\ frame'.pc = "wrap" /\ ~frame'.ok /\ frame'.mode = frame.mode
        /\ frame'.kind = frame.kind /\ frame'.p = frame.p /\ frame'.mine = frame.mine
      BY <1>1, <1>3 DEF Frame, Step
  <2>2. TypeOK' /\ Owners' /\ WholeInput' /\ ConnectionRestored'
      BY <1>3, <2>1, MoveInv DEF stream_new, IInv, TypeOK
  <2>3. Points'
      BY <1>1, <1>3, <2>1 DEF Points, At, Own, Owning, Feeding
  <2>4. Progress' /\ Opened'
      BY <1>1, <2>1 DEF stream_new, IInv, Progress, Opened, At
  <2> QED BY <2>2, <2>3, <2>4 DEF IInv
<1> QED BY <1>2, <1>3 DEF stream_new

\* The context of the call in progress, where it is fed.
LEMMA OwnContext ==
    ASSUME IInv, frame.pc \in Feeding, frame.mode # "key"
    PROVE  /\ frame.p \in Ptr /\ Own \in Context /\ Own # NoContext
           /\ ptr[frame.p].alive /\ ptr[frame.p].kind = frame.kind
           /\ heap[Own].live /\ heap[Own].kind = frame.kind /\ heap[Own] \in Block
<1>1. frame.p \in Ptr /\ Own # NoContext /\ ptr[frame.p].alive /\ ptr[frame.p].kind = frame.kind
    BY DEF IInv, Points, Owning, Feeding
<1>2. Own \in Context
    BY <1>1 DEF IInv, TypeOK, Pointer, Own
<1> QED BY <1>1, <1>2 DEF IInv, TypeOK, Owners, Own

LEMMA StreamUpdateInv == ASSUME IInv, stream_update PROVE IInv'
<1>1. frame \in Frame /\ frame.mode # "key" /\ frame.pc \in Feeding /\ frame.pc = "update"
    BY DEF stream_update, IInv, TypeOK, Points, Feeding, At
<1>2. CASE heap' = [heap EXCEPT ![Own].fed = @ + 1] /\ Goto("poll")
  <2>1. /\ frame' \in Frame /\ frame'.pc = "poll" /\ frame'.mode = frame.mode
        /\ frame'.kind = frame.kind /\ frame'.p = frame.p /\ frame'.mine = frame.mine
      BY <1>2, GotoFrame DEF IInv, Step
  <2>2. heap[Own].fed + 1 = con.pos /\ con.pos \in 0..MaxInput
      BY <1>1 DEF stream_update, IInv, TypeOK, Connection, Progress
  <2>3. /\ heap' \in [Context -> Block]
        /\ heap'[Own].live /\ heap'[Own].kind = frame.kind /\ heap'[Own].fed = con.pos
        /\ \A c \in Context \ {Own} : heap'[c] = heap[c]
    <3>1. [heap[Own] EXCEPT !.fed = con.pos] \in Block
        BY <1>1, <2>2, OwnContext DEF Block
    <3>2. heap' = [heap EXCEPT ![Own] = [heap[Own] EXCEPT !.fed = con.pos]]
        BY <1>2, <2>2
    <3>3. heap \in [Context -> Block] /\ Own \in Context /\ heap[Own] \in Block
        BY <1>1, OwnContext DEF IInv, TypeOK
    <3>4. heap' \in [Context -> Block] /\ heap'[Own] = [heap[Own] EXCEPT !.fed = con.pos]
             /\ \A c \in Context \ {Own} : heap'[c] = heap[c]
        BY <3>1, <3>2, <3>3
    <3> QED BY <1>1, <3>3, <3>4, OwnContext DEF Block
  <2>4. TypeOK'
      BY <2>1, <2>3 DEF stream_update, IInv, TypeOK
  <2>5. Owners'
    <3>1. \A c \in Context : heap'[c].live = heap[c].live /\ heap'[c].kind = heap[c].kind
      <4>1. heap[Own].live = TRUE /\ heap'[Own].live = TRUE
          BY <1>1, <2>3, OwnContext DEF Block
      <4> QED BY <1>1, <2>3, <4>1, OwnContext
    <3>2. \A p \in Ptr : ptr[p].addr \in Context \union {NoContext}
        BY DEF IInv, TypeOK, Pointer
    <3> QED BY <3>1, <3>2 DEF stream_update, IInv, Owners
  <2>6. Points'
      BY <1>1, <2>1, OwnContext DEF stream_update, Points, At, Own, Owning, Feeding
  <2>7. Progress'
      BY <1>1, <2>1, <2>3 DEF stream_update, IInv, Progress, At, Own
  <2>8. Opened' /\ WholeInput' /\ ConnectionRestored'
      BY <1>1, <2>1 DEF stream_update, IInv, Opened, WholeInput, ConnectionRestored, At
  <2> QED BY <2>4, <2>5, <2>6, <2>7, <2>8 DEF IInv
<1>3. CASE frame' = [frame EXCEPT !.pc = "poll", !.ok = FALSE] /\ UNCHANGED heap
  <2>1. /\ frame' \in Frame /\ frame'.pc = "poll" /\ ~frame'.ok /\ frame'.mode = frame.mode
        /\ frame'.kind = frame.kind /\ frame'.p = frame.p /\ frame'.mine = frame.mine
      BY <1>1, <1>3 DEF Frame, Step
  <2>2. TypeOK' /\ Owners' /\ WholeInput' /\ ConnectionRestored'
      BY <1>3, <2>1, MoveInv DEF stream_update, IInv, TypeOK
  <2>3. Points'
      BY <1>1, <2>1, OwnContext DEF stream_update, Points, At, Own, Owning, Feeding
  <2>4. Progress' /\ Opened'
      BY <1>1, <2>1 DEF stream_update, IInv, Progress, Opened, At
  <2> QED BY <2>2, <2>3, <2>4 DEF IInv
<1> QED BY <1>2, <1>3 DEF stream_update

\* Freeing what pointer p holds, with p cleared in the same step, leaves every
\* other context with its owner.
LEMMA FreeOwned ==
    ASSUME IInv, NEW p \in Ptr, NEW r \in Pointer, r.addr = NoContext,
           ptr' = [ptr EXCEPT ![p] = r],
           heap' = [c \in Context |-> IF c = ptr[p].addr THEN FreeBlock ELSE heap[c]]
    PROVE  ptr' \in [Ptr -> Pointer] /\ heap' \in [Context -> Block] /\ Owners'
<1>1. /\ ptr' \in [Ptr -> Pointer] /\ ptr'[p] = r
      /\ \A q \in Ptr \ {p} : ptr'[q] = ptr[q]
    BY DEF IInv, TypeOK
<1>2. heap' \in [Context -> Block]
  <2>1. FreeBlock \in Block
      BY StreamAssumption DEF FreeBlock, Block, Kind
  <2> QED BY <2>1 DEF IInv, TypeOK
<1>3. \A c \in Context : heap'[c].live => c # ptr[p].addr /\ heap'[c] = heap[c]
    BY DEF FreeBlock
<1>4. \A q \in Ptr \ {p} : ptr[q].addr # NoContext =>
          ptr[q].addr \in Context /\ ptr[q].addr # ptr[p].addr /\ heap'[ptr[q].addr] = heap[ptr[q].addr]
    BY DEF IInv, TypeOK, Pointer, Owners
<1>5. Owners'
  <2>1. \A c \in Context : heap'[c].live => \E q \in Ptr : ptr'[q].addr = c
      BY <1>1, <1>3 DEF IInv, Owners
  <2>2. \A q, s \in Ptr : ptr'[q].addr = ptr'[s].addr /\ ptr'[q].addr # NoContext => q = s
      BY <1>1 DEF IInv, Owners
  <2>3. \A q \in Ptr : ptr'[q].addr # NoContext =>
            ptr'[q].alive /\ heap'[ptr'[q].addr].live /\ heap'[ptr'[q].addr].kind = ptr'[q].kind
      BY <1>1, <1>4 DEF IInv, Owners
  <2> QED BY <2>1, <2>2, <2>3 DEF Owners
<1> QED BY <1>1, <1>2, <1>5

LEMMA ReleaseOwned ==
    ASSUME IInv, frame.pc \in Feeding, frame.mode # "key", release_ptr
    PROVE  /\ ptr' \in [Ptr -> Pointer] /\ heap' \in [Context -> Block] /\ Owners'
           /\ ptr'[frame.p].alive /\ ptr'[frame.p].kind = frame.kind
<1> DEFINE r == [ptr[frame.p] EXCEPT !.addr = NoContext]
<1>1. /\ ptr \in [Ptr -> Pointer] /\ heap \in [Context -> Block]
      /\ frame.p \in Ptr /\ ptr[frame.p] \in Pointer /\ Own \in Context
    BY OwnContext DEF IInv, TypeOK
<1>2. r \in Pointer /\ r.addr = NoContext /\ r.alive = ptr[frame.p].alive /\ r.kind = ptr[frame.p].kind
    BY <1>1 DEF Pointer
<1>3. ptr' = [ptr EXCEPT ![frame.p] = r]
    BY DEF release_ptr
<1>4. heap' = [c \in Context |-> IF c = ptr[frame.p].addr THEN FreeBlock ELSE heap[c]]
    BY <1>1 DEF release_ptr, Own
<1>5. ptr'[frame.p] = r
    BY <1>1, <1>3
<1> QED BY <1>1, <1>2, <1>3, <1>4, <1>5, FreeOwned, OwnContext

\* The digest is taken and the context freed: what it covers is the input.
LEMMA StreamFinishInv == ASSUME IInv, stream_finish PROVE IInv'
<1>1. /\ frame \in Frame /\ frame.mode # "key" /\ frame.pc \in Feeding /\ frame.pc = "finish"
      /\ heap[Own].fed = con.len /\ con.len \in 0..MaxInput
    BY DEF stream_finish, IInv, TypeOK, Connection, Points, Progress, Feeding, At
<1>2. PICK ok \in BOOLEAN : frame' = [frame EXCEPT !.pc = "result", !.ok = ok, !.covered = con.len]
    BY <1>1 DEF stream_finish
<1>3. /\ frame' \in Frame /\ frame'.pc = "result" /\ frame'.covered = con.len /\ frame'.mode = frame.mode
      /\ frame'.kind = frame.kind /\ frame'.p = frame.p /\ frame'.mine = frame.mine
    BY <1>1, <1>2 DEF Frame, Step
<1>4. TypeOK' /\ Owners'
    BY <1>1, <1>3, ReleaseOwned DEF stream_finish, IInv, TypeOK
<1>5. Points'
    BY <1>1, <1>3, ReleaseOwned, OwnContext DEF stream_finish, Points, At, Owning, Feeding
<1>6. Progress' /\ Opened' /\ WholeInput' /\ ConnectionRestored'
    BY <1>1, <1>3 DEF stream_finish, IInv, Progress, Opened, WholeInput, ConnectionRestored, At
<1> QED BY <1>4, <1>5, <1>6 DEF IInv

LEMMA ReleaseInv == ASSUME IInv, Release PROVE IInv'
<1>1. frame.mode # "key" /\ frame.pc \in Feeding /\ frame.pc = "release" /\ ~frame.ok
    BY DEF Release, IInv, Points, Progress, Feeding, At
<1>2. /\ frame' \in Frame /\ frame'.pc = "result" /\ ~frame'.ok /\ frame'.mode = frame.mode
      /\ frame'.kind = frame.kind /\ frame'.p = frame.p /\ frame'.mine = frame.mine
    BY <1>1, GotoFrame DEF Release, IInv, Step
<1>3. TypeOK' /\ Owners'
    BY <1>1, <1>2, ReleaseOwned DEF Release, IInv, TypeOK
<1>4. Points'
    BY <1>1, <1>2, ReleaseOwned, OwnContext DEF Release, Points, At, Owning, Feeding
<1>5. Progress' /\ Opened' /\ WholeInput' /\ ConnectionRestored'
    BY <1>1, <1>2 DEF Release, IInv, Progress, Opened, WholeInput, ConnectionRestored, At
<1> QED BY <1>3, <1>4, <1>5 DEF IInv

\* The collector takes no pointer of the call in progress, so that nothing the
\* call relies on goes.
LEMMA CollectInv == ASSUME IInv, NEW p \in Ptr, Collect(p) PROVE IInv'
<1>1. Dead \in Pointer /\ Dead.addr = NoContext
    BY DEF Dead, Pointer, Kind
<1>2. ptr' \in [Ptr -> Pointer] /\ heap' \in [Context -> Block] /\ Owners'
    BY <1>1, FreeOwned DEF Collect
<1>3. frame.p # p /\ (frame.p \in Ptr => ptr'[frame.p] = ptr[frame.p])
    BY DEF Collect, IInv, TypeOK
<1>4. TypeOK'
    BY <1>2 DEF Collect, IInv, TypeOK
<1>5. Points'
  <2>1. At("new") => frame.mode # "key" /\ frame.p \in Ptr
      BY DEF IInv, Points, At, Owning
  <2> QED BY <1>3, <2>1 DEF Collect, IInv, Points, At, Own, Owning, Feeding
<1>6. Progress'
  <2>1. frame.mode # "key" /\ (frame.pc \in Feeding \/ (At("wrap") /\ frame.ok)) =>
            Own' = Own /\ heap'[Own] = heap[Own]
    <3> HAVE frame.mode # "key" /\ (frame.pc \in Feeding \/ (At("wrap") /\ frame.ok))
    <3>1. frame.p \in Ptr /\ Own # NoContext
        BY DEF IInv, Points, At, Owning, Feeding
    <3>2. Own \in Context /\ Own # ptr[p].addr
        BY <1>3, <3>1 DEF IInv, TypeOK, Pointer, Owners, Own
    <3> QED BY <1>3, <3>1, <3>2 DEF Collect, Own
  <2> QED BY <2>1 DEF Collect, IInv, Progress, At, Feeding
<1>7. Opened' /\ WholeInput' /\ ConnectionRestored'
    BY DEF Collect, IInv, Opened, WholeInput, ConnectionRestored, At
<1> QED BY <1>2, <1>4, <1>5, <1>6, <1>7 DEF IInv

LEMMA ArriveInv == ASSUME IInv, Arrive PROVE IInv'
<1>1. con \in Connection /\ con.arrived \in Nat /\ con.len \in 0..MaxInput /\ con.arrived < con.len /\ con.pos \in Nat
    BY DEF Arrive, IInv, TypeOK, Connection
<1>2. con.arrived + 1 \in 0..MaxInput
    BY <1>1, StreamAssumption
<1>3. /\ con' \in Connection /\ con'.len = con.len /\ con'.arrived = con.arrived + 1 /\ con'.pos = con.pos
      /\ con'.was = con.was /\ con'.open = con.open /\ con'.incomplete = con.incomplete
    BY <1>1, <1>2 DEF Arrive, Connection
<1>4. TypeOK' /\ Owners' /\ Points'
    BY <1>3 DEF Arrive, IInv, TypeOK, Owners, Points, At, Own
<1>5. Progress'
    BY <1>1, <1>3 DEF Arrive, IInv, Progress, At, Own
<1>6. Opened' /\ WholeInput' /\ ConnectionRestored'
    BY <1>3 DEF Arrive, IInv, Opened, WholeInput, ConnectionRestored, At
<1> QED BY <1>4, <1>5, <1>6 DEF IInv

-----------------------------------------------------------------------------
(* The theorems *)

LEMMA BeginsInv == ASSUME IInv, Begin PROVE IInv'
<1>1. ASSUME NEW k \in Kind, NEW n \in 0..MaxInput, crypt_hash_raw(k, n)
      PROVE  IInv'
  <2>1. /\ RawVector(n) \in Connection /\ RawVector(n).pos = 0 /\ RawVector(n).arrived <= RawVector(n).len
        /\ RawVector(n).open = RawVector(n).was
      BY RawTyped, StreamAssumption DEF RawVector
  <2>2. frame' \in Frame /\ frame'.pc = "ptr" /\ frame'.mode = "oneshot" /\ ~frame'.mine
      BY <1>1, NoFrameTyped DEF crypt_hash_raw, NoFrame, Frame, Step
  <2> QED BY <1>1, <2>1, <2>2, BeginInv DEF crypt_hash_raw
<1>2. ASSUME NEW c \in Fresh
      PROVE  c \in Connection /\ c.pos = 0 /\ c.arrived <= c.len /\ c.open = c.was
    BY StreamAssumption DEF Fresh, Connection
<1>3. ASSUME NEW k \in Kind, NEW c \in Fresh, crypt_hash_connection(k, c)
      PROVE  IInv'
  <2>1. frame' \in Frame /\ frame'.pc = "open" /\ ~frame'.mine
      BY <1>3, NoFrameTyped DEF crypt_hash_connection, NoFrame, Frame, Mode, Step
  <2> QED BY <1>2, <1>3, <2>1, BeginInv DEF crypt_hash_connection
<1>4. ASSUME NEW c \in Fresh, key_input(c)
      PROVE  IInv'
  <2>1. frame' \in Frame /\ frame'.pc = "open" /\ ~frame'.mine
      BY <1>4, NoFrameTyped DEF key_input, NoFrame, Frame, Mode, Step
  <2> QED BY <1>2, <1>4, <2>1, BeginInv DEF key_input
<1> QED BY <1>1, <1>3, <1>4 DEF Begin

LEMMA StepInv == IInv /\ [Next]_vars => IInv'
<1> SUFFICES ASSUME IInv, [Next]_vars PROVE IInv'
    OBVIOUS
<1>1. CASE Begin
    BY <1>1, BeginsInv
<1>2. CASE Continue
  <2>1. CASE OpenConnection \/ key_input_open \/ key_input_on_exit \/ key_input_read \/ CheckSummary
      BY <2>1, OpenConnectionInv, KeyOpenInv, KeyOnExitInv, KeyReadInv, CheckSummaryInv
  <2>2. CASE stream_ptr \/ stream_new \/ Wrap \/ ReadChunk \/ stream_update
      BY <2>2, StreamPtrInv, StreamNewInv, WrapInv, ReadChunkInv, StreamUpdateInv
  <2>3. CASE Poll \/ CheckComplete
      BY <2>3, PollInv, CheckCompleteInv
  <2>4. CASE Allocate
      BY <2>4, WalkInv DEF Allocate, Step
  <2>5. CASE stream_finish \/ Release \/ Result
      BY <2>5, StreamFinishInv, ReleaseInv, ResultInv
  <2> QED BY <1>2, <2>1, <2>2, <2>3, <2>4, <2>5 DEF Continue
<1>3. CASE Jump
    BY <1>3, AbortInv DEF Jump, Outcome
<1>4. CASE Arrive
    BY <1>4, ArriveInv
<1>5. ASSUME NEW p \in Ptr, Collect(p) PROVE IInv'
    BY <1>5, CollectInv
<1>6. CASE UNCHANGED vars
    BY <1>6 DEF vars, IInv, TypeOK, Owners, Points, Progress, Opened, WholeInput, ConnectionRestored, At, Own
<1> QED BY <1>1, <1>2, <1>3, <1>4, <1>5, <1>6 DEF Next

LEMMA Invariant == Spec => []IInv
BY InitInv, StepInv, PTL DEF Spec

\* Every record of Streams stays in its type; in particular no chunk is counted
\* that the input does not have.
THEOREM TypeCorrect == Spec => []TypeOK
<1>1. IInv => TypeOK
    BY DEF IInv
<1> QED BY <1>1, Invariant, PTL

\* Whatever R jumps out of and whenever it collects, every context of
\* zucrypt_crypt.c has exactly one external pointer that will free it, and no
\* pointer holds the address of one that was freed.
THEOREM ContextsOwnedOnce == Spec => []OwnedOnce
<1>1. ASSUME IInv, NEW c \in Context, heap[c].live
      PROVE  Cardinality({p \in Ptr : ptr[p].alive /\ ptr[p].addr = c}) = 1
  <2>1. PICK p \in Ptr : ptr[p].addr = c
      BY <1>1 DEF IInv, Owners
  <2>2. c # NoContext
      BY StreamAssumption
  <2>3. {q \in Ptr : ptr[q].alive /\ ptr[q].addr = c} = {p}
      BY <1>1, <2>1, <2>2 DEF IInv, Owners
  <2>4. Cardinality({p}) = 1
      BY FS_Singleton
  <2> QED BY <2>3, <2>4
<1>2. IInv => OwnedOnce
    BY <1>1 DEF IInv, Owners, OwnedOnce
<1> QED BY <1>2, Invariant, PTL

\* TouchesLive: a digest call never updates, finishes or releases a context
\* that a finalizer or an earlier release has freed, or one of the other kind.
THEOREM TouchedContextsLive == Spec => []TouchesLive
<1>1. IInv => TouchesLive
  <2> SUFFICES ASSUME IInv, frame.pc \in {"update", "finish", "release"}
               PROVE  /\ frame.p \in Ptr /\ ptr[frame.p].alive
                      /\ Own # NoContext /\ heap[Own].live /\ heap[Own].kind = frame.kind
      BY DEF TouchesLive
  <2>1. frame.mode # "key" /\ frame.pc \in Feeding
      BY DEF IInv, Points, Feeding
  <2> QED BY <2>1, OwnContext
<1> QED BY <1>1, Invariant, PTL

\* crypt_hash() and crypt_hmac() of a connection return a digest of all of it
\* or an error, however the data arrives.
THEOREM DigestsWhole == Spec => []WholeInput
<1>1. IInv => WholeInput
    BY DEF IInv
<1> QED BY <1>1, Invariant, PTL

\* digest_connection() of R/hash.R puts the connection back on every path.
THEOREM ConnectionsRestored == Spec => []ConnectionRestored
<1>1. IInv => ConnectionRestored
    BY DEF IInv
<1> QED BY <1>1, Invariant, PTL

=============================================================================
