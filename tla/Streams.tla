------------------------------- MODULE Streams -------------------------------
(***************************************************************************)
(* Digests and HMACs as R computes them: the one-shot entry points and the *)
(* streams of zucrypt_crypt.c, driven by digest_connection() of R/hash.R.  *)
(* Keys are read from the same connections, by key_input() of R/pkey.R.    *)
(* Contexts live on the C heap, owned by external pointers that R's        *)
(* collector finalizes at any allocation, while an interrupt or a failed   *)
(* allocation may jump out of the call between any two steps.              *)
(*                                                                         *)
(* The model splits a call where R may run: at its allocations, at its     *)
(* interrupt checks and between R expressions.                             *)
(***************************************************************************)
EXTENDS Naturals, FiniteSets

CONSTANTS
    Ptr,        \* external pointer objects
    Context,    \* heap blocks a zuc_hash or zuc_hmac can live in
    NoPtr,
    NoContext,
    MaxInput    \* bound: chunks an input has

ASSUME StreamAssumption ==
    /\ NoPtr \notin Ptr
    /\ NoContext \notin Context
    /\ MaxInput \in Nat

VARIABLES
    frame,   \* the call in progress
    ptr,     \* the external pointers
    heap,    \* the contexts
    con,     \* the input: a connection, or a raw vector seen as one
    ret      \* how the last call ended

vars == <<frame, ptr, heap, con, ret>>

Kind == {"hash", "hmac"}

Step == {"idle", "open", "on_exit", "summary", "ptr", "new", "wrap", "read", "update", "poll",
         "complete", "alloc", "finish", "release", "result"}

Outcome == {"none", "value", "bytes", "native", "invalid_argument", "connection_error", "jump"}

\* mode: a .Call over a raw vector, or R's loop over a connection, for a digest
\* or for a key.  mine: the call closes the connection.  covered: the chunks
\* the digest is of.
Mode == {"oneshot", "stream", "key"}

Frame == [pc: Step, mode: Mode, kind: Kind, p: Ptr \union {NoPtr},
          ok: BOOLEAN, mine: BOOLEAN, covered: 0..MaxInput]

NoFrame == [pc |-> "idle", mode |-> "oneshot", kind |-> "hash", p |-> NoPtr,
            ok |-> TRUE, mine |-> FALSE, covered |-> 0]

Pointer == [alive: BOOLEAN, addr: Context \union {NoContext}, kind: Kind]

Dead == [alive |-> FALSE, addr |-> NoContext, kind |-> "hash"]

Block == [live: BOOLEAN, kind: Kind, fed: 0..MaxInput]

FreeBlock == [live |-> FALSE, kind |-> "hash", fed |-> 0]

\* len chunks in all, of which arrived can be read and pos have been read.
\* was: whether the caller handed it over open.
Connection == [len: 0..MaxInput, arrived: 0..MaxInput, pos: 0..MaxInput,
               valid: BOOLEAN, binary: BOOLEAN, blocking: BOOLEAN,
               was: BOOLEAN, open: BOOLEAN, incomplete: BOOLEAN]

TypeOK ==
    /\ frame \in Frame
    /\ ptr \in [Ptr -> Pointer]
    /\ heap \in [Context -> Block]
    /\ con \in Connection
    /\ ret \in [mode: Mode, outcome: Outcome, covered: 0..MaxInput]

\* A raw vector: all of it is there.
RawVector(n) == [len |-> n, arrived |-> n, pos |-> 0, valid |-> TRUE, binary |-> TRUE,
                 blocking |-> TRUE, was |-> TRUE, open |-> TRUE, incomplete |-> FALSE]

\* Connections that have not been read from.
Fresh ==
    {c \in Connection :
        /\ c.pos = 0 /\ c.arrived = 0 /\ ~c.incomplete
        /\ c.open = c.was
        /\ c.was => c.valid}

NoReturn == [mode |-> "oneshot", outcome |-> "none", covered |-> 0]

Init ==
    /\ frame = NoFrame
    /\ ptr = [p \in Ptr |-> Dead]
    /\ heap = [c \in Context |-> FreeBlock]
    /\ con = RawVector(0)
    /\ ret = NoReturn

-----------------------------------------------------------------------------
(* How a call ends *)

\* Mutant: a connection opened here is left open.
Unwound_Never == con

\* on.exit(close(con)) of digest_connection().
Unwound == IF frame.mine THEN [con EXCEPT !.open = FALSE] ELSE con

Return(outcome, n) ==
    /\ frame' = NoFrame
    /\ ret' = [mode |-> frame.mode, outcome |-> outcome, covered |-> n]
    /\ con' = Unwound

Abort(outcome) == Return(outcome, 0)

Goto(pc) == frame' = [frame EXCEPT !.pc = pc]

At(pc) == frame.pc = pc

\* Which context the frame's pointer owns.
Own == ptr[frame.p].addr

-----------------------------------------------------------------------------
(* Opening the input: R/hash.R *)

crypt_hash_raw(k, n) ==
    /\ At("idle")
    /\ frame' = [NoFrame EXCEPT !.pc = "ptr", !.kind = k]
    /\ con' = RawVector(n)
    /\ ret' = NoReturn
    /\ UNCHANGED <<ptr, heap>>

crypt_hash_connection(k, c) ==
    /\ At("idle")
    /\ frame' = [NoFrame EXCEPT !.pc = "open", !.mode = "stream", !.kind = k]
    /\ con' = c
    /\ ret' = NoReturn
    /\ UNCHANGED <<ptr, heap>>

\* isOpen(), then open() if need be; the connection is closed on exit from
\* then on, even when open() fails.
OpenConnection ==
    /\ At("open") /\ frame.mode = "stream"
    /\ \/ con.open /\ Goto("summary") /\ UNCHANGED <<con, ret>>
       \/ /\ ~con.open
          /\ con.valid
          /\ frame' = [frame EXCEPT !.pc = "summary", !.mine = TRUE]
          /\ con' = [con EXCEPT !.open = TRUE]
          /\ UNCHANGED ret
       \/ ~con.open /\ Abort("connection_error")
    /\ UNCHANGED <<ptr, heap>>

\* The bytes of a key, to the first read that returns nothing.
key_input(c) ==
    /\ At("idle")
    /\ frame' = [NoFrame EXCEPT !.pc = "open", !.mode = "key"]
    /\ con' = c
    /\ ret' = NoReturn
    /\ UNCHANGED <<ptr, heap>>

\* Here on.exit(close(file)) comes after open().
key_input_open ==
    /\ At("open") /\ frame.mode = "key"
    /\ \/ con.open /\ Goto("read") /\ UNCHANGED <<con, ret>>
       \/ ~con.open /\ con.valid /\ con' = [con EXCEPT !.open = TRUE] /\ Goto("on_exit") /\ UNCHANGED ret
       \/ ~con.open /\ ~con.valid /\ Abort("connection_error")
    /\ UNCHANGED <<ptr, heap>>

key_input_on_exit ==
    /\ At("on_exit")
    /\ frame' = [frame EXCEPT !.pc = "read", !.mine = TRUE]
    /\ UNCHANGED <<ptr, heap, con, ret>>

key_input_read ==
    /\ At("read") /\ frame.mode = "key"
    /\ \/ /\ con.pos < con.arrived
          /\ con' = [con EXCEPT !.pos = @ + 1]
          /\ UNCHANGED <<frame, ret>>
       \/ /\ con.pos = con.arrived
          /\ con.arrived = con.len \/ ~con.blocking
          /\ Return("bytes", con.pos)
    /\ UNCHANGED <<ptr, heap>>

CheckSummary ==
    /\ At("summary")
    /\ \/ con.binary /\ Goto("ptr") /\ UNCHANGED <<con, ret>>
       \/ ~con.binary /\ Abort("invalid_argument")
    /\ UNCHANGED <<ptr, heap>>

-----------------------------------------------------------------------------
(* Creating the context: zucrypt_crypt.c *)

\* The owner first, empty, with its finalizer.
stream_ptr ==
    /\ At("ptr")
    /\ \E p \in Ptr :
          /\ ~ptr[p].alive
          /\ ptr' = [ptr EXCEPT ![p] = [alive |-> TRUE, addr |-> NoContext, kind |-> frame.kind]]
          /\ frame' = [frame EXCEPT !.pc = "new", !.p = p]
    /\ UNCHANGED <<heap, con, ret>>

\* zuc_hash_new() or zuc_hmac_new(), and the context moves into its owner.
stream_new ==
    /\ At("new")
    /\ \/ \E c \in Context :
             /\ ~heap[c].live
             /\ heap' = [heap EXCEPT ![c] = [live |-> TRUE, kind |-> frame.kind, fed |-> 0]]
             /\ ptr' = [ptr EXCEPT ![frame.p].addr = c]
             /\ Goto(IF frame.mode = "stream" THEN "wrap" ELSE "read")
       \/ /\ frame' = [frame EXCEPT !.pc = "wrap", !.ok = FALSE]
          /\ UNCHANGED <<ptr, heap>>
    /\ UNCHANGED <<con, ret>>

\* result(): the status reaches R.
Wrap ==
    /\ At("wrap")
    /\ \/ frame.ok /\ Goto("read") /\ UNCHANGED <<con, ret>>
       \/ ~frame.ok /\ Abort("native")
    /\ UNCHANGED <<ptr, heap>>

-----------------------------------------------------------------------------
(* The loop *)

\* readBin().  A non-blocking connection returns nothing when it has nothing
\* yet, and a blocking one waits.
ReadChunk ==
    /\ At("read") /\ frame.mode # "key"
    /\ \/ /\ con.pos < con.arrived
          /\ con' = [con EXCEPT !.pos = @ + 1]
          /\ Goto("update")
       \/ /\ con.pos = con.arrived
          /\ con.arrived = con.len \/ ~con.blocking
          /\ con' = [con EXCEPT !.incomplete = con.arrived < con.len]
          /\ Goto("complete")
    /\ UNCHANGED <<ptr, heap, ret>>

stream_update ==
    /\ At("update")
    /\ \/ /\ heap' = [heap EXCEPT ![Own].fed = @ + 1]
          /\ Goto("poll")
       \/ /\ frame' = [frame EXCEPT !.pc = "poll", !.ok = FALSE]
          /\ UNCHANGED heap
    /\ UNCHANGED <<ptr, con, ret>>

\* R_CheckUserInterrupt() lets the call go on.  A failed update ends the
\* one-shot loop; in a stream R raises the condition.
Poll ==
    /\ At("poll")
    /\ \/ frame.ok /\ Goto("read") /\ UNCHANGED <<con, ret>>
       \/ ~frame.ok /\ frame.mode = "oneshot" /\ Goto("release") /\ UNCHANGED <<con, ret>>
       \/ ~frame.ok /\ frame.mode = "stream" /\ Abort("native")
    /\ UNCHANGED <<ptr, heap>>

\* Mutant: no isIncomplete().
CheckComplete_Skipped ==
    /\ At("complete")
    /\ Goto("alloc")
    /\ UNCHANGED <<ptr, heap, con, ret>>

\* isIncomplete().
CheckComplete ==
    /\ At("complete")
    /\ \/ ~con.incomplete /\ Goto("alloc") /\ UNCHANGED <<con, ret>>
       \/ con.incomplete /\ Abort("connection_error")
    /\ UNCHANGED <<ptr, heap>>

-----------------------------------------------------------------------------
(* The digest *)

\* The result vector.
Allocate ==
    /\ At("alloc")
    /\ Goto("finish")
    /\ UNCHANGED <<ptr, heap, con, ret>>

\* Mutant: the pointer keeps the address of what is freed.
release_ptr_Dangling ==
    /\ heap' = [heap EXCEPT ![Own] = FreeBlock]
    /\ UNCHANGED ptr

\* Clear the pointer, then free what it held.
release_ptr ==
    /\ ptr' = [ptr EXCEPT ![frame.p].addr = NoContext]
    /\ heap' = [heap EXCEPT ![Own] = FreeBlock]

stream_finish ==
    /\ At("finish")
    /\ \E ok \in BOOLEAN :
          frame' = [frame EXCEPT !.pc = "result", !.ok = ok, !.covered = heap[Own].fed]
    /\ release_ptr
    /\ UNCHANGED <<con, ret>>

Release ==
    /\ At("release")
    /\ Goto("result")
    /\ release_ptr
    /\ UNCHANGED <<con, ret>>

Result ==
    /\ At("result")
    /\ \/ frame.ok /\ Return("value", frame.covered)
       \/ ~frame.ok /\ Abort("native")
    /\ UNCHANGED <<ptr, heap>>

-----------------------------------------------------------------------------
(* R around the call *)

\* Where R runs, so that a call may be jumped out of: at the allocations and
\* interrupt checks of the C code, and in all of the R code.
Interruptible ==
    \/ frame.pc \in {"ptr", "wrap", "poll", "alloc", "result"}
    \/ frame.mode # "oneshot" /\ frame.pc \in {"open", "on_exit", "summary", "read", "update", "complete"}

\* An interrupt, a failed allocation, a read error or an R error jumps out.
Jump ==
    /\ Interruptible
    /\ Abort("jump")
    /\ UNCHANGED <<ptr, heap>>

\* Mutant: the pointer has no finalizer.
Collect_Unfinalized(p) ==
    /\ ptr[p].alive
    /\ frame.p # p
    /\ ptr' = [ptr EXCEPT ![p] = Dead]
    /\ UNCHANGED <<frame, heap, con, ret>>

\* Mutant: the pointer is unprotected before the result is allocated.
Collect_Unprotected(p) ==
    /\ ptr[p].alive
    /\ frame.p # p \/ At("alloc")
    /\ ptr' = [ptr EXCEPT ![p] = Dead]
    /\ heap' = [c \in Context |-> IF c = ptr[p].addr THEN FreeBlock ELSE heap[c]]
    /\ UNCHANGED <<frame, con, ret>>

\* The collector finalizes a pointer nothing refers to: hash_finalizer() or
\* hmac_finalizer().
Collect(p) ==
    /\ ptr[p].alive
    /\ frame.p # p
    /\ ptr' = [ptr EXCEPT ![p] = Dead]
    /\ heap' = [c \in Context |-> IF c = ptr[p].addr THEN FreeBlock ELSE heap[c]]
    /\ UNCHANGED <<frame, con, ret>>

\* More of the input becomes available.
Arrive ==
    /\ con.arrived < con.len
    /\ con' = [con EXCEPT !.arrived = @ + 1]
    /\ UNCHANGED <<frame, ptr, heap, ret>>

Begin ==
    \/ \E k \in Kind :
          \/ \E n \in 0..MaxInput : crypt_hash_raw(k, n)
          \/ \E c \in Fresh : crypt_hash_connection(k, c)
    \/ \E c \in Fresh : key_input(c)

\* The next step of the call in progress.
Continue ==
    \/ OpenConnection
    \/ key_input_open
    \/ key_input_on_exit
    \/ key_input_read
    \/ CheckSummary
    \/ stream_ptr
    \/ stream_new
    \/ Wrap
    \/ ReadChunk
    \/ stream_update
    \/ Poll
    \/ CheckComplete
    \/ Allocate
    \/ stream_finish
    \/ Release
    \/ Result

Next == Begin \/ Continue \/ Jump \/ Arrive \/ \E p \in Ptr : Collect(p)

Spec == Init /\ [][Next]_vars

\* R evaluates the call in progress, finalizes unreachable pointers at the
\* latest when it exits (the finalizers are registered with onexit = TRUE),
\* and the other end of a connection delivers what it has.
Fairness ==
    /\ WF_vars(Continue)
    /\ WF_vars(Arrive)
    /\ \A p \in Ptr : WF_vars(Collect(p))

FairSpec == Spec /\ Fairness

-----------------------------------------------------------------------------
(* Properties *)

\* Every context has exactly one owner, of its own kind, from the moment it
\* exists, and no pointer holds the address of a freed one: nothing leaks
\* when a call is jumped out of, and nothing is freed twice.
OwnedOnce ==
    /\ \A c \in Context : heap[c].live =>
          Cardinality({p \in Ptr : ptr[p].alive /\ ptr[p].addr = c}) = 1
    /\ \A p \in Ptr : ptr[p].addr # NoContext =>
          ptr[p].alive /\ heap[ptr[p].addr].live /\ heap[ptr[p].addr].kind = ptr[p].kind

\* Whatever was interrupted, collected or freed before, the context that
\* update, finish or the eager release of a call touches is live, is of the
\* kind the call takes it for, and is held by the pointer R still protects.
TouchesLive ==
    frame.pc \in {"update", "finish", "release"} =>
        /\ frame.p \in Ptr /\ ptr[frame.p].alive
        /\ Own # NoContext /\ heap[Own].live /\ heap[Own].kind = frame.kind

\* A digest R returns is of the whole input, never of the prefix that had
\* arrived.
WholeInput == ret.outcome = "value" => ret.covered = con.len

\* digest_connection() leaves the caller's connection as it found it: one
\* opened here is closed on every path, and one handed over open stays open.
ConnectionRestored == At("idle") /\ ret.mode = "stream" => con.open = con.was

\* R/pkey.R, of key_input(): "a connection read to its end".
KeyReadToEnd == ret.outcome = "bytes" => ret.covered = con.len

\* Every context is freed in the end, however its call ended.
Freed == \A c \in Context : heap[c].live ~> ~heap[c].live

=============================================================================
