---------------------------- MODULE OutputBuffer ----------------------------
(***************************************************************************)
(* The output buffers of one request: core/phpctx/buffer.go, the ob_*      *)
(* functions of ext/standard/ob.go that drive it, the memory manager that  *)
(* charges every buffered byte, and the end of the request that closes     *)
(* what the script left open (RunFile and Close of core/phpctx/global.go). *)
(*                                                                         *)
(* A buffer passes its bytes to a handler written in PHP.  The handler     *)
(* runs in the middle of the flush that called it, so every call of a      *)
(* buffer is a frame of the stack `calls', and whatever a handler may do - *)
(* return, throw, exit, die, raise a warning, call an ob_* function - is   *)
(* an action of its own.  Other PHP code may run before the flush goes on: *)
(* the user's error handler, told that the handler has printed something,  *)
(* and the __toString of the object that the handler has returned.  Bytes  *)
(* are abstract: echo number n is the byte n, or -n if such other code has *)
(* made it; what a handler makes up and what the engine reports is 0.      *)
(***************************************************************************)
EXTENDS Integers, SequencesExt

CONSTANTS
    MaxBufs,      \* how many buffers a behaviour may create
    MaxBytes,     \* how many bytes the script may echo
    MaxCalls,     \* how deep handlers may call buffers (callDepth stops them)
    MaxDeeds,     \* how many things one call of a handler may do
    Kinds,        \* what ob_start may be given: [cb, chunk, caps], a handler or
                  \* none, a chunk size or 0, capabilities
    MemLimit,     \* memory_limit in bytes, 0 for none
    HandlerMay,   \* what handlers may do besides returning or failing
    AsideMay,     \* the same of error handlers and __toString in a call
    MayFlushInClean  \* PHP code flushes a buffer in the middle of a clean

Capabilities == {"cleanable", "flushable", "removable"}
HandlerDeeds == {"warn", "ob_start", "flush", "clean", "discard", "close"}
AsideDeeds == {"echo", "warn", "flush", "clean", "discard", "close"}

ASSUME OutputAssumption ==
    /\ MaxBufs \in Nat /\ MaxBytes \in Nat /\ MaxCalls \in Nat /\ MaxDeeds \in Nat
    /\ MemLimit \in Nat
    /\ Kinds \subseteq [cb : BOOLEAN, chunk : Nat, caps : SUBSET Capabilities]
    /\ HandlerMay \subseteq HandlerDeeds /\ AsideMay \subseteq AsideDeeds
    /\ MayFlushInClean \in BOOLEAN

VARIABLES
    buf,       \* the buffers ever created, in the order of their creation
    top,       \* Global.buf: the innermost open buffer, or Sapi for nil
    out,       \* Global.out: where output goes
    sink,      \* what the server interface has been given
    calls,     \* the calls of buffers in progress, the innermost last
    tracked,   \* MemMgr.tracked
    disabled,  \* obDisabled: a handler has called ob_start
    phase,     \* how far the request has come
    bytes      \* how many bytes the script has echoed

vars == <<buf, top, out, sink, calls, tracked, disabled, phase, bytes>>

Sapi == 0
Bytes == -MaxBytes .. MaxBytes
Errors == {"none", "throw", "exit", "die"}   \* PhpThrow, PhpExit, PhpError
Ops == {"auto", "echo", "flush", "clean", "discard", "close"}
Callers == {"none", "script", "handler"}

\* How far a call has come: in the handler; in the user's error handler, before
\* or after the notice that the handler has printed, with the output redirected;
\* at the conversion of the result; about to pass it on; about to return.
Steps == {"php", "error", "notice", "noticed", "result", "pass", "end"}

\* A Buffer; `caller' is the code whose ob_* function has called SetCaller.
\* `met' and `shut' are history: its handler has been called, it has been closed.
Buffer == [w : 0 .. MaxBufs, data : Seq(Bytes), cb : BOOLEAN, chunk : Nat,
           caps : SUBSET Capabilities, started : BOOLEAN, caller : Callers,
           met : BOOLEAN, shut : BOOLEAN]

\* A call of buffer b with its data d; an auto flush is "echo" if PHP code waits
\* for it, and "auto" if its error is not looked at.  `err' is the error of the
\* PHP code that runs, and in the end of the call, `dep' what the error handler
\* has thrown (deprecationErr), `saved' savedOut.  `start' is the START bit the
\* handler is given; `new' is history: the handler had not been called before.
\* `left' bounds the deeds of PHP code.
Frame == [op : Ops, b : 1 .. MaxBufs, at : Steps, d : Seq(Bytes), err : Errors,
          dep : Errors, saved : 0 .. MaxBufs,
          start : BOOLEAN, new : BOOLEAN, left : 0 .. MaxDeeds]

Cur == calls[Len(calls)]
SetCur(f) == [calls EXCEPT ![Len(calls)] = f]
Below == SubSeq(calls, 1, Len(calls) - 1)
Dropping == {"clean", "discard"}
Closing == {"close", "discard"}
Flushing == {"auto", "echo"}
Open == {b \in 1 .. Len(buf) : ~buf[b].shut}

\* Global.buf and its parents.
OnStack ==
    LET up[b \in 0 .. Len(buf)] == IF b = Sapi THEN {} ELSE {b} \cup up[buf[b].w]
    IN  up[top]

Init ==
    /\ buf = <<>> /\ top = Sapi /\ out = Sapi /\ sink = <<>> /\ calls = <<>>
    /\ tracked = 0 /\ disabled = FALSE /\ phase = "script" /\ bytes = 0
-----------------------------------------------------------------------------
(* A call of a buffer begins, goes on with d, or writes d to a buffer. *)

\* flushData after the handler, or without one: nothing is written for no bytes.
Onward(f, d, e) ==
    [f EXCEPT !.at = IF d = <<>> THEN "end" ELSE "pass", !.d = d, !.err = e,
              !.dep = "none", !.saved = Sapi, !.left = 0]

\* Mutant: flushData returns when there is no handler, with bytes to write or without.
CalledForHandlers(op, b, r) ==
    LET f == [op |-> op, b |-> b, at |-> "php", err |-> "none", dep |-> "none",
              d |-> IF op \in Dropping THEN <<>> ELSE r.data, saved |-> Sapi,
              start |-> ~r.started, new |-> ~r.met, left |-> MaxDeeds]
    IN  IF r.cb THEN f ELSE Onward(f, <<>>, "none")

\* A clean hands the handler a copy of the data and drops its result.
Called(op, b, r) ==
    LET f == [op |-> op, b |-> b, at |-> "php", err |-> "none", dep |-> "none",
              d |-> IF op \in Dropping THEN <<>> ELSE r.data, saved |-> Sapi,
              start |-> ~r.started, new |-> ~r.met, left |-> MaxDeeds]
    IN  IF r.cb THEN f ELSE Onward(f, f.d, "none")

\* Mutant: Clean passes START to the handler and does not note it.
OpenedUnnoted(op, r) ==
    [r EXCEPT !.data = IF op \in Dropping THEN @ ELSE <<>>,
              !.started = @ \/ op # "clean",
              !.met = @ \/ r.cb]

\* Mutant: flushData does not reset the data it passes to a handler.
OpenedUnreset(op, r) ==
    [r EXCEPT !.data = IF op \in Dropping \/ r.cb THEN @ ELSE <<>>,
              !.started = @ \/ r.cb \/ op # "clean",
              !.met = @ \/ r.cb]

\* What a call makes of its buffer.  Only ob_clean without a handler leaves the
\* buffer unstarted; the others take the data out before the handler runs.
Opened(op, r) ==
    [r EXCEPT !.data = IF op \in Dropping THEN @ ELSE <<>>,
              !.started = @ \/ r.cb \/ op # "clean",
              !.met = @ \/ r.cb]

\* Mutant: Alloc compares the counter before the new bytes are added to it.
RefusedLate(w, d) == w # Sapi /\ MemLimit > 0 /\ tracked > MemLimit

\* MemMgr.Alloc: what is buffered is charged to memory_limit, and no code ever
\* frees it.  The server interface is not charged.
Refused(w, d) == w # Sapi /\ MemLimit > 0 /\ tracked + Len(d) > MemLimit

\* Buffer.Write of d # <<>>, with the auto flush `op' that a full chunk brings; C
\* is the stack of calls the write returns to.
Put(op, w, d, C) ==
    \/ /\ w = Sapi
       /\ sink' = sink \o d /\ calls' = C
       /\ UNCHANGED <<buf, tracked>>
    \/ /\ Refused(w, d)
       /\ calls' = C
       /\ UNCHANGED <<buf, tracked, sink>>
    \/ /\ w # Sapi /\ ~Refused(w, d)
       /\ tracked' = tracked + Len(d)
       /\ LET r == [buf[w] EXCEPT !.data = @ \o d]
              full == r.chunk > 0 /\ Len(r.data) >= r.chunk
          IN  /\ buf' = [buf EXCEPT ![w] = IF full THEN Opened(op, r) ELSE r]
              /\ calls' = IF full THEN Append(C, Called(op, w, r)) ELSE C
       /\ UNCHANGED sink

\* The capabilities the ob_* functions ask for.  ob_end_clean and ob_get_clean
\* discard, ob_end_flush and ob_get_flush close.
Allowed(op, b) ==
    /\ op \in {"flush", "close"} => "flushable" \in buf[b].caps
    /\ op \in Dropping => "cleanable" \in buf[b].caps
    /\ op \in Closing => "removable" \in buf[b].caps

Begin(op, C, caller) ==
    /\ top # Sapi
    /\ buf' = [buf EXCEPT ![top] = [Opened(op, buf[top]) EXCEPT
                                       !.caller = IF caller = "none" THEN @ ELSE caller]]
    /\ calls' = Append(C, Called(op, top, buf[top]))
    /\ UNCHANGED <<top, out, sink, tracked, disabled, phase, bytes>>
-----------------------------------------------------------------------------
(* The script, its shutdown functions and its destructors, and the exception   *)
(* handler that Close calls                                                    *)

Script == calls = <<>> /\ phase \in {"script", "shutdown", "handling"}

\* What an error does to the code that waits for it, or to the request if no PHP
\* code can catch it.  RunFile empties the buffers on a fatal error of the
\* script, and a shutdown function that fails only ends the other ones.  Close
\* hands an exception to the exception handler and gives up on other errors.
Raise(e, B) ==
    \/ /\ e = "none" \/ phase = "shutdown" \/ (e = "throw" /\ phase # "closing")
       /\ phase' = phase /\ buf' = B
    \/ /\ phase = "script" /\ e = "exit"
       /\ phase' = "shutdown" /\ buf' = B
    \/ /\ phase = "script" /\ e = "die"
       /\ phase' = "shutdown"
       /\ buf' = [b \in DOMAIN B |->
                    IF b \in OnStack THEN [B[b] EXCEPT !.data = <<>>] ELSE B[b]]
    \/ /\ phase = "closing" /\ e = "throw"
       /\ phase' = "handling" /\ buf' = B
    \/ /\ phase \in {"closing", "handling"} /\ e \in {"exit", "die"}
       /\ phase' = "ended" /\ buf' = B

Echo ==
    /\ Script /\ bytes < MaxBytes
    /\ bytes' = bytes + 1
    /\ \/ /\ ~Refused(out, <<bytes'>>)
          /\ Put("echo", out, <<bytes'>>, calls)
          /\ UNCHANGED phase
       \/ /\ Refused(out, <<bytes'>>)
          /\ Raise("die", buf)
          /\ UNCHANGED <<sink, calls, tracked>>
    /\ UNCHANGED <<top, out, disabled>>

ObStart ==
    /\ Script /\ ~disabled /\ Len(buf) < MaxBufs
    /\ \E k \in Kinds :
          buf' = Append(buf, [w |-> out, data |-> <<>>,
                              cb |-> k.cb, chunk |-> k.chunk, caps |-> k.caps,
                              started |-> FALSE, caller |-> "none",
                              met |-> FALSE, shut |-> FALSE])
    /\ top' = Len(buf) + 1 /\ out' = Len(buf) + 1
    /\ UNCHANGED <<sink, calls, tracked, disabled, phase, bytes>>

ScriptCalls(op) ==
    /\ Script /\ top # Sapi /\ Allowed(op, top)
    /\ Begin(op, calls, "script")

\* The script or the exception handler exits, or dies of a fatal error.
ScriptEnds ==
    /\ Script /\ phase # "shutdown"
    /\ \E e \in {"exit", "die"} : Raise(e, buf)
    /\ UNCHANGED <<top, out, sink, calls, tracked, disabled, bytes>>

\* The script returns, or nothing catches its exception, or that of a shutdown
\* function or of a handler that Close has called: then the exception handler has
\* done its work, or the message is printed and its own errors are not looked at.
Uncaught ==
    /\ Script
    /\ phase' = IF phase = "handling" THEN "closing" ELSE "shutdown"
    /\ \/ /\ bytes < MaxBytes /\ bytes' = bytes + 1
          /\ Put("auto", out, <<0>>, calls)
       \/ UNCHANGED <<buf, sink, calls, tracked, bytes>>
    /\ UNCHANGED <<top, out, disabled>>
-----------------------------------------------------------------------------
(* PHP code in a call of a buffer: its handler, and aside of it the user's     *)
(* error handler and the __toString of the result                              *)

At(step) == calls # <<>> /\ Cur.at = step

\* Nothing that ends the PHP code has happened yet.
Running == calls # <<>> /\ Cur.at \in {"php", "error", "result"} /\ Cur.err = "none"
Deed(what) ==
    /\ Running /\ Cur.left > 0
    /\ what \in (IF Cur.at = "php" THEN HandlerMay ELSE AsideMay)
Did == SetCur([Cur EXCEPT !.left = @ - 1])

\* A warning is written by the engine to Global.out, and its error is ignored.
PhpWarns ==
    /\ Deed("warn") /\ bytes < MaxBytes
    /\ Put("auto", out, <<0>>, Did)
    /\ bytes' = bytes + 1
    /\ UNCHANGED <<top, out, disabled, phase>>

\* A clean is in progress.
Cleaning == \E i \in 1 .. Len(calls) : calls[i].op \in Dropping

\* The ob_* functions do not look where they are called.
PhpCalls(op) ==
    /\ Deed(op) /\ Len(calls) < MaxCalls
    /\ op = "flush" => MayFlushInClean \/ ~Cleaning
    /\ top # Sapi /\ Allowed(op, top)
    /\ Begin(op, Did, IF Cur.at = "php" THEN "handler" ELSE "script")

\* What a handler echoes goes to its detector; what other code echoes is output.
AsideEchoes ==
    /\ Deed("echo") /\ bytes < MaxBytes
    /\ bytes' = bytes + 1
    /\ \/ /\ ~Refused(out, <<-bytes'>>)
          /\ Put("echo", out, <<-bytes'>>, Did)
       \/ /\ Refused(out, <<-bytes'>>)
          /\ calls' = SetCur([Cur EXCEPT !.err = "die"])
          /\ UNCHANGED <<buf, sink, tracked>>
    /\ UNCHANGED <<top, out, disabled, phase>>

\* The first ob_start of a handler is a fatal error and disables ob_start.
HandlerStarts ==
    /\ At("php") /\ Deed("ob_start") /\ ~disabled
    /\ disabled' = TRUE
    /\ calls' = SetCur([Cur EXCEPT !.err = "die"])
    /\ UNCHANGED <<buf, top, out, sink, tracked, phase, bytes>>

\* The handler returns.  If it has printed something and an ob_* function is the
\* caller, output goes to the parent while that is reported, to the user's error
\* handler if there is one.  That one prints where the caller prints: nowhere,
\* if the caller is a handler.
HandlerReturns ==
    /\ At("php") /\ Running
    /\ \/ /\ calls' = SetCur([Cur EXCEPT !.at = "result", !.left = MaxDeeds])
          /\ UNCHANGED out
       \/ /\ buf[Cur.b].caller # "none"
          /\ out' = buf[Cur.b].w
          /\ \E at \in {"error", "notice"} :
                calls' = SetCur([Cur EXCEPT !.at = at, !.saved = out,
                  !.left = IF at = "error" /\ buf[Cur.b].caller = "script" THEN MaxDeeds ELSE 0])
    /\ UNCHANGED <<buf, top, sink, tracked, disabled, phase, bytes>>

\* The handler fails and is disabled.  flushData passes the data on after an
\* exception and drops it after an exit or a fatal error.
Failed(f, e) == Onward(f, IF e = "throw" THEN f.d ELSE <<>>, e)

HandlerFails ==
    /\ At("php")
    /\ \E e \in Errors \ {"none"} :
         Cur.err \in {"none", e} /\ calls' = SetCur(Failed(Cur, e))
    /\ buf' = [buf EXCEPT ![Cur.b].cb = FALSE]
    /\ UNCHANGED <<top, out, sink, tracked, disabled, phase, bytes>>

\* The error handler leaves the report to the engine, which prints it if errors
\* are displayed.
ErrorDeclined ==
    /\ At("error") /\ Running
    /\ calls' = SetCur([Cur EXCEPT !.at = "notice", !.left = 0])
    /\ UNCHANGED <<buf, top, out, sink, tracked, disabled, phase, bytes>>

NoticeWritten ==
    /\ At("notice")
    /\ LET C == SetCur([Cur EXCEPT !.at = "noticed"])
       IN  \/ /\ bytes < MaxBytes /\ bytes' = bytes + 1
              /\ Put("auto", out, <<0>>, C)
           \/ calls' = C /\ UNCHANGED <<buf, sink, tracked, bytes>>
    /\ UNCHANGED <<top, out, disabled, phase>>

\* Mutant: an error handler that fails leaves the output redirected.
RestoredOnSuccess(f, e) == IF e = "none" THEN f.saved ELSE out

\* Where output goes after the report, whatever has become of it.
Restored(f, e) == f.saved

\* The notice has been printed, or the error handler has returned or failed: the
\* output is no longer redirected.
NoticeEnds ==
    /\ At("noticed") \/ At("error")
    /\ \E e \in Errors :
         /\ Cur.err \in {"none", e} /\ (Cur.at = "noticed" => e = "none")
         /\ out' = Restored(Cur, e)
         /\ calls' = SetCur([Cur EXCEPT !.at = "result", !.err = "none", !.dep = e,
                                        !.saved = Sapi, !.left = MaxDeeds])
    /\ UNCHANGED <<buf, top, sink, tracked, disabled, phase, bytes>>

\* The result is the data or false, nothing, or bytes of the handler's own; a
\* clean drops it.  What the error handler has thrown is returned with it.
ResultTaken ==
    /\ At("result") /\ Running
    /\ \/ \E d \in {Cur.d, <<>>} : calls' = SetCur(Onward(Cur, d, Cur.dep))
          /\ UNCHANGED bytes
       \/ /\ Cur.op \notin Dropping /\ bytes < MaxBytes
          /\ calls' = SetCur(Onward(Cur, <<0>>, Cur.dep))
          /\ bytes' = bytes + 1
    /\ UNCHANGED <<buf, top, out, sink, tracked, disabled, phase>>

\* The result cannot be made a string: the error takes the place of any other,
\* and the handler stays.
ResultFails ==
    /\ At("result")
    /\ \E e \in Errors \ {"none"} :
         Cur.err \in {"none", e} /\ calls' = SetCur(Failed(Cur, e))
    /\ UNCHANGED <<buf, top, out, sink, tracked, disabled, phase, bytes>>
-----------------------------------------------------------------------------
(* The engine *)

\* writeAll: what happens to the write of the parent is not looked at.
Pass ==
    /\ At("pass")
    /\ Put("auto", buf[Cur.b].w, Cur.d, SetCur([Cur EXCEPT !.at = "end", !.d = <<>>]))
    /\ UNCHANGED <<top, out, disabled, phase, bytes>>

\* The buffer after a call of it: cleaned, closed, its caller forgotten.
Left(f) ==
    [buf[f.b] EXCEPT !.data = IF f.op \in Dropping THEN <<>> ELSE @,
                     !.caller = IF f.op \in Flushing THEN @ ELSE "none",
                     !.shut = @ \/ f.op \in Closing]

\* Mutant: CloseWithFlags keeps a buffer whose handler has failed.
PoppedOnSuccess(f) ==
    IF f.op \in Closing /\ f.err = "none" THEN buf[f.b].w ELSE top

\* A close removes its buffer from the stack, even on error, and output goes to
\* the parent.
Popped(f) == IF f.op \in Closing THEN buf[f.b].w ELSE top

\* The call returns.  What writes on behalf of the engine does not look at the
\* error of an auto flush; echo and the ob_* functions return it to the PHP code
\* that called them, which may catch an exception only.
Finish ==
    /\ At("end")
    /\ top' = Popped(Cur)
    /\ out' = IF Cur.op \in Closing THEN top' ELSE out
    /\ LET B == [buf EXCEPT ![Cur.b] = Left(Cur)]
           n == Len(Below)
       IN  \/ /\ n = 0
              /\ Raise(IF Cur.op = "auto" THEN "none" ELSE Cur.err, B)
              /\ calls' = Below
           \/ /\ n > 0
              /\ buf' = B /\ phase' = phase
              /\ calls' = IF Cur.op # "auto" /\ Cur.err \in {"exit", "die"}
                          THEN [Below EXCEPT ![n].err = Cur.err]
                          ELSE Below
    /\ UNCHANGED <<sink, tracked, disabled, bytes>>

\* Shutdown functions and destructors are over: Global.Close closes the buffers.
ShutdownEnds ==
    /\ Script /\ phase = "shutdown"
    /\ phase' = "closing"
    /\ UNCHANGED <<buf, top, out, sink, calls, tracked, disabled, bytes>>

\* Mutant: the end of the request asks whether a buffer may be removed.
CloseNextRemovable ==
    /\ phase = "closing" /\ calls = <<>>
    /\ top # Sapi => Allowed("close", top)
    /\ Begin("close", calls, "none")

CloseNext ==
    /\ phase = "closing" /\ calls = <<>>
    /\ Begin("close", calls, "none")

CloseEnds ==
    /\ phase = "closing" /\ calls = <<>> /\ top = Sapi
    /\ phase' = "ended"
    /\ UNCHANGED <<buf, top, out, sink, calls, tracked, disabled, bytes>>

Ended == phase = "ended" /\ UNCHANGED vars

HandlingEnds == phase = "handling" /\ Uncaught

Next ==
    \/ Echo \/ ObStart \/ ScriptEnds \/ Uncaught
    \/ \E op \in Ops \ Flushing : ScriptCalls(op) \/ PhpCalls(op)
    \/ PhpWarns \/ AsideEchoes \/ HandlerStarts \/ HandlerReturns \/ HandlerFails
    \/ ErrorDeclined \/ NoticeWritten \/ NoticeEnds \/ ResultTaken \/ ResultFails
    \/ Pass \/ Finish \/ ShutdownEnds \/ CloseNext \/ CloseEnds \/ Ended

\* The engine goes on; handlers, error handlers, __toString and the exception
\* handler come to an end, the last one although it may call buffers on its way.
\* Scripts need not end.
Spec ==
    /\ Init /\ [][Next]_vars
    /\ WF_vars(Pass \/ Finish \/ CloseNext \/ CloseEnds \/ NoticeWritten)
    /\ WF_vars(HandlerReturns \/ HandlerFails \/ NoticeEnds \/ ResultTaken \/ ResultFails)
    /\ SF_vars(HandlingEnds)
-----------------------------------------------------------------------------
(* Properties *)

\* The types, and the memory limit: what is tracked never exceeds it.
TypeOK ==
    /\ buf \in Seq(Buffer) /\ Len(buf) <= MaxBufs
    /\ top \in 0 .. Len(buf) /\ out \in 0 .. Len(buf)
    /\ sink \in Seq(Bytes)
    /\ calls \in Seq(Frame)
    /\ tracked \in Nat /\ (MemLimit > 0 => tracked <= MemLimit)
    /\ disabled \in BOOLEAN
    /\ phase \in {"script", "shutdown", "closing", "handling", "ended"}
    /\ bytes \in 0 .. MaxBytes

\* Global.buf is the innermost open buffer, and the parent of an open buffer is
\* the open buffer below it: no buffer that has been closed is ever written to
\* again, and none is forgotten (makeBuffer, CloseWithFlags).
StackIsLive ==
    /\ top \in Open \cup {Sapi}
    /\ \A b \in Open :
         /\ b <= top
         /\ buf[b].w \in Open \cup {Sapi}
         /\ buf[b].w < b
         /\ \A c \in Open : c < b => c <= buf[b].w

\* Whatever a call of a buffer has redirected - once or, in calls inside of it,
\* several times - and however its handlers have failed, when it is over output
\* goes to the innermost buffer again (savedOut of invokeCallback).
RedirectionIsUndone == calls = <<>> => out = top

\* A handler is given START in its first call and in no other, whichever of
\* write, flush, clean and close comes first (Buffer.started).
StartComesFirst ==
    \A i \in 1 .. Len(calls) : calls[i].at = "php" => calls[i].start = calls[i].new

\* The pieces that bytes on their way are in: the sink, what call i of buffer b
\* passes on, and behind the calls of a buffer what has come into it since.
Pieces ==
    {<<Sapi, 0>>} \cup {<<calls[i].b, i>> : i \in 1 .. Len(calls)}
                  \cup {<<b, Len(calls) + 1>> : b \in Open}
Piece(p) == CASE p[1] = Sapi -> sink
              [] p[1] # Sapi /\ p[2] <= Len(calls) -> calls[p[2]].d
              [] p[1] # Sapi /\ p[2] > Len(calls) -> buf[p[1]].data
Nearer(p, q) == p[1] < q[1] \/ (p[1] = q[1] /\ p[2] < q[2])
Number(x) == IF x < 0 THEN -x ELSE x

Before(p, i, q, j) == Nearer(p, q) \/ (p = q /\ i < j)

\* What the script prints reaches the server interface in the order in which it
\* was printed, and once: whatever nests, fails or flushes on its way, nothing
\* older is behind it, not even what an error handler or a __toString has
\* printed in the middle of a flush.  Such code itself may print past what the
\* calls in progress still hold: output is redirected for it (invokeCallback).
ScriptBytesInOrder ==
    \A p, q \in Pieces : \A i \in DOMAIN Piece(p), j \in DOMAIN Piece(q) :
      LET x == Piece(p)[i]
          y == Piece(q)[j]
      IN  Before(p, i, q, j) /\ x > 0 /\ y # 0 => x < Number(y)

\* The bytes on their way that PHP code has echoed.
OnTheWay == (UNION {ToSet(Piece(p)) : p \in Pieces}) \ {0}

\* A byte is lost only if its handler is in charge of it, a clean or a discard
\* comes to its end, memory_limit refuses it, or the script dies of a fatal error
\* that empties the buffers.  In particular no byte of the script is lost in a
\* close, nor in the write of the data that an exception leaves behind; what a
\* __toString has printed into the buffer that is being closed is.
LostOnPurpose ==
    LET lost == OnTheWay \ OnTheWay'
    IN  \/ lost = {}
        \/ /\ phase = "script" /\ phase' = "shutdown"
           /\ \A b \in DOMAIN buf' : b \in OnStack => buf'[b].data = <<>>
        \/ /\ calls # <<>>
           /\ \/ Cur.at \in {"php", "result"} /\ lost \subseteq ToSet(Cur.d)
              \/ Cur.at = "pass" /\ Refused(buf[Cur.b].w, Cur.d)
              \/ /\ Cur.at = "end" /\ Cur.op \in Dropping \cup Closing
                 /\ lost \subseteq ToSet(buf[Cur.b].data)
                 /\ Cur.op = "close" => \A x \in lost : x < 0
LostOnlyOnPurpose == [][LostOnPurpose]_vars

\* Close comes to an end, whatever the handlers do: one that fails is removed
\* with its buffer (CloseWithFlags pops even on error), and an exception handler
\* that ends lets Close go on.
CloseTerminates == (phase = "closing") ~> (phase = "ended")
=============================================================================
