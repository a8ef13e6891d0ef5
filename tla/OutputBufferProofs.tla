-------------------------- MODULE OutputBufferProofs --------------------------
(* Proofs about OutputBuffer, for PHP code that does not close buffers in  *)
(* the middle of a flush: for any number of buffers, bytes and handlers    *)
(* and any nesting of their calls, memory_limit holds, START comes with    *)
(* the first call of a handler only, Global.buf is always the innermost    *)
(* open buffer, and a redirection of the output is always undone.          *)
EXTENDS OutputBuffer, SequenceTheorems, TLAPS

Buffers == 1 .. Len(buf)
Phases == {"script", "shutdown", "closing", "handling", "ended"}

(* A handler has been called before exactly if `started' says so, as long  *)
(* as there is one; every buffer is above its parent.                      *)
BufferFits(r, b) == r.w < b /\ (r.cb => (r.started <=> r.met))

BuffersFit == \A b \in Buffers : BufferFits(buf[b], b)

(* The ob_* functions call the innermost buffer.  A call that closes it is *)
(* the outermost one: this is what code that closes buffers in the middle  *)
(* of a flush would break.                                                 *)
CallFits(f, i) ==
    /\ f.b \in Buffers
    /\ f.at = "php" => (f.start <=> f.new)
    /\ f.op \notin Flushing => f.b = top
    /\ f.op \in Closing => i = 1

(* While a call has the output redirected it goes to the parent of the     *)
(* innermost buffer: Where(C, n) is where the first n calls of C let it go,*)
(* and so what the next one saves and restores.                            *)
Redirects(f) == f.at \in {"error", "notice", "noticed"}
Where(C, n) == IF \E j \in 1 .. n : Redirects(C[j]) THEN buf[top].w ELSE top
RedirectFits(f, C, i) == Redirects(f) => f.b = top /\ f.saved = Where(C, i - 1)

(* A stack of calls that fit, with the output going to o.                  *)
Stack(C, o) ==
    /\ C \in Seq(Frame)
    /\ \A i \in 1 .. Len(C) : CallFits(C[i], i) /\ RedirectFits(C[i], C, i)
    /\ o = Where(C, Len(C))

(* A buffer knows its caller for as long as an ob_* function is calling it.*)
Waits(C, b) == \E i \in 1 .. Len(C) : C[i].op \notin Flushing /\ C[i].b = b
CallersFit(B, C) == \A b \in 1 .. Len(B) : B[b].caller # "none" => Waits(C, b)

Inv == TypeOK /\ BuffersFit /\ Stack(calls, out) /\ CallersFit(buf, calls) /\ StackIsLive

(* The scripts the proofs are about.                                       *)
HandlersDoNotClose == (HandlerMay \cup AsideMay) \cap {"close", "discard"} = {}

-----------------------------------------------------------------------------
(* The stack of calls *)

(* The types of buffers and calls.                                         *)
LEMMA Types ==
  ASSUME Inv
  PROVE  /\ Len(buf) \in Nat /\ Len(buf) <= MaxBufs /\ MaxBufs \in Nat
         /\ Len(calls) \in Nat /\ top \in 0 .. Len(buf) /\ out \in 0 .. Len(buf)
         /\ \A b \in Buffers : buf[b] \in Buffer
         /\ \A i \in 1 .. Len(calls) : calls[i] \in Frame /\ calls[i].b \in Buffers
BY OutputAssumption, LenProperties, ElementOfSeq DEF Inv, TypeOK, Buffers, Stack, CallFits

(* The innermost call.                                                     *)
LEMMA Innermost ==
  ASSUME Inv, calls # <<>>
  PROVE  /\ Len(calls) > 0 /\ Len(calls) \in 1 .. Len(calls)
         /\ Cur = calls[Len(calls)] /\ Cur \in Frame /\ Cur.d \in Seq(Bytes)
         /\ Cur.b \in Buffers /\ CallFits(Cur, Len(calls))
         /\ RedirectFits(Cur, calls, Len(calls))
<1>1. Len(calls) \in Nat \ {0}
  BY EmptySeq DEF Inv, TypeOK
<1>2. Len(calls) \in 1 .. Len(calls)
  BY <1>1
<1>3. Cur = calls[Len(calls)] /\ Cur \in Frame
  BY <1>2, Types DEF Cur
<1>4. Cur.d \in Seq(Bytes)
  BY <1>3 DEF Frame
<1>5. CallFits(Cur, Len(calls)) /\ RedirectFits(Cur, calls, Len(calls))
  BY <1>2, <1>3 DEF Inv, Stack
<1>. QED
  BY <1>1, <1>2, <1>3, <1>4, <1>5 DEF CallFits

(* Where output goes depends on what redirects it only.                    *)
LEMMA WhereSame ==
  ASSUME NEW C, NEW D, NEW n \in Nat,
         \A j \in 1 .. n : Redirects(C[j]) <=> Redirects(D[j])
  PROVE  Where(C, n) = Where(D, n)
BY DEF Where

LEMMA WhereNext ==
  ASSUME NEW C, NEW n \in Nat \ {0}
  PROVE  Where(C, n) = IF Redirects(C[n]) THEN buf[top].w ELSE Where(C, n - 1)
<1>1. \A j \in 1 .. n : j \in 1 .. n - 1 \/ j = n
  OBVIOUS
<1>2. \A j \in 1 .. n - 1 : j \in 1 .. n
  OBVIOUS
<1>3. n \in 1 .. n
  OBVIOUS
<1>4. (\E j \in 1 .. n : Redirects(C[j]))
         <=> (\E j \in 1 .. n - 1 : Redirects(C[j])) \/ Redirects(C[n])
  BY <1>1, <1>2, <1>3
<1>. QED
  BY <1>4 DEF Where

LEMMA WhereType ==
  ASSUME Inv, NEW C \in Seq(Frame), NEW n \in 0 .. Len(C),
         \A i \in 1 .. Len(C) : CallFits(C[i], i) /\ RedirectFits(C[i], C, i)
  PROVE  Where(C, n) \in 0 .. Len(buf)
<1>1. Len(C) \in Nat
  BY LenProperties
<1>2. CASE \E j \in 1 .. n : Redirects(C[j])
  <2>1. PICK j \in 1 .. Len(C) : Redirects(C[j])
    BY <1>1, <1>2
  <2>2. top \in Buffers
    BY <2>1 DEF CallFits, RedirectFits
  <2>3. buf[top] \in Buffer /\ buf[top].w < top /\ Len(buf) \in Nat
    BY <2>2, Types DEF Inv, BuffersFit, BufferFits
  <2>4. buf[top].w \in Nat
    BY <2>3, Types DEF Buffer
  <2>. QED
    BY <1>2, <2>2, <2>3, <2>4 DEF Where, Buffers
<1>3. CASE ~ \E j \in 1 .. n : Redirects(C[j])
  BY <1>3, Types DEF Where
<1>. QED
  BY <1>2, <1>3

(* With one more call that does not redirect the output yet.               *)
LEMMA PushStack ==
  ASSUME NEW C, NEW o, Stack(C, o), NEW f \in Frame, CallFits(f, Len(C) + 1), ~Redirects(f)
  PROVE  /\ Stack(Append(C, f), o)
         /\ \A b : Waits(C, b) => Waits(Append(C, f), b)
         /\ f.op \notin Flushing => Waits(Append(C, f), f.b)
<1>. PICK n \in Nat : n = Len(C)
  BY LenProperties DEF Stack
<1>. PICK D : D = Append(C, f)
  OBVIOUS
<1>1. /\ D \in Seq(Frame) /\ Len(D) = n + 1
      /\ \A i \in 1 .. n : D[i] = C[i]
      /\ D[n + 1] = f
  BY AppendProperties DEF Stack
<1>2. ASSUME NEW i \in 0 .. n PROVE Where(D, i) = Where(C, i)
  <2>1. i \in Nat /\ \A j \in 1 .. i : Redirects(D[j]) <=> Redirects(C[j])
    BY <1>1
  <2>. QED
    BY <2>1, WhereSame
<1>3. Where(D, n + 1) = Where(C, n)
  <2>1. n + 1 \in Nat \ {0} /\ n + 1 - 1 = n /\ n \in 0 .. n
    OBVIOUS
  <2>2. PICK m \in Nat \ {0} : m = n + 1
    BY <2>1
  <2>3. Where(D, m) = IF Redirects(D[m]) THEN buf[top].w ELSE Where(D, m - 1)
    BY WhereNext
  <2>4. D[m] = f /\ m - 1 = n
    BY <1>1, <2>2
  <2>. QED
    BY <1>2, <2>1, <2>2, <2>3, <2>4
<1>4. ASSUME NEW i \in 1 .. n + 1 PROVE CallFits(D[i], i) /\ RedirectFits(D[i], D, i)
  <2>1. CASE i = n + 1
    BY <1>1, <2>1 DEF RedirectFits
  <2>2. CASE i \in 1 .. n
    <3>1. D[i] = C[i] /\ CallFits(C[i], i) /\ RedirectFits(C[i], C, i)
      BY <1>1, <2>2 DEF Stack
    <3>2. Where(D, i - 1) = Where(C, i - 1)
      BY <1>2, <2>2
    <3>. QED
      BY <3>1, <3>2 DEF RedirectFits
  <2>. QED
    BY <2>1, <2>2
<1>5. Stack(D, o)
  BY <1>1, <1>3, <1>4 DEF Stack
<1>6. ASSUME NEW b, Waits(C, b) PROVE Waits(D, b)
  BY <1>1, <1>6 DEF Waits
<1>7. f.op \notin Flushing => Waits(D, f.b)
  <2>1. n + 1 \in 1 .. Len(D)
    BY <1>1
  <2>. QED
    BY <1>1, <2>1 DEF Waits
<1>. QED
  BY <1>5, <1>6, <1>7

(* With the innermost call changed.                                        *)
LEMMA Replaced ==
  ASSUME Inv, calls # <<>>, NEW f \in Frame
  PROVE  /\ SetCur(f) \in Seq(Frame) /\ Len(SetCur(f)) = Len(calls)
         /\ \A i \in 1 .. Len(calls) : SetCur(f)[i] = IF i = Len(calls) THEN f ELSE calls[i]
BY Innermost, ExceptSeq DEF SetCur, Inv, TypeOK

Successor(f) ==
    /\ f.b = Cur.b /\ f.op = Cur.op
    /\ (f.start <=> Cur.start) /\ (f.new <=> Cur.new)
    /\ f.at = "php" => Cur.at = "php"

LEMMA SetStack ==
  ASSUME Inv, calls # <<>>, NEW f \in Frame, Successor(f),
         RedirectFits(f, calls, Len(calls)), NEW o,
         o = IF Redirects(f) THEN buf[top].w ELSE Where(calls, Len(calls) - 1)
  PROVE  Stack(SetCur(f), o) /\ CallersFit(buf, SetCur(f))
<1>. PICK n \in Nat \ {0} : n = Len(calls)
  BY Innermost, Types
<1>. PICK D : D = SetCur(f)
  OBVIOUS
<1>1. /\ D \in Seq(Frame) /\ Len(D) = n
      /\ \A j \in 1 .. n : D[j] = IF j = n THEN f ELSE calls[j]
  BY Replaced
<1>2. CallFits(f, n) /\ Cur = calls[n]
  BY Innermost DEF CallFits, Successor
<1>3. ASSUME NEW i \in 0 .. n - 1 PROVE Where(D, i) = Where(calls, i)
  BY <1>1, WhereSame
<1>4. Where(D, n) = o
  <2>1. D[n] = f /\ Where(D, n - 1) = Where(calls, n - 1)
    BY <1>1, <1>3
  <2>. QED
    BY <2>1, WhereNext
<1>5. ASSUME NEW i \in 1 .. n PROVE CallFits(D[i], i) /\ RedirectFits(D[i], D, i)
  <2>1. Where(D, i - 1) = Where(calls, i - 1)
    BY <1>3
  <2>2. CASE i = n
    BY <1>1, <1>2, <2>1, <2>2 DEF RedirectFits
  <2>3. CASE i # n
    <3>1. D[i] = calls[i] /\ CallFits(calls[i], i) /\ RedirectFits(calls[i], calls, i)
      BY <1>1, <2>3 DEF Inv, Stack
    <3>. QED
      BY <2>1, <3>1 DEF RedirectFits
  <2>. QED
    BY <2>2, <2>3
<1>6. Stack(D, o)
  BY <1>1, <1>4, <1>5 DEF Stack
<1>7. ASSUME NEW b, Waits(calls, b) PROVE Waits(D, b)
  <2>1. \A i \in 1 .. n : D[i].op = calls[i].op /\ D[i].b = calls[i].b
    BY <1>1, <1>2 DEF Successor
  <2>. QED
    BY <1>1, <1>7, <2>1 DEF Waits
<1>. QED
  BY <1>6, <1>7 DEF Inv, CallersFit

(* In particular, as before where nothing is redirected or restored.       *)
LEMMA SetSame ==
  ASSUME Inv, calls # <<>>, NEW f \in Frame, Successor(f),
         Redirects(f) <=> Redirects(Cur), Redirects(f) => f.saved = Cur.saved
  PROVE  Stack(SetCur(f), out) /\ CallersFit(buf, SetCur(f))
<1>1. RedirectFits(f, calls, Len(calls))
  BY Innermost DEF RedirectFits, Successor
<1>2. out = IF Redirects(f) THEN buf[top].w ELSE Where(calls, Len(calls) - 1)
  <2>1. Len(calls) \in Nat \ {0} /\ Cur = calls[Len(calls)]
    BY Innermost, Types
  <2>2. out = Where(calls, Len(calls))
    BY DEF Inv, Stack
  <2>. QED
    BY <2>1, <2>2, WhereNext
<1>. QED
  BY <1>1, <1>2, SetStack

(* Without the innermost call.                                             *)
LEMMA BelowStack ==
  ASSUME Inv, calls # <<>>, ~Redirects(Cur)
  PROVE  /\ Stack(Below, out) /\ Len(Below) = Len(calls) - 1 /\ Len(Below) \in Nat
         /\ \A i \in 1 .. Len(Below) : Below[i] = calls[i]
         /\ \A b : Waits(calls, b) => Waits(Below, b) \/ (b = Cur.b /\ Cur.op \notin Flushing)
<1>1. PICK n \in Nat : Len(calls) = n + 1
  <2>1. Len(calls) - 1 \in Nat /\ Len(calls) = (Len(calls) - 1) + 1
    BY Innermost, Types
  <2>. QED
    BY <2>1
<1>2. \A i \in 1 .. n : calls[i] \in Frame
  BY <1>1, Types
<1>3. /\ Below \in Seq(Frame) /\ Len(Below) = IF 1 <= n THEN n - 1 + 1 ELSE 0
      /\ \A i \in 1 .. n - 1 + 1 : Below[i] = calls[1 + i - 1]
  BY <1>1, <1>2, SubSeqProperties DEF Below
<1>4. Len(Below) = n /\ \A i \in 1 .. n : Below[i] = calls[i]
  BY <1>3
<1>. PICK D : D = Below
  OBVIOUS
<1>5. ASSUME NEW i \in 0 .. n PROVE Where(D, i) = Where(calls, i)
  BY <1>4, WhereSame
<1>6. Where(D, n) = out
  <2>1. n + 1 \in Nat \ {0} /\ n + 1 - 1 = n /\ Cur = calls[n + 1]
    BY <1>1, Innermost
  <2>2. out = Where(calls, n + 1)
    BY <1>1 DEF Inv, Stack
  <2>. QED
    BY <1>5, <2>1, <2>2, WhereNext
<1>7. ASSUME NEW i \in 1 .. n PROVE CallFits(D[i], i) /\ RedirectFits(D[i], D, i)
  <2>1. D[i] = calls[i] /\ CallFits(calls[i], i) /\ RedirectFits(calls[i], calls, i)
    BY <1>1, <1>4 DEF Inv, Stack
  <2>2. Where(D, i - 1) = Where(calls, i - 1)
    BY <1>5
  <2>. QED
    BY <2>1, <2>2 DEF RedirectFits
<1>8. Stack(D, out)
  BY <1>3, <1>4, <1>6, <1>7 DEF Stack
<1>9. ASSUME NEW b, Waits(calls, b)
      PROVE  Waits(D, b) \/ (b = Cur.b /\ Cur.op \notin Flushing)
  <2>1. PICK i \in 1 .. n + 1 : calls[i].op \notin Flushing /\ calls[i].b = b
    BY <1>1, <1>9 DEF Waits
  <2>2. CASE i = n + 1
    BY <1>1, <2>1, <2>2, Innermost
  <2>3. CASE i \in 1 .. n
    BY <1>4, <2>1, <2>3 DEF Waits
  <2>. QED
    BY <2>2, <2>3
<1>. QED
  BY <1>1, <1>4, <1>8, <1>9

-----------------------------------------------------------------------------
(* What a call makes of its buffer and puts on the stack *)

LEMMA OpenedFacts ==
  ASSUME NEW r \in Buffer, NEW op \in Ops
  PROVE  /\ Opened(op, r) \in Buffer
         /\ Opened(op, r).w = r.w
         /\ Opened(op, r).caller = r.caller
         /\ (Opened(op, r).shut <=> r.shut)
         /\ (Opened(op, r).cb <=> r.cb)
         /\ r.cb => Opened(op, r).started /\ Opened(op, r).met
<1>1. <<>> \in Seq(Bytes)
  BY EmptySeq
<1>. QED
  BY <1>1 DEF Opened, Buffer

LEMMA OnwardFacts ==
  ASSUME NEW f \in Frame, NEW d \in Seq(Bytes), NEW e \in Errors
  PROVE  /\ Onward(f, d, e) \in Frame /\ Onward(f, d, e).at \in {"pass", "end"}
         /\ Onward(f, d, e).b = f.b /\ Onward(f, d, e).op = f.op
         /\ Onward(f, d, e).start = f.start /\ Onward(f, d, e).new = f.new
         /\ Onward(f, d, e).d = d
<1>1. "none" \in Errors /\ Sapi \in 0 .. MaxBufs /\ 0 \in 0 .. MaxDeeds
  BY OutputAssumption DEF Errors, Sapi
<1>. QED
  BY <1>1 DEF Onward, Frame, Steps

LEMMA CalledFacts ==
  ASSUME NEW r \in Buffer, NEW op \in Ops, NEW b \in Buffers, Buffers \subseteq 1 .. MaxBufs,
         r.cb => (r.started <=> r.met),
         NEW n, op \notin Flushing => b = top, op \in Closing => n = 1
  PROVE  /\ Called(op, b, r) \in Frame /\ CallFits(Called(op, b, r), n)
         /\ ~Redirects(Called(op, b, r))
         /\ Called(op, b, r).b = b /\ Called(op, b, r).op = op
<1>. DEFINE f == [op |-> op, b |-> b, at |-> "php", err |-> "none", dep |-> "none",
                  d |-> IF op \in Dropping THEN <<>> ELSE r.data, saved |-> Sapi,
                  start |-> ~r.started, new |-> ~r.met, left |-> MaxDeeds]
<1>1. <<>> \in Seq(Bytes) /\ r.data \in Seq(Bytes) /\ "none" \in Errors
  BY EmptySeq DEF Buffer, Errors
<1>2. MaxDeeds \in 0 .. MaxDeeds /\ Sapi \in 0 .. MaxBufs
  BY OutputAssumption DEF Sapi
<1>3. f \in Frame /\ f.d \in Seq(Bytes) /\ f.b = b /\ f.op = op /\ f.at = "php"
  BY <1>1, <1>2 DEF Frame, Steps, Errors
<1>4. r.cb => (f.start <=> f.new)
  OBVIOUS
<1>5. Called(op, b, r) = IF r.cb THEN f ELSE Onward(f, f.d, "none")
  BY DEF Called
<1>. HIDE DEF f
<1>6. CASE r.cb
  BY <1>3, <1>4, <1>5, <1>6 DEF CallFits, Redirects
<1>7. CASE ~r.cb
  <2>1. PICK g \in Frame : g = Onward(f, f.d, "none")
    BY <1>1, <1>3, OnwardFacts
  <2>2. g.at \in {"pass", "end"} /\ g.b = b /\ g.op = op
    BY <1>1, <1>3, <2>1, OnwardFacts
  <2>. QED
    BY <1>5, <1>7, <2>1, <2>2 DEF CallFits, Redirects
<1>. QED
  BY <1>6, <1>7

-----------------------------------------------------------------------------
(* Steps that leave the stack of buffers as it is *)

(* What a step may change in a buffer that stays open, or stays closed.    *)
Same(r, s) ==
    /\ r.w = s.w
    /\ r.shut <=> s.shut
    /\ (s.cb => (s.started <=> s.met)) => (r.cb => (r.started <=> r.met))

Alike(A, B) ==
    /\ A \in Seq(Buffer) /\ Len(A) = Len(B)
    /\ \A b \in 1 .. Len(B) : Same(A[b], B[b])

(* The buffers, the calls and the output after such a step.                *)
Keeps(A, C, o) == Alike(A, buf) /\ Stack(C, o) /\ CallersFit(A, C)

(* The types of the variables it may change besides.                       *)
Others ==
    /\ sink' \in Seq(Bytes)
    /\ tracked' \in Nat /\ (MemLimit > 0 => tracked' <= MemLimit)
    /\ disabled' \in BOOLEAN
    /\ phase' \in Phases
    /\ bytes' \in 0 .. MaxBytes

LEMMA AlikeSelf == ASSUME Inv PROVE Alike(buf, buf)
BY DEF Inv, TypeOK, Alike, Same

LEMMA AlikeTrans ==
  ASSUME NEW A, NEW B, NEW C, Alike(A, B), Alike(B, C) PROVE Alike(A, C)
BY DEF Alike, Same

LEMMA Unchanged == ASSUME Inv PROVE Keeps(buf, calls, out)
BY AlikeSelf DEF Inv, Keeps

LEMMA AlikeExcept ==
  ASSUME Inv, NEW b \in Buffers, NEW r \in Buffer, Same(r, buf[b])
  PROVE  /\ Alike([buf EXCEPT ![b] = r], buf)
         /\ \A j \in 1 .. Len(buf) : [buf EXCEPT ![b] = r][j] = IF j = b THEN r ELSE buf[j]
<1>1. /\ [buf EXCEPT ![b] = r] \in Seq(Buffer)
      /\ Len([buf EXCEPT ![b] = r]) = Len(buf)
      /\ \A j \in 1 .. Len(buf) : [buf EXCEPT ![b] = r][j] = IF j = b THEN r ELSE buf[j]
  BY ExceptSeq DEF Buffers, Inv, TypeOK
<1>2. \A j \in 1 .. Len(buf) : Same(buf[j], buf[j])
  BY DEF Same
<1>. QED
  BY <1>1, <1>2 DEF Alike

(* A buffer whose caller is forgotten, or waits.                           *)
LEMMA CallersExcept ==
  ASSUME Inv, NEW b \in Buffers, NEW r \in Buffer, Same(r, buf[b]), NEW C, NEW D,
         CallersFit(buf, C), \A j \in Buffers : Waits(C, j) => Waits(D, j) \/ j = b,
         r.caller # "none" => Waits(D, b)
  PROVE  CallersFit([buf EXCEPT ![b] = r], D)
<1>. PICK B : B = [buf EXCEPT ![b] = r]
  OBVIOUS
<1>1. Len(B) = Len(buf) /\ \A j \in 1 .. Len(buf) : B[j] = IF j = b THEN r ELSE buf[j]
  BY AlikeExcept DEF Alike
<1>2. ASSUME NEW j \in 1 .. Len(buf), B[j].caller # "none" PROVE Waits(D, j)
  BY <1>1, <1>2 DEF CallersFit, Buffers
<1>. QED
  BY <1>1, <1>2 DEF CallersFit

LEMMA KeepStep ==
  ASSUME Inv, Keeps(buf', calls', out'), top' = top, Others
  PROVE  Inv'
<1>. PICK n \in Nat : n = Len(buf)
  BY Types
<1>1. /\ Len(buf') = n /\ Buffers = 1 .. n /\ Buffers' = 1 .. n
      /\ \A b \in 1 .. n : Same(buf'[b], buf[b])
  BY DEF Keeps, Alike, Buffers
<1>. PICK C \in Seq(Frame) : C = calls'
  BY DEF Keeps, Stack
<1>2. \A i \in 1 .. Len(C) : CallFits(C[i], i) /\ RedirectFits(C[i], C, i)
  BY DEF Keeps, Stack
<1>3. out' = Where(C, Len(C)) /\ Len(C) \in 0 .. Len(C)
  BY LenProperties DEF Keeps, Stack
<1>4. TypeOK'
  <2>1. out' \in 0 .. n
    BY <1>2, <1>3, WhereType
  <2>. QED
    BY <1>1, <2>1 DEF Keeps, Alike, Others, Phases, Inv, TypeOK
<1>5. BuffersFit'
  BY <1>1 DEF Same, Inv, BuffersFit, BufferFits
<1>6. ASSUME NEW i \in 0 .. Len(C) PROVE Where(C, i)' = Where(C, i)
  <2>1. CASE \E j \in 1 .. i : Redirects(C[j])
    <3>1. PICK j \in 1 .. Len(C) : Redirects(C[j])
      BY <1>3, <2>1
    <3>2. top \in 1 .. n
      BY <1>1, <1>2, <3>1 DEF CallFits, RedirectFits
    <3>. QED
      BY <1>1, <2>1, <3>2 DEF Where, Same, Redirects
  <2>2. CASE ~ \E j \in 1 .. i : Redirects(C[j])
    BY <2>2 DEF Where, Redirects
  <2>. QED
    BY <2>1, <2>2
<1>7. Stack(calls, out)'
  <2>1. ASSUME NEW i \in 1 .. Len(C) PROVE CallFits(C[i], i)' /\ RedirectFits(C[i], C, i)'
    <3>1. CallFits(C[i], i) /\ RedirectFits(C[i], C, i)
      BY <1>2
    <3>2. Where(C, i - 1)' = Where(C, i - 1)
      BY <1>3, <1>6
    <3>. QED
      BY <1>1, <3>1, <3>2 DEF CallFits, RedirectFits, Redirects
  <2>2. out' = Where(C, Len(C))'
    BY <1>3, <1>6
  <2>. QED
    BY <2>1, <2>2 DEF Stack
<1>8. StackIsLive'
  <2>1. {b \in 1 .. n : ~buf'[b].shut} = {b \in 1 .. n : ~buf[b].shut}
    BY <1>1 DEF Same
  <2>2. \A b \in 1 .. n : buf'[b].w = buf[b].w
    BY <1>1 DEF Same
  <2>. QED
    BY <1>1, <2>1, <2>2 DEF Inv, StackIsLive, Open
<1>9. CallersFit(buf, calls)'
  BY DEF Keeps
<1>. QED
  BY <1>4, <1>5, <1>7, <1>8, <1>9 DEF Inv

-----------------------------------------------------------------------------
(* A write, and the auto flush it may bring *)

LEMMA PutFacts ==
  ASSUME Inv, NEW op \in Flushing, NEW w \in 0 .. Len(buf), NEW d \in Seq(Bytes),
         NEW C, NEW o, Stack(C, o), CallersFit(buf, C), Put(op, w, d, C)
  PROVE  /\ Keeps(buf', calls', o)
         /\ sink' \in Seq(Bytes)
         /\ tracked' \in Nat /\ (MemLimit > 0 => tracked' <= MemLimit)
<1>1. sink \in Seq(Bytes) /\ tracked \in Nat /\ (MemLimit > 0 => tracked <= MemLimit)
  BY DEF Inv, TypeOK
<1>2. CASE w = Sapi /\ sink' = sink \o d /\ calls' = C /\ UNCHANGED <<buf, tracked>>
  BY <1>1, <1>2, AlikeSelf, ConcatProperties DEF Keeps
<1>3. CASE calls' = C /\ UNCHANGED <<buf, tracked, sink>>
  BY <1>1, <1>3, AlikeSelf DEF Keeps
<1>4. CASE /\ w # Sapi /\ ~Refused(w, d)
           /\ tracked' = tracked + Len(d)
           /\ LET r == [buf[w] EXCEPT !.data = @ \o d]
                  full == r.chunk > 0 /\ Len(r.data) >= r.chunk
              IN  /\ buf' = [buf EXCEPT ![w] = IF full THEN Opened(op, r) ELSE r]
                  /\ calls' = IF full THEN Append(C, Called(op, w, r)) ELSE C
           /\ UNCHANGED sink
  <2>1. w \in Buffers /\ buf[w] \in Buffer /\ Buffers \subseteq 1 .. MaxBufs
    BY <1>4, Types DEF Buffers, Sapi
  <2>2. tracked' \in Nat /\ (MemLimit > 0 => tracked' <= MemLimit)
    BY <1>1, <1>4, LenProperties, OutputAssumption DEF Refused
  <2>3. buf[w].data \o d \in Seq(Bytes)
    BY <2>1, ConcatProperties DEF Buffer
  <2>4. PICK r \in Buffer : r = [buf[w] EXCEPT !.data = @ \o d]
    BY <2>1, <2>3 DEF Buffer
  <2>5. /\ Same(r, buf[w]) /\ (r.cb => (r.started <=> r.met))
        /\ r.w = buf[w].w /\ (r.shut <=> buf[w].shut) /\ r.caller = buf[w].caller
    BY <2>1, <2>4 DEF Same, Buffer, Inv, BuffersFit, BufferFits
  <2>6. PICK full \in BOOLEAN :
           /\ buf' = [buf EXCEPT ![w] = IF full THEN Opened(op, r) ELSE r]
           /\ calls' = IF full THEN Append(C, Called(op, w, r)) ELSE C
    BY <1>4, <2>4
  <2>7. op \in Ops /\ op \notin Closing
    BY DEF Ops, Closing, Flushing
  <2>8. PICK f \in Frame : f = Called(op, w, r) /\ CallFits(f, Len(C) + 1) /\ ~Redirects(f)
    BY <2>1, <2>5, <2>7, CalledFacts
  <2>9. CASE full
    <3>1. PICK q \in Buffer : q = Opened(op, r)
      BY <2>7, OpenedFacts
    <3>2. Same(q, buf[w]) /\ q.caller = buf[w].caller
      BY <2>5, <2>7, <3>1, OpenedFacts DEF Same
    <3>3. PICK D : D = Append(C, f)
      OBVIOUS
    <3>4. Stack(D, o) /\ \A b : Waits(C, b) => Waits(D, b)
      BY <2>8, <3>3, PushStack
    <3>5. buf' = [buf EXCEPT ![w] = q] /\ calls' = D
      BY <2>6, <2>8, <2>9, <3>1, <3>3
    <3>6. q.caller # "none" => Waits(D, w)
      BY <2>1, <3>2, <3>4 DEF CallersFit, Buffers
    <3>7. Alike(buf', buf) /\ CallersFit(buf', D)
      BY <2>1, <3>2, <3>4, <3>5, <3>6, AlikeExcept, CallersExcept
    <3>. QED
      BY <1>1, <1>4, <2>2, <3>4, <3>5, <3>7 DEF Keeps
  <2>10. CASE ~full
    <3>1. buf' = [buf EXCEPT ![w] = r] /\ calls' = C
      BY <2>6, <2>10
    <3>2. r.caller # "none" => Waits(C, w)
      BY <2>1, <2>5 DEF CallersFit, Buffers
    <3>3. Alike(buf', buf) /\ CallersFit(buf', C)
      BY <2>1, <2>5, <3>1, <3>2, AlikeExcept, CallersExcept
    <3>. QED
      BY <1>1, <1>4, <2>2, <3>1, <3>3 DEF Keeps
  <2>. QED
    BY <2>9, <2>10
<1>. QED
  BY <1>2, <1>3, <1>4 DEF Put

-----------------------------------------------------------------------------
(* The steps of a call *)

(* The innermost call goes on, and what it may redirect is undone.         *)
LEMMA SetStep ==
  ASSUME Inv, calls # <<>>, NEW f \in Frame, Successor(f), calls' = SetCur(f),
         RedirectFits(f, calls, Len(calls)),
         out' = IF Redirects(f) THEN buf[top].w ELSE Where(calls, Len(calls) - 1),
         NEW B, Alike(B, buf), \A b \in Buffers : B[b].caller = buf[b].caller,
         buf' = B, UNCHANGED <<top, sink, tracked, phase>>,
         disabled' \in BOOLEAN, bytes' \in 0 .. MaxBytes
  PROVE  Inv'
<1>1. Stack(calls', out') /\ CallersFit(buf, calls')
  BY SetStack
<1>2. CallersFit(buf', calls')
  BY <1>1 DEF CallersFit, Alike, Buffers
<1>3. Others
  BY DEF Others, Phases, Inv, TypeOK
<1>. QED
  BY <1>1, <1>2, <1>3, KeepStep DEF Keeps

LEMMA GoesOn ==
  ASSUME Inv, calls # <<>>, NEW f \in Frame, Successor(f), calls' = SetCur(f),
         Redirects(f) <=> Redirects(Cur), Redirects(f) => f.saved = Cur.saved,
         UNCHANGED <<buf, top, out, sink, tracked, phase>>,
         disabled' \in BOOLEAN, bytes' \in 0 .. MaxBytes
  PROVE  Inv'
<1>1. Stack(calls', out') /\ CallersFit(buf', calls')
  BY SetSame
<1>2. Others
  BY DEF Others, Phases, Inv, TypeOK
<1>. QED
  BY <1>1, <1>2, AlikeSelf, KeepStep DEF Keeps

(* Something is written.                                                   *)
LEMMA Wrote ==
  ASSUME Inv, NEW op \in Flushing, NEW w \in 0 .. Len(buf), NEW d \in Seq(Bytes),
         NEW C, Stack(C, out), CallersFit(buf, C), Put(op, w, d, C),
         UNCHANGED <<top, out>>, disabled' \in BOOLEAN, phase' \in Phases,
         bytes' \in 0 .. MaxBytes
  PROVE  Inv'
<1>1. /\ Keeps(buf', calls', out')
      /\ sink' \in Seq(Bytes)
      /\ tracked' \in Nat /\ (MemLimit > 0 => tracked' <= MemLimit)
  BY PutFacts
<1>. QED
  BY <1>1, KeepStep DEF Others

LEMMA SomeBytes ==
  /\ <<0>> \in Seq(Bytes) /\ <<>> \in Seq(Bytes)
  /\ \A n \in 0 .. MaxBytes : <<n>> \in Seq(Bytes) /\ <<-n>> \in Seq(Bytes)
<1>1. 0 \in Bytes /\ \A n \in 0 .. MaxBytes : n \in Bytes /\ -n \in Bytes
  BY OutputAssumption DEF Bytes
<1>. QED
  BY <1>1

LEMMA NextCount == ASSUME Inv, bytes < MaxBytes PROVE bytes + 1 \in 0 .. MaxBytes
BY OutputAssumption DEF Inv, TypeOK

LEMMA PhaseType ==
  ASSUME Inv
  PROVE  /\ phase \in Phases /\ bytes \in 0 .. MaxBytes /\ disabled \in BOOLEAN
         /\ "auto" \in Flushing /\ "echo" \in Flushing
BY DEF Inv, TypeOK, Phases, Flushing

(* A deed of PHP code costs one of those it has left.                      *)
LEMMA DidFacts ==
  ASSUME Inv, NEW what, Deed(what)
  PROVE  /\ calls # <<>> /\ Len(Did) = Len(calls)
         /\ Stack(Did, out) /\ CallersFit(buf, Did)
         /\ \E f \in Frame : Did = SetCur(f) /\ Successor(f) /\ f = [Cur EXCEPT !.left = @ - 1]
<1>1. calls # <<>> /\ Cur.left > 0
  BY DEF Deed, Running
<1>2. Cur \in Frame
  BY <1>1, Innermost
<1>3. PICK f \in Frame : f = [Cur EXCEPT !.left = @ - 1]
  <2>1. Cur.left - 1 \in 0 .. MaxDeeds
    BY <1>1, <1>2, OutputAssumption DEF Frame
  <2>. QED
    BY <1>2, <2>1 DEF Frame
<1>4. Successor(f) /\ f.at = Cur.at /\ f.saved = Cur.saved
  BY <1>2, <1>3 DEF Successor, Frame
<1>5. Did = SetCur(f)
  BY <1>3 DEF Did
<1>. QED
  BY <1>1, <1>3, <1>4, <1>5, Replaced, SetSame DEF Redirects

LEMMA PhpWarnsStep == ASSUME Inv, PhpWarns PROVE Inv'
<1>1. /\ Deed("warn") /\ Put("auto", out, <<0>>, Did) /\ bytes' \in 0 .. MaxBytes
      /\ UNCHANGED <<top, out, disabled, phase>>
  BY NextCount DEF PhpWarns
<1>. QED
  BY <1>1, DidFacts, SomeBytes, Types, PhaseType, Wrote

LEMMA AsideEchoesStep == ASSUME Inv, AsideEchoes PROVE Inv'
<1>1. /\ Deed("echo") /\ bytes' \in 0 .. MaxBytes /\ UNCHANGED <<top, out, disabled, phase>>
      /\ \/ Put("echo", out, <<-bytes'>>, Did)
         \/ calls' = SetCur([Cur EXCEPT !.err = "die"]) /\ UNCHANGED <<buf, sink, tracked>>
  BY NextCount DEF AsideEchoes
<1>2. CASE Put("echo", out, <<-bytes'>>, Did)
  BY <1>1, <1>2, DidFacts, SomeBytes, Types, PhaseType, Wrote
<1>3. CASE calls' = SetCur([Cur EXCEPT !.err = "die"]) /\ UNCHANGED <<buf, sink, tracked>>
  <2>1. calls # <<>> /\ Cur \in Frame
    BY <1>1, DidFacts, Innermost
  <2>2. PICK f \in Frame : f = [Cur EXCEPT !.err = "die"]
    BY <2>1 DEF Frame, Errors
  <2>3. Successor(f) /\ f.at = Cur.at /\ f.saved = Cur.saved
    BY <2>1, <2>2 DEF Successor, Frame
  <2>. QED
    BY <1>1, <1>3, <2>1, <2>2, <2>3, PhaseType, GoesOn DEF Redirects
<1>. QED
  BY <1>1, <1>2, <1>3

LEMMA HandlerStartsStep == ASSUME Inv, HandlerStarts PROVE Inv'
<1>1. /\ calls # <<>> /\ disabled' = TRUE /\ calls' = SetCur([Cur EXCEPT !.err = "die"])
      /\ UNCHANGED <<buf, top, out, sink, tracked, phase, bytes>>
  BY DEF HandlerStarts, At
<1>2. Cur \in Frame
  BY <1>1, Innermost
<1>3. PICK f \in Frame : f = [Cur EXCEPT !.err = "die"]
  BY <1>2 DEF Frame, Errors
<1>4. Successor(f) /\ f.at = Cur.at /\ f.saved = Cur.saved
  BY <1>2, <1>3 DEF Successor, Frame
<1>. QED
  BY <1>1, <1>3, <1>4, PhaseType, GoesOn DEF Redirects

LEMMA ErrorDeclinedStep == ASSUME Inv, ErrorDeclined PROVE Inv'
<1>1. /\ calls # <<>> /\ Cur.at = "error"
      /\ calls' = SetCur([Cur EXCEPT !.at = "notice", !.left = 0])
      /\ UNCHANGED <<buf, top, out, sink, tracked, disabled, phase, bytes>>
  BY DEF ErrorDeclined, At
<1>2. Cur \in Frame /\ 0 \in 0 .. MaxDeeds
  BY <1>1, Innermost, OutputAssumption
<1>3. PICK f \in Frame : f = [Cur EXCEPT !.at = "notice", !.left = 0]
  BY <1>2 DEF Frame, Steps
<1>4. Successor(f) /\ f.at = "notice" /\ f.saved = Cur.saved
  BY <1>2, <1>3 DEF Successor, Frame
<1>. QED
  BY <1>1, <1>3, <1>4, PhaseType, GoesOn DEF Redirects

(* An ob_* function saved the output: it goes to the parent of its buffer. *)
LEMMA HandlerReturnsStep == ASSUME Inv, HandlerReturns PROVE Inv'
<1>1. /\ calls # <<>> /\ Cur.at = "php"
      /\ UNCHANGED <<buf, top, sink, tracked, disabled, phase, bytes>>
  BY DEF HandlerReturns, At
<1>2. Cur \in Frame /\ Cur.b \in Buffers /\ MaxDeeds \in 0 .. MaxDeeds /\ 0 \in 0 .. MaxDeeds
  BY <1>1, Innermost, OutputAssumption
<1>3. CASE calls' = SetCur([Cur EXCEPT !.at = "result", !.left = MaxDeeds]) /\ UNCHANGED out
  <2>1. PICK f \in Frame : f = [Cur EXCEPT !.at = "result", !.left = MaxDeeds]
    BY <1>2 DEF Frame, Steps
  <2>2. Successor(f) /\ f.at = "result"
    BY <1>2, <2>1 DEF Successor, Frame
  <2>. QED
    BY <1>1, <1>3, <2>1, <2>2, PhaseType, GoesOn DEF Redirects
<1>4. CASE /\ buf[Cur.b].caller # "none" /\ out' = buf[Cur.b].w
           /\ \E at \in {"error", "notice"} :
                calls' = SetCur([Cur EXCEPT !.at = at, !.saved = out,
                  !.left = IF at = "error" /\ buf[Cur.b].caller = "script" THEN MaxDeeds ELSE 0])
  <2>1. PICK at \in {"error", "notice"}, l \in 0 .. MaxDeeds :
           calls' = SetCur([Cur EXCEPT !.at = at, !.saved = out, !.left = l])
    BY <1>2, <1>4
  <2>2. PICK f \in Frame : f = [Cur EXCEPT !.at = at, !.saved = out, !.left = l]
    <3>1. out \in 0 .. MaxBufs
      BY Types
    <3>. QED
      BY <1>2, <3>1 DEF Frame, Steps
  <2>3. Successor(f) /\ f.at = at /\ f.saved = out /\ f.b = Cur.b
    BY <1>2, <2>2 DEF Successor, Frame
  <2>4. Cur.b = top
    <3>1. Waits(calls, Cur.b)
      BY <1>2, <1>4 DEF Inv, CallersFit, Buffers
    <3>. QED
      BY <3>1 DEF Waits, Inv, Stack, CallFits
  <2>5. out = Where(calls, Len(calls) - 1)
    <3>1. Len(calls) \in Nat \ {0} /\ Cur = calls[Len(calls)] /\ ~Redirects(Cur)
      BY <1>1, Innermost, Types DEF Redirects
    <3>2. out = Where(calls, Len(calls))
      BY DEF Inv, Stack
    <3>. QED
      BY <3>1, <3>2, WhereNext
  <2>6. Redirects(f) /\ RedirectFits(f, calls, Len(calls))
    BY <2>3, <2>4, <2>5 DEF Redirects, RedirectFits
  <2>. QED
    BY <1>1, <1>4, <2>1, <2>2, <2>3, <2>4, <2>6, PhaseType, AlikeSelf, SetStep
<1>. QED
  BY <1>3, <1>4 DEF HandlerReturns

(* What the report redirected is restored, whatever has become of it.      *)
LEMMA NoticeEndsStep == ASSUME Inv, NoticeEnds PROVE Inv'
<1>1. /\ calls # <<>> /\ Cur.at \in {"noticed", "error"} /\ out' = Cur.saved
      /\ UNCHANGED <<buf, top, sink, tracked, disabled, phase, bytes>>
  BY DEF NoticeEnds, At, Restored
<1>2. Cur \in Frame /\ MaxDeeds \in 0 .. MaxDeeds /\ Sapi \in 0 .. MaxBufs
  BY <1>1, Innermost, OutputAssumption DEF Sapi
<1>3. PICK e \in Errors :
         calls' = SetCur([Cur EXCEPT !.at = "result", !.err = "none", !.dep = e,
                                     !.saved = Sapi, !.left = MaxDeeds])
  BY DEF NoticeEnds
<1>4. PICK f \in Frame :
         f = [Cur EXCEPT !.at = "result", !.err = "none", !.dep = e,
                         !.saved = Sapi, !.left = MaxDeeds]
  BY <1>2 DEF Frame, Steps, Errors
<1>5. Successor(f) /\ f.at = "result"
  BY <1>2, <1>4 DEF Successor, Frame
<1>6. Cur.saved = Where(calls, Len(calls) - 1)
  BY <1>1, Innermost DEF RedirectFits, Redirects
<1>7. ~Redirects(f) /\ RedirectFits(f, calls, Len(calls))
  BY <1>5 DEF Redirects, RedirectFits
<1>. QED
  BY <1>1, <1>3, <1>4, <1>5, <1>6, <1>7, PhaseType, AlikeSelf, SetStep

LEMMA NoticeWrittenStep == ASSUME Inv, NoticeWritten PROVE Inv'
<1>1. calls # <<>> /\ Cur.at = "notice" /\ UNCHANGED <<top, out, disabled, phase>>
  BY DEF NoticeWritten, At
<1>2. Cur \in Frame
  BY <1>1, Innermost
<1>3. PICK f \in Frame : f = [Cur EXCEPT !.at = "noticed"]
  BY <1>2 DEF Frame, Steps
<1>4. Successor(f) /\ f.at = "noticed" /\ f.saved = Cur.saved
  BY <1>2, <1>3 DEF Successor, Frame
<1>5. \/ bytes' \in 0 .. MaxBytes /\ Put("auto", out, <<0>>, SetCur(f))
      \/ calls' = SetCur(f) /\ UNCHANGED <<buf, sink, tracked, bytes>>
  BY <1>3, NextCount DEF NoticeWritten
<1>6. Redirects(f) <=> Redirects(Cur)
  BY <1>1, <1>4 DEF Redirects
<1>7. Stack(SetCur(f), out) /\ CallersFit(buf, SetCur(f))
  BY <1>1, <1>4, <1>6, SetSame
<1>8. CASE bytes' \in 0 .. MaxBytes /\ Put("auto", out, <<0>>, SetCur(f))
  BY <1>1, <1>7, <1>8, SomeBytes, Types, PhaseType, Wrote
<1>9. CASE calls' = SetCur(f) /\ UNCHANGED <<buf, sink, tracked, bytes>>
  BY <1>1, <1>4, <1>6, <1>9, PhaseType, GoesOn
<1>. QED
  BY <1>5, <1>8, <1>9

(* The call goes on with d after the PHP code.                             *)
LEMMA OnwardStep ==
  ASSUME Inv, calls # <<>>, ~Redirects(Cur), NEW d \in Seq(Bytes), NEW e \in Errors,
         calls' = SetCur(Onward(Cur, d, e)), UNCHANGED <<top, out, sink, tracked, phase>>,
         NEW B, Alike(B, buf), \A b \in Buffers : B[b].caller = buf[b].caller, buf' = B,
         disabled' \in BOOLEAN, bytes' \in 0 .. MaxBytes
  PROVE  Inv'
<1>1. Cur \in Frame
  BY Innermost
<1>2. PICK f \in Frame : f = Onward(Cur, d, e)
  BY <1>1, OnwardFacts
<1>3. Successor(f) /\ f.at \in {"pass", "end"}
  BY <1>1, <1>2, OnwardFacts DEF Successor
<1>4. ~Redirects(f)
  BY <1>3 DEF Redirects
<1>5. Stack(calls', out') /\ CallersFit(buf, calls')
  BY <1>2, <1>3, <1>4, SetSame
<1>6. CallersFit(buf', calls')
  BY <1>5 DEF CallersFit, Alike, Buffers
<1>7. Others
  BY DEF Others, Phases, Inv, TypeOK
<1>. QED
  BY <1>5, <1>6, <1>7, KeepStep DEF Keeps

LEMMA FailedFacts ==
  ASSUME NEW f \in Frame, NEW e
  PROVE  \E d \in Seq(Bytes) : Failed(f, e) = Onward(f, d, e) /\ d \in {f.d, <<>>}
<1>1. f.d \in Seq(Bytes) /\ <<>> \in Seq(Bytes)
  BY EmptySeq DEF Frame
<1>. QED
  BY <1>1 DEF Failed

LEMMA HandlerFailsStep == ASSUME Inv, HandlerFails PROVE Inv'
<1>1. /\ calls # <<>> /\ Cur.at = "php" /\ buf' = [buf EXCEPT ![Cur.b].cb = FALSE]
      /\ UNCHANGED <<top, out, sink, tracked, disabled, phase, bytes>>
  BY DEF HandlerFails, At
<1>2. Cur \in Frame /\ Cur.b \in Buffers /\ ~Redirects(Cur)
  BY <1>1, Innermost DEF Redirects
<1>3. PICK e \in Errors : calls' = SetCur(Failed(Cur, e))
  BY DEF HandlerFails
<1>4. PICK d \in Seq(Bytes) : Failed(Cur, e) = Onward(Cur, d, e)
  BY <1>2, FailedFacts
<1>5. buf[Cur.b] \in Buffer
  BY <1>2, Types
<1>6. PICK r \in Buffer : r = [buf[Cur.b] EXCEPT !.cb = FALSE]
  BY <1>5 DEF Buffer
<1>7. Same(r, buf[Cur.b]) /\ r.caller = buf[Cur.b].caller
  BY <1>5, <1>6 DEF Same, Buffer
<1>8. buf' = [buf EXCEPT ![Cur.b] = r]
  BY <1>1, <1>6
<1>9. Alike(buf', buf) /\ \A b \in Buffers : buf'[b].caller = buf[b].caller
  <2>. DEFINE B == [buf EXCEPT ![Cur.b] = r]
  <2>1. Alike(B, buf) /\ \A b \in 1 .. Len(buf) : B[b] = IF b = Cur.b THEN r ELSE buf[b]
    BY <1>2, <1>7, AlikeExcept
  <2>2. buf' = B
    BY <1>8
  <2>. HIDE DEF B
  <2>. QED
    BY <1>7, <2>1, <2>2 DEF Buffers
<1>. QED
  BY <1>1, <1>2, <1>3, <1>4, <1>9, PhaseType, OnwardStep

LEMMA ResultStep ==
  ASSUME Inv, ResultTaken \/ ResultFails
  PROVE  Inv'
<1>1. /\ calls # <<>> /\ Cur.at = "result"
      /\ UNCHANGED <<buf, top, out, sink, tracked, disabled, phase>>
  BY DEF ResultTaken, ResultFails, At
<1>2. /\ Cur \in Frame /\ Cur.dep \in Errors /\ ~Redirects(Cur)
      /\ Cur.d \in Seq(Bytes) /\ <<>> \in Seq(Bytes) /\ <<0>> \in Seq(Bytes)
  BY <1>1, Innermost, SomeBytes DEF Redirects, Frame
<1>3. CASE ResultTaken
  <2>1. PICK d \in Seq(Bytes) : calls' = SetCur(Onward(Cur, d, Cur.dep))
    BY <1>2, <1>3 DEF ResultTaken
  <2>2. bytes' \in 0 .. MaxBytes
    BY <1>3, NextCount, PhaseType DEF ResultTaken
  <2>. QED
    BY <1>1, <1>2, <2>1, <2>2, PhaseType, AlikeSelf, OnwardStep
<1>4. CASE ResultFails
  <2>1. PICK e \in Errors : calls' = SetCur(Failed(Cur, e)) /\ bytes' = bytes
    BY <1>4 DEF ResultFails
  <2>2. PICK d \in Seq(Bytes) : Failed(Cur, e) = Onward(Cur, d, e)
    BY <1>2, FailedFacts
  <2>. QED
    BY <1>1, <1>2, <2>1, <2>2, PhaseType, AlikeSelf, OnwardStep
<1>. QED
  BY <1>3, <1>4

LEMMA PassStep == ASSUME Inv, Pass PROVE Inv'
<1>1. /\ calls # <<>> /\ Cur.at = "pass"
      /\ Put("auto", buf[Cur.b].w, Cur.d, SetCur([Cur EXCEPT !.at = "end", !.d = <<>>]))
      /\ UNCHANGED <<top, out, disabled, phase, bytes>>
  BY DEF Pass, At
<1>2. Cur \in Frame /\ Cur.d \in Seq(Bytes) /\ Cur.b \in Buffers
  BY <1>1, Innermost
<1>3. PICK f \in Frame : f = [Cur EXCEPT !.at = "end", !.d = <<>>]
  BY <1>2, SomeBytes DEF Frame, Steps
<1>4. Successor(f) /\ ~Redirects(f) /\ ~Redirects(Cur)
  BY <1>1, <1>2, <1>3 DEF Successor, Frame, Redirects
<1>5. Stack(SetCur(f), out) /\ CallersFit(buf, SetCur(f))
  BY <1>1, <1>4, SetSame
<1>6. buf[Cur.b].w \in 0 .. Len(buf)
  <2>1. buf[Cur.b] \in Buffer /\ buf[Cur.b].w < Cur.b /\ Cur.b <= Len(buf) /\ Len(buf) \in Nat
    BY <1>2, Types DEF Inv, BuffersFit, BufferFits, Buffers
  <2>2. buf[Cur.b].w \in Nat /\ Cur.b \in Nat
    BY <1>2, <2>1, Types DEF Buffer, Buffers
  <2>. QED
    BY <2>1, <2>2
<1>. QED
  BY <1>1, <1>2, <1>3, <1>5, <1>6, PhaseType, Wrote

-----------------------------------------------------------------------------
(* The steps of the script and of the engine *)

LEMMA BeginStep ==
  ASSUME Inv, NEW op \in Ops \ Flushing, NEW C, Stack(C, out), CallersFit(buf, C),
         NEW caller \in Callers, op \in Closing => Len(C) = 0, Begin(op, C, caller)
  PROVE  Inv'
<1>1. top \in Buffers /\ buf[top] \in Buffer /\ Buffers \subseteq 1 .. MaxBufs
  BY Types DEF Begin, Sapi, Buffers
<1>2. PICK q \in Buffer : q = Opened(op, buf[top])
  BY <1>1, OpenedFacts
<1>3. q.w = buf[top].w /\ q.caller = buf[top].caller /\ Same(q, buf[top])
  BY <1>1, <1>2, OpenedFacts DEF Same
<1>4. PICK c \in Callers : c = IF caller = "none" THEN q.caller ELSE caller
  BY DEF Buffer
<1>5. PICK r \in Buffer : r = [q EXCEPT !.caller = c]
  BY DEF Buffer
<1>6. Same(r, buf[top]) /\ buf' = [buf EXCEPT ![top] = r]
  <2>1. Same(r, buf[top])
    BY <1>3, <1>5 DEF Same, Buffer
  <2>2. [q EXCEPT !.caller = IF caller = "none" THEN @ ELSE caller] = r
    BY <1>4, <1>5 DEF Buffer
  <2>. QED
    BY <1>2, <2>1, <2>2 DEF Begin
<1>7. PICK f \in Frame : /\ f = Called(op, top, buf[top]) /\ CallFits(f, Len(C) + 1)
                         /\ ~Redirects(f) /\ f.b = top /\ f.op = op
  <2>1. buf[top].cb => (buf[top].started <=> buf[top].met)
    BY <1>1 DEF Inv, BuffersFit, BufferFits
  <2>2. op \in Closing => Len(C) + 1 = 1
    BY LenProperties DEF Stack
  <2>. QED
    BY <1>1, <2>1, <2>2, CalledFacts
<1>8. PICK D : D = Append(C, f)
  OBVIOUS
<1>9. /\ Stack(D, out) /\ Waits(D, top)
      /\ \A b : Waits(C, b) => Waits(D, b)
  BY <1>7, <1>8, PushStack
<1>10. Alike(buf', buf) /\ CallersFit(buf', D)
  BY <1>1, <1>6, <1>9, AlikeExcept, CallersExcept
<1>11. /\ calls' = D
       /\ UNCHANGED <<top, out, sink, tracked, disabled, phase, bytes>>
  BY <1>7, <1>8 DEF Begin
<1>12. Others
  BY <1>11 DEF Others, Phases, Inv, TypeOK
<1>. QED
  BY <1>9, <1>10, <1>11, <1>12, KeepStep DEF Keeps

LEMMA ScriptCallsStep ==
  ASSUME Inv, NEW op \in Ops \ Flushing, ScriptCalls(op) PROVE Inv'
<1>1. Len(calls) = 0 /\ Begin(op, calls, "script") /\ "script" \in Callers
  BY DEF ScriptCalls, Script, Callers
<1>. QED
  BY <1>1, BeginStep DEF Inv

LEMMA CloseNextStep == ASSUME Inv, CloseNext PROVE Inv'
<1>1. Len(calls) = 0 /\ Begin("close", calls, "none") /\ "none" \in Callers
      /\ "close" \in Ops \ Flushing
  BY DEF CloseNext, Callers, Ops, Flushing
<1>. QED
  BY <1>1, BeginStep DEF Inv

LEMMA PhpCallsStep ==
  ASSUME Inv, HandlersDoNotClose, NEW op \in Ops \ Flushing, PhpCalls(op) PROVE Inv'
<1>1. Deed(op) /\ op \in HandlerMay \cup AsideMay
  BY DEF PhpCalls, Deed
<1>2. PICK caller \in Callers : Begin(op, Did, caller)
  BY DEF PhpCalls, Callers
<1>3. op \notin Closing
  BY <1>1 DEF HandlersDoNotClose, Closing
<1>. QED
  BY <1>1, <1>2, <1>3, DidFacts, BeginStep

(* What an error does to the request leaves the buffers alone, or empties  *)
(* those on the stack.                                                     *)
LEMMA RaiseFacts ==
  ASSUME Inv, NEW e, NEW B \in Seq(Buffer), Raise(e, B)
  PROVE  /\ Alike(buf', B) /\ \A b \in 1 .. Len(B) : buf'[b].caller = B[b].caller
         /\ phase' \in Phases
<1>1. phase' \in Phases
  BY PhaseType DEF Raise, Phases
<1>2. CASE buf' = B
  BY <1>1, <1>2 DEF Alike, Same
<1>3. CASE buf' = [b \in DOMAIN B |->
                    IF b \in OnStack THEN [B[b] EXCEPT !.data = <<>>] ELSE B[b]]
  <2>1. DOMAIN B = 1 .. Len(B) /\ Len(B) \in Nat /\ \A b \in 1 .. Len(B) : B[b] \in Buffer
    BY LenProperties, ElementOfSeq
  <2>2. <<>> \in Seq(Bytes)
    BY EmptySeq
  <2>3. ASSUME NEW b \in 1 .. Len(B), NEW r,
               r = IF b \in OnStack THEN [B[b] EXCEPT !.data = <<>>] ELSE B[b]
        PROVE  r \in Buffer /\ Same(r, B[b]) /\ r.caller = B[b].caller
    BY <2>1, <2>2, <2>3 DEF Same, Buffer
  <2>4. buf' = [b \in 1 .. Len(B) |->
                   IF b \in OnStack THEN [B[b] EXCEPT !.data = <<>>] ELSE B[b]]
    BY <1>3, <2>1
  <2>5. \A b \in 1 .. Len(B) :
          buf'[b] \in Buffer /\ Same(buf'[b], B[b]) /\ buf'[b].caller = B[b].caller
    BY <2>3, <2>4
  <2>6. buf' \in [1 .. Len(B) -> Buffer]
    BY <2>4, <2>5
  <2>7. buf' \in Seq(Buffer) /\ Len(buf') = Len(B)
    BY <2>1, <2>6, IsASeq, LenProperties
  <2>. QED
    BY <1>1, <2>5, <2>7 DEF Alike
<1>. QED
  BY <1>2, <1>3 DEF Raise

LEMMA RaiseStep ==
  ASSUME Inv, NEW e, Raise(e, buf), UNCHANGED <<top, out, sink, calls, tracked, disabled>>,
         bytes' \in 0 .. MaxBytes
  PROVE  Inv'
<1>1. buf \in Seq(Buffer)
  BY DEF Inv, TypeOK
<1>2. /\ Alike(buf', buf) /\ \A b \in 1 .. Len(buf) : buf'[b].caller = buf[b].caller
      /\ phase' \in Phases
  BY <1>1, RaiseFacts
<1>3. CallersFit(buf', calls')
  BY <1>2 DEF Alike, Inv, CallersFit
<1>4. Others
  BY <1>2 DEF Others, Inv, TypeOK
<1>. QED
  BY <1>2, <1>3, <1>4, KeepStep DEF Keeps, Inv

LEMMA EchoStep == ASSUME Inv, Echo PROVE Inv'
<1>1. bytes' \in 0 .. MaxBytes /\ UNCHANGED <<top, out, disabled>>
  BY NextCount DEF Echo
<1>2. CASE Put("echo", out, <<bytes'>>, calls) /\ UNCHANGED phase
  <2>1. Stack(calls, out) /\ CallersFit(buf, calls)
    BY DEF Inv
  <2>. QED
    BY <1>1, <1>2, <2>1, SomeBytes, Types, PhaseType, Wrote
<1>3. CASE Raise("die", buf) /\ UNCHANGED <<sink, calls, tracked>>
  BY <1>1, <1>3, RaiseStep
<1>. QED
  BY <1>2, <1>3 DEF Echo

LEMMA ScriptEndsStep == ASSUME Inv, ScriptEnds PROVE Inv'
<1>1. PICK e \in {"exit", "die"} : Raise(e, buf)
  BY DEF ScriptEnds
<1>. QED
  BY <1>1, PhaseType, RaiseStep DEF ScriptEnds

LEMMA PhaseStep ==
  ASSUME Inv, UNCHANGED <<buf, top, out, sink, calls, tracked, disabled, bytes>>,
         phase' \in Phases
  PROVE  Inv'
<1>1. Others
  BY DEF Others, Inv, TypeOK
<1>. QED
  BY <1>1, Unchanged, KeepStep

LEMMA UncaughtStep == ASSUME Inv, Uncaught PROVE Inv'
<1>1. UNCHANGED <<top, out, disabled>> /\ phase' \in Phases
  BY DEF Uncaught, Phases
<1>2. CASE bytes < MaxBytes /\ bytes' = bytes + 1 /\ Put("auto", out, <<0>>, calls)
  <2>1. bytes' \in 0 .. MaxBytes /\ Stack(calls, out) /\ CallersFit(buf, calls)
    BY <1>2, NextCount DEF Inv
  <2>. QED
    BY <1>1, <1>2, <2>1, SomeBytes, Types, PhaseType, Wrote
<1>3. CASE UNCHANGED <<buf, sink, calls, tracked, bytes>>
  BY <1>1, <1>3, PhaseStep
<1>. QED
  BY <1>2, <1>3 DEF Uncaught

(* Nothing is redirected between two statements of the script.             *)
LEMMA Idle ==
  ASSUME Inv, calls = <<>>
  PROVE  out = top /\ \A b \in Buffers : buf[b].caller = "none"
<1>1. Len(calls) = 0
  OBVIOUS
<1>2. Where(calls, 0) = top
  BY DEF Where
<1>3. \A b : ~Waits(calls, b)
  BY <1>1 DEF Waits
<1>. QED
  BY <1>1, <1>2, <1>3 DEF Inv, Stack, CallersFit, Buffers

(* A new buffer becomes the innermost.                                     *)
LEMMA ObStartStep == ASSUME Inv, ObStart PROVE Inv'
<1>. PICK n \in Nat : n = Len(buf)
  BY Types
<1>1. /\ calls = <<>> /\ n < MaxBufs /\ top' = n + 1 /\ out' = n + 1 /\ MaxBufs \in Nat
      /\ UNCHANGED <<sink, calls, tracked, disabled, phase, bytes>>
  BY Types DEF ObStart, Script
<1>2. PICK r \in Buffer : /\ buf' = Append(buf, r) /\ r.w = top /\ r.caller = "none"
                          /\ ~r.started /\ ~r.met /\ ~r.shut
  <2>1. PICK k \in Kinds :
           buf' = Append(buf, [w |-> out, data |-> <<>>,
                               cb |-> k.cb, chunk |-> k.chunk, caps |-> k.caps,
                               started |-> FALSE, caller |-> "none",
                               met |-> FALSE, shut |-> FALSE])
    BY DEF ObStart
  <2>2. k.cb \in BOOLEAN /\ k.chunk \in Nat /\ k.caps \in SUBSET Capabilities
    BY OutputAssumption
  <2>3. <<>> \in Seq(Bytes) /\ out \in 0 .. MaxBufs /\ out = top /\ "none" \in Callers
    BY <1>1, EmptySeq, Types, Idle DEF Callers
  <2>. DEFINE q == [w |-> out, data |-> <<>>,
                    cb |-> k.cb, chunk |-> k.chunk, caps |-> k.caps,
                    started |-> FALSE, caller |-> "none",
                    met |-> FALSE, shut |-> FALSE]
  <2>4. q \in Buffer /\ q.w = top /\ q.caller = "none" /\ ~q.started /\ ~q.met /\ ~q.shut
    BY <2>2, <2>3 DEF Buffer
  <2>. QED
    BY <2>1, <2>4
<1>3. /\ buf' \in Seq(Buffer) /\ Len(buf') = n + 1 /\ buf'[n + 1] = r
      /\ \A b \in 1 .. n : buf'[b] = buf[b]
  BY <1>2, AppendProperties DEF Inv, TypeOK
<1>4. top \in 0 .. n /\ Buffers = 1 .. n /\ Buffers' = 1 .. n + 1
  BY <1>3, Types DEF Buffers
<1>5. TypeOK'
  BY <1>1, <1>3 DEF Inv, TypeOK
<1>6. BuffersFit'
  BY <1>2, <1>3, <1>4 DEF Inv, BuffersFit, BufferFits
<1>7. Stack(calls, out)'
  <2>1. calls' \in Seq(Frame) /\ Len(calls') = 0
    BY <1>1 DEF Inv, TypeOK
  <2>2. Where(calls, 0)' = top'
    BY DEF Where
  <2>. QED
    BY <1>1, <2>1, <2>2 DEF Stack
<1>8. CallersFit(buf, calls)'
  BY <1>1, <1>2, <1>3, <1>4, Idle DEF CallersFit
<1>9. StackIsLive'
  <2>. DEFINE open == {b \in 1 .. n : ~buf[b].shut}
  <2>1. {b \in 1 .. n + 1 : ~buf'[b].shut} = open \cup {n + 1}
    BY <1>2, <1>3
  <2>2. /\ top \in open \cup {Sapi} /\ open \subseteq 1 .. n
        /\ \A b \in open : /\ b <= top /\ buf[b].w \in open \cup {Sapi} /\ buf[b].w < b
                           /\ \A c \in open : c < b => c <= buf[b].w
    BY DEF Inv, StackIsLive, Open
  <2>. HIDE DEF open
  <2>3. ASSUME NEW b \in open \cup {n + 1}
        PROVE  /\ b <= n + 1
               /\ buf'[b].w \in open \cup {n + 1, Sapi} /\ buf'[b].w < b
               /\ \A c \in open \cup {n + 1} : c < b => c <= buf'[b].w
    <3>1. CASE b = n + 1
      BY <1>2, <1>3, <1>4, <2>2, <3>1
    <3>2. CASE b \in open
      <4>1. buf'[b].w = buf[b].w /\ b \in 1 .. n
        BY <1>3, <2>2, <3>2
      <4>2. /\ b <= top /\ buf[b].w \in open \cup {Sapi} /\ buf[b].w < b
            /\ \A c \in open : c < b => c <= buf[b].w
        BY <2>2, <3>2
      <4>3. b <= n + 1 /\ ~(n + 1 < b)
        BY <1>4, <4>1, <4>2
      <4>. QED
        BY <4>1, <4>2, <4>3
    <3>. QED
      BY <3>1, <3>2
  <2>. QED
    BY <1>1, <1>3, <2>1, <2>3 DEF StackIsLive, Open
<1>. QED
  BY <1>5, <1>6, <1>7, <1>8, <1>9 DEF Inv

(* The buffer of a call that returns, and who waits for it then.           *)
LEMMA LeftFacts ==
  ASSUME Inv, NEW f \in Frame, f.b \in Buffers
  PROVE  /\ Left(f) \in Buffer /\ Left(f).w = buf[f.b].w
         /\ (Left(f).shut <=> (buf[f.b].shut \/ f.op \in Closing))
         /\ (Left(f).cb <=> buf[f.b].cb) /\ (Left(f).started <=> buf[f.b].started)
         /\ (Left(f).met <=> buf[f.b].met)
         /\ Left(f).caller = IF f.op \in Flushing THEN buf[f.b].caller ELSE "none"
<1>1. buf[f.b] \in Buffer /\ <<>> \in Seq(Bytes) /\ "none" \in Callers
  BY Types, EmptySeq DEF Callers
<1>. QED
  BY <1>1 DEF Left, Buffer

LEMMA LeftCallers ==
  ASSUME Inv, calls # <<>>, Cur.at = "end", NEW b \in Buffers, Waits(calls, b),
         (IF b = Cur.b THEN Left(Cur) ELSE buf[b]).caller # "none"
  PROVE  Waits(Below, b)
<1>1. Cur \in Frame /\ Cur.b \in Buffers /\ ~Redirects(Cur)
  BY Innermost DEF Redirects
<1>2. CASE b # Cur.b \/ Cur.op \in Flushing
  BY <1>1, <1>2, BelowStack
<1>3. CASE b = Cur.b /\ Cur.op \notin Flushing
  BY <1>1, <1>3, LeftFacts
<1>. QED
  BY <1>2, <1>3

(* A call returns that does not close its buffer.                          *)
LEMMA FinishOpenStep == ASSUME Inv, Finish, Cur.op \notin Closing PROVE Inv'
<1>. DEFINE B == [buf EXCEPT ![Cur.b] = Left(Cur)]
            e == IF Cur.op = "auto" THEN "none" ELSE Cur.err
<1>1. /\ calls # <<>> /\ Cur.at = "end"
      /\ UNCHANGED <<top, out, sink, tracked, disabled, bytes>>
      /\ \/ Raise(e, B) /\ calls' = Below
         \/ /\ Len(Below) > 0 /\ buf' = B /\ phase' = phase
            /\ \/ calls' = [Below EXCEPT ![Len(Below)].err = Cur.err]
               \/ calls' = Below
  BY DEF Finish, Popped, At
<1>2. Cur \in Frame /\ Cur.b \in Buffers /\ ~Redirects(Cur)
  BY <1>1, Innermost DEF Redirects
<1>3. /\ Alike(B, buf) /\ B \in Seq(Buffer)
      /\ \A b \in Buffers : B[b] = IF b = Cur.b THEN Left(Cur) ELSE buf[b]
  <2>1. Left(Cur) \in Buffer /\ Same(Left(Cur), buf[Cur.b])
    BY <1>2, LeftFacts DEF Same
  <2>2. /\ Alike(B, buf)
        /\ \A j \in 1 .. Len(buf) : B[j] = IF j = Cur.b THEN Left(Cur) ELSE buf[j]
    BY <1>2, <2>1, AlikeExcept
  <2>. QED
    BY <2>2 DEF Alike, Buffers
<1>. HIDE DEF B, e
<1>4. /\ Alike(buf', buf) /\ phase' \in Phases
      /\ \A b \in Buffers : buf'[b].caller = B[b].caller
  <2>1. CASE Raise(e, B)
    BY <2>1, <1>3, RaiseFacts, AlikeTrans DEF Alike, Buffers
  <2>2. CASE buf' = B /\ phase' = phase
    BY <2>2, <1>3, PhaseType
  <2>. QED
    BY <1>1, <2>1, <2>2
<1>5. ASSUME NEW b \in Buffers, buf'[b].caller # "none" PROVE Waits(Below, b)
  <2>1. (IF b = Cur.b THEN Left(Cur) ELSE buf[b]).caller # "none"
    BY <1>3, <1>4, <1>5
  <2>2. buf[b].caller # "none"
    BY <1>2, <2>1, LeftFacts
  <2>3. Waits(calls, b)
    BY <2>2 DEF Inv, CallersFit, Buffers
  <2>. QED
    BY <1>1, <2>1, <2>3, LeftCallers
<1>6. Stack(calls', out) /\ \A b : Waits(Below, b) => Waits(calls', b)
  <2>1. Stack(Below, out) /\ Len(Below) \in Nat
    BY <1>1, <1>2, BelowStack
  <2>2. CASE Len(Below) > 0 /\ calls' = [Below EXCEPT ![Len(Below)].err = Cur.err]
    <3>1. PICK n \in Nat : n = Len(Below) /\ n \in 1 .. Len(Below)
      BY <2>1, <2>2
    <3>2. Below[n] \in Frame /\ Below \in Seq(Frame)
      BY <2>1, <3>1, ElementOfSeq DEF Stack
    <3>3. PICK f \in Frame : f = [Below[n] EXCEPT !.err = Cur.err]
      BY <1>2, <3>2 DEF Frame
    <3>4. /\ f.b = Below[n].b /\ f.op = Below[n].op /\ f.at = Below[n].at
          /\ f.start = Below[n].start /\ f.new = Below[n].new /\ f.saved = Below[n].saved
      BY <3>2, <3>3 DEF Frame
    <3>. PICK D : D = calls'
      OBVIOUS
    <3>5. /\ D \in Seq(Frame) /\ Len(D) = n
          /\ \A j \in 1 .. n : D[j] = IF j = n THEN f ELSE Below[j]
      BY <2>2, <3>1, <3>2, <3>3, ExceptSeq
    <3>6. \A j \in 1 .. n :
            /\ D[j].b = Below[j].b /\ D[j].op = Below[j].op /\ D[j].at = Below[j].at
            /\ D[j].start = Below[j].start /\ D[j].new = Below[j].new
            /\ D[j].saved = Below[j].saved
      BY <3>4, <3>5
    <3>7. ASSUME NEW i \in 0 .. n PROVE Where(D, i) = Where(Below, i)
      <4>1. i \in Nat /\ \A j \in 1 .. i : Redirects(D[j]) <=> Redirects(Below[j])
        BY <3>6 DEF Redirects
      <4>. QED
        BY <4>1, WhereSame
    <3>8. ASSUME NEW i \in 1 .. n PROVE CallFits(D[i], i) /\ RedirectFits(D[i], D, i)
      <4>1. CallFits(Below[i], i) /\ RedirectFits(Below[i], Below, i)
        BY <2>1, <3>1 DEF Stack
      <4>2. Where(D, i - 1) = Where(Below, i - 1)
        BY <3>7
      <4>. QED
        BY <3>6, <4>1, <4>2 DEF CallFits, RedirectFits, Redirects
    <3>9. out = Where(D, n)
      BY <2>1, <3>1, <3>7 DEF Stack
    <3>10. Stack(D, out)
      BY <3>5, <3>8, <3>9 DEF Stack
    <3>11. ASSUME NEW b, Waits(Below, b) PROVE Waits(D, b)
      BY <3>1, <3>5, <3>6, <3>11 DEF Waits
    <3>. QED
      BY <3>10, <3>11
  <2>3. CASE calls' = Below
    BY <2>1, <2>3
  <2>. QED
    BY <1>1, <2>2, <2>3
<1>7. CallersFit(buf', calls')
  BY <1>4, <1>5, <1>6 DEF CallersFit, Alike, Buffers
<1>8. Others
  BY <1>1, <1>4 DEF Others, Inv, TypeOK
<1>. QED
  BY <1>1, <1>4, <1>6, <1>7, <1>8, KeepStep DEF Keeps

(* The outermost call closes the innermost buffer.                         *)
LEMMA FinishClosingStep == ASSUME Inv, Finish, Cur.op \in Closing PROVE Inv'
<1>. PICK n \in Nat : n = Len(buf)
  BY Types
<1>. PICK p : p = buf[top].w
  OBVIOUS
<1>1. /\ calls # <<>> /\ Cur.at = "end" /\ Cur \in Frame /\ Cur.b = top /\ Cur.b \in Buffers
      /\ Len(calls) = 1 /\ ~Redirects(Cur)
  <2>1. calls # <<>> /\ Cur.at = "end"
    BY DEF Finish, At
  <2>. QED
    BY <2>1, Innermost DEF CallFits, Closing, Flushing, Redirects
<1>2. /\ top \in 1 .. n /\ Buffers = 1 .. n /\ buf[top] \in Buffer /\ n <= MaxBufs
      /\ MaxBufs \in Nat
  BY <1>1, Types DEF Buffers
<1>. DEFINE open == {b \in 1 .. n : ~buf[b].shut}
<1>3. /\ top \in open \cup {Sapi} /\ open \subseteq 1 .. n
      /\ \A b \in open : /\ b <= top /\ buf[b].w \in open \cup {Sapi} /\ buf[b].w < b
                         /\ \A c \in open : c < b => c <= buf[b].w
  BY DEF Inv, StackIsLive, Open
<1>. HIDE DEF open
<1>4. top \in open /\ p \in open \cup {Sapi} /\ p < top /\ p \in 0 .. n
  <2>1. top \in open
    BY <1>2, <1>3 DEF Sapi
  <2>2. p \in open \cup {Sapi} /\ p < top
    BY <1>3, <2>1
  <2>3. p \in 1 .. n \/ p = 0
    BY <1>3, <2>2 DEF Sapi
  <2>. QED
    BY <2>1, <2>2, <2>3
<1>15. open \cup {Sapi} \subseteq Nat
  BY <1>3 DEF Sapi
<1>5. PICK B : B = [buf EXCEPT ![top] = Left(Cur)]
  OBVIOUS
<1>6. /\ B \in Seq(Buffer) /\ Len(B) = n
      /\ \A b \in 1 .. n : B[b].w = buf[b].w /\ (B[b].cb => (B[b].started <=> B[b].met))
      /\ \A b \in 1 .. n : B[b].shut <=> (buf[b].shut \/ b = top)
      /\ \A b \in 1 .. n : B[b].caller = IF b = top THEN "none" ELSE buf[b].caller
  <2>1. PICK r \in Buffer :
          /\ r = Left(Cur) /\ r.w = buf[top].w /\ r.shut /\ (r.cb <=> buf[top].cb)
          /\ (r.started <=> buf[top].started) /\ (r.met <=> buf[top].met)
          /\ r.caller = "none"
    BY <1>1, LeftFacts DEF Closing, Flushing
  <2>2. /\ B \in Seq(Buffer) /\ Len(B) = n
        /\ \A b \in 1 .. n : B[b] = IF b = top THEN r ELSE buf[b]
    BY <1>2, <1>5, <2>1, ExceptSeq DEF Inv, TypeOK
  <2>3. \A b \in 1 .. n : buf[b].cb => (buf[b].started <=> buf[b].met)
    BY <1>2 DEF Inv, BuffersFit, BufferFits
  <2>. QED
    BY <1>2, <2>1, <2>2, <2>3
<1>7. /\ top' = p /\ out' = p /\ calls' = Below
      /\ Raise(IF Cur.op = "auto" THEN "none" ELSE Cur.err, B)
      /\ UNCHANGED <<sink, tracked, disabled, bytes>>
  <2>1. Len(Below) = 0
    BY <1>1, BelowStack
  <2>. QED
    BY <1>1, <1>5, <2>1 DEF Finish, Popped
<1>8. /\ Alike(buf', B) /\ phase' \in Phases
      /\ \A b \in 1 .. n : buf'[b].caller = B[b].caller
  BY <1>6, <1>7, RaiseFacts
<1>9. /\ buf' \in Seq(Buffer) /\ Len(buf') = n /\ Buffers' = 1 .. n
      /\ \A b \in 1 .. n : /\ buf'[b].w = buf[b].w
                           /\ buf'[b].cb => (buf'[b].started <=> buf'[b].met)
      /\ \A b \in 1 .. n : buf'[b].shut <=> (buf[b].shut \/ b = top)
  BY <1>6, <1>8 DEF Alike, Same, Buffers
<1>10. calls' \in Seq(Frame) /\ Len(calls') = 0
  BY <1>1, <1>7, BelowStack DEF Stack
<1>11. TypeOK'
  BY <1>4, <1>7, <1>8, <1>9, <1>10 DEF Inv, TypeOK, Phases
<1>12. BuffersFit'
  BY <1>2, <1>9 DEF Inv, BuffersFit, BufferFits
<1>13. Stack(calls, out)'
  <2>1. Where(calls, 0)' = top'
    BY DEF Where
  <2>. QED
    BY <1>7, <1>10, <2>1 DEF Stack
<1>14. StackIsLive'
  <2>1. {b \in 1 .. n : ~buf'[b].shut} = open \ {top}
    BY <1>9 DEF open
  <2>2. top \in Nat /\ p \in Nat /\ p # top
    BY <1>2, <1>4
  <2>3. p \in (open \ {top}) \cup {Sapi}
    BY <1>4, <2>2
  <2>4. ASSUME NEW b \in open \ {top}
        PROVE  /\ b <= p
               /\ buf'[b].w \in (open \ {top}) \cup {Sapi} /\ buf'[b].w < b
               /\ \A c \in open \ {top} : c < b => c <= buf'[b].w
    <3>1. /\ b \in 1 .. n /\ b <= top /\ b # top
          /\ buf[b].w \in open \cup {Sapi} /\ buf[b].w < b
          /\ \A c \in open : c < b => c <= buf[b].w
      BY <1>3
    <3>2. b < top
      BY <2>2, <3>1
    <3>3. b <= p
      BY <1>3, <1>4, <3>2
    <3>4. buf'[b].w = buf[b].w
      BY <1>9, <3>1
    <3>5. buf[b].w # top
      <4>1. buf[b].w \in Nat
        BY <1>15, <3>1
      <4>. QED
        BY <2>2, <3>1, <3>2, <4>1
    <3>. QED
      BY <3>1, <3>3, <3>4, <3>5
  <2>. QED
    BY <1>7, <1>9, <2>1, <2>3, <2>4 DEF StackIsLive, Open
<1>16. CallersFit(buf, calls)'
  <2>1. ASSUME NEW b \in 1 .. n, b # top PROVE buf[b].caller = "none"
    <3>1. ~Waits(calls, b)
      BY <1>1, <2>1, Innermost DEF Waits
    <3>. QED
      BY <3>1 DEF Inv, CallersFit
  <2>. QED
    BY <1>6, <1>8, <1>9, <2>1 DEF CallersFit
<1>. QED
  BY <1>11, <1>12, <1>13, <1>14, <1>16 DEF Inv

-----------------------------------------------------------------------------
(* The invariant *)

LEMMA InitInv == ASSUME Init PROVE Inv
<1>1. Len(buf) = 0 /\ Len(calls) = 0 /\ buf \in Seq(Buffer) /\ calls \in Seq(Frame)
  BY EmptySeq DEF Init
<1>2. /\ sink \in Seq(Bytes) /\ bytes \in 0 .. MaxBytes
      /\ top \in 0 .. Len(buf) /\ out \in 0 .. Len(buf)
  BY <1>1, EmptySeq, OutputAssumption DEF Init, Sapi
<1>3. TypeOK
  <2>1. Len(buf) <= MaxBufs /\ tracked \in Nat /\ (MemLimit > 0 => tracked <= MemLimit)
    BY <1>1, OutputAssumption DEF Init
  <2>2. disabled \in BOOLEAN /\ phase \in {"script", "shutdown", "closing", "handling", "ended"}
    BY DEF Init
  <2>. QED
    BY <1>1, <1>2, <2>1, <2>2 DEF TypeOK
<1>4. Stack(calls, out)
  <2>1. Where(calls, 0) = top /\ out = top
    BY DEF Where, Init
  <2>. QED
    BY <1>1, <2>1 DEF Stack
<1>. QED
  BY <1>1, <1>3, <1>4 DEF Init, Inv, BuffersFit, Buffers, CallersFit, StackIsLive, Open

LEMMA NextInv == ASSUME Inv, HandlersDoNotClose, [Next]_vars PROVE Inv'
<1>1. CASE Echo
  BY <1>1, EchoStep
<1>2. CASE ObStart
  BY <1>2, ObStartStep
<1>3. CASE ScriptEnds
  BY <1>3, ScriptEndsStep
<1>4. CASE Uncaught
  BY <1>4, UncaughtStep
<1>5. ASSUME NEW op \in Ops \ Flushing, ScriptCalls(op) \/ PhpCalls(op) PROVE Inv'
  BY <1>5, ScriptCallsStep, PhpCallsStep
<1>6. CASE PhpWarns \/ AsideEchoes
  BY <1>6, PhpWarnsStep, AsideEchoesStep
<1>7. CASE HandlerStarts \/ HandlerReturns \/ HandlerFails
  BY <1>7, HandlerStartsStep, HandlerReturnsStep, HandlerFailsStep
<1>8. CASE ErrorDeclined \/ NoticeWritten \/ NoticeEnds
  BY <1>8, ErrorDeclinedStep, NoticeWrittenStep, NoticeEndsStep
<1>9. CASE ResultTaken \/ ResultFails
  BY <1>9, ResultStep
<1>10. CASE Pass
  BY <1>10, PassStep
<1>11. CASE Finish
  BY <1>11, FinishOpenStep, FinishClosingStep
<1>12. CASE ShutdownEnds \/ CloseEnds
  BY <1>12, PhaseStep DEF ShutdownEnds, CloseEnds, Phases
<1>13. CASE CloseNext
  BY <1>13, CloseNextStep
<1>14. CASE UNCHANGED vars
  BY <1>14, PhaseType, PhaseStep DEF vars
<1>. QED
  BY <1>1, <1>2, <1>3, <1>4, <1>5, <1>6, <1>7, <1>8, <1>9, <1>10, <1>11, <1>12,
     <1>13, <1>14 DEF Next, Ended

LEMMA InvHolds == ASSUME HandlersDoNotClose PROVE Spec => []Inv
<1>1. Inv /\ [Next]_vars => Inv'
  BY NextInv
<1>. QED
  BY <1>1, InitInv, PTL DEF Spec

(* The counter of the memory manager never passes memory_limit, whatever   *)
(* is buffered, refused or passed from one buffer to the next (MemMgr.     *)
(* Alloc), and every call and buffer has its type.                         *)
THEOREM OutputTypeOK == ASSUME HandlersDoNotClose PROVE Spec => []TypeOK
<1>1. Inv => TypeOK
  BY DEF Inv
<1>. QED
  BY <1>1, InvHolds, PTL

(* Global.buf is the innermost open buffer and the parents lead to every   *)
(* open buffer below it, however flushes, errors and closes are nested     *)
(* (makeBuffer, CloseWithFlags).                                           *)
THEOREM BuffersAreStacked == ASSUME HandlersDoNotClose PROVE Spec => []StackIsLive
<1>1. Inv => StackIsLive
  BY DEF Inv
<1>. QED
  BY <1>1, InvHolds, PTL

(* Global.out is the innermost buffer whenever no buffer is being called,  *)
(* however often it has been redirected and saved in nested calls (savedOut*)
(* of invokeCallback).                                                     *)
THEOREM OutputIsRestored == ASSUME HandlersDoNotClose PROVE Spec => []RedirectionIsUndone
<1>1. Inv => RedirectionIsUndone
  BY Idle DEF RedirectionIsUndone
<1>. QED
  BY <1>1, InvHolds, PTL

(* A handler is given START in its first call and in no other, whichever   *)
(* of write, flush, clean and close comes first (Buffer.started).          *)
THEOREM StartIsGivenFirst == ASSUME HandlersDoNotClose PROVE Spec => []StartComesFirst
<1>1. ASSUME Inv PROVE StartComesFirst
  <2>1. \A i \in 1 .. Len(calls) :
           /\ calls[i].start \in BOOLEAN /\ calls[i].new \in BOOLEAN
           /\ calls[i].at = "php" => (calls[i].start <=> calls[i].new)
    BY <1>1, Types DEF Frame, Inv, Stack, CallFits
  <2>. QED
    BY <2>1 DEF StartComesFirst
<1>2. Inv => StartComesFirst
  BY <1>1
<1>. QED
  BY <1>2, InvHolds, PTL

-----------------------------------------------------------------------------
(* What the bytes on their way are part of *)

Occurs(x, s) == \E k \in DOMAIN s : s[k] = x
Blank(s) == \A k \in DOMAIN s : s[k] <= 0

(* x is in the sink S, in one of the open buffers of B or in a call of C.  *)
On(x, S, B, C) ==
    \/ Occurs(x, S)
    \/ \E b \in 1 .. Len(B) : ~B[b].shut /\ Occurs(x, B[b].data)
    \/ \E i \in 1 .. Len(C) : Occurs(x, C[i].d)

(* A call is one of an open buffer.  A clean has no data to pass on and a  *)
(* call that is about to return has none left; a close has taken what the  *)
(* script has printed out of its buffer, for good.                         *)
Fine(f, B) ==
    /\ f.b \in 1 .. Len(B) /\ ~B[f.b].shut
    /\ f.op \in Dropping \/ f.at = "end" => f.d = <<>>
    /\ f.op \in Dropping => f.at # "pass"
    /\ f.op = "close" => Blank(B[f.b].data)
Fit(B, C) == \A i \in 1 .. Len(C) : Fine(C[i], B)
Sound == Fit(buf, calls)

LEMMA NothingOccurs == Blank(<<>>) /\ \A x : ~Occurs(x, <<>>)
BY DEF Occurs, Blank

LEMMA ConcatParts ==
  ASSUME NEW s \in Seq(Bytes), NEW t \in Seq(Bytes)
  PROVE  /\ s \o t \in Seq(Bytes)
         /\ \A x : Occurs(x, s) \/ Occurs(x, t) => Occurs(x, s \o t)
         /\ Blank(s) /\ Blank(t) => Blank(s \o t)
<1>. PICK m \in Nat : m = Len(s)
  BY LenProperties
<1>. PICK l \in Nat : l = Len(t)
  BY LenProperties
<1>. PICK c : c = s \o t
  OBVIOUS
<1>1. /\ DOMAIN s = 1 .. m /\ DOMAIN t = 1 .. l /\ DOMAIN c = 1 .. m + l
      /\ \A i \in 1 .. m + l : c[i] = IF i <= m THEN s[i] ELSE t[i - m]
      /\ c \in Seq(Bytes)
  BY ConcatProperties, LenProperties
<1>2. ASSUME NEW i \in 1 .. m PROVE i \in 1 .. m + l /\ c[i] = s[i]
  BY <1>1
<1>3. ASSUME NEW i \in 1 .. l PROVE m + i \in 1 .. m + l /\ c[m + i] = t[i]
  <2>1. m + i \in 1 .. m + l /\ ~(m + i <= m) /\ (m + i) - m = i
    OBVIOUS
  <2>. QED
    BY <1>1, <2>1
<1>4. ASSUME NEW x, Occurs(x, s) \/ Occurs(x, t) PROVE Occurs(x, c)
  <2>1. CASE Occurs(x, s)
    <3>1. PICK i \in 1 .. m : s[i] = x
      BY <1>1, <2>1 DEF Occurs
    <3>2. i \in DOMAIN c /\ c[i] = x
      BY <1>1, <1>2, <3>1
    <3>. QED
      BY <3>2 DEF Occurs
  <2>2. CASE Occurs(x, t)
    <3>1. PICK i \in 1 .. l : t[i] = x
      BY <1>1, <2>2 DEF Occurs
    <3>2. m + i \in DOMAIN c /\ c[m + i] = x
      BY <1>1, <1>3, <3>1
    <3>. QED
      BY <3>2 DEF Occurs
  <2>. QED
    BY <1>4, <2>1, <2>2
<1>5. ASSUME Blank(s), Blank(t) PROVE Blank(c)
  <2>1. ASSUME NEW i \in 1 .. m + l PROVE c[i] <= 0
    <3>1. CASE i <= m
      <4>1. i \in 1 .. m
        BY <3>1
      <4>. QED
        BY <1>1, <1>2, <1>5, <4>1 DEF Blank
    <3>2. CASE ~(i <= m)
      <4>1. i - m \in 1 .. l
        BY <3>2
      <4>. QED
        BY <1>1, <1>5, <3>2, <4>1 DEF Blank
    <3>. QED
      BY <3>1, <3>2
  <2>. QED
    BY <1>1, <2>1 DEF Blank
<1>. QED
  BY <1>1, <1>4, <1>5

(* Output goes to an open buffer or to the server interface, and so do the *)
(* bytes that a call of an open buffer passes on.                          *)
LEMMA OutIsOpen ==
  ASSUME Inv
  PROVE  /\ top \in Open \cup {Sapi} /\ out \in Open \cup {Sapi} /\ Open \subseteq Buffers
         /\ \A b \in Open : buf[b].w \in Open \cup {Sapi} /\ buf[b].w < top
<1>1. /\ top \in Open \cup {Sapi}
      /\ \A b \in Open : buf[b].w \in Open \cup {Sapi} /\ buf[b].w < b /\ b <= top
      /\ Open \subseteq Buffers
  BY DEF Inv, StackIsLive, Open, Buffers
<1>2. out \in Open \cup {Sapi}
  <2>1. out = Where(calls, Len(calls))
    BY DEF Inv, Stack
  <2>2. CASE \E j \in 1 .. Len(calls) : Redirects(calls[j])
    <3>1. top \in Buffers
      BY <2>2 DEF Inv, Stack, CallFits, RedirectFits
    <3>2. top \in Open
      BY <1>1, <3>1, Types DEF Buffers, Sapi
    <3>. QED
      BY <1>1, <2>1, <2>2, <3>2 DEF Where
  <2>3. CASE ~ \E j \in 1 .. Len(calls) : Redirects(calls[j])
    BY <1>1, <2>1, <2>3 DEF Where
  <2>. QED
    BY <2>2, <2>3
<1>3. ASSUME NEW b \in Open PROVE buf[b].w < top
  <2>1. buf[b].w < b /\ b <= top /\ b \in Nat /\ buf[b].w \in Nat /\ top \in Nat
    BY <1>1, Types DEF Open, Buffers, Sapi
  <2>. QED
    BY <2>1
<1>. QED
  BY <1>1, <1>2, <1>3

LEMMA BufferTypes ==
  ASSUME Inv, NEW b \in Buffers
  PROVE  buf[b] \in Buffer /\ buf[b].data \in Seq(Bytes) /\ buf[b].shut \in BOOLEAN
BY Types DEF Buffer

(* One buffer changes that stays open.                                     *)
Changed(B, b, r) ==
    Len(B) = Len(buf) /\ \A j \in 1 .. Len(buf) : B[j] = IF j = b THEN r ELSE buf[j]

LEMMA FitExcept ==
  ASSUME Inv, NEW b \in Buffers, NEW r \in Buffer, ~r.shut, NEW B, B = [buf EXCEPT ![b] = r],
         NEW C, Fit(buf, C),
         Blank(r.data) \/ ~ \E i \in 1 .. Len(C) : C[i].op = "close" /\ C[i].b = b
  PROVE  Changed(B, b, r) /\ Fit(B, C)
<1>1. Len(B) = Len(buf) /\ \A j \in 1 .. Len(buf) : B[j] = IF j = b THEN r ELSE buf[j]
  BY ExceptSeq DEF Buffers, Inv, TypeOK
<1>2. ASSUME NEW i \in 1 .. Len(C) PROVE Fine(C[i], B)
  <2>1. Fine(C[i], buf)
    BY DEF Fit
  <2>2. CASE C[i].b = b
    BY <1>1, <2>1, <2>2 DEF Fine
  <2>3. CASE C[i].b # b
    BY <1>1, <2>1, <2>3 DEF Fine
  <2>. QED
    BY <2>2, <2>3
<1>. QED
  BY <1>1, <1>2 DEF Fit, Changed

LEMMA DataChanged ==
  ASSUME NEW r \in Buffer, NEW d \in Seq(Bytes)
  PROVE  /\ [r EXCEPT !.data = d] \in Buffer /\ [r EXCEPT !.data = d].data = d
         /\ [r EXCEPT !.data = d].shut = r.shut
BY DEF Buffer

LEMMA FitPush ==
  ASSUME NEW B, NEW C \in Seq(Frame), Fit(B, C), NEW f, Fine(f, B)
  PROVE  Fit(B, Append(C, f))
<1>. PICK n \in Nat : n = Len(C)
  BY LenProperties
<1>. PICK D : D = Append(C, f)
  OBVIOUS
<1>1. Len(D) = n + 1 /\ D[n + 1] = f /\ \A i \in 1 .. n : D[i] = C[i]
  BY AppendProperties
<1>2. \A i \in 1 .. n + 1 : i = n + 1 \/ i \in 1 .. n
  OBVIOUS
<1>. QED
  BY <1>1, <1>2 DEF Fit

(* The innermost call goes on: bytes of its own may go.                    *)
LEMMA SetKeeps ==
  ASSUME Inv, Sound, calls # <<>>, NEW f \in Frame, f.b = Cur.b, f.op = Cur.op,
         Fine(f, buf)
  PROVE  /\ Fit(buf, SetCur(f)) /\ SetCur(f) \in Seq(Frame)
         /\ \A x : On(x, sink, buf, calls) =>
              On(x, sink, buf, SetCur(f)) \/ (Occurs(x, Cur.d) /\ ~Occurs(x, f.d))
<1>. PICK k \in Nat : k = Len(calls)
  BY Types
<1>. PICK D : D = SetCur(f)
  OBVIOUS
<1>1. /\ D \in Seq(Frame) /\ Len(D) = k /\ k \in 1 .. k /\ Cur = calls[k] /\ D[k] = f
      /\ \A i \in 1 .. k : i # k => D[i] = calls[i]
  BY Replaced, Innermost
<1>2. Fit(buf, D)
  BY <1>1 DEF Fit, Sound
<1>3. ASSUME NEW x, On(x, sink, buf, calls)
      PROVE  On(x, sink, buf, D) \/ (Occurs(x, Cur.d) /\ ~Occurs(x, f.d))
  <2>1. ASSUME NEW i \in 1 .. k, Occurs(x, calls[i].d)
        PROVE  On(x, sink, buf, D) \/ (Occurs(x, Cur.d) /\ ~Occurs(x, f.d))
    <3>1. CASE i = k
      BY <1>1, <2>1, <3>1 DEF On
    <3>2. CASE i # k
      BY <1>1, <2>1, <3>2 DEF On
    <3>. QED
      BY <3>1, <3>2
  <2>. QED
    BY <1>3, <2>1 DEF On
<1>. QED
  BY <1>1, <1>2, <1>3

(* What a call takes with it and what it leaves.                           *)
LEMMA CalledTakes ==
  ASSUME NEW op, NEW b, NEW r \in Buffer
  PROVE  /\ op \in Dropping => Called(op, b, r).d = <<>> /\ Opened(op, r).data = r.data
         /\ op \notin Dropping => Called(op, b, r).d = r.data /\ Opened(op, r).data = <<>>
         /\ Called(op, b, r).b = b /\ Called(op, b, r).op = op
         /\ op \in Dropping => Called(op, b, r).at # "pass"
         /\ Called(op, b, r).at = "end" => Called(op, b, r).d = <<>>
<1>. DEFINE f == [op |-> op, b |-> b, at |-> "php", err |-> "none", dep |-> "none",
                  d |-> IF op \in Dropping THEN <<>> ELSE r.data, saved |-> Sapi,
                  start |-> ~r.started, new |-> ~r.met, left |-> MaxDeeds]
<1>1. Called(op, b, r) = IF r.cb THEN f ELSE Onward(f, f.d, "none")
  BY DEF Called
<1>2. /\ Onward(f, f.d, "none").d = f.d /\ Onward(f, f.d, "none").b = b
      /\ Onward(f, f.d, "none").op = op
      /\ Onward(f, f.d, "none").at = IF f.d = <<>> THEN "end" ELSE "pass"
  BY DEF Onward
<1>3. f.d = (IF op \in Dropping THEN <<>> ELSE r.data) /\ f.b = b /\ f.op = op /\ f.at = "php"
  OBVIOUS
<1>. HIDE DEF f
<1>4. Opened(op, r).data = IF op \in Dropping THEN r.data ELSE <<>>
  BY DEF Opened, Buffer
<1>. QED
  BY <1>1, <1>2, <1>3, <1>4

LEMMA CalledFine ==
  ASSUME NEW op, NEW B, NEW b \in 1 .. Len(B), NEW r \in Buffer, ~B[b].shut,
         op = "close" => Blank(B[b].data)
  PROVE  Fine(Called(op, b, r), B)
BY CalledTakes DEF Fine

-----------------------------------------------------------------------------
(* Bytes that stay on their way *)

Stays(x) == On(x, sink', buf', calls')

(* What open buffer b had goes where its new contents or a new call are.   *)
LEMMA OnExcept ==
  ASSUME NEW b \in Buffers, NEW r, ~r.shut, NEW B, Changed(B, b, r), NEW S, NEW C
  PROVE  /\ \A x : Occurs(x, r.data) => On(x, S, B, C)
         /\ \A x : On(x, S, buf, C) => On(x, S, B, C) \/ Occurs(x, buf[b].data)
<1>1. ASSUME NEW x, Occurs(x, r.data) PROVE On(x, S, B, C)
  BY <1>1 DEF On, Changed, Buffers
<1>2. ASSUME NEW x, On(x, S, buf, C) PROVE On(x, S, B, C) \/ Occurs(x, buf[b].data)
  BY <1>2 DEF On, Changed
<1>. QED
  BY <1>1, <1>2

LEMMA OnPush ==
  ASSUME NEW S, NEW B, NEW C \in Seq(Frame), NEW f
  PROVE  /\ \A x : Occurs(x, f.d) => On(x, S, B, Append(C, f))
         /\ \A x : On(x, S, B, C) => On(x, S, B, Append(C, f))
<1>. PICK n \in Nat : n = Len(C)
  BY LenProperties
<1>. PICK D : D = Append(C, f)
  OBVIOUS
<1>1. Len(D) = n + 1 /\ D[n + 1] = f /\ \A i \in 1 .. n : D[i] = C[i]
  BY AppendProperties
<1>2. n + 1 \in 1 .. n + 1 /\ \A i \in 1 .. n : i \in 1 .. n + 1
  OBVIOUS
<1>3. ASSUME NEW x, Occurs(x, f.d) PROVE On(x, S, B, D)
  BY <1>1, <1>2, <1>3 DEF On
<1>4. ASSUME NEW x, On(x, S, B, C) PROVE On(x, S, B, D)
  BY <1>1, <1>2, <1>4 DEF On
<1>. QED
  BY <1>3, <1>4

(* What is written arrives, unless memory_limit refuses it.                *)
LEMMA PutKeeps ==
  ASSUME Inv, NEW op \in Flushing, NEW w \in Open \cup {Sapi}, NEW d \in Seq(Bytes),
         NEW C \in Seq(Frame), Fit(buf, C), Put(op, w, d, C),
         Blank(d) \/ \A i \in 1 .. Len(C) : C[i].op = "close" => C[i].b # w
  PROVE  /\ Sound'
         /\ \A x : On(x, sink, buf, C) \/ (~Refused(w, d) /\ Occurs(x, d)) => Stays(x)
<1>1. sink \in Seq(Bytes) /\ Sound' = Fit(buf', calls')
  BY DEF Inv, TypeOK, Sound
<1>2. CASE w = Sapi /\ sink' = sink \o d /\ calls' = C /\ UNCHANGED <<buf, tracked>>
  <2>1. \A x : Occurs(x, sink) \/ Occurs(x, d) => Occurs(x, sink')
    BY <1>1, <1>2, ConcatParts
  <2>. QED
    BY <1>1, <1>2, <2>1 DEF On, Stays
<1>3. CASE Refused(w, d) /\ calls' = C /\ UNCHANGED <<buf, tracked, sink>>
  BY <1>1, <1>3 DEF Stays
<1>4. CASE /\ w # Sapi
           /\ LET r == [buf[w] EXCEPT !.data = @ \o d]
                  full == r.chunk > 0 /\ Len(r.data) >= r.chunk
              IN  /\ buf' = [buf EXCEPT ![w] = IF full THEN Opened(op, r) ELSE r]
                  /\ calls' = IF full THEN Append(C, Called(op, w, r)) ELSE C
           /\ UNCHANGED sink
  <2>1. /\ w \in 1 .. Len(buf) /\ w \in Buffers /\ buf[w] \in Buffer
        /\ buf[w].data \in Seq(Bytes) /\ ~buf[w].shut
    BY <1>4, BufferTypes DEF Open, Buffers
  <2>2. /\ buf[w].data \o d \in Seq(Bytes)
        /\ \A x : Occurs(x, buf[w].data) \/ Occurs(x, d) => Occurs(x, buf[w].data \o d)
        /\ Blank(buf[w].data) /\ Blank(d) => Blank(buf[w].data \o d)
    BY <2>1, ConcatParts
  <2>3. PICK r \in Buffer : /\ r = [buf[w] EXCEPT !.data = @ \o d]
                            /\ r.data = buf[w].data \o d /\ ~r.shut
    <3>. PICK p \in Buffer, s \in Seq(Bytes) : p = buf[w] /\ s = buf[w].data \o d
      BY <2>1, <2>2
    <3>1. /\ [p EXCEPT !.data = s] \in Buffer /\ [p EXCEPT !.data = s].data = s
          /\ [p EXCEPT !.data = s].shut = p.shut
      BY ZenonT(60), DataChanged
    <3>2. [buf[w] EXCEPT !.data = @ \o d] = [p EXCEPT !.data = s]
      OBVIOUS
    <3>. QED
      BY <2>1, <3>1, <3>2
  <2>4. PICK full \in BOOLEAN :
           /\ buf' = [buf EXCEPT ![w] = IF full THEN Opened(op, r) ELSE r]
           /\ calls' = IF full THEN Append(C, Called(op, w, r)) ELSE C
    BY <1>4, <2>3
  <2>5. op \in Ops /\ op \notin Dropping /\ op # "close"
    BY DEF Ops, Dropping, Flushing
  <2>6. CASE ~full
    <3>1. Blank(r.data) \/ ~ \E i \in 1 .. Len(C) : C[i].op = "close" /\ C[i].b = w
      BY <2>2, <2>3 DEF Fit, Fine
    <3>2. Changed(buf', w, r) /\ Fit(buf', C)
      BY <2>1, <2>3, <2>4, <2>6, <3>1, FitExcept
    <3>3. /\ \A x : Occurs(x, r.data) => On(x, sink, buf', C)
          /\ \A x : On(x, sink, buf, C) => On(x, sink, buf', C) \/ Occurs(x, buf[w].data)
      BY <2>1, <2>3, <3>2, OnExcept
    <3>. QED
      <4>1. Sound' /\ calls' = C /\ sink' = sink
        BY <1>1, <1>4, <2>4, <2>6, <3>2
      <4>2. ASSUME NEW x, On(x, sink, buf, C) \/ Occurs(x, d) PROVE On(x, sink, buf', C)
        BY <2>2, <2>3, <3>3, <4>2
      <4>. QED
        BY <4>1, <4>2 DEF Stays
  <2>7. CASE full
    <3>1. PICK q \in Buffer : q = Opened(op, r) /\ q.data = <<>> /\ ~q.shut
      <4>1. Opened(op, r) \in Buffer /\ (Opened(op, r).shut <=> r.shut)
        BY <2>5, OpenedFacts
      <4>2. Opened(op, r).data = <<>>
        BY ZenonT(60), <2>5, CalledTakes
      <4>. QED
        BY <2>3, <4>1, <4>2
    <3>2. PICK f : f = Called(op, w, r) /\ f.d = r.data
      BY <2>5, CalledTakes
    <3>3. Changed(buf', w, q) /\ Fit(buf', C)
      BY <2>1, <2>4, <2>7, <3>1, FitExcept, NothingOccurs
    <3>4. Fine(f, buf')
      BY <2>1, <2>5, <3>1, <3>2, <3>3, CalledFine DEF Changed
    <3>5. calls' = Append(C, f) /\ Fit(buf', calls')
      BY <2>4, <2>7, <3>2, <3>3, <3>4, FitPush
    <3>6. /\ \A x : On(x, sink, buf, C) => On(x, sink, buf', C) \/ Occurs(x, buf[w].data)
      BY <2>1, <3>1, <3>3, OnExcept
    <3>7. /\ \A x : Occurs(x, r.data) => On(x, sink, buf', calls')
          /\ \A x : On(x, sink, buf', C) => On(x, sink, buf', calls')
      BY <3>2, <3>5, OnPush
    <3>. QED
      BY <1>1, <1>4, <2>2, <2>3, <3>5, <3>6, <3>7 DEF Stays
  <2>. QED
    BY <2>6, <2>7
<1>. QED
  BY <1>2, <1>3, <1>4 DEF Put

(* A deed only costs one of those that are left.                           *)
LEMMA DidKeeps ==
  ASSUME Inv, Sound, NEW what, Deed(what)
  PROVE  /\ Fit(buf, Did) /\ Did \in Seq(Frame)
         /\ \A x : On(x, sink, buf, calls) => On(x, sink, buf, Did)
<1>1. calls # <<>>
  BY DidFacts
<1>2. PICK f \in Frame : Did = SetCur(f) /\ f = [Cur EXCEPT !.left = @ - 1]
  BY DidFacts
<1>3. /\ f.b = Cur.b /\ f.op = Cur.op /\ f.at = Cur.at /\ f.d = Cur.d
  BY <1>1, <1>2, Innermost DEF Frame
<1>4. Fine(Cur, buf)
  BY <1>1, Innermost DEF Sound, Fit
<1>5. Fine(f, buf)
  BY <1>3, <1>4 DEF Fine
<1>. QED
  BY <1>1, <1>2, <1>3, <1>5, SetKeeps

(* A call takes the data of its buffer, or leaves it there.                *)
LEMMA BeginKeeps ==
  ASSUME Inv, NEW op \in Ops, NEW C \in Seq(Frame), Fit(buf, C), NEW caller \in Callers,
         Begin(op, C, caller)
  PROVE  Sound' /\ \A x : On(x, sink, buf, C) => Stays(x)
<1>. DEFINE f == Called(op, top, buf[top])
            o == Opened(op, buf[top])
<1>1. /\ top \in Open /\ top \in Buffers /\ UNCHANGED sink /\ calls' = Append(C, f)
      /\ buf' = [buf EXCEPT ![top] = [o EXCEPT !.caller = IF caller = "none" THEN @ ELSE caller]]
  BY OutIsOpen DEF Begin, Sapi
<1>2. buf[top] \in Buffer /\ ~buf[top].shut /\ buf[top].data \in Seq(Bytes)
  BY <1>1, BufferTypes DEF Open
<1>3. /\ op \in Dropping => f.d = <<>> /\ o.data = buf[top].data
      /\ op \notin Dropping => f.d = buf[top].data /\ o.data = <<>>
  <2>. PICK r \in Buffer : r = buf[top]
    BY <1>2
  <2>1. CASE op \in Dropping
    <3>1. Called(op, top, r).d = <<>> /\ Opened(op, r).data = r.data
      BY <2>1, CalledTakes
    <3>. QED
      BY <2>1, <3>1
  <2>2. CASE op \notin Dropping
    <3>1. Called(op, top, r).d = r.data /\ Opened(op, r).data = <<>>
      BY <2>2, CalledTakes
    <3>. QED
      BY <2>2, <3>1
  <2>. QED
    BY <2>1, <2>2
<1>4. o \in Buffer /\ ~o.shut
  BY <1>2, OpenedFacts
<1>. HIDE DEF f, o
<1>5. PICK r \in Buffer : /\ buf' = [buf EXCEPT ![top] = r] /\ r.data = o.data /\ ~r.shut
  <2>1. PICK c \in Callers : c = IF caller = "none" THEN o.caller ELSE caller
    BY <1>4 DEF Buffer
  <2>2. PICK r \in Buffer : r = [o EXCEPT !.caller = c] /\ r.data = o.data /\ ~r.shut
    <3>1. \A q \in Buffer : /\ [q EXCEPT !.caller = c] \in Buffer
                             /\ [q EXCEPT !.caller = c].data = q.data
                             /\ [q EXCEPT !.caller = c].shut = q.shut
      BY DEF Buffer
    <3>. QED
      BY <1>4, <3>1
  <2>. QED
    BY <1>1, <1>4, <2>1, <2>2
<1>6. ASSUME Blank(buf[top].data) PROVE Blank(r.data)
  BY <1>3, <1>5, <1>6, NothingOccurs
<1>7. Blank(r.data) \/ ~ \E i \in 1 .. Len(C) : C[i].op = "close" /\ C[i].b = top
  BY <1>6 DEF Fit, Fine
<1>8. Changed(buf', top, r) /\ Fit(buf', C)
  BY <1>1, <1>2, <1>5, <1>7, FitExcept
<1>9. Fine(f, buf')
  <2>1. op = "close" => Blank(r.data)
    BY <1>3, <1>5, NothingOccurs DEF Dropping
  <2>2. top \in 1 .. Len(buf') /\ ~buf'[top].shut /\ (op = "close" => Blank(buf'[top].data))
    BY <1>1, <1>5, <1>8, <2>1 DEF Buffers, Changed
  <2>. QED
    BY <1>2, <2>2, CalledFine DEF f
<1>10. Sound'
  BY <1>1, <1>8, <1>9, FitPush DEF Sound
<1>11. /\ \A x : Occurs(x, r.data) => On(x, sink, buf', C)
       /\ \A x : On(x, sink, buf, C) => On(x, sink, buf', C) \/ Occurs(x, buf[top].data)
  BY <1>1, <1>5, <1>8, OnExcept
<1>12. /\ \A x : Occurs(x, f.d) => On(x, sink, buf', calls')
       /\ \A x : On(x, sink, buf', C) => On(x, sink, buf', calls')
  BY <1>1, OnPush
<1>13. \A x : On(x, sink, buf, C) => On(x, sink, buf', calls')
  BY <1>3, <1>5, <1>11, <1>12
<1>. QED
  BY <1>1, <1>10, <1>13 DEF Stays

-----------------------------------------------------------------------------
(* What becomes of a byte in a step: it stays, or the request dies, or the *)
(* innermost call may drop it.                                             *)

Dies ==
    /\ phase = "script" /\ phase' = "shutdown"
    /\ \A b \in DOMAIN buf' : b \in OnStack => buf'[b].data = <<>>
Spent(x) ==
    /\ calls # <<>>
    /\ \/ Cur.at \in {"php", "result"} /\ Occurs(x, Cur.d)
       \/ Cur.at = "pass" /\ Refused(buf[Cur.b].w, Cur.d)
       \/ /\ Cur.at = "end" /\ Cur.op \in Dropping \cup Closing
          /\ Occurs(x, buf[Cur.b].data)
          /\ Cur.op = "close" => x <= 0
Accounted ==
    Sound' /\ \A x : On(x, sink, buf, calls) => Stays(x) \/ Dies \/ Spent(x)

LEMMA SameKeeps == ASSUME Sound, UNCHANGED <<buf, sink, calls>> PROVE Accounted
BY DEF Accounted, Stays, Sound

LEMMA WriteKeeps ==
  ASSUME Inv, NEW op \in Flushing, NEW d \in Seq(Bytes), NEW C \in Seq(Frame), Fit(buf, C),
         Put(op, out, d, C), Blank(d) \/ Len(C) = 0,
         \A x : On(x, sink, buf, calls) => On(x, sink, buf, C)
  PROVE  Accounted
<1>1. out \in Open \cup {Sapi}
  BY OutIsOpen
<1>2. Blank(d) \/ \A i \in 1 .. Len(C) : C[i].op = "close" => C[i].b # out
  OBVIOUS
<1>. QED
  BY <1>1, <1>2, PutKeeps DEF Accounted

LEMMA RaiseKeeps ==
  ASSUME Inv, NEW e, NEW B \in Seq(Buffer), Raise(e, B) PROVE buf' = B \/ Dies
<1>1. CASE buf' = B
  BY <1>1
<1>2. CASE /\ phase = "script" /\ phase' = "shutdown"
           /\ buf' = [b \in DOMAIN B |->
                        IF b \in OnStack THEN [B[b] EXCEPT !.data = <<>>] ELSE B[b]]
  <2>1. \A b \in DOMAIN B : B[b] \in Buffer
    BY ElementOfSeq, LenProperties
  <2>2. \A r \in Buffer : [r EXCEPT !.data = <<>>].data = <<>>
    BY DEF Buffer
  <2>3. DOMAIN buf' = DOMAIN B
    BY <1>2
  <2>4. ASSUME NEW b \in DOMAIN B, b \in OnStack PROVE buf'[b].data = <<>>
    <3>1. buf'[b] = [B[b] EXCEPT !.data = <<>>]
      BY <1>2, <2>4
    <3>. QED
      BY <2>1, <2>2, <3>1
  <2>. QED
    BY <1>2, <2>3, <2>4 DEF Dies
<1>. QED
  BY <1>1, <1>2 DEF Raise

LEMMA IdleKeeps ==
  ASSUME Inv, calls = <<>>, NEW e, Raise(e, buf), UNCHANGED <<sink, calls>> PROVE Accounted
<1>1. buf' = buf \/ Dies
  BY RaiseKeeps DEF Inv, TypeOK
<1>2. Len(calls) = 0
  OBVIOUS
<1>3. Sound'
  BY <1>2 DEF Sound, Fit
<1>. QED
  BY <1>1, <1>3 DEF Accounted, Stays

LEMMA EchoKeeps == ASSUME Inv, Sound, Echo PROVE Accounted
<1>1. calls = <<>> /\ Len(calls) = 0 /\ bytes' \in 0 .. MaxBytes /\ calls \in Seq(Frame)
  BY NextCount, EmptySeq DEF Echo, Script
<1>2. CASE Put("echo", out, <<bytes'>>, calls)
  BY <1>1, <1>2, SomeBytes, PhaseType, WriteKeeps DEF Sound
<1>3. CASE Raise("die", buf) /\ UNCHANGED <<sink, calls>>
  BY <1>1, <1>3, IdleKeeps
<1>. QED
  BY <1>2, <1>3 DEF Echo

LEMMA ScriptEndsKeeps == ASSUME Inv, ScriptEnds PROVE Accounted
<1>1. PICK e : Raise(e, buf)
  BY DEF ScriptEnds
<1>. QED
  BY <1>1, IdleKeeps DEF ScriptEnds, Script

LEMMA ObStartKeeps == ASSUME Inv, ObStart PROVE Accounted
<1>1. calls' = <<>> /\ UNCHANGED <<sink, calls>> /\ \E r : buf' = Append(buf, r)
  BY DEF ObStart, Script
<1>. PICK n \in Nat : n = Len(buf)
  BY Types
<1>2. Len(buf') = n + 1 /\ \A b \in 1 .. n : buf'[b] = buf[b]
  BY <1>1, AppendProperties DEF Inv, TypeOK
<1>3. \A b \in 1 .. n : b \in 1 .. n + 1
  OBVIOUS
<1>4. ASSUME NEW x, On(x, sink, buf, calls) PROVE Stays(x)
  BY <1>1, <1>2, <1>3, <1>4 DEF On, Stays
<1>5. Sound'
  BY <1>1 DEF Sound, Fit
<1>. QED
  BY <1>4, <1>5 DEF Accounted

LEMMA Blanks == Blank(<<0>>) /\ \A n \in Nat : Blank(<<-n>>)
BY DEF Blank

LEMMA UncaughtKeeps == ASSUME Inv, Sound, Uncaught PROVE Accounted
<1>1. CASE Put("auto", out, <<0>>, calls)
  BY <1>1, Blanks, SomeBytes, PhaseType, WriteKeeps DEF Sound, Inv, TypeOK
<1>2. CASE UNCHANGED <<buf, sink, calls>>
  BY <1>2, SameKeeps
<1>. QED
  BY <1>1, <1>2 DEF Uncaught

LEMMA PhpWarnsKeeps == ASSUME Inv, Sound, PhpWarns PROVE Accounted
<1>1. Deed("warn") /\ Put("auto", out, <<0>>, Did)
  BY DEF PhpWarns
<1>. QED
  BY <1>1, DidKeeps, Blanks, SomeBytes, PhaseType, WriteKeeps

(* The innermost call goes on, and other buffers keep their bytes.         *)
LEMMA GoesOnKeeps ==
  ASSUME Inv, Sound, calls # <<>>, NEW f \in Frame, f.b = Cur.b, f.op = Cur.op,
         f.op \in Dropping \/ f.at = "end" => f.d = <<>>, f.op \in Dropping => f.at # "pass",
         calls' = SetCur(f), sink' = sink, Len(buf') = Len(buf),
         \A b \in Buffers : buf'[b].data = buf[b].data /\ (buf'[b].shut <=> buf[b].shut)
  PROVE  Sound' /\ \A x : On(x, sink, buf, calls) =>
           Stays(x) \/ (Occurs(x, Cur.d) /\ ~Occurs(x, f.d))
<1>1. Fine(Cur, buf)
  BY Innermost DEF Sound, Fit
<1>2. Fine(f, buf)
  BY <1>1 DEF Fine
<1>. PICK D : D = SetCur(f)
  OBVIOUS
<1>3. Fit(buf, D) /\ \A x : On(x, sink, buf, calls) =>
         On(x, sink, buf, D) \/ (Occurs(x, Cur.d) /\ ~Occurs(x, f.d))
  BY <1>2, SetKeeps
<1>4. ASSUME NEW i \in 1 .. Len(D) PROVE Fine(D[i], buf')
  BY <1>3 DEF Fit, Fine, Buffers
<1>5. ASSUME NEW x, On(x, sink, buf, D) PROVE Stays(x)
  BY <1>5 DEF On, Stays, Buffers
<1>6. Sound'
  BY <1>4 DEF Sound, Fit
<1>. QED
  BY <1>3, <1>5, <1>6

(* Nothing of what it has is lost by a step that changes something else of *)
(* the innermost call.                                                     *)
LEMMA MovesKeeps ==
  ASSUME Inv, Sound, calls # <<>>, NEW f \in Frame, f.b = Cur.b, f.op = Cur.op, f.d = Cur.d,
         Cur.at # "end", f.at \notin {"pass", "end"}, calls' = SetCur(f),
         UNCHANGED <<buf, sink>>
  PROVE  Accounted
<1>1. Fine(Cur, buf)
  BY Innermost DEF Sound, Fit
<1>2. (f.op \in Dropping \/ f.at = "end" => f.d = <<>>) /\ (f.op \in Dropping => f.at # "pass")
  BY <1>1 DEF Fine
<1>. QED
  BY <1>2, GoesOnKeeps DEF Accounted

LEMMA AsideEchoesKeeps == ASSUME Inv, Sound, AsideEchoes PROVE Accounted
<1>1. /\ Deed("echo") /\ bytes' \in 0 .. MaxBytes
      /\ \/ Put("echo", out, <<-bytes'>>, Did)
         \/ calls' = SetCur([Cur EXCEPT !.err = "die"]) /\ UNCHANGED <<buf, sink>>
  BY NextCount DEF AsideEchoes
<1>2. CASE Put("echo", out, <<-bytes'>>, Did)
  <2>1. bytes' \in Nat
    BY <1>1
  <2>. QED
    BY <1>1, <1>2, <2>1, DidKeeps, Blanks, SomeBytes, PhaseType, WriteKeeps
<1>3. CASE calls' = SetCur([Cur EXCEPT !.err = "die"]) /\ UNCHANGED <<buf, sink>>
  <2>1. calls # <<>> /\ Cur \in Frame /\ Cur.at \notin {"pass", "end"}
    BY <1>1, DidFacts, Innermost DEF Deed, Running
  <2>2. PICK f \in Frame : f = [Cur EXCEPT !.err = "die"]
    BY <2>1 DEF Frame, Errors
  <2>3. f.b = Cur.b /\ f.op = Cur.op /\ f.d = Cur.d /\ f.at = Cur.at
    BY <2>1, <2>2 DEF Frame
  <2>. QED
    BY <1>3, <2>1, <2>2, <2>3, MovesKeeps
<1>. QED
  BY <1>1, <1>2, <1>3

LEMMA HandlerStartsKeeps == ASSUME Inv, Sound, HandlerStarts PROVE Accounted
<1>1. /\ calls # <<>> /\ Cur.at = "php" /\ calls' = SetCur([Cur EXCEPT !.err = "die"])
      /\ UNCHANGED <<buf, sink>>
  BY DEF HandlerStarts, At
<1>2. Cur \in Frame
  BY <1>1, Innermost
<1>3. PICK f \in Frame : f = [Cur EXCEPT !.err = "die"]
  BY <1>2 DEF Frame, Errors
<1>4. f.b = Cur.b /\ f.op = Cur.op /\ f.d = Cur.d /\ f.at = Cur.at
  BY <1>2, <1>3 DEF Frame
<1>. QED
  BY <1>1, <1>3, <1>4, MovesKeeps

LEMMA ErrorDeclinedKeeps == ASSUME Inv, Sound, ErrorDeclined PROVE Accounted
<1>1. /\ calls # <<>> /\ Cur.at = "error"
      /\ calls' = SetCur([Cur EXCEPT !.at = "notice", !.left = 0])
      /\ UNCHANGED <<buf, sink>>
  BY DEF ErrorDeclined, At
<1>2. Cur \in Frame /\ 0 \in 0 .. MaxDeeds
  BY <1>1, Innermost, OutputAssumption
<1>3. PICK f \in Frame : f = [Cur EXCEPT !.at = "notice", !.left = 0]
  BY <1>2 DEF Frame, Steps
<1>4. f.b = Cur.b /\ f.op = Cur.op /\ f.d = Cur.d /\ f.at = "notice"
  BY <1>2, <1>3 DEF Frame
<1>. QED
  BY <1>1, <1>3, <1>4, MovesKeeps

LEMMA HandlerReturnsKeeps == ASSUME Inv, Sound, HandlerReturns PROVE Accounted
<1>1. calls # <<>> /\ Cur.at = "php" /\ UNCHANGED <<buf, sink>>
  BY DEF HandlerReturns, At
<1>2. /\ Cur \in Frame /\ Cur.b \in Buffers /\ out \in 0 .. MaxBufs
      /\ MaxDeeds \in 0 .. MaxDeeds /\ 0 \in 0 .. MaxDeeds /\ Cur.saved \in 0 .. MaxBufs
  BY <1>1, Innermost, Types, OutputAssumption DEF Frame
<1>3. PICK at \in {"result", "error", "notice"}, l \in 0 .. MaxDeeds, s \in 0 .. MaxBufs :
         calls' = SetCur([Cur EXCEPT !.at = at, !.saved = s, !.left = l])
  <2>1. CASE calls' = SetCur([Cur EXCEPT !.at = "result", !.left = MaxDeeds])
    <3>1. [Cur EXCEPT !.at = "result", !.left = MaxDeeds]
            = [Cur EXCEPT !.at = "result", !.saved = Cur.saved, !.left = MaxDeeds]
      BY <1>2 DEF Frame
    <3>. QED
      BY <1>2, <2>1, <3>1
  <2>2. CASE \E at \in {"error", "notice"} :
                calls' = SetCur([Cur EXCEPT !.at = at, !.saved = out,
                  !.left = IF at = "error" /\ buf[Cur.b].caller = "script" THEN MaxDeeds ELSE 0])
    BY <1>2, <2>2
  <2>. QED
    BY <2>1, <2>2 DEF HandlerReturns
<1>4. PICK f \in Frame : f = [Cur EXCEPT !.at = at, !.saved = s, !.left = l]
  BY <1>2 DEF Frame, Steps
<1>5. f.b = Cur.b /\ f.op = Cur.op /\ f.d = Cur.d /\ f.at = at
  BY <1>2, <1>4 DEF Frame
<1>. QED
  BY <1>1, <1>3, <1>4, <1>5, MovesKeeps

LEMMA NoticeEndsKeeps == ASSUME Inv, Sound, NoticeEnds PROVE Accounted
<1>1. calls # <<>> /\ Cur.at \in {"noticed", "error"} /\ UNCHANGED <<buf, sink>>
  BY DEF NoticeEnds, At
<1>2. Cur \in Frame /\ MaxDeeds \in 0 .. MaxDeeds /\ Sapi \in 0 .. MaxBufs
  BY <1>1, Innermost, OutputAssumption DEF Sapi
<1>3. PICK e \in Errors :
         calls' = SetCur([Cur EXCEPT !.at = "result", !.err = "none", !.dep = e,
                                     !.saved = Sapi, !.left = MaxDeeds])
  BY DEF NoticeEnds
<1>4. PICK f \in Frame :
         f = [Cur EXCEPT !.at = "result", !.err = "none", !.dep = e,
                         !.saved = Sapi, !.left = MaxDeeds]
  BY <1>2 DEF Frame, Steps, Errors
<1>5. f.b = Cur.b /\ f.op = Cur.op /\ f.d = Cur.d /\ f.at = "result"
  BY <1>2, <1>4 DEF Frame
<1>. QED
  BY <1>1, <1>3, <1>4, <1>5, MovesKeeps

LEMMA NoticeWrittenKeeps == ASSUME Inv, Sound, NoticeWritten PROVE Accounted
<1>1. calls # <<>> /\ Cur.at = "notice"
  BY DEF NoticeWritten, At
<1>2. Cur \in Frame /\ Fine(Cur, buf)
  BY <1>1, Innermost DEF Sound, Fit
<1>3. PICK f \in Frame : f = [Cur EXCEPT !.at = "noticed"]
  BY <1>2 DEF Frame, Steps
<1>4. f.b = Cur.b /\ f.op = Cur.op /\ f.d = Cur.d /\ f.at = "noticed"
  BY <1>2, <1>3 DEF Frame
<1>5. CASE calls' = SetCur(f) /\ UNCHANGED <<buf, sink>>
  BY <1>1, <1>4, <1>5, MovesKeeps
<1>6. CASE Put("auto", out, <<0>>, SetCur(f))
  <2>1. Fine(f, buf)
    BY <1>1, <1>2, <1>4 DEF Fine
  <2>2. /\ Fit(buf, SetCur(f)) /\ SetCur(f) \in Seq(Frame)
        /\ \A x : On(x, sink, buf, calls) => On(x, sink, buf, SetCur(f))
    BY <1>1, <1>4, <2>1, SetKeeps
  <2>. QED
    BY <1>6, <2>2, Blanks, SomeBytes, PhaseType, WriteKeeps
<1>. QED
  BY <1>3, <1>5, <1>6 DEF NoticeWritten

(* A handler, and the code that makes its result a string, is in charge of *)
(* the data.                                                               *)
LEMMA OnwardKeeps ==
  ASSUME Inv, Sound, calls # <<>>, Cur.at \in {"php", "result"},
         NEW d \in Seq(Bytes), Cur.op \in Dropping => d = <<>>, NEW e \in Errors,
         calls' = SetCur(Onward(Cur, d, e)), sink' = sink, Len(buf') = Len(buf),
         \A b \in Buffers : buf'[b].data = buf[b].data /\ (buf'[b].shut <=> buf[b].shut)
  PROVE  Accounted
<1>1. PICK f \in Frame : f = Onward(Cur, d, e)
  BY Innermost, OnwardFacts
<1>2. f.b = Cur.b /\ f.op = Cur.op /\ f.d = d /\ f.at = IF d = <<>> THEN "end" ELSE "pass"
  <2>1. f.b = Cur.b /\ f.op = Cur.op /\ f.d = d
    BY <1>1, Innermost, OnwardFacts
  <2>2. Cur \in Frame
    BY Innermost
  <2>. QED
    BY <1>1, <2>1, <2>2 DEF Onward, Frame
<1>3. Sound' /\ \A x : On(x, sink, buf, calls) => Stays(x) \/ Occurs(x, Cur.d)
  BY <1>1, <1>2, GoesOnKeeps
<1>. QED
  BY <1>3 DEF Accounted, Spent

LEMMA ResultKeeps == ASSUME Inv, Sound, ResultTaken \/ ResultFails PROVE Accounted
<1>1. calls # <<>> /\ Cur.at = "result" /\ UNCHANGED <<buf, sink>>
  BY DEF ResultTaken, ResultFails, At
<1>2. /\ Cur \in Frame /\ Cur.d \in Seq(Bytes) /\ <<>> \in Seq(Bytes) /\ <<0>> \in Seq(Bytes)
      /\ Cur.dep \in Errors
  BY <1>1, Innermost, SomeBytes DEF Frame
<1>3. Cur.op \in Dropping => Cur.d = <<>>
  <2>1. Fine(Cur, buf)
    BY <1>1, Innermost DEF Sound, Fit
  <2>. QED
    BY <2>1 DEF Fine
<1>4. CASE ResultTaken
  <2>1. PICK d \in Seq(Bytes) : /\ calls' = SetCur(Onward(Cur, d, Cur.dep))
                                /\ Cur.op \in Dropping => d = <<>>
    BY <1>2, <1>3, <1>4 DEF ResultTaken
  <2>. QED
    BY <1>1, <1>2, <2>1, OnwardKeeps
<1>5. CASE ResultFails
  <2>1. PICK e \in Errors : calls' = SetCur(Failed(Cur, e))
    BY <1>5 DEF ResultFails
  <2>2. PICK d \in Seq(Bytes) : Failed(Cur, e) = Onward(Cur, d, e) /\ d \in {Cur.d, <<>>}
    BY <1>2, FailedFacts
  <2>. QED
    BY <1>1, <1>3, <2>1, <2>2, OnwardKeeps
<1>. QED
  BY <1>4, <1>5

LEMMA HandlerFailsKeeps == ASSUME Inv, Sound, HandlerFails PROVE Accounted
<1>1. /\ calls # <<>> /\ Cur.at = "php" /\ buf' = [buf EXCEPT ![Cur.b].cb = FALSE]
      /\ sink' = sink
  BY DEF HandlerFails, At
<1>2. Cur \in Frame /\ Cur.b \in Buffers /\ Fine(Cur, buf) /\ buf[Cur.b] \in Buffer
  BY <1>1, Innermost, Types DEF Sound, Fit
<1>3. PICK e \in Errors : calls' = SetCur(Failed(Cur, e))
  BY DEF HandlerFails
<1>4. PICK d \in Seq(Bytes) : Failed(Cur, e) = Onward(Cur, d, e) /\ d \in {Cur.d, <<>>}
  BY <1>2, FailedFacts
<1>5. PICK r \in Buffer : /\ buf' = [buf EXCEPT ![Cur.b] = r]
                          /\ r.data = buf[Cur.b].data /\ (r.shut <=> buf[Cur.b].shut)
  <2>1. PICK q \in Buffer : q = buf[Cur.b]
    BY <1>2
  <2>2. /\ [q EXCEPT !.cb = FALSE] \in Buffer /\ [q EXCEPT !.cb = FALSE].data = q.data
        /\ [q EXCEPT !.cb = FALSE].shut = q.shut
    BY DEF Buffer
  <2>. QED
    BY <1>1, <2>1, <2>2
<1>6. /\ Len(buf') = Len(buf)
      /\ \A b \in Buffers : buf'[b].data = buf[b].data /\ (buf'[b].shut <=> buf[b].shut)
  <2>1. /\ Len(buf') = Len(buf)
        /\ \A b \in Buffers : buf'[b] = IF b = Cur.b THEN r ELSE buf[b]
    BY <1>2, <1>5, ExceptSeq DEF Buffers, Inv, TypeOK
  <2>. QED
    BY <1>5, <2>1
<1>7. Cur.op \in Dropping => d = <<>>
  BY <1>2, <1>4 DEF Fine
<1>. QED
  BY <1>1, <1>3, <1>4, <1>6, <1>7, OnwardKeeps

(* What a call passes on is gone only if memory_limit refuses it.  It does *)
(* not come into the buffer that is being closed.                          *)
LEMMA PassKeeps == ASSUME Inv, Sound, Pass PROVE Accounted
<1>1. /\ calls # <<>> /\ Cur.at = "pass"
      /\ Put("auto", buf[Cur.b].w, Cur.d, SetCur([Cur EXCEPT !.at = "end", !.d = <<>>]))
  BY DEF Pass, At
<1>2. Cur \in Frame /\ Fine(Cur, buf) /\ Cur.b \in Open
  BY <1>1, Innermost DEF Sound, Fit, Fine, Open
<1>3. PICK w \in Open \cup {Sapi} : w = buf[Cur.b].w /\ w < top
  BY <1>2, OutIsOpen
<1>4. PICK d \in Seq(Bytes) : d = Cur.d
  BY <1>2 DEF Frame
<1>5. PICK f \in Frame : f = [Cur EXCEPT !.at = "end", !.d = <<>>]
  BY <1>2, SomeBytes DEF Frame, Steps
<1>6. f.b = Cur.b /\ f.op = Cur.op /\ f.d = <<>> /\ f.at = "end"
  BY <1>2, <1>5 DEF Frame
<1>7. Fine(f, buf)
  BY <1>2, <1>6 DEF Fine
<1>8. PICK C \in Seq(Frame) :
         /\ C = SetCur(f) /\ Fit(buf, C) /\ Len(C) = Len(calls)
         /\ \A i \in 1 .. Len(calls) : C[i] = IF i = Len(calls) THEN f ELSE calls[i]
         /\ \A x : On(x, sink, buf, calls) => On(x, sink, buf, C) \/ Occurs(x, d)
  BY <1>1, <1>4, <1>6, <1>7, SetKeeps, Replaced
<1>9. ASSUME NEW i \in 1 .. Len(C), C[i].op = "close" PROVE C[i].b # w
  <2>1. C[i].op = calls[i].op /\ C[i].b = calls[i].b
    BY <1>1, <1>6, <1>8, Innermost
  <2>2. calls[i].b = top
    BY <1>8, <1>9, <2>1 DEF Inv, Stack, CallFits, Flushing
  <2>3. top \in Nat /\ w \in Nat
    BY <1>3, Types DEF Open, Sapi
  <2>. QED
    BY <1>3, <2>1, <2>2, <2>3
<1>10. Put("auto", w, d, C)
  BY <1>1, <1>3, <1>4, <1>5, <1>8
<1>11. /\ Sound'
       /\ \A x : On(x, sink, buf, C) \/ (~Refused(w, d) /\ Occurs(x, d)) => Stays(x)
  BY <1>8, <1>9, <1>10, PhaseType, PutKeeps
<1>12. \A x : On(x, sink, buf, calls) => Stays(x) \/ Refused(w, d)
  BY <1>8, <1>11
<1>. QED
  BY <1>1, <1>3, <1>4, <1>11, <1>12 DEF Accounted, Spent

(* A call that returns has nothing left to pass on: what it may lose is    *)
(* what a clean, a discard or a close leaves in its buffer.                *)
LEMMA FinishKeeps == ASSUME Inv, Sound, Finish PROVE Accounted
<1>. DEFINE A == [buf EXCEPT ![Cur.b] = Left(Cur)]
<1>1. /\ calls # <<>> /\ Cur.at = "end" /\ sink' = sink
      /\ \/ Len(Below) = 0 /\ calls' = Below /\ \E e : Raise(e, A)
         \/ /\ Len(Below) > 0 /\ buf' = A
            /\ \/ calls' = [Below EXCEPT ![Len(Below)].err = Cur.err]
               \/ calls' = Below
  BY DEF Finish, At
<1>. PICK k \in Nat : k = Len(calls)
  BY Types
<1>2. /\ Cur \in Frame /\ k \in 1 .. k /\ calls[k] = Cur /\ Fine(Cur, buf)
      /\ Cur.b \in Buffers /\ buf[Cur.b] \in Buffer /\ CallFits(Cur, k) /\ ~Redirects(Cur)
  BY <1>1, Innermost, Types DEF Sound, Fit, Redirects
<1>3. /\ Below \in Seq(Frame) /\ Len(Below) = k - 1
      /\ \A i \in 1 .. k - 1 : Below[i] = calls[i]
  BY <1>1, <1>2, BelowStack DEF Stack
<1>4. PICK r \in Buffer : r = Left(Cur)
  BY <1>2, LeftFacts
<1>5. /\ r.shut <=> (buf[Cur.b].shut \/ Cur.op \in Closing)
      /\ Cur.op \in Dropping => r.data = <<>>
      /\ Cur.op \notin Dropping => r.data = buf[Cur.b].data
  <2>1. r.shut <=> (buf[Cur.b].shut \/ Cur.op \in Closing)
    BY <1>2, <1>4, LeftFacts
  <2>2. Left(Cur).data = IF Cur.op \in Dropping THEN <<>> ELSE buf[Cur.b].data
    <3>1. ASSUME NEW q \in Buffer, NEW u, NEW y, NEW z
          PROVE  [q EXCEPT !.data = u, !.caller = y, !.shut = z].data = u
      BY DEF Buffer
    <3>. QED
      BY <1>2, <3>1 DEF Left
  <2>. QED
    BY <1>4, <2>1, <2>2
<1>6. PICK B \in Seq(Buffer) : B = A /\ Changed(B, Cur.b, r)
  <2>. PICK B : B = [buf EXCEPT ![Cur.b] = r]
    OBVIOUS
  <2>1. /\ B \in Seq(Buffer) /\ Len(B) = Len(buf)
        /\ \A j \in 1 .. Len(buf) : B[j] = IF j = Cur.b THEN r ELSE buf[j]
    BY <1>2, ExceptSeq DEF Buffers, Inv, TypeOK
  <2>2. B = A
    BY <1>4
  <2>. HIDE DEF A
  <2>. QED
    BY <2>1, <2>2 DEF Changed
<1>. HIDE DEF A
<1>7. Len(calls') = k - 1 /\ \A i \in 1 .. k - 1 : /\ calls'[i].b = calls[i].b
                                                   /\ calls'[i].d = calls[i].d
                                                   /\ calls'[i].op = calls[i].op
                                                   /\ calls'[i].at = calls[i].at
  <2>1. CASE calls' = Below
    BY <1>3, <2>1
  <2>2. CASE Len(Below) > 0 /\ calls' = [Below EXCEPT ![Len(Below)].err = Cur.err]
    <3>. PICK n \in Nat : n = k - 1 /\ n \in 1 .. n
      BY <1>3, <2>2
    <3>1. Below[n] \in Frame /\ Cur.err \in Errors
      BY <1>2, <1>3, ElementOfSeq DEF Frame
    <3>2. PICK h \in Frame : /\ h = [Below[n] EXCEPT !.err = Cur.err]
                             /\ h.d = Below[n].d /\ h.b = Below[n].b
                             /\ h.op = Below[n].op /\ h.at = Below[n].at
      <4>1. ASSUME NEW g \in Frame, NEW e \in Errors
            PROVE  /\ [g EXCEPT !.err = e] \in Frame
                   /\ [g EXCEPT !.err = e].d = g.d /\ [g EXCEPT !.err = e].b = g.b
                   /\ [g EXCEPT !.err = e].op = g.op /\ [g EXCEPT !.err = e].at = g.at
        BY DEF Frame
      <4>. QED
        BY ZenonT(60), <3>1, <4>1
    <3>3. calls' = [Below EXCEPT ![n] = h]
      BY <1>3, <2>2, <3>2
    <3>4. Len(calls') = n /\ \A i \in 1 .. n : calls'[i] = IF i = n THEN h ELSE Below[i]
      BY <1>3, <3>3, ExceptSeq
    <3>. QED
      BY <1>3, <3>2, <3>4
  <2>. QED
    BY <1>1, <2>1, <2>2
<1>8. buf' = B \/ (Dies /\ k = 1)
  BY <1>1, <1>3, <1>6, RaiseKeeps
<1>9. Sound'
  <2>1. CASE k = 1
    BY <1>7, <2>1 DEF Sound, Fit
  <2>2. CASE k # 1
    <3>1. buf' = B /\ Cur.op \notin Closing
      BY <1>2, <1>8, <2>2 DEF CallFits
    <3>2. ASSUME NEW i \in 1 .. k - 1 PROVE Fine(calls'[i], buf')
      <4>1. Fine(calls[i], buf)
        BY DEF Sound, Fit
      <4>2. Len(buf') = Len(buf) /\ \A b \in 1 .. Len(buf) :
              (buf'[b].shut <=> buf[b].shut) /\ (Blank(buf[b].data) => Blank(buf'[b].data))
        BY <1>5, <1>6, <3>1, NothingOccurs DEF Changed
      <4>. QED
        BY <1>7, <4>1, <4>2 DEF Fine
    <3>. QED
      BY <1>7, <3>2 DEF Sound, Fit
  <2>. QED
    BY <2>1, <2>2
<1>10. ASSUME NEW i \in 1 .. k, NEW x, Occurs(x, calls[i].d) PROVE Stays(x)
  <2>1. i # k
    BY <1>1, <1>2, <1>10, NothingOccurs DEF Fine
  <2>2. i \in 1 .. Len(calls') /\ calls'[i].d = calls[i].d
    BY <1>7, <2>1
  <2>. QED
    BY <1>10, <2>2 DEF On, Stays
<1>11. ASSUME NEW b \in 1 .. Len(buf), ~buf[b].shut, NEW x, Occurs(x, buf[b].data), buf' = B
       PROVE  Stays(x) \/ Spent(x)
  <2>1. CASE b = Cur.b /\ Cur.op \in Dropping \cup Closing
    <3>1. Cur.op = "close" => x <= 0
      BY <1>2, <1>11, <2>1 DEF Fine, Blank, Occurs
    <3>. QED
      BY <1>1, <1>11, <2>1, <3>1 DEF Spent
  <2>2. CASE ~(b = Cur.b /\ Cur.op \in Dropping \cup Closing)
    <3>1. b \in 1 .. Len(buf') /\ buf'[b].data = buf[b].data /\ ~buf'[b].shut
      BY <1>5, <1>6, <1>11, <2>2 DEF Changed
    <3>. QED
      BY <1>11, <3>1 DEF On, Stays
  <2>. QED
    BY <2>1, <2>2
<1>12. \A x : Occurs(x, sink) => Stays(x)
  BY <1>1 DEF On, Stays
<1>13. ASSUME NEW x, On(x, sink, buf, calls) PROVE Stays(x) \/ Dies \/ Spent(x)
  BY <1>8, <1>10, <1>11, <1>12, <1>13 DEF On
<1>. QED
  BY <1>9, <1>13 DEF Accounted

LEMMA NextKeeps == ASSUME Inv, Sound, [Next]_vars PROVE Accounted
<1>1. CASE Echo
  BY <1>1, EchoKeeps
<1>2. CASE ObStart
  BY <1>2, ObStartKeeps
<1>3. CASE ScriptEnds
  BY <1>3, ScriptEndsKeeps
<1>4. CASE Uncaught
  BY <1>4, UncaughtKeeps
<1>5. ASSUME NEW op \in Ops, NEW caller \in Callers, Begin(op, calls, caller) PROVE Accounted
  BY <1>5, BeginKeeps DEF Sound, Inv, TypeOK, Accounted
<1>6. ASSUME NEW op \in Ops, ScriptCalls(op) PROVE Accounted
  BY <1>5, <1>6 DEF ScriptCalls, Callers
<1>7. ASSUME NEW op \in Ops, PhpCalls(op) PROVE Accounted
  <2>1. PICK caller \in Callers : Deed(op) /\ Begin(op, Did, caller)
    BY <1>7 DEF PhpCalls, Callers
  <2>. QED
    BY <2>1, DidKeeps, BeginKeeps DEF Accounted
<1>8. CASE CloseNext
  BY <1>5, <1>8 DEF CloseNext, Ops, Callers
<1>9. CASE PhpWarns \/ AsideEchoes
  BY <1>9, PhpWarnsKeeps, AsideEchoesKeeps
<1>10. CASE HandlerStarts \/ HandlerReturns \/ HandlerFails
  BY <1>10, HandlerStartsKeeps, HandlerReturnsKeeps, HandlerFailsKeeps
<1>11. CASE ErrorDeclined \/ NoticeWritten \/ NoticeEnds
  BY <1>11, ErrorDeclinedKeeps, NoticeWrittenKeeps, NoticeEndsKeeps
<1>12. CASE ResultTaken \/ ResultFails
  BY <1>12, ResultKeeps
<1>13. CASE Pass \/ Finish
  BY <1>13, PassKeeps, FinishKeeps
<1>14. CASE ShutdownEnds \/ CloseEnds \/ UNCHANGED vars
  BY <1>14, SameKeeps DEF ShutdownEnds, CloseEnds, vars
<1>. QED
  BY <1>1, <1>2, <1>3, <1>4, <1>6, <1>7, <1>8, <1>9, <1>10, <1>11, <1>12, <1>13,
     <1>14 DEF Next, Ended

LEMMA SoundHolds == ASSUME HandlersDoNotClose PROVE Spec => [](Inv /\ Sound)
<1>1. Init => Sound
  BY DEF Init, Sound, Fit
<1>2. Inv /\ Sound /\ [Next]_vars => Sound'
  BY NextKeeps DEF Accounted
<1>. QED
  BY <1>1, <1>2, InvHolds, PTL DEF Spec

-----------------------------------------------------------------------------
(* The bytes on their way *)

(* The pieces are the sink, what calls hand on and what open buffers have. *)
LEMMA PieceKinds ==
  ASSUME Inv, NEW p \in Pieces
  PROVE  \/ p = <<Sapi, 0>> /\ Piece(p) = sink
         \/ \E i \in 1 .. Len(calls) : p = <<calls[i].b, i>> /\ Piece(p) = calls[i].d
         \/ \E b \in Open : p = <<b, Len(calls) + 1>> /\ Piece(p) = buf[b].data
<1>. PICK k \in Nat : k = Len(calls)
  BY Types
<1>1. /\ Sapi = 0 /\ \A i \in 1 .. k : calls[i].b \in 1 .. Len(buf)
      /\ Open \subseteq 1 .. Len(buf)
  BY Types DEF Sapi, Buffers, Open
<1>2. CASE p = <<Sapi, 0>>
  BY <1>2 DEF Piece
<1>3. ASSUME NEW i \in 1 .. k, p = <<calls[i].b, i>> PROVE Piece(p) = calls[i].d
  <2>1. p[1] # Sapi /\ p[2] = i /\ i <= k /\ ~(i > k)
    BY <1>1, <1>3
  <2>. QED
    BY <2>1 DEF Piece
<1>4. ASSUME NEW b \in Open, p = <<b, k + 1>> PROVE Piece(p) = buf[b].data
  <2>1. p[1] # Sapi /\ p[2] > k /\ ~(p[2] <= k) /\ p[1] = b
    BY <1>1, <1>4
  <2>. QED
    BY <2>1 DEF Piece
<1>. QED
  BY <1>2, <1>3, <1>4 DEF Pieces

(* OnTheWay is made of the bytes of PHP code that are in some piece.       *)
OnIsOnTheWay == \A x : x \in OnTheWay <=> x # 0 /\ On(x, sink, buf, calls)

LEMMA OnTheWayFacts == Inv => OnIsOnTheWay
<1>. SUFFICES ASSUME Inv PROVE OnIsOnTheWay
  OBVIOUS
<1>. PICK k \in Nat : k = Len(calls)
  BY Types
<1>1. /\ Sapi = 0 /\ \A i \in 1 .. k : calls[i].b \in 1 .. Len(buf)
      /\ Open = {b \in 1 .. Len(buf) : ~buf[b].shut}
  BY Types DEF Sapi, Buffers, Open
<1>2. <<Sapi, 0>> \in Pieces /\ Piece(<<Sapi, 0>>) = sink
  BY DEF Pieces, Piece
<1>3. ASSUME NEW i \in 1 .. k
      PROVE  <<calls[i].b, i>> \in Pieces /\ Piece(<<calls[i].b, i>>) = calls[i].d
  <2>1. PICK p \in Pieces : p = <<calls[i].b, i>>
    BY DEF Pieces
  <2>2. p[1] # Sapi /\ p[2] = i /\ i <= k /\ ~(i > k)
    BY <1>1, <2>1
  <2>3. Piece(p) = calls[i].d
    BY <2>2 DEF Piece
  <2>. QED
    BY <2>1, <2>3
<1>4. ASSUME NEW b \in Open
      PROVE  <<b, k + 1>> \in Pieces /\ Piece(<<b, k + 1>>) = buf[b].data
  <2>1. PICK p \in Pieces : p = <<b, k + 1>>
    BY DEF Pieces
  <2>2. p[1] # Sapi /\ p[2] > k /\ ~(p[2] <= k) /\ p[1] = b
    BY <1>1, <2>1
  <2>3. Piece(p) = buf[b].data
    BY <2>2 DEF Piece
  <2>. QED
    BY <2>1, <2>3
<1>5. ASSUME NEW x PROVE (\E p \in Pieces : Occurs(x, Piece(p))) <=> On(x, sink, buf, calls)
  <2>1. ASSUME NEW p \in Pieces, Occurs(x, Piece(p)) PROVE On(x, sink, buf, calls)
    BY <1>1, <2>1, PieceKinds DEF On
  <2>2. ASSUME On(x, sink, buf, calls) PROVE \E p \in Pieces : Occurs(x, Piece(p))
    <3>1. CASE Occurs(x, sink)
      BY <1>2, <3>1
    <3>2. ASSUME NEW b \in Open, Occurs(x, buf[b].data)
          PROVE  \E p \in Pieces : Occurs(x, Piece(p))
      BY <1>4, <3>2
    <3>3. ASSUME NEW i \in 1 .. k, Occurs(x, calls[i].d)
          PROVE  \E p \in Pieces : Occurs(x, Piece(p))
      BY <1>3, <3>3
    <3>. QED
      BY <1>1, <2>2, <3>1, <3>2, <3>3 DEF On
  <2>. QED
    BY <2>1, <2>2
<1>6. ASSUME NEW x
      PROVE  x \in OnTheWay <=> x # 0 /\ \E p \in Pieces : Occurs(x, Piece(p))
  <2>1. ASSUME NEW p \in Pieces PROVE x \in ToSet(Piece(p)) <=> Occurs(x, Piece(p))
    BY DEF ToSet, Occurs
  <2>2. x \in OnTheWay <=> x # 0 /\ \E p \in Pieces : x \in ToSet(Piece(p))
    <3>. DEFINE U == UNION {ToSet(Piece(p)) : p \in Pieces}
    <3>1. x \in U <=> \E p \in Pieces : x \in ToSet(Piece(p))
      OBVIOUS
    <3>2. OnTheWay = U \ {0}
      BY DEF OnTheWay
    <3>. HIDE DEF U
    <3>. QED
      BY <3>1, <3>2
  <2>. QED
    BY <2>1, <2>2
<1>. QED
  BY <1>5, <1>6 DEF OnIsOnTheWay

(* A byte that PHP code has printed is lost only if its handler is in      *)
(* charge of it, a clean or a discard comes to its end, memory_limit       *)
(* refuses it, or the script dies of a fatal error: no close loses one of  *)
(* the script (CloseWithFlags), nor does the write of what an exception of *)
(* a handler leaves (flushData).                                           *)
THEOREM NothingElseIsLost == ASSUME HandlersDoNotClose PROVE Spec => LostOnlyOnPurpose
<1>1. ASSUME Inv, Sound, OnIsOnTheWay, OnIsOnTheWay', [Next]_vars PROVE LostOnPurpose
  <2>. DEFINE lost == OnTheWay \ OnTheWay'
  <2>1. \A x \in lost : Dies \/ (Spent(x) /\ x # 0)
    <3>. SUFFICES ASSUME NEW x, x \in OnTheWay, x \notin OnTheWay'
                  PROVE  Dies \/ (Spent(x) /\ x # 0)
      OBVIOUS
    <3>1. x # 0 /\ On(x, sink, buf, calls)
      BY <1>1 DEF OnIsOnTheWay
    <3>2. ~Stays(x)
      BY <1>1, <3>1 DEF OnIsOnTheWay, Stays
    <3>. QED
      BY <1>1, <3>1, <3>2, NextKeeps DEF Accounted
  <2>2. \A x, s : x \in ToSet(s) <=> Occurs(x, s)
    BY DEF ToSet, Occurs
  <2>3. ASSUME NEW x \in lost PROVE x \in Int
    <3>1. On(x, sink, buf, calls)
      BY <1>1, <2>3 DEF OnIsOnTheWay
    <3>2. \A s \in Seq(Bytes) : Occurs(x, s) => x \in Bytes
      BY ElementOfSeq, LenProperties DEF Occurs
    <3>3. /\ sink \in Seq(Bytes)
          /\ \A b \in 1 .. Len(buf) : buf[b].data \in Seq(Bytes)
          /\ \A i \in 1 .. Len(calls) : calls[i].d \in Seq(Bytes)
      BY <1>1, Types DEF Inv, TypeOK, Buffer, Frame, Buffers
    <3>4. x \in Bytes
      BY <3>1, <3>2, <3>3 DEF On
    <3>. QED
      BY <3>4, OutputAssumption DEF Bytes
  <2>4. \A x \in Int : x <= 0 /\ x # 0 => x < 0
    OBVIOUS
  <2>. HIDE DEF lost
  <2>5. CASE lost = {} \/ Dies
    BY <2>5 DEF LostOnPurpose, Dies, lost
  <2>6. CASE ~(lost = {} \/ Dies)
    <3>1. \A x \in lost : Spent(x) /\ x # 0 /\ x \in Int
      BY <2>1, <2>3, <2>6
    <3>2. PICK y \in lost : TRUE
      BY <2>6
    <3>3. calls # <<>>
      BY <3>1, <3>2 DEF Spent
    <3>4. CASE Cur.at \in {"php", "result"}
      <4>1. lost \subseteq ToSet(Cur.d)
        BY <2>2, <3>1, <3>4 DEF Spent
      <4>. QED
        BY <3>3, <3>4, <4>1 DEF LostOnPurpose, lost
    <3>5. CASE Cur.at = "pass"
      <4>1. Refused(buf[Cur.b].w, Cur.d)
        BY <3>1, <3>2, <3>5 DEF Spent
      <4>. QED
        BY <3>3, <3>5, <4>1 DEF LostOnPurpose
    <3>6. CASE Cur.at \notin {"php", "result", "pass"}
      <4>1. Cur.at = "end" /\ Cur.op \in Dropping \cup Closing
        BY <3>1, <3>2, <3>6 DEF Spent
      <4>2. lost \subseteq ToSet(buf[Cur.b].data)
        BY <2>2, <3>1, <3>6 DEF Spent
      <4>3. Cur.op = "close" => \A x \in lost : x < 0
        BY <2>4, <3>1, <3>6 DEF Spent
      <4>. QED
        BY <3>3, <4>1, <4>2, <4>3 DEF LostOnPurpose, lost
    <3>. QED
      BY <3>4, <3>5, <3>6
  <2>. QED
    BY <2>5, <2>6
<1>2. (Inv /\ Sound /\ OnIsOnTheWay) /\ OnIsOnTheWay' /\ [Next]_vars => [LostOnPurpose]_vars
  BY <1>1
<1>. QED
  BY <1>2, SoundHolds, OnTheWayFacts, PTL DEF Spec, LostOnlyOnPurpose
=============================================================================
