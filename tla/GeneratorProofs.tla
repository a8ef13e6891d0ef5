--------------------------- MODULE GeneratorProofs ---------------------------
(* Proofs about Generator, for any number of generators, any fuel and any  *)
(* program: bodies may hold, drive, close and delegate to each other in    *)
(* circles.                                                                *)
EXTENDS Generator, Iteration, SequenceTheorems, FiniteSetTheorems, TLAPS

(* The calls in progress of a goroutine.                                   *)
Frames(s) == {s[i] : i \in 1 .. Len(s)}

(* A delegation that a call is about has been made; only bodies delegate.  *)
FrameFits(f, x) ==
    /\ f.op \in {"deleg", "closedeleg"} => f.ch \in 1 .. gen[f.g].epoch
    /\ f.op = "deleg" => f.inner \in Gens
    /\ f.op = "yieldfrom" => x \in Gens

(* Only a goroutine in PHP code has called anything.                       *)
ThreadFits(x) ==
    /\ thr[x].at # "body" => thr[x].calls = <<>>
    /\ \A f \in Frames(thr[x].calls) : FrameFits(f, x)

Delegating(x) == \E f \in Frames(thr[x].calls) : f.op = "yieldfrom"

(* A message on doneCh comes from a body that has ended.  The delegateDone *)
(* of a delegation is empty until its body waits for it, and each          *)
(* delegation has cost the body one of the acts it had.                    *)
GenFits(g) ==
    /\ gen[g].fin # "none" => thr[g].at = "ended"
    /\ gen[g].delegate # None => gen[g].epoch > 0 /\ thr[g].at \in {"yielding", "delegating"}
    /\ thr[g].at = "delegating" => gen[g].delegate # None
    /\ thr[g].at = "yielding" /\ gen[g].delegate # None => gen[g].done[gen[g].epoch] = "none"
    /\ \A n \in Channels : n > gen[g].epoch => gen[g].done[n] = "none"
    /\ gen[g].epoch + thr[g].fuel <= Fuel[g]
    /\ Delegating(g) => gen[g].epoch + thr[g].fuel < Fuel[g]

(* x has control, or a message of x that hands it over is on its way.      *)
Away == {"wait", "closing", "signalled"}
Moving(x) ==
    \/ thr[x].at = "body" /\ (thr[x].calls # <<>> => Head(thr[x].calls).op \notin Away)
    \/ thr[x].at = "yielding"
    \/ x \in Gens /\ thr[x].at = "ended" /\ gen[x].fin # "none"
    \/ x \in Gens /\ thr[x].at = "delegating" /\ gen[x].done[gen[x].epoch] # "none"

OneMoves == \A x, y \in Threads : Moving(x) /\ Moving(y) => x = y

Typed == gen \in [Gens -> GeneratorState] /\ thr \in [Threads -> Thread]
ThreadsFit == \A x \in Threads : ThreadFits(x)
GensFit == \A g \in Gens : GenFits(g)

Inv == Typed /\ ThreadsFit /\ GensFit /\ OneMoves

-----------------------------------------------------------------------------
(* Stacks *)

LEMMA StackFacts ==
  ASSUME NEW s \in Seq(Frame), s # <<>>
  PROVE  /\ Head(s) \in Frame /\ Head(s) \in Frames(s)
         /\ Tail(s) \in Seq(Frame) /\ Frames(Tail(s)) \subseteq Frames(s)
<1>1. Len(s) \in Nat \ {0} /\ Head(s) = s[1] /\ \A i \in 1 .. Len(s) : s[i] \in Frame
  BY EmptySeq, LenProperties, ElementOfSeq, HeadTailProperties
<1>2. /\ Tail(s) \in Seq(Frame) /\ Len(Tail(s)) = Len(s) - 1
      /\ \A i \in 1 .. Len(Tail(s)) : Tail(s)[i] = s[i + 1]
  BY HeadTailProperties
<1>3. \A i \in 1 .. Len(Tail(s)) : i + 1 \in 1 .. Len(s)
  BY <1>1, <1>2
<1>4. Frames(Tail(s)) \subseteq Frames(s)
  BY <1>2, <1>3 DEF Frames
<1>5. 1 \in 1 .. Len(s)
  BY <1>1
<1>. QED
  BY <1>1, <1>2, <1>4, <1>5 DEF Frames

LEMMA PushFacts ==
  ASSUME NEW s \in Seq(Frame), NEW f \in Frame
  PROVE  /\ <<f>> \o s \in Seq(Frame) /\ <<f>> \o s # <<>> /\ Head(<<f>> \o s) = f
         /\ Frames(<<f>> \o s) = {f} \cup Frames(s)
<1>. DEFINE t == <<f>> \o s
<1>1. <<f>> \in Seq(Frame) /\ Len(<<f>>) = 1 /\ <<f>>[1] = f
  OBVIOUS
<1>2. /\ t \in Seq(Frame) /\ Len(t) = 1 + Len(s)
      /\ \A i \in 1 .. 1 + Len(s) : t[i] = IF i <= 1 THEN <<f>>[i] ELSE s[i - 1]
  BY <1>1, ConcatProperties
<1>3. Len(s) \in Nat
  BY LenProperties
<1>. HIDE DEF t
<1>4. t[1] = f /\ \A i \in 1 .. Len(s) : t[i + 1] = s[i]
  BY <1>1, <1>2, <1>3
<1>5. t # <<>> /\ Head(t) = f
  BY <1>2, <1>3, <1>4, EmptySeq, HeadTailProperties
<1>6. Frames(t) \subseteq {f} \cup Frames(s)
  <2>. SUFFICES ASSUME NEW i \in 1 .. Len(t) PROVE t[i] \in {f} \cup Frames(s)
    BY DEF Frames
  <2>1. CASE i = 1
    BY <1>4, <2>1
  <2>2. CASE i # 1
    <3>1. i - 1 \in 1 .. Len(s) /\ t[i] = s[i - 1]
      BY <1>2, <1>3, <2>2
    <3>. QED
      BY <3>1 DEF Frames
  <2>. QED
    BY <2>1, <2>2
<1>7. {f} \cup Frames(s) \subseteq Frames(t)
  <2>1. 1 \in 1 .. Len(t) /\ \A i \in 1 .. Len(s) : i + 1 \in 1 .. Len(t)
    BY <1>2, <1>3
  <2>2. f \in Frames(t)
    BY <1>4, <2>1 DEF Frames
  <2>3. \A i \in 1 .. Len(s) : s[i] \in Frames(t)
    BY <1>4, <2>1 DEF Frames
  <2>. QED
    BY <2>2, <2>3 DEF Frames
<1>. QED
  BY <1>2, <1>5, <1>6, <1>7 DEF t

LEMMA FramesFact == ASSUME NEW s \in Seq(Frame) PROVE Frames(s) \subseteq Frame
BY ElementOfSeq DEF Frames

LEMMA NoFrames == <<>> \in Seq(Frame) /\ Frames(<<>>) = {}
BY DEF Frames

-----------------------------------------------------------------------------
(* Steps *)

LEMMA Types ==
  ASSUME Inv
  PROVE  /\ \A x \in Threads : thr[x] \in Thread /\ thr[x].calls \in Seq(Frame)
         /\ \A g \in Gens : g \in Threads /\ gen[g] \in GeneratorState /\ gen[g].epoch \in Nat
         /\ None \notin Gens /\ Main \notin Gens /\ MostFuel \in Nat
BY ProgramAssumption, FuelAssumption DEF Inv, Typed, Threads, Thread, GeneratorState

(* A step moves control from x or z to at most one of them; of the others  *)
(* it changes nothing that anyone waits for.                               *)
Like(r, s) == r.fin = s.fin /\ r.delegate = s.delegate /\ r.epoch = s.epoch /\ r.done = s.done

LEMMA Step ==
  ASSUME Inv, NEW x \in Threads, NEW z \in Threads, Typed',
         \A y \in Threads \ {x, z} : thr'[y] = thr[y],
         \A h \in Gens \ {z} : Like(gen'[h], gen[h]),
         z \in Gens => gen[z].epoch <= gen'[z].epoch,
         ThreadFits(x)', ThreadFits(z)',
         x \in Gens => GenFits(x)', z \in Gens => GenFits(z)',
         Moving(x)' \/ Moving(z)' => Moving(x) \/ Moving(z),
         Moving(x)' /\ Moving(z)' => x = z
  PROVE  Inv'
<1>1. \A h \in Gens : gen[h].epoch \in Nat /\ gen'[h].epoch \in Nat
                      /\ gen[h].epoch <= gen'[h].epoch
  <2>1. \A h \in Gens : gen[h].epoch \in Nat /\ gen'[h].epoch \in Nat
    BY Types DEF Typed, GeneratorState
  <2>2. \A h \in Gens \ {z} : gen[h].epoch = gen'[h].epoch
    BY DEF Like
  <2>. QED
    BY <2>1, <2>2
<1>2. ThreadsFit'
  <2>. SUFFICES ASSUME NEW y \in Threads \ {x, z} PROVE ThreadFits(y)'
    BY DEF ThreadsFit
  <2>1. thr'[y] = thr[y] /\ ThreadFits(y)
    BY DEF Inv, ThreadsFit
  <2>2. ASSUME NEW f \in Frames(thr[y].calls) PROVE FrameFits(f, y)'
    <3>1. f \in Frame /\ FrameFits(f, y)
      BY <2>1, Types, ElementOfSeq DEF ThreadFits, Frames
    <3>2. f.g \in Gens /\ f.ch \in Nat
      BY <3>1, Types DEF Frame
    <3>. QED
      BY <1>1, <3>1, <3>2 DEF FrameFits
  <2>. QED
    BY <2>1, <2>2 DEF ThreadFits
<1>3. GensFit'
  <2>. SUFFICES ASSUME NEW y \in Gens \ {x, z} PROVE GenFits(y)'
    BY DEF GensFit
  <2>1. thr'[y] = thr[y] /\ GenFits(y) /\ Like(gen'[y], gen[y])
    BY DEF Inv, GensFit, Threads
  <2>2. Delegating(y)' <=> Delegating(y)
    BY <2>1 DEF Delegating
  <2>. QED
    BY <2>1, <2>2 DEF GenFits, Like
<1>4. \A y \in Threads \ {x, z} : Moving(y)' <=> Moving(y)
  <2>. SUFFICES ASSUME NEW y \in Threads \ {x, z} PROVE Moving(y)' <=> Moving(y)
    OBVIOUS
  <2>1. thr'[y] = thr[y] /\ (y \in Gens => Like(gen'[y], gen[y]))
    OBVIOUS
  <2>. QED
    BY <2>1 DEF Moving, Like
<1>5. OneMoves'
  <2>1. \A y, w \in Threads : Moving(y) /\ Moving(w) => y = w
    BY DEF Inv, OneMoves
  <2>. SUFFICES ASSUME NEW y \in Threads, NEW w \in Threads, Moving(y)', Moving(w)'
                PROVE  y = w
    BY DEF OneMoves
  <2>2. CASE y \in {x, z} /\ w \in {x, z}
    BY <2>2
  <2>3. CASE y \in {x, z} /\ w \notin {x, z}
    BY <1>4, <2>1, <2>3
  <2>4. CASE y \notin {x, z} /\ w \in {x, z}
    BY <1>4, <2>1, <2>4
  <2>5. CASE y \notin {x, z} /\ w \notin {x, z}
    BY <1>4, <2>1, <2>5
  <2>. QED
    BY <2>2, <2>3, <2>4, <2>5
<1>. QED
  BY <1>2, <1>3, <1>5 DEF Inv

(* A goroutine goes on in PHP code or in its calls, or yields; what the    *)
(* others wait for stays as it is.                                         *)
LEMMA MildStep ==
  ASSUME Inv, NEW x \in Threads,
         gen' \in [Gens -> GeneratorState], \A h \in Gens : Like(gen'[h], gen[h]),
         NEW th \in Thread, thr' = [thr EXCEPT ![x] = th],
         thr[x].at = "body", th.fuel <= thr[x].fuel,
         th.at = "body" \/ (th.at = "yielding" /\ th.calls = <<>>),
         \A f \in Frames(th.calls) : FrameFits(f, x),
         (\E f \in Frames(th.calls) : f.op = "yieldfrom")
           => Delegating(x) \/ th.fuel < thr[x].fuel,
         Moving(x) \/ (th.at = "body" /\ th.calls # <<>> /\ Head(th.calls).op \in Away)
  PROVE  Inv'
<1>1. /\ thr' \in [Threads -> Thread] /\ thr'[x] = th
      /\ \A y \in Threads \ {x} : thr'[y] = thr[y]
  BY DEF Inv, Typed
<1>2. \A h \in Gens : gen[h].epoch \in Nat /\ gen'[h].epoch = gen[h].epoch
  BY Types DEF Like
<1>3. ThreadFits(x)'
  <2>1. \A f \in Frames(th.calls) : FrameFits(f, x)'
    <3>1. \A f \in Frames(th.calls) : f.g \in Gens
      <4>1. th.calls \in Seq(Frame)
        BY DEF Thread
      <4>2. Frames(th.calls) \subseteq Frame
        BY <4>1, FramesFact
      <4>. QED
        BY <4>2 DEF Frame
    <3>. QED
      BY <1>2, <3>1 DEF FrameFits
  <2>. QED
    BY <1>1, <2>1 DEF ThreadFits
<1>4. ASSUME x \in Gens PROVE GenFits(x)'
  <2>1. GenFits(x) /\ Like(gen'[x], gen[x]) /\ gen[x].delegate = None
    BY <1>4 DEF Inv, GensFit, GenFits
  <2>2. /\ gen[x].epoch \in Nat /\ th.fuel \in Nat /\ thr[x].fuel \in Nat /\ Fuel[x] \in Nat
    BY <1>4, Types, ProgramAssumption DEF Thread
  <2>3. gen'[x].fin = "none"
    BY <2>1 DEF GenFits, Like
  <2>4. gen'[x].delegate = None /\ gen'[x].epoch = gen[x].epoch /\ gen'[x].done = gen[x].done
    BY <2>1 DEF Like
  <2>5. gen[x].epoch + th.fuel <= Fuel[x]
    BY <2>1, <2>2 DEF GenFits
  <2>6. (\E f \in Frames(th.calls) : f.op = "yieldfrom") => gen[x].epoch + th.fuel < Fuel[x]
    BY <2>1, <2>2 DEF GenFits
  <2>. QED
    BY <1>1, <2>1, <2>3, <2>4, <2>5, <2>6 DEF GenFits, Delegating
<1>5. Moving(x)' => Moving(x)
  BY <1>1 DEF Moving
<1>. QED
  BY <1>1, <1>2, <1>3, <1>4, <1>5, Step DEF Typed

LEMMA TopFacts ==
  ASSUME Inv, NEW x \in Threads, NEW ops, InCall(x, ops)
  PROVE  /\ thr[x].calls # <<>> /\ thr[x].at = "body"
         /\ Top(x) = Head(thr[x].calls) /\ Top(x) \in Frame /\ Top(x) \in Frames(thr[x].calls)
         /\ Top(x).op \in ops /\ Top(x).g \in Gens /\ FrameFits(Top(x), x)
         /\ Top(x).op \notin Away => Moving(x)
<1>1. thr[x].calls # <<>> /\ thr[x].calls \in Seq(Frame) /\ Top(x).op \in ops
  BY Types DEF InCall
<1>2. Top(x) = Head(thr[x].calls) /\ Top(x) \in Frame /\ Top(x) \in Frames(thr[x].calls)
  BY <1>1, StackFacts DEF Top
<1>3. thr[x].at = "body" /\ FrameFits(Top(x), x)
  BY <1>1, <1>2 DEF Inv, ThreadsFit, ThreadFits
<1>. QED
  BY <1>1, <1>2, <1>3 DEF Moving, Frame

LEMMA CallFacts ==
  ASSUME NEW op \in Entries \cup InProgress \cup {"yieldfrom"}, NEW g \in Gens
  PROVE  Call(op, g) \in Frame /\ Call(op, g).op = op /\ Call(op, g).g = g
BY FuelAssumption DEF Call, Frame, Msgs

LEMMA BecomingFacts ==
  ASSUME NEW th \in Thread, th.calls # <<>>, NEW f \in Frame
  PROVE  /\ Becoming(th, f) \in Thread
         /\ Becoming(th, f).at = th.at /\ Becoming(th, f).fuel = th.fuel
         /\ Becoming(th, f).calls # <<>> /\ Head(Becoming(th, f).calls) = f
         /\ Frames(Becoming(th, f).calls) \subseteq {f} \cup Frames(th.calls)
<1>4. th.calls \in Seq(Frame)
  BY DEF Thread
<1>5. PICK t \in Seq(Frame) : t = Tail(th.calls) /\ Frames(t) \subseteq Frames(th.calls)
  BY <1>4, StackFacts
<1>1. PICK s \in Seq(Frame) : s = <<f>> \o t
  BY PushFacts
<1>2. /\ s # <<>> /\ Head(s) = f /\ Frames(s) \subseteq {f} \cup Frames(th.calls)
  BY ZenonT(60), <1>1, <1>5, PushFacts
<1>3. Becoming(th, f) = [th EXCEPT !.calls = s]
  BY <1>1, <1>5 DEF Becoming
<1>. QED
  BY <1>2, <1>3 DEF Thread

LEMMA CallingFacts ==
  ASSUME NEW th \in Thread, NEW f \in Frame
  PROVE  /\ Calling(th, f) \in Thread
         /\ Calling(th, f).at = th.at /\ Calling(th, f).fuel = th.fuel
         /\ Calling(th, f).calls # <<>> /\ Head(Calling(th, f).calls) = f
         /\ Frames(Calling(th, f).calls) = {f} \cup Frames(th.calls)
<1>1. PICK s \in Seq(Frame) : s = <<f>> \o th.calls
  BY PushFacts DEF Thread
<1>2. s # <<>> /\ Head(s) = f /\ Frames(s) = {f} \cup Frames(th.calls)
  BY <1>1, PushFacts DEF Thread
<1>3. Calling(th, f) = [th EXCEPT !.calls = s]
  BY <1>1 DEF Calling
<1>. QED
  BY <1>2, <1>3 DEF Thread

LEMMA RaisedFacts ==
  ASSUME NEW x, NEW th \in Thread, NEW e \in Msgs
  PROVE  /\ Raised(x, th, e) \in Thread /\ Raised(x, th, e).at = th.at
         /\ Raised(x, th, e).calls = th.calls /\ Raised(x, th, e).fuel = th.fuel
BY DEF Raised, Thread

LEMMA ReturnedFacts ==
  ASSUME Inv, NEW x \in Threads, thr[x].calls # <<>>, NEW r \in Msgs
  PROVE  /\ Returned(x, r) \in Thread
         /\ Returned(x, r).at = thr[x].at /\ Returned(x, r).fuel = thr[x].fuel
         /\ Frames(Returned(x, r).calls) \subseteq Frames(thr[x].calls)
<1>. DEFINE rest == Tail(thr[x].calls)
            left == IF r # "ok" /\ rest # <<>> /\ Head(rest).op \notin {"deleg", "closedeleg"}
                    THEN Tail(rest) ELSE rest
            th1 == [thr[x] EXCEPT !.calls = left]
            th2 == [thr[x] EXCEPT !.calls = left,
                                  !.res = IF Head(left).op = "deleg" THEN r ELSE "ok"]
<1>1. thr[x] \in Thread /\ thr[x].calls \in Seq(Frame)
  BY Types
<1>2. rest \in Seq(Frame) /\ Frames(rest) \subseteq Frames(thr[x].calls)
  BY <1>1, StackFacts
<1>3. left \in Seq(Frame) /\ Frames(left) \subseteq Frames(thr[x].calls)
  BY <1>2, StackFacts
<1>4. Returned(x, r) = IF left = <<>> THEN Raised(x, th1, r) ELSE th2
  BY DEF Returned
<1>. HIDE DEF left
<1>5. /\ th1 \in Thread /\ th1.at = thr[x].at /\ th1.fuel = thr[x].fuel /\ th1.calls = left
      /\ th2 \in Thread /\ th2.at = thr[x].at /\ th2.fuel = thr[x].fuel /\ th2.calls = left
  BY <1>1, <1>3 DEF Thread, Msgs
<1>. HIDE DEF th1, th2
<1>. QED
  BY <1>3, <1>4, <1>5, RaisedFacts

-----------------------------------------------------------------------------
(* Steps that leave what the others wait for as it is *)

GenKept == gen' \in [Gens -> GeneratorState] /\ \A h \in Gens : Like(gen'[h], gen[h])

LEMMA GenSame == ASSUME Inv, UNCHANGED gen PROVE GenKept
BY DEF Inv, Typed, GenKept, Like

LEMMA GenSet ==
  ASSUME Inv, NEW g \in Gens, NEW r \in GeneratorState, Like(r, gen[g]),
         gen' = [gen EXCEPT ![g] = r]
  PROVE  GenKept
BY DEF Inv, Typed, GenKept, Like

LEMMA BecomeStep ==
  ASSUME Inv, NEW x \in Threads, NEW ops, InCall(x, ops), GenKept,
         NEW f \in Frame, f.op # "yieldfrom", FrameFits(f, x),
         Top(x).op \notin Away \/ f.op \in Away, Become(x, f)
  PROVE  Inv'
<1>1. /\ thr[x] \in Thread /\ thr[x].calls # <<>> /\ thr[x].at = "body"
      /\ Top(x).op \notin Away => Moving(x)
  BY Types, TopFacts
<1>2. PICK th \in Thread :
        /\ th = Becoming(thr[x], f) /\ th.at = "body" /\ th.fuel = thr[x].fuel
        /\ th.calls # <<>> /\ Head(th.calls) = f
        /\ Frames(th.calls) \subseteq {f} \cup Frames(thr[x].calls)
  BY ZenonT(60), <1>1, BecomingFacts
<1>3. thr' = [thr EXCEPT ![x] = th]
  BY <1>2 DEF Become
<1>4. \A e \in Frames(th.calls) : FrameFits(e, x)
  BY <1>2 DEF Inv, ThreadsFit, ThreadFits
<1>5. (\E e \in Frames(th.calls) : e.op = "yieldfrom") => Delegating(x)
  BY <1>2 DEF Delegating
<1>6. th.fuel <= thr[x].fuel
  BY <1>1, <1>2, Types DEF Thread
<1>. QED
  BY <1>1, <1>2, <1>3, <1>4, <1>5, <1>6, MildStep DEF GenKept

LEMMA ReturnStep ==
  ASSUME Inv, NEW x \in Threads, NEW ops, InCall(x, ops), GenKept,
         Top(x).op \notin Away, NEW r \in Msgs, Return(x, r)
  PROVE  Inv'
<1>1. thr[x] \in Thread /\ thr[x].calls # <<>> /\ thr[x].at = "body" /\ Moving(x)
  BY Types, TopFacts
<1>2. PICK th \in Thread :
        /\ th = Returned(x, r) /\ th.at = "body" /\ th.fuel = thr[x].fuel
        /\ Frames(th.calls) \subseteq Frames(thr[x].calls)
  BY <1>1, ReturnedFacts
<1>3. thr' = [thr EXCEPT ![x] = th]
  BY <1>2 DEF Return
<1>4. \A e \in Frames(th.calls) : FrameFits(e, x)
  BY <1>2 DEF Inv, ThreadsFit, ThreadFits
<1>5. (\E e \in Frames(th.calls) : e.op = "yieldfrom") => Delegating(x)
  BY <1>2 DEF Delegating
<1>6. th.fuel <= thr[x].fuel
  BY <1>1, <1>2, Types DEF Thread
<1>. QED
  BY <1>1, <1>2, <1>3, <1>4, <1>5, <1>6, MildStep DEF GenKept

LEMMA StartStep == ASSUME Inv, NEW x \in Threads, Start(x) PROVE Inv'
<1>. PICK g \in Gens : g = Top(x).g
  BY TopFacts DEF Start
<1>1. InCall(x, {"start"}) /\ Top(x).op \notin Away /\ gen[g] \in GeneratorState
  BY TopFacts, Types DEF Start, Away
<1>2. CASE Return(x, "ok") /\ UNCHANGED gen
  <2>1. "ok" \in Msgs
    BY DEF Msgs
  <2>. QED
    BY <1>1, <1>2, <2>1, GenSame, ReturnStep
<1>3. CASE /\ gen' = [gen EXCEPT ![g].started = TRUE, ![g].status = "Running"]
           /\ Become(x, Call("resume", g))
  <2>1. PICK r \in GeneratorState :
          r = [gen[g] EXCEPT !.started = TRUE, !.status = "Running"]
    BY <1>1 DEF GeneratorState
  <2>2. Like(r, gen[g]) /\ gen' = [gen EXCEPT ![g] = r]
    BY <1>1, <1>3, <2>1 DEF Like, GeneratorState, Inv, Typed
  <2>3. GenKept
    BY <2>2, GenSet
  <2>4. "resume" \in Entries \cup InProgress \cup {"yieldfrom"}
    BY DEF InProgress
  <2>5. PICK f \in Frame : f = Call("resume", g) /\ f.op = "resume"
    BY <2>4, CallFacts
  <2>. QED
    BY <1>1, <1>3, <2>3, <2>5, BecomeStep DEF FrameFits
<1>. QED
  BY <1>2, <1>3 DEF Start

LEMMA AdvanceRefusedStep == ASSUME Inv, NEW x \in Threads, AdvanceRefused(x) PROVE Inv'
<1>. PICK g \in Gens : g = Top(x).g
  BY TopFacts DEF AdvanceRefused
<1>1. /\ InCall(x, {"advance", "throw"}) /\ Top(x).op \notin Away /\ gen[g] \in GeneratorState
      /\ "ok" \in Msgs /\ "throw" \in Msgs
  BY TopFacts, Types DEF AdvanceRefused, Away, Msgs
<1>2. CASE gen' = [gen EXCEPT ![g].valid = FALSE] /\ Return(x, "ok")
  <2>1. PICK r \in GeneratorState : r = [gen[g] EXCEPT !.valid = FALSE]
    BY <1>1 DEF GeneratorState
  <2>2. Like(r, gen[g]) /\ gen' = [gen EXCEPT ![g] = r]
    BY <1>1, <1>2, <2>1 DEF Like, GeneratorState, Inv, Typed
  <2>. QED
    BY <1>1, <1>2, <2>2, GenSet, ReturnStep
<1>3. CASE UNCHANGED gen /\ Return(x, "throw")
  BY <1>1, <1>3, GenSame, ReturnStep
<1>. QED
  BY <1>2, <1>3 DEF AdvanceRefused

LEMMA WaitAfterDelegateDoneStep ==
  ASSUME Inv, NEW x \in Threads, WaitAfterDelegateDone(x) PROVE Inv'
<1>. PICK g \in Gens : g = Top(x).g
  BY TopFacts DEF WaitAfterDelegateDone
<1>1. InCall(x, {"signalled"}) /\ gen[g] \in GeneratorState
  BY Types DEF WaitAfterDelegateDone
<1>2. PICK r \in GeneratorState : r = [gen[g] EXCEPT !.status = "Running"]
  BY <1>1 DEF GeneratorState
<1>3. Like(r, gen[g]) /\ gen' = [gen EXCEPT ![g] = r]
  BY <1>1, <1>2 DEF WaitAfterDelegateDone, Like, GeneratorState, Inv, Typed
<1>4. "wait" \in Entries \cup InProgress \cup {"yieldfrom"}
  BY DEF InProgress
<1>5. PICK f \in Frame : f = Call("wait", g) /\ f.op = "wait"
  BY <1>4, CallFacts
<1>. QED
  BY <1>1, <1>3, <1>5, GenSet, BecomeStep DEF WaitAfterDelegateDone, FrameFits, Away

LEMMA CallStep ==
  ASSUME Inv, NEW x \in Threads, NEW ops, InCall(x, ops), GenKept, Top(x).op \notin Away,
         NEW f \in Frame, f.op # "yieldfrom", FrameFits(f, x),
         NEW e \in Frame, e.op # "yieldfrom", FrameFits(e, x),
         thr' = [thr EXCEPT ![x] = Calling(Becoming(thr[x], f), e)]
  PROVE  Inv'
<1>1. /\ thr[x] \in Thread /\ thr[x].calls # <<>> /\ thr[x].at = "body" /\ Moving(x)
  BY Types, TopFacts
<1>2. PICK mid \in Thread :
        /\ mid = Becoming(thr[x], f) /\ mid.at = "body" /\ mid.fuel = thr[x].fuel
        /\ Frames(mid.calls) \subseteq {f} \cup Frames(thr[x].calls)
  BY ZenonT(60), <1>1, BecomingFacts
<1>3. PICK th \in Thread :
        /\ th = Calling(mid, e) /\ th.at = "body" /\ th.fuel = thr[x].fuel
        /\ Frames(th.calls) = {e} \cup Frames(mid.calls)
  <2>1. Calling(mid, e) \in Thread
    BY CallingFacts
  <2>. QED
    BY <1>2, <2>1, CallingFacts
<1>4. thr' = [thr EXCEPT ![x] = th]
  BY <1>2, <1>3
<1>5. \A q \in Frames(th.calls) : FrameFits(q, x)
  BY <1>2, <1>3 DEF Inv, ThreadsFit, ThreadFits
<1>6. (\E q \in Frames(th.calls) : q.op = "yieldfrom") => Delegating(x)
  BY <1>2, <1>3 DEF Delegating
<1>7. th.fuel <= thr[x].fuel
  BY <1>1, <1>3, Types DEF Thread
<1>. QED
  BY <1>1, <1>3, <1>4, <1>5, <1>6, <1>7, MildStep DEF GenKept

(* A generator that delegates: what it delegates to, and the number of the *)
(* delegation.                                                             *)
LEMMA DelegateFacts ==
  ASSUME Inv, NEW g \in Gens
  PROVE  /\ gen[g] \in GeneratorState /\ gen[g].delegate \in Gens \cup {None}
         /\ gen[g].epoch \in 0 .. MostFuel
         /\ gen[g].delegate # None => gen[g].epoch \in 1 .. gen[g].epoch
BY Types DEF Inv, GensFit, GenFits, GeneratorState

LEMMA AdvanceStep == ASSUME Inv, NEW x \in Threads, Advance(x) PROVE Inv'
<1>. PICK f \in Frame : f = Top(x)
  BY TopFacts DEF Advance
<1>. PICK g \in Gens : g = f.g
  BY DEF Frame
<1>1. /\ InCall(x, {"advance", "throw"}) /\ Top(x).op \notin Away /\ gen[g] \in GeneratorState
      /\ f.op \in {"advance", "throw"} /\ "ok" \in Msgs /\ "throw" \in Msgs
  BY TopFacts, Types DEF Advance, Away, Msgs
<1>2. CASE /\ gen[g].delegate # None
           /\ gen' = [gen EXCEPT ![g].advanced = TRUE]
           /\ thr' = [thr EXCEPT ![x] =
                Calling(Becoming(@, [f EXCEPT !.op = "deleg", !.inner = gen[g].delegate,
                                              !.ch = gen[g].epoch]),
                        Call(f.op, gen[g].delegate))]
  <2>1. PICK r \in GeneratorState : r = [gen[g] EXCEPT !.advanced = TRUE]
    BY <1>1 DEF GeneratorState
  <2>2. Like(r, gen[g]) /\ gen' = [gen EXCEPT ![g] = r]
    BY <1>1, <1>2, <2>1 DEF Like, GeneratorState, Inv, Typed
  <2>3. PICK q \in Frame :
          /\ q = [f EXCEPT !.op = "deleg", !.inner = gen[g].delegate, !.ch = gen[g].epoch]
          /\ q.op = "deleg" /\ q.g = g /\ q.ch = gen[g].epoch /\ q.inner = gen[g].delegate
    <3>1. [f EXCEPT !.op = "deleg", !.inner = gen[g].delegate, !.ch = gen[g].epoch] \in Frame
      BY DelegateFacts DEF Frame, InProgress
    <3>. QED
      BY <3>1 DEF Frame
  <2>4. gen[g].delegate \in Gens
    BY <1>2, DelegateFacts
  <2>5. f.op \in Entries \cup InProgress \cup {"yieldfrom"}
    BY DEF Frame
  <2>6. PICK e \in Frame : e = Call(f.op, gen[g].delegate) /\ e.op = f.op
    BY <2>4, <2>5, CallFacts
  <2>7. FrameFits(q, x) /\ FrameFits(e, x)
    BY <1>1, <1>2, <2>3, <2>6, DelegateFacts DEF FrameFits
  <2>8. thr' = [thr EXCEPT ![x] = Calling(Becoming(thr[x], q), e)]
    BY <1>2, <2>3, <2>6 DEF Inv, Typed
  <2>. QED
    BY <1>1, <2>2, <2>3, <2>6, <2>7, <2>8, GenSet, CallStep
<1>3. CASE /\ gen[g].delegate = None
           /\ gen' = [gen EXCEPT ![g].advanced = TRUE, ![g].status = "Running"]
           /\ Become(x, [f EXCEPT !.op = "resume",
                                  !.msg = IF f.op = "throw" THEN "throw" ELSE "ok"])
  <2>1. PICK r \in GeneratorState :
          r = [gen[g] EXCEPT !.advanced = TRUE, !.status = "Running"]
    BY <1>1 DEF GeneratorState
  <2>2. Like(r, gen[g]) /\ gen' = [gen EXCEPT ![g] = r]
    BY <1>1, <1>3, <2>1 DEF Like, GeneratorState, Inv, Typed
  <2>3. PICK q \in Frame :
          /\ q = [f EXCEPT !.op = "resume",
                           !.msg = IF f.op = "throw" THEN "throw" ELSE "ok"]
          /\ q.op = "resume"
    <3>1. [f EXCEPT !.op = "resume", !.msg = IF f.op = "throw" THEN "throw" ELSE "ok"] \in Frame
      BY <1>1 DEF Frame, InProgress
    <3>. QED
      BY <3>1 DEF Frame
  <2>. QED
    BY <1>1, <1>3, <2>2, <2>3, GenSet, BecomeStep DEF FrameFits
<1>. QED
  BY <1>2, <1>3 DEF Advance

LEMMA ForceCloseStep == ASSUME Inv, NEW x \in Threads, ForceClose(x) PROVE Inv'
<1>. PICK f \in Frame : f = Top(x)
  BY TopFacts DEF ForceClose
<1>. PICK g \in Gens : g = f.g
  BY DEF Frame
<1>1. /\ InCall(x, {"close"}) /\ Top(x).op \notin Away /\ gen[g] \in GeneratorState
      /\ "ok" \in Msgs /\ "close" \in Msgs
  BY TopFacts, Types DEF ForceClose, Away, Msgs
<1>2. CASE Return(x, "ok") /\ UNCHANGED gen
  BY <1>1, <1>2, GenSame, ReturnStep
<1>. DEFINE after == [f EXCEPT !.op = "closedeleg", !.inner = gen[g].delegate,
                               !.ch = gen[g].epoch]
<1>3. CASE /\ gen' = [gen EXCEPT ![g].forceClosing = TRUE, ![g].status = "Running"]
           /\ thr' = [thr EXCEPT ![x] =
                IF gen[g].delegate = None
                THEN Becoming(@, [f EXCEPT !.op = "resumeclose", !.msg = "close"])
                ELSE IF Unreferenced(gen[g].delegate)
                THEN Calling(Becoming(@, after), Call("close", gen[g].delegate))
                ELSE Becoming(@, after)]
  <2>1. PICK r \in GeneratorState :
          r = [gen[g] EXCEPT !.forceClosing = TRUE, !.status = "Running"]
    BY <1>1 DEF GeneratorState
  <2>2. Like(r, gen[g]) /\ gen' = [gen EXCEPT ![g] = r]
    BY <1>1, <1>3, <2>1 DEF Like, GeneratorState, Inv, Typed
  <2>3. GenKept
    BY <2>2, GenSet
  <2>4. CASE gen[g].delegate = None
    <3>1. PICK q \in Frame :
            q = [f EXCEPT !.op = "resumeclose", !.msg = "close"] /\ q.op = "resumeclose"
      <4>1. [f EXCEPT !.op = "resumeclose", !.msg = "close"] \in Frame
        BY <1>1 DEF Frame, InProgress
      <4>. QED
        BY <4>1 DEF Frame
    <3>2. Become(x, q)
      BY <1>3, <2>4, <3>1 DEF Become, Inv, Typed
    <3>. QED
      BY <1>1, <2>3, <3>1, <3>2, BecomeStep DEF FrameFits
  <2>5. CASE gen[g].delegate # None
    <3>1. PICK q \in Frame :
            q = after /\ q.op = "closedeleg" /\ q.g = g /\ q.ch = gen[g].epoch
      <4>1. after \in Frame
        BY DelegateFacts DEF Frame, InProgress
      <4>. QED
        BY <4>1 DEF Frame
    <3>2. FrameFits(q, x)
      BY <2>5, <3>1, DelegateFacts DEF FrameFits
    <3>3. gen[g].delegate \in Gens /\ "close" \in Entries \cup InProgress \cup {"yieldfrom"}
      BY <2>5, DelegateFacts DEF Entries
    <3>4. PICK e \in Frame : e = Call("close", gen[g].delegate) /\ e.op = "close"
      BY <3>3, CallFacts
    <3>5. CASE thr' = [thr EXCEPT ![x] = Calling(Becoming(thr[x], q), e)]
      BY <1>1, <2>3, <3>1, <3>2, <3>4, <3>5, CallStep DEF FrameFits
    <3>6. CASE Become(x, q)
      BY <1>1, <2>3, <3>1, <3>2, <3>6, BecomeStep
    <3>7. \/ thr' = [thr EXCEPT ![x] = Calling(Becoming(thr[x], q), e)]
          \/ Become(x, q)
      BY <1>3, <2>5, <3>1, <3>4 DEF Become, Inv, Typed
    <3>. QED
      BY <3>5, <3>6, <3>7
  <2>. QED
    BY <2>4, <2>5
<1>. QED
  BY <1>2, <1>3 DEF ForceClose

-----------------------------------------------------------------------------
(* Steps that hand control over *)

LEMMA StillFits ==
  ASSUME Inv, NEW x \in Threads, NEW th \in Thread, thr'[x] = th, th.at = "body",
         \A f \in Frames(th.calls) : FrameFits(f, x),
         \A h \in Gens : gen'[h].epoch = gen[h].epoch
  PROVE  ThreadFits(x)'
<1>1. Frames(th.calls) \subseteq Frame
  BY FramesFact DEF Thread
<1>2. \A f \in Frames(th.calls) : FrameFits(f, x)'
  BY <1>1 DEF FrameFits, Frame
<1>. QED
  BY <1>2 DEF ThreadFits

LEMMA StillGenFits ==
  ASSUME Inv, NEW x \in Gens, thr[x].at = "body", NEW th \in Thread, thr'[x] = th,
         th.at = "body", th.fuel = thr[x].fuel,
         (\E f \in Frames(th.calls) : f.op = "yieldfrom") => Delegating(x),
         gen'[x].fin = gen[x].fin, gen'[x].delegate = gen[x].delegate,
         gen'[x].epoch = gen[x].epoch,
         \A n \in Channels : n > gen[x].epoch => gen'[x].done[n] = gen[x].done[n]
  PROVE  GenFits(x)'
<1>1. GenFits(x)
  BY DEF Inv, GensFit
<1>. QED
  BY <1>1 DEF GenFits, Delegating

(* The receiver of a message has left the call that waits for it.          *)
LEMMA SignalStep ==
  ASSUME Inv, NEW x \in Threads, InCall(x, {"deleg", "closedeleg"}),
         NEW f \in Frame, f = Top(x), NEW m \in Msgs,
         gen' = [gen EXCEPT ![f.g].done[f.ch] = m],
         NEW th \in Thread, thr' = [thr EXCEPT ![x] = th],
         th.at = "body", th.fuel = thr[x].fuel, th.calls # <<>>, Head(th.calls).op \in Away,
         \A e \in Frames(th.calls) : e \in Frames(thr[x].calls)
                                     \/ (e.op \notin {"deleg", "closedeleg", "yieldfrom"})
  PROVE  Inv'
<1>. PICK g \in Gens : g = f.g
  BY DEF Frame
<1>1. /\ thr[x].at = "body" /\ Moving(x) /\ f.ch \in 1 .. gen[g].epoch
  BY TopFacts DEF Away, FrameFits
<1>2. /\ gen[g] \in GeneratorState /\ gen[g].epoch \in 0 .. MostFuel /\ f.ch \in Channels
      /\ MostFuel \in Nat
  <2>1. gen[g] \in GeneratorState /\ MostFuel \in Nat
    BY Types
  <2>2. gen[g].epoch \in 0 .. MostFuel
    BY <2>1 DEF GeneratorState
  <2>. QED
    BY <1>1, <2>1, <2>2 DEF Channels
<1>3. PICK r \in GeneratorState :
        /\ r = [gen[g] EXCEPT !.done[f.ch] = m]
        /\ r.fin = gen[g].fin /\ r.delegate = gen[g].delegate /\ r.epoch = gen[g].epoch
        /\ \A n \in Channels : n # f.ch => r.done[n] = gen[g].done[n]
  <2>1. gen[g].done \in [Channels -> Msgs]
    BY <1>2 DEF GeneratorState
  <2>2. PICK d \in [Channels -> Msgs] :
          d = [gen[g].done EXCEPT ![f.ch] = m]
          /\ \A n \in Channels : n # f.ch => d[n] = gen[g].done[n]
    <3>1. [gen[g].done EXCEPT ![f.ch] = m] \in [Channels -> Msgs]
      BY <2>1
    <3>. QED
      BY <2>1, <3>1
  <2>3. [gen[g] EXCEPT !.done = d] \in GeneratorState
    BY <1>2 DEF GeneratorState
  <2>4. [gen[g] EXCEPT !.done[f.ch] = m] = [gen[g] EXCEPT !.done = d]
    BY <2>2
  <2>. QED
    BY <1>2, <2>2, <2>3, <2>4 DEF GeneratorState
<1>4. gen' = [gen EXCEPT ![g] = r]
  BY <1>3 DEF Inv, Typed
<1>5. /\ gen' \in [Gens -> GeneratorState] /\ gen'[g] = r
      /\ \A h \in Gens \ {g} : gen'[h] = gen[h]
  BY <1>4 DEF Inv, Typed
<1>6. /\ thr' \in [Threads -> Thread] /\ thr'[x] = th
      /\ \A y \in Threads \ {x} : thr'[y] = thr[y]
  BY DEF Inv, Typed
<1>7. \A h \in Gens : gen'[h].epoch = gen[h].epoch /\ gen[h].epoch \in Nat
  BY <1>3, <1>5, Types
<1>8. \A e \in Frames(th.calls) : FrameFits(e, x)
  BY DEF Inv, ThreadsFit, ThreadFits, FrameFits
<1>9. ThreadFits(x)'
  BY <1>6, <1>7, <1>8, StillFits
<1>10. (\E e \in Frames(th.calls) : e.op = "yieldfrom") => Delegating(x)
  BY DEF Delegating
<1>11. \A n \in Channels : n > gen[g].epoch => gen'[g].done[n] = gen[g].done[n]
  BY <1>1, <1>2, <1>3, <1>5 DEF Channels
<1>12. ASSUME x \in Gens PROVE GenFits(x)'
  <2>1. /\ gen'[x].fin = gen[x].fin /\ gen'[x].delegate = gen[x].delegate
        /\ gen'[x].epoch = gen[x].epoch
        /\ \A n \in Channels : n > gen[x].epoch => gen'[x].done[n] = gen[x].done[n]
    BY <1>3, <1>5, <1>11, <1>12
  <2>. QED
    BY <1>1, <1>6, <1>10, <1>12, <2>1, StillGenFits
<1>13. g \in Threads /\ (Moving(g) => g = x)
  BY <1>1, Types DEF Inv, OneMoves
<1>14. ASSUME g # x PROVE ThreadFits(g)' /\ GenFits(g)'
  <2>1. thr'[g] = thr[g] /\ ThreadFits(g) /\ GenFits(g) /\ thr[g].at # "yielding"
    BY <1>6, <1>13, <1>14 DEF Inv, ThreadsFit, GensFit, Moving
  <2>2. GenFits(g)'
    <3>1. /\ gen'[g].fin = gen[g].fin /\ gen'[g].delegate = gen[g].delegate
          /\ gen'[g].epoch = gen[g].epoch
          /\ \A n \in Channels : n > gen[g].epoch => gen'[g].done[n] = gen[g].done[n]
      BY <1>3, <1>5, <1>11
    <3>2. Delegating(g)' <=> Delegating(g)
      BY <2>1 DEF Delegating
    <3>. QED
      BY <2>1, <3>1, <3>2 DEF GenFits
  <2>3. ThreadFits(g)'
    <3>1. Frames(thr[g].calls) \subseteq Frame
      BY <1>13, Types, FramesFact
    <3>2. \A e \in Frames(thr[g].calls) : FrameFits(e, g)'
      BY <1>7, <2>1, <3>1 DEF ThreadFits, FrameFits, Frame
    <3>. QED
      BY <2>1, <3>2 DEF ThreadFits
  <2>. QED
    BY <2>2, <2>3
<1>15. ~ Moving(x)'
  BY <1>6 DEF Moving
<1>16. ThreadFits(g)' /\ GenFits(g)'
  BY <1>9, <1>12, <1>14
<1>17. \A h \in Gens \ {g} : Like(gen'[h], gen[h])
  BY <1>5 DEF Like
<1>18. Typed' /\ gen[g].epoch <= gen'[g].epoch
  BY <1>5, <1>6, <1>7 DEF Typed
<1>. QED
  BY <1>1, <1>6, <1>9, <1>12, <1>13, <1>15, <1>16, <1>17, <1>18, Step

LEMMA FollowDelegateStep == ASSUME Inv, NEW x \in Threads, FollowDelegate(x) PROVE Inv'
<1>. PICK f \in Frame : f = Top(x)
  BY TopFacts DEF FollowDelegate
<1>. PICK g \in Gens : g = f.g
  BY DEF Frame
<1>1. /\ InCall(x, {"deleg"}) /\ Top(x).op \notin Away /\ f.op = "deleg"
      /\ gen[g] \in GeneratorState /\ f.inner \in Gens
      /\ thr[x] \in Thread /\ thr[x].calls # <<>> /\ thr[x].at = "body"
  BY TopFacts, Types DEF FollowDelegate, Away, FrameFits
<1>2. CASE gen' = [gen EXCEPT ![g].status = "Suspended", ![g].valid = TRUE] /\ Return(x, "ok")
  <2>1. PICK r \in GeneratorState : r = [gen[g] EXCEPT !.status = "Suspended", !.valid = TRUE]
    BY <1>1 DEF GeneratorState
  <2>2. Like(r, gen[g]) /\ "ok" \in Msgs
    BY <1>1, <2>1 DEF Like, GeneratorState, Msgs
  <2>3. gen' = [gen EXCEPT ![g] = r]
    BY <1>1, <1>2, <2>1 DEF GeneratorState, Inv, Typed
  <2>. QED
    BY <1>1, <1>2, <2>2, <2>3, GenSet, ReturnStep
<1>3. CASE /\ gen' = [gen EXCEPT ![f.g].done[f.ch] = Outcome(x, f.inner)]
           /\ gen[f.g].done[f.ch] = "none"
           /\ Outcome(x, f.inner) # "none"
           /\ thr' = [thr EXCEPT ![x] = [Becoming(@, Call("signalled", g)) EXCEPT !.res = "ok"]]
  <2>1. "signalled" \in Entries \cup InProgress \cup {"yieldfrom"}
    BY DEF InProgress
  <2>2. PICK e \in Frame : e = Call("signalled", g) /\ e.op = "signalled"
    BY <2>1, CallFacts
  <2>3. PICK mid \in Thread :
          /\ mid = Becoming(thr[x], e) /\ mid.at = "body" /\ mid.fuel = thr[x].fuel
          /\ mid.calls # <<>> /\ Head(mid.calls) = e
          /\ Frames(mid.calls) \subseteq {e} \cup Frames(thr[x].calls)
    BY <1>1, BecomingFacts
  <2>4. PICK th \in Thread :
          /\ th = [mid EXCEPT !.res = "ok"] /\ th.at = "body" /\ th.fuel = thr[x].fuel
          /\ th.calls = mid.calls
    <3>1. [mid EXCEPT !.res = "ok"] \in Thread
      BY DEF Thread, Msgs
    <3>. QED
      BY <2>3, <3>1 DEF Thread
  <2>5. thr' = [thr EXCEPT ![x] = th]
    BY <1>3, <2>2, <2>3, <2>4 DEF Inv, Typed
  <2>6. Outcome(x, f.inner) \in Msgs
    <3>1. thr[x].res \in Msgs
      BY <1>1 DEF Thread
    <3>2. gen[f.inner].genErr \in Msgs
      BY <1>1, Types DEF GeneratorState
    <3>. QED
      BY <3>1, <3>2 DEF Outcome, Msgs
  <2>7. PICK m \in Msgs : m = Outcome(x, f.inner)
    BY <2>6
  <2>8. InCall(x, {"deleg", "closedeleg"})
    BY <1>1 DEF InCall
  <2>9. \A q \in Frames(th.calls) : q \in Frames(thr[x].calls)
                                     \/ (q.op \notin {"deleg", "closedeleg", "yieldfrom"})
    BY <2>2, <2>3, <2>4
  <2>10. th.calls # <<>> /\ Head(th.calls).op \in Away
    BY <2>2, <2>3, <2>4 DEF Away
  <2>11. gen' = [gen EXCEPT ![f.g].done[f.ch] = m]
    BY <1>3, <2>7
  <2>. QED
    BY <2>4, <2>5, <2>8, <2>9, <2>10, <2>11, SignalStep
<1>. QED
  BY <1>2, <1>3 DEF FollowDelegate

LEMMA CloseAfterDelegateStep ==
  ASSUME Inv, NEW x \in Threads, CloseAfterDelegate(x) PROVE Inv'
<1>. PICK f \in Frame : f = Top(x)
  BY TopFacts DEF CloseAfterDelegate
<1>. PICK g \in Gens : g = f.g
  BY DEF Frame
<1>1. /\ InCall(x, {"closedeleg"}) /\ thr[x] \in Thread /\ thr[x].calls # <<>>
      /\ thr[x].at = "body"
  BY TopFacts, Types DEF CloseAfterDelegate
<1>2. "closing" \in Entries \cup InProgress \cup {"yieldfrom"}
  BY DEF InProgress
<1>3. PICK e \in Frame : e = Call("closing", g) /\ e.op = "closing"
  BY <1>2, CallFacts
<1>4. PICK th \in Thread :
        /\ th = Becoming(thr[x], e) /\ th.at = "body" /\ th.fuel = thr[x].fuel
        /\ th.calls # <<>> /\ Head(th.calls) = e
        /\ Frames(th.calls) \subseteq {e} \cup Frames(thr[x].calls)
  BY <1>1, BecomingFacts
<1>5. thr' = [thr EXCEPT ![x] = th]
  BY <1>3, <1>4 DEF CloseAfterDelegate, Become, Inv, Typed
<1>6. InCall(x, {"deleg", "closedeleg"})
  BY <1>1 DEF InCall
<1>7. \A q \in Frames(th.calls) : q \in Frames(thr[x].calls)
                                   \/ (q.op \notin {"deleg", "closedeleg", "yieldfrom"})
  BY <1>3, <1>4
<1>8. Head(th.calls).op \in Away
  BY <1>3, <1>4 DEF Away
<1>9. PICK m \in Msgs : gen' = [gen EXCEPT ![f.g].done[f.ch] = m]
  BY DEF CloseAfterDelegate, Msgs
<1>. QED
  BY <1>4, <1>5, <1>6, <1>7, <1>8, <1>9, SignalStep

LEMMA YieldFromGeneratorStep ==
  ASSUME Inv, NEW x \in Threads, YieldFromGenerator(x) PROVE Inv'
<1>. PICK h \in Gens : h = Top(x).g
  BY TopFacts DEF YieldFromGenerator
<1>1. /\ InCall(x, {"yieldfrom"}) /\ Top(x).op \notin Away /\ Top(x).op = "yieldfrom"
      /\ x \in Gens /\ Moving(x) /\ thr[x].at = "body" /\ Top(x) \in Frames(thr[x].calls)
  BY TopFacts DEF YieldFromGenerator, Away, FrameFits
<1>2. CASE UNCHANGED gen /\ \E r \in {"throw", "ok"} : Return(x, r)
  <2>1. PICK r \in Msgs : Return(x, r)
    BY <1>2 DEF Msgs
  <2>. QED
    BY <1>1, <1>2, <2>1, GenSame, ReturnStep
<1>3. CASE /\ gen' = [gen EXCEPT ![x].delegate = h, ![x].epoch = gen[x].epoch + 1,
                                 ![x].valid = TRUE, ![x].status = "Suspended"]
           /\ thr' = [thr EXCEPT ![x].calls = <<>>, ![x].at = "yielding"]
  <2>1. /\ gen[x] \in GeneratorState /\ thr[x] \in Thread /\ GenFits(x)
        /\ gen[x].epoch \in Nat /\ thr[x].fuel \in Nat /\ Fuel[x] \in Nat /\ MostFuel \in Nat
        /\ Fuel[x] <= MostFuel
    <3>1. gen[x] \in GeneratorState /\ thr[x] \in Thread /\ gen[x].epoch \in Nat /\ MostFuel \in Nat
      BY <1>1, Types
    <3>2. GenFits(x) /\ Fuel[x] \in Nat /\ Fuel[x] <= MostFuel
      BY <1>1, ProgramAssumption, FuelAssumption DEF Inv, GensFit
    <3>3. thr[x].fuel \in Nat
      BY <3>1 DEF Thread
    <3>. QED
      BY <3>1, <3>2, <3>3
  <2>2. gen[x].epoch + thr[x].fuel < Fuel[x]
    BY <1>1, <2>1 DEF GenFits, Delegating
  <2>3. gen[x].epoch + 1 \in 1 .. MostFuel
    BY <2>1, <2>2
  <2>4. PICK r \in GeneratorState :
          /\ r = [gen[x] EXCEPT !.delegate = h, !.epoch = gen[x].epoch + 1,
                                !.valid = TRUE, !.status = "Suspended"]
          /\ r.delegate = h /\ r.epoch = gen[x].epoch + 1
          /\ r.fin = gen[x].fin /\ r.done = gen[x].done
    <3>1. PICK n \in 0 .. MostFuel : n = gen[x].epoch + 1
      BY <2>1, <2>3
    <3>2. [gen[x] EXCEPT !.delegate = h, !.epoch = n, !.valid = TRUE, !.status = "Suspended"]
            \in GeneratorState
      BY <2>1 DEF GeneratorState
    <3>. QED
      BY <2>1, <3>1, <3>2 DEF GeneratorState
  <2>5. PICK th \in Thread :
          /\ th = [thr[x] EXCEPT !.calls = <<>>, !.at = "yielding"]
          /\ th.calls = <<>> /\ th.at = "yielding" /\ th.fuel = thr[x].fuel
    <3>1. [thr[x] EXCEPT !.calls = <<>>, !.at = "yielding"] \in Thread
      BY <2>1, NoFrames DEF Thread, Places
    <3>. QED
      BY <2>1, <3>1 DEF Thread
  <2>6. /\ gen' \in [Gens -> GeneratorState] /\ gen'[x] = r
        /\ \A g \in Gens \ {x} : gen'[g] = gen[g]
    BY <1>1, <1>3, <2>4 DEF Inv, Typed
  <2>7. /\ thr' \in [Threads -> Thread] /\ thr'[x] = th
        /\ \A y \in Threads \ {x} : thr'[y] = thr[y]
    BY <1>3, <2>5 DEF Inv, Typed
  <2>8. ThreadFits(x)'
    BY <2>5, <2>7, NoFrames DEF ThreadFits
  <2>9. ~ Delegating(x)'
    BY <2>5, <2>7, NoFrames DEF Delegating
  <2>10. gen[x].done[gen[x].epoch + 1] = "none"
    BY <2>1, <2>3 DEF GenFits, Channels
  <2>11. \A n \in Channels : n > gen[x].epoch + 1 => gen[x].done[n] = "none"
    BY <2>1 DEF GenFits, Channels
  <2>12. gen'[x].fin = "none"
    BY <1>1, <2>1, <2>4, <2>6 DEF GenFits
  <2>13. GenFits(x)'
    BY <2>1, <2>2, <2>4, <2>5, <2>6, <2>7, <2>9, <2>10, <2>11, <2>12 DEF GenFits
  <2>14. /\ Typed' /\ gen[x].epoch <= gen'[x].epoch
         /\ \A g \in Gens \ {x} : Like(gen'[g], gen[g])
    BY <2>1, <2>4, <2>6, <2>7 DEF Typed, Like
  <2>. QED
    BY <1>1, <2>7, <2>8, <2>13, <2>14, Step
<1>. QED
  BY <1>2, <1>3 DEF YieldFromGenerator

LEMMA DelegationDoneStep ==
  ASSUME Inv, NEW x \in Threads, DelegationDone(x) PROVE Inv'
<1>1. /\ x \in Gens /\ thr[x].at = "delegating" /\ gen[x].done[gen[x].epoch] # "none"
      /\ gen[x] \in GeneratorState /\ thr[x] \in Thread /\ GenFits(x)
      /\ gen[x].epoch \in Nat /\ thr[x].calls = <<>>
  BY Types DEF DelegationDone, Inv, GensFit, ThreadsFit, ThreadFits
<1>2. gen[x].epoch \in Channels
  BY <1>1 DEF GenFits, Channels, GeneratorState
<1>3. Moving(x)
  BY <1>1 DEF Moving
<1>4. PICK m \in Msgs : m = gen[x].done[gen[x].epoch]
  BY <1>1, <1>2 DEF GeneratorState
<1>5. PICK r \in GeneratorState :
        /\ r = [gen[x] EXCEPT !.delegate = None, !.done[gen[x].epoch] = "none"]
        /\ r.fin = gen[x].fin /\ r.delegate = None /\ r.epoch = gen[x].epoch
        /\ \A n \in Channels : n # gen[x].epoch => r.done[n] = gen[x].done[n]
  <2>1. gen[x].done \in [Channels -> Msgs]
    BY <1>1 DEF GeneratorState
  <2>2. PICK d \in [Channels -> Msgs] :
          d = [gen[x].done EXCEPT ![gen[x].epoch] = "none"]
          /\ \A n \in Channels : n # gen[x].epoch => d[n] = gen[x].done[n]
    <3>1. [gen[x].done EXCEPT ![gen[x].epoch] = "none"] \in [Channels -> Msgs]
      BY <2>1 DEF Msgs
    <3>. QED
      BY <2>1, <3>1
  <2>3. [gen[x] EXCEPT !.delegate = None, !.done = d] \in GeneratorState
    BY <1>1 DEF GeneratorState
  <2>4. [gen[x] EXCEPT !.delegate = None, !.done[gen[x].epoch] = "none"]
          = [gen[x] EXCEPT !.delegate = None, !.done = d]
    BY <1>1, <2>2 DEF GeneratorState
  <2>. QED
    BY <1>1, <2>2, <2>3, <2>4 DEF GeneratorState
<1>6. PICK mid \in Thread :
        /\ mid = [thr[x] EXCEPT !.at = "body"] /\ mid.at = "body"
        /\ mid.calls = <<>> /\ mid.fuel = thr[x].fuel
  <2>1. [thr[x] EXCEPT !.at = "body"] \in Thread
    BY <1>1 DEF Thread, Places
  <2>. QED
    BY <1>1, <2>1 DEF Thread
<1>7. PICK th \in Thread :
        /\ th = Raised(x, mid, m) /\ th.at = "body" /\ th.calls = <<>> /\ th.fuel = thr[x].fuel
  <2>1. /\ Raised(x, mid, m) \in Thread /\ Raised(x, mid, m).at = mid.at
        /\ Raised(x, mid, m).calls = mid.calls /\ Raised(x, mid, m).fuel = mid.fuel
    BY RaisedFacts
  <2>. QED
    BY <1>6, <2>1
<1>8. gen' = [gen EXCEPT ![x] = r]
  BY ZenonT(60), <1>1, <1>5 DEF DelegationDone, Inv, Typed
<1>9. thr' = [thr EXCEPT ![x] = th]
  BY <1>4, <1>6, <1>7 DEF DelegationDone, Inv, Typed
<1>10. /\ gen' \in [Gens -> GeneratorState] /\ gen'[x] = r
       /\ \A g \in Gens \ {x} : gen'[g] = gen[g]
  BY <1>1, <1>8 DEF Inv, Typed
<1>11. /\ thr' \in [Threads -> Thread] /\ thr'[x] = th
       /\ \A y \in Threads \ {x} : thr'[y] = thr[y]
  BY <1>9 DEF Inv, Typed
<1>12. ThreadFits(x)' /\ ~ Delegating(x)'
  BY <1>7, <1>11, NoFrames DEF ThreadFits, Delegating
<1>13. gen'[x].fin = "none" /\ \A n \in Channels : n > gen'[x].epoch => gen'[x].done[n] = "none"
  BY <1>1, <1>5, <1>10 DEF GenFits, Channels
<1>14. GenFits(x)'
  BY <1>1, <1>5, <1>7, <1>10, <1>11, <1>12, <1>13 DEF GenFits
<1>15. /\ Typed' /\ gen[x].epoch <= gen'[x].epoch
       /\ \A g \in Gens \ {x} : Like(gen'[g], gen[g])
  BY <1>1, <1>5, <1>10, <1>11 DEF Typed, Like
<1>. QED
  BY <1>1, <1>3, <1>11, <1>12, <1>14, <1>15, Step

LEMMA ResumeStep == ASSUME Inv, NEW x \in Threads, Resume(x) PROVE Inv'
<1>. PICK f \in Frame : f = Top(x)
  BY TopFacts DEF Resume
<1>. PICK g \in Gens : g = f.g
  BY DEF Frame
<1>. PICK m \in Msgs : m = f.msg
  BY DEF Frame
<1>. DEFINE died == thr[g].at = "born" /\ m # "ok"
<1>1. /\ InCall(x, {"resume", "resumeclose"}) /\ thr[x].at = "body" /\ Moving(x)
      /\ thr[x] \in Thread /\ thr[x].calls # <<>>
  BY TopFacts, Types DEF Resume, Away
<1>2. /\ thr[g].at \in {"born", "parked"} /\ g \in Threads /\ gen[g] \in GeneratorState
      /\ thr[g] \in Thread /\ GenFits(g) /\ thr[g].calls = <<>>
  BY Types DEF Resume, Inv, GensFit, ThreadsFit, ThreadFits
<1>3. g # x /\ gen[g].delegate = None /\ gen[g].fin = "none"
  BY <1>1, <1>2 DEF GenFits
<1>4. PICK e \in Frame : /\ e = Call(IF f.op = "resume" THEN "wait" ELSE "closing", g)
                         /\ e.op \in {"wait", "closing"}
  <2>1. "wait" \in Entries \cup InProgress \cup {"yieldfrom"}
        /\ "closing" \in Entries \cup InProgress \cup {"yieldfrom"}
    BY DEF InProgress
  <2>2. CASE f.op = "resume"
    BY <2>1, <2>2, CallFacts
  <2>3. CASE f.op # "resume"
    BY <2>1, <2>3, CallFacts
  <2>. QED
    BY <2>2, <2>3
<1>5. PICK me \in Thread :
        /\ me = Becoming(thr[x], e) /\ me.at = "body" /\ me.fuel = thr[x].fuel
        /\ me.calls # <<>> /\ Head(me.calls) = e
        /\ Frames(me.calls) \subseteq {e} \cup Frames(thr[x].calls)
  BY <1>1, BecomingFacts
<1>6. PICK mid \in Thread :
        /\ mid = [thr[g] EXCEPT !.at = IF died THEN "ended" ELSE "body"]
        /\ mid.at = (IF died THEN "ended" ELSE "body")
        /\ mid.calls = <<>> /\ mid.fuel = thr[g].fuel
  <2>1. [thr[g] EXCEPT !.at = IF died THEN "ended" ELSE "body"] \in Thread
    BY <1>2 DEF Thread, Places
  <2>. QED
    BY <1>2, <2>1 DEF Thread
<1>7. PICK th \in Thread :
        /\ th = Raised(g, mid, m) /\ th.at = (IF died THEN "ended" ELSE "body")
        /\ th.calls = <<>> /\ th.fuel = thr[g].fuel
  <2>1. /\ Raised(g, mid, m) \in Thread /\ Raised(g, mid, m).at = mid.at
        /\ Raised(g, mid, m).calls = mid.calls /\ Raised(g, mid, m).fuel = mid.fuel
    BY RaisedFacts
  <2>. QED
    BY <1>6, <2>1
<1>8. PICK r \in GeneratorState :
        /\ gen' = [gen EXCEPT ![g] = r]
        /\ r.delegate = gen[g].delegate /\ r.epoch = gen[g].epoch /\ r.done = gen[g].done
        /\ r.fin # "none" => died
  <2>1. CASE died
    <3>1. gen' = [gen EXCEPT ![g].status = "Closed", ![g].genErr = m, ![g].fin = m]
      BY <2>1 DEF Resume
    <3>2. PICK r \in GeneratorState :
            r = [gen[g] EXCEPT !.status = "Closed", !.genErr = m, !.fin = m]
      BY ZenonT(60), <1>2 DEF GeneratorState
    <3>3. gen' = [gen EXCEPT ![g] = r]
      BY <3>1, <3>2 DEF Inv, Typed
    <3>. QED
      BY <1>2, <2>1, <3>2, <3>3 DEF GeneratorState
  <2>2. CASE ~ died
    <3>1. gen' = [gen EXCEPT ![g].status = "Running"]
      BY <2>2 DEF Resume
    <3>2. PICK r \in GeneratorState : r = [gen[g] EXCEPT !.status = "Running"]
      BY <1>2 DEF GeneratorState
    <3>3. gen' = [gen EXCEPT ![g] = r]
      BY <3>1, <3>2 DEF Inv, Typed
    <3>. QED
      BY <1>2, <1>3, <3>2, <3>3 DEF GeneratorState
  <2>. QED
    BY <2>1, <2>2
<1>9. thr' = [thr EXCEPT ![x] = me, ![g] = th]
  BY <1>4, <1>5, <1>6, <1>7 DEF Resume, With
<1>. HIDE DEF died
<1>10. /\ gen' \in [Gens -> GeneratorState] /\ gen'[g] = r
       /\ \A h \in Gens \ {g} : gen'[h] = gen[h]
  BY <1>8 DEF Inv, Typed
<1>11. /\ thr' \in [Threads -> Thread] /\ thr'[x] = me /\ thr'[g] = th
       /\ \A y \in Threads \ {x, g} : thr'[y] = thr[y]
  BY <1>2, <1>3, <1>9 DEF Inv, Typed
<1>12. \A h \in Gens : gen'[h].epoch = gen[h].epoch /\ gen[h].epoch \in Nat
  BY <1>8, <1>10, Types
<1>13. \A q \in Frames(me.calls) : FrameFits(q, x)
  BY <1>4, <1>5 DEF Inv, ThreadsFit, ThreadFits, FrameFits
<1>14. ThreadFits(x)' /\ ~ Moving(x)'
  <2>1. ~ Moving(x)'
    BY <1>4, <1>5, <1>11 DEF Moving, Away
  <2>. QED
    BY <1>5, <1>11, <1>12, <1>13, <2>1, StillFits
<1>15. ASSUME x \in Gens PROVE GenFits(x)'
  <2>1. gen'[x] = gen[x]
    BY <1>3, <1>10, <1>15
  <2>2. (\E q \in Frames(me.calls) : q.op = "yieldfrom") => Delegating(x)
    BY <1>4, <1>5 DEF Delegating
  <2>. QED
    BY <1>1, <1>5, <1>11, <1>15, <2>1, <2>2, StillGenFits
<1>16. ThreadFits(g)' /\ ~ Delegating(g)'
  BY <1>7, <1>11, NoFrames DEF ThreadFits, Delegating
<1>17. GenFits(g)'
  BY <1>2, <1>3, <1>7, <1>8, <1>10, <1>11, <1>16 DEF GenFits
<1>18. /\ Typed' /\ gen[g].epoch <= gen'[g].epoch
       /\ \A h \in Gens \ {g} : Like(gen'[h], gen[h])
  BY <1>10, <1>11, <1>12 DEF Typed, Like
<1>. QED
  BY <1>1, <1>2, <1>11, <1>14, <1>15, <1>16, <1>17, <1>18, Step

LEMMA ReceiveDoneStep == ASSUME Inv, NEW x \in Threads, ReceiveDone(x) PROVE Inv'
<1>. PICK g \in Gens : g = Top(x).g
  BY TopFacts DEF ReceiveDone
<1>1. /\ thr[x].at = "body" /\ thr[x] \in Thread /\ thr[x].calls # <<>>
  BY TopFacts, Types DEF ReceiveDone
<1>2. /\ gen[g] \in GeneratorState /\ GenFits(g) /\ gen[g].fin # "none" /\ g \in Threads
      /\ ThreadFits(g)
  BY Types DEF ReceiveDone, Inv, GensFit, ThreadsFit
<1>3. thr[g].at = "ended" /\ g # x /\ Moving(g)
  BY <1>1, <1>2 DEF GenFits, Moving
<1>4. PICK m \in Msgs : Return(x, m)
  BY <1>2 DEF ReceiveDone, GeneratorState, Msgs
<1>5. PICK th \in Thread :
        /\ th = Returned(x, m) /\ th.at = "body" /\ th.fuel = thr[x].fuel
        /\ Frames(th.calls) \subseteq Frames(thr[x].calls)
  BY <1>1, ReturnedFacts
<1>6. thr' = [thr EXCEPT ![x] = th]
  BY <1>4, <1>5 DEF Return
<1>7. PICK r \in GeneratorState :
        /\ r = [gen[g] EXCEPT !.fin = "none", !.valid = FALSE, !.status = "Closed"]
        /\ r.fin = "none" /\ r.delegate = gen[g].delegate /\ r.epoch = gen[g].epoch
        /\ r.done = gen[g].done
  <2>1. [gen[g] EXCEPT !.fin = "none", !.valid = FALSE, !.status = "Closed"] \in GeneratorState
    BY ZenonT(60), <1>2 DEF GeneratorState, Msgs
  <2>. QED
    BY <1>2, <2>1 DEF GeneratorState
<1>8. gen' = [gen EXCEPT ![g] = r]
  BY <1>7 DEF ReceiveDone, Inv, Typed
<1>9. /\ gen' \in [Gens -> GeneratorState] /\ gen'[g] = r
      /\ \A h \in Gens \ {g} : gen'[h] = gen[h]
  BY <1>8 DEF Inv, Typed
<1>10. /\ thr' \in [Threads -> Thread] /\ thr'[x] = th /\ thr'[g] = thr[g]
       /\ \A y \in Threads \ {x, g} : thr'[y] = thr[y]
  BY <1>2, <1>3, <1>6 DEF Inv, Typed
<1>11. \A h \in Gens : gen'[h].epoch = gen[h].epoch /\ gen[h].epoch \in Nat
  BY <1>7, <1>9, Types
<1>12. \A q \in Frames(th.calls) : FrameFits(q, x)
  BY <1>5 DEF Inv, ThreadsFit, ThreadFits
<1>13. ThreadFits(x)'
  BY <1>5, <1>10, <1>11, <1>12, StillFits
<1>14. ASSUME x \in Gens PROVE GenFits(x)'
  <2>1. gen'[x] = gen[x]
    BY <1>3, <1>9, <1>14
  <2>2. (\E q \in Frames(th.calls) : q.op = "yieldfrom") => Delegating(x)
    BY <1>5 DEF Delegating
  <2>. QED
    BY <1>1, <1>5, <1>10, <1>14, <2>1, <2>2, StillGenFits
<1>15. thr[g].calls = <<>>
  BY <1>2, <1>3 DEF ThreadFits
<1>16. ThreadFits(g)' /\ GenFits(g)' /\ ~ Moving(g)'
  <2>1. ThreadFits(g)' /\ ~ Delegating(g)' /\ ~ Delegating(g)
    BY <1>10, <1>15, NoFrames DEF ThreadFits, Delegating
  <2>2. GenFits(g)'
    BY <1>2, <1>7, <1>9, <1>10, <2>1 DEF GenFits
  <2>3. ~ Moving(g)'
    BY <1>3, <1>7, <1>9, <1>10 DEF Moving
  <2>. QED
    BY <2>1, <2>2, <2>3
<1>17. /\ Typed' /\ gen[g].epoch <= gen'[g].epoch
       /\ \A h \in Gens \ {g} : Like(gen'[h], gen[h])
  BY <1>9, <1>10, <1>11 DEF Typed, Like
<1>. QED
  BY <1>2, <1>3, <1>10, <1>13, <1>14, <1>16, <1>17, Step

LEMMA ReceiveYieldStep == ASSUME Inv, NEW x \in Threads, ReceiveYield(x) PROVE Inv'
<1>. PICK f \in Frame : f = Top(x)
  BY TopFacts DEF ReceiveYield
<1>. PICK g \in Gens : g = f.g
  BY DEF Frame
<1>1. /\ thr[x].at = "body" /\ thr[x] \in Thread /\ thr[x].calls # <<>> /\ "ok" \in Msgs
      /\ f.op \in {"wait", "closing"}
  BY TopFacts, Types DEF ReceiveYield, Msgs
<1>2. /\ gen[g] \in GeneratorState /\ GenFits(g) /\ thr[g].at = "yielding" /\ g \in Threads
      /\ thr[g] \in Thread /\ thr[g].calls = <<>>
  BY Types DEF ReceiveYield, Inv, GensFit, ThreadsFit, ThreadFits
<1>3. g # x /\ Moving(g)
  BY <1>1, <1>2 DEF Moving
<1>4. PICK me \in Thread :
        /\ me = Returned(x, "ok") /\ me.at = "body" /\ me.fuel = thr[x].fuel
        /\ Frames(me.calls) \subseteq Frames(thr[x].calls)
  BY <1>1, ReturnedFacts
<1>5. PICK th \in Thread :
        /\ th = [thr[g] EXCEPT !.at = IF gen[g].delegate = None THEN "parked" ELSE "delegating"]
        /\ th.at = (IF gen[g].delegate = None THEN "parked" ELSE "delegating")
        /\ th.calls = <<>> /\ th.fuel = thr[g].fuel
  <2>1. [thr[g] EXCEPT !.at = IF gen[g].delegate = None THEN "parked" ELSE "delegating"]
          \in Thread
    BY <1>2 DEF Thread, Places
  <2>. QED
    BY <1>2, <2>1 DEF Thread
<1>6. thr' = [thr EXCEPT ![x] = me, ![g] = th]
  BY <1>4, <1>5 DEF ReceiveYield, With
<1>7. PICK r \in GeneratorState :
        /\ r = [gen[g] EXCEPT !.valid = (f.op = "wait"),
                              !.status = IF f.op = "wait" THEN "Suspended" ELSE "Closed"]
        /\ r.fin = gen[g].fin /\ r.delegate = gen[g].delegate /\ r.epoch = gen[g].epoch
        /\ r.done = gen[g].done
  <2>1. [gen[g] EXCEPT !.valid = (f.op = "wait"),
                       !.status = IF f.op = "wait" THEN "Suspended" ELSE "Closed"]
          \in GeneratorState
    BY ZenonT(60), <1>2 DEF GeneratorState
  <2>. QED
    BY <1>2, <2>1 DEF GeneratorState
<1>8. gen' = [gen EXCEPT ![g] = r]
  BY <1>7 DEF ReceiveYield, Inv, Typed
<1>9. /\ gen' \in [Gens -> GeneratorState] /\ gen'[g] = r
      /\ \A h \in Gens \ {g} : gen'[h] = gen[h]
  BY <1>8 DEF Inv, Typed
<1>10. /\ thr' \in [Threads -> Thread] /\ thr'[x] = me /\ thr'[g] = th
       /\ \A y \in Threads \ {x, g} : thr'[y] = thr[y]
  BY <1>2, <1>3, <1>6 DEF Inv, Typed
<1>11. \A h \in Gens : gen'[h].epoch = gen[h].epoch /\ gen[h].epoch \in Nat
  BY <1>7, <1>9, Types
<1>12. \A q \in Frames(me.calls) : FrameFits(q, x)
  BY <1>4 DEF Inv, ThreadsFit, ThreadFits
<1>13. ThreadFits(x)'
  BY <1>4, <1>10, <1>11, <1>12, StillFits
<1>14. ASSUME x \in Gens PROVE GenFits(x)'
  <2>1. gen'[x] = gen[x]
    BY <1>3, <1>9, <1>14
  <2>2. (\E q \in Frames(me.calls) : q.op = "yieldfrom") => Delegating(x)
    BY <1>4 DEF Delegating
  <2>. QED
    BY <1>1, <1>4, <1>10, <1>14, <2>1, <2>2, StillGenFits
<1>15. gen[g].fin = "none"
  BY <1>2 DEF GenFits
<1>16. ThreadFits(g)' /\ GenFits(g)' /\ ~ Moving(g)'
  <2>1. ThreadFits(g)' /\ ~ Delegating(g)'
    BY <1>5, <1>10, NoFrames DEF ThreadFits, Delegating
  <2>2. GenFits(g)'
    BY <1>2, <1>5, <1>7, <1>9, <1>10, <1>15, <2>1 DEF GenFits
  <2>3. ~ Moving(g)'
    BY <1>2, <1>5, <1>7, <1>9, <1>10 DEF Moving, GenFits
  <2>. QED
    BY <2>1, <2>2, <2>3
<1>17. /\ Typed' /\ gen[g].epoch <= gen'[g].epoch
       /\ \A h \in Gens \ {g} : Like(gen'[h], gen[h])
  BY <1>9, <1>10, <1>11 DEF Typed, Like
<1>. QED
  BY <1>2, <1>3, <1>10, <1>13, <1>14, <1>16, <1>17, Step

LEMMA EndStep == ASSUME Inv, NEW x \in Threads, End(x) PROVE Inv'
<1>1. /\ x \in Gens /\ thr[x].at = "body" /\ thr[x].calls = <<>> /\ Moving(x)
      /\ thr[x] \in Thread /\ gen[x] \in GeneratorState /\ GenFits(x)
  BY Types DEF End, InPHP, Inv, GensFit, Moving
<1>2. PICK e \in Msgs :
        gen' = [gen EXCEPT ![x].status = "Closed", ![x].valid = FALSE, ![x].genErr = e,
                           ![x].fin = IF e = "none" THEN "ok" ELSE e]
  <2>1. thr[x].err \in Msgs
    BY <1>1 DEF Thread
  <2>. QED
    BY <2>1 DEF End, Msgs
<1>3. PICK r \in GeneratorState :
        /\ r = [gen[x] EXCEPT !.status = "Closed", !.valid = FALSE, !.genErr = e,
                              !.fin = IF e = "none" THEN "ok" ELSE e]
        /\ r.delegate = gen[x].delegate /\ r.epoch = gen[x].epoch /\ r.done = gen[x].done
  <2>1. [gen[x] EXCEPT !.status = "Closed", !.valid = FALSE, !.genErr = e,
                       !.fin = IF e = "none" THEN "ok" ELSE e] \in GeneratorState
    BY <1>1 DEF GeneratorState, Msgs
  <2>. QED
    BY <1>1, <2>1 DEF GeneratorState
<1>4. PICK th \in Thread :
        /\ th = [thr[x] EXCEPT !.at = "ended", !.err = "none"]
        /\ th.at = "ended" /\ th.calls = <<>> /\ th.fuel = thr[x].fuel
  <2>1. [thr[x] EXCEPT !.at = "ended", !.err = "none"] \in Thread
    BY <1>1 DEF Thread, Places, Msgs
  <2>. QED
    BY <1>1, <2>1 DEF Thread
<1>5. /\ gen' \in [Gens -> GeneratorState] /\ gen'[x] = r
      /\ \A h \in Gens \ {x} : gen'[h] = gen[h]
  BY <1>1, <1>2, <1>3 DEF Inv, Typed
<1>6. /\ thr' \in [Threads -> Thread] /\ thr'[x] = th
      /\ \A y \in Threads \ {x} : thr'[y] = thr[y]
  BY <1>4 DEF End, Inv, Typed
<1>7. ThreadFits(x)' /\ ~ Delegating(x)'
  BY <1>4, <1>6, NoFrames DEF ThreadFits, Delegating
<1>8. GenFits(x)'
  BY <1>1, <1>3, <1>4, <1>5, <1>6, <1>7 DEF GenFits
<1>9. /\ Typed' /\ gen[x].epoch <= gen'[x].epoch
      /\ \A h \in Gens \ {x} : Like(gen'[h], gen[h])
  <2>1. gen[x].epoch \in Nat
    BY <1>1, Types
  <2>. QED
    BY <1>3, <1>5, <1>6, <2>1 DEF Typed, Like
<1>. QED
  BY <1>1, <1>6, <1>7, <1>8, <1>9, Step

-----------------------------------------------------------------------------
(* Acts of PHP code *)

LEMMA BurntFacts ==
  ASSUME Inv, NEW x \in Threads, MayAct(x)
  PROVE  /\ Burnt(x) \in Thread /\ Burnt(x).at = "body" /\ Burnt(x).calls = <<>>
         /\ thr[x].at = "body" /\ Moving(x)
         /\ Burnt(x).fuel <= thr[x].fuel /\ (x \in Gens => Burnt(x).fuel < thr[x].fuel)
<1>1. thr[x] \in Thread /\ thr[x].at = "body" /\ thr[x].calls = <<>> /\ MostFuel \in Nat
  BY Types DEF MayAct, InPHP
<1>2. Moving(x)
  BY <1>1 DEF Moving
<1>3. thr[x].fuel \in 0 .. MostFuel
  BY <1>1 DEF Thread
<1>4. CASE x = Main
  BY <1>1, <1>2, <1>3, <1>4, ProgramAssumption DEF Burnt
<1>5. CASE x # Main
  <2>1. PICK n \in 0 .. MostFuel : n = thr[x].fuel - 1
    BY <1>1, <1>3, <1>5 DEF MayAct
  <2>2. PICK th \in Thread :
          /\ th = [thr[x] EXCEPT !.fuel = n]
          /\ th.at = "body" /\ th.calls = <<>> /\ th.fuel = n
    <3>1. [thr[x] EXCEPT !.fuel = n] \in Thread
      BY <1>1 DEF Thread
    <3>. QED
      BY <1>1, <3>1 DEF Thread
  <2>3. Burnt(x) = th
    BY <1>5, <2>1, <2>2 DEF Burnt
  <2>. QED
    BY <1>1, <1>2, <1>3, <2>1, <2>2, <2>3
<1>. QED
  BY <1>4, <1>5

LEMMA CallsStep ==
  ASSUME Inv, NEW x \in Threads, MayAct(x), NEW fs \in Seq(Frame),
         \A f \in Frames(fs) : FrameFits(f, x), Calls(x, fs)
  PROVE  Inv'
<1>1. PICK b \in Thread :
        /\ b = Burnt(x) /\ b.at = "body" /\ b.fuel <= thr[x].fuel
        /\ x \in Gens => b.fuel < thr[x].fuel
  BY BurntFacts
<1>2. PICK th \in Thread :
        /\ th = [b EXCEPT !.calls = fs] /\ th.at = "body" /\ th.calls = fs /\ th.fuel = b.fuel
  <2>1. [b EXCEPT !.calls = fs] \in Thread
    BY DEF Thread
  <2>. QED
    BY <1>1, <2>1 DEF Thread
<1>3. thr' = [thr EXCEPT ![x] = th] /\ UNCHANGED gen
  BY <1>1, <1>2 DEF Calls
<1>4. (\E f \in Frames(th.calls) : f.op = "yieldfrom") => th.fuel < thr[x].fuel
  BY <1>1, <1>2 DEF FrameFits
<1>. QED
  BY <1>1, <1>2, <1>3, <1>4, BurntFacts, GenSame, MildStep DEF GenKept

LEMMA OneCall ==
  ASSUME NEW a \in Frame PROVE <<a>> \in Seq(Frame) /\ Frames(<<a>>) = {a}
BY DEF Frames

LEMMA TwoCalls ==
  ASSUME NEW a \in Frame, NEW b \in Frame
  PROVE  <<a, b>> \in Seq(Frame) /\ Frames(<<a, b>>) = {a, b}
<1>1. <<a, b>> \in Seq(Frame) /\ Len(<<a, b>>) = 2 /\ <<a, b>>[1] = a /\ <<a, b>>[2] = b
  OBVIOUS
<1>2. 1 .. 2 = {1, 2}
  OBVIOUS
<1>. QED
  BY <1>1, <1>2 DEF Frames

LEMMA TwoCallsStep ==
  ASSUME Inv, NEW x \in Threads, MayAct(x), NEW a \in Frame, NEW b \in Frame,
         FrameFits(a, x), FrameFits(b, x), Calls(x, <<a, b>>)
  PROVE  Inv'
<1>1. PICK fs \in Seq(Frame) : fs = <<a, b>> /\ Frames(fs) = {a, b}
  BY TwoCalls
<1>2. Calls(x, fs) /\ \A f \in Frames(fs) : FrameFits(f, x)
  BY <1>1
<1>. QED
  BY <1>2, CallsStep

LEMMA FailsStep == ASSUME Inv, NEW x \in Threads, MayAct(x), Fails(x) PROVE Inv'
<1>1. PICK b \in Thread :
        /\ b = Burnt(x) /\ b.at = "body" /\ b.fuel <= thr[x].fuel /\ b.calls = <<>>
  BY BurntFacts
<1>2. "throw" \in Msgs
  BY DEF Msgs
<1>3. PICK th \in Thread :
        /\ th = Raised(x, b, "throw") /\ th.at = "body" /\ th.calls = <<>> /\ th.fuel = b.fuel
  <2>1. /\ Raised(x, b, "throw") \in Thread /\ Raised(x, b, "throw").at = b.at
        /\ Raised(x, b, "throw").calls = b.calls /\ Raised(x, b, "throw").fuel = b.fuel
    BY <1>2, RaisedFacts
  <2>. QED
    BY <1>1, <2>1
<1>4. thr' = [thr EXCEPT ![x] = th] /\ UNCHANGED gen
  BY <1>1, <1>3 DEF Fails
<1>5. Frames(th.calls) = {} /\ th.fuel <= thr[x].fuel
  BY <1>1, <1>3, NoFrames
<1>. QED
  BY <1>1, <1>3, <1>4, <1>5, BurntFacts, GenSame, MildStep DEF GenKept

LEMMA YieldStep == ASSUME Inv, NEW x \in Threads, Yield(x) PROVE Inv'
<1>1. CASE Fails(x)
  BY <1>1, FailsStep DEF Yield
<1>2. CASE /\ gen' = [gen EXCEPT ![x].status = "Suspended", ![x].valid = TRUE]
           /\ thr' = [thr EXCEPT ![x] = [Burnt(x) EXCEPT !.at = "yielding"]]
  <2>1. PICK b \in Thread :
          /\ b = Burnt(x) /\ b.at = "body" /\ b.fuel <= thr[x].fuel /\ b.calls = <<>>
    BY BurntFacts DEF Yield
  <2>2. PICK th \in Thread :
          /\ th = [b EXCEPT !.at = "yielding"] /\ th.at = "yielding"
          /\ th.calls = <<>> /\ th.fuel = b.fuel
    <3>1. [b EXCEPT !.at = "yielding"] \in Thread
      BY DEF Thread, Places
    <3>. QED
      BY <2>1, <3>1 DEF Thread
  <2>3. thr' = [thr EXCEPT ![x] = th]
    BY <1>2, <2>1, <2>2
  <2>4. x \in Gens /\ gen[x] \in GeneratorState
    BY Types DEF Yield
  <2>5. PICK r \in GeneratorState : r = [gen[x] EXCEPT !.status = "Suspended", !.valid = TRUE]
    BY <2>4 DEF GeneratorState
  <2>6. Like(r, gen[x]) /\ gen' = [gen EXCEPT ![x] = r]
    BY <1>2, <2>4, <2>5 DEF Like, GeneratorState, Inv, Typed
  <2>7. GenKept
    BY <2>4, <2>6, GenSet
  <2>8. Frames(th.calls) = {} /\ th.fuel <= thr[x].fuel /\ thr[x].at = "body" /\ Moving(x)
    BY <2>1, <2>2, NoFrames, BurntFacts DEF Yield
  <2>. QED
    BY <2>2, <2>3, <2>7, <2>8, MildStep DEF GenKept
<1>. QED
  BY <1>1, <1>2 DEF Yield

LEMMA RecoverStep == ASSUME Inv, NEW x \in Threads, Recover(x) PROVE Inv'
<1>1. thr[x] \in Thread /\ thr[x].at = "body" /\ thr[x].calls = <<>> /\ Moving(x)
  BY Types DEF Recover, InPHP, Moving
<1>2. PICK th \in Thread :
        /\ th = [thr[x] EXCEPT !.err = "none"] /\ th.at = "body"
        /\ th.calls = <<>> /\ th.fuel = thr[x].fuel
  <2>1. [thr[x] EXCEPT !.err = "none"] \in Thread
    BY <1>1 DEF Thread, Msgs
  <2>. QED
    BY <1>1, <2>1 DEF Thread
<1>3. thr' = [thr EXCEPT ![x] = th] /\ UNCHANGED gen
  BY <1>2 DEF Recover, Inv, Typed
<1>4. Frames(th.calls) = {} /\ th.fuel <= thr[x].fuel
  BY <1>1, <1>2, NoFrames, Types DEF Thread
<1>. QED
  BY <1>1, <1>2, <1>3, <1>4, GenSame, MildStep DEF GenKept

LEMMA PHPStep == ASSUME Inv, NEW x \in Threads, PHP(x) PROVE Inv'
<1>1. ASSUME NEW op \in Entries \cup {"yieldfrom"}, NEW g \in Gens
      PROVE  /\ Call(op, g) \in Frame
             /\ (op = "yieldfrom" => x \in Gens) => FrameFits(Call(op, g), x)
  BY CallFacts DEF FrameFits, Entries
<1>2. {"start", "advance", "throw", "close"} \subseteq Entries \cup {"yieldfrom"}
  BY DEF Entries
<1>3. ASSUME NEW g \in Gens, MayAct(x), Calls(x, <<Call("start", g)>>) PROVE Inv'
  <2>1. PICK a \in Frame : a = Call("start", g) /\ FrameFits(a, x)
    BY <1>1, <1>2
  <2>. QED
    BY <1>3, <2>1, OneCall, CallsStep
<1>4. ASSUME NEW g \in Gens, NEW op \in {"advance", "throw"}, MayAct(x),
             Calls(x, <<Call("start", g), Call(op, g)>>)
      PROVE  Inv'
  <2>1. PICK a \in Frame : a = Call("start", g) /\ FrameFits(a, x)
    BY <1>1, <1>2
  <2>2. PICK b \in Frame : b = Call(op, g) /\ FrameFits(b, x)
    BY <1>1, <1>2
  <2>. QED
    BY <1>4, <2>1, <2>2, TwoCallsStep
<1>5. ASSUME NEW g \in Gens, Next_(x, g) PROVE Inv'
  BY <1>4, <1>5, FailsStep DEF Next_
<1>6. ASSUME NEW g \in Gens, Throw(x, g) PROVE Inv'
  BY <1>4, <1>6 DEF Throw
<1>7. ASSUME NEW g \in Gens, Read(x, g) PROVE Inv'
  BY <1>3, <1>7 DEF Read
<1>8. ASSUME NEW g \in Gens, Rewind(x, g) PROVE Inv'
  BY <1>3, <1>8, FailsStep DEF Rewind
<1>9. ASSUME NEW g \in Gens, Close(x, g) PROVE Inv'
  <2>1. PICK a \in Frame : a = Call("close", g) /\ FrameFits(a, x)
    BY <1>1, <1>2
  <2>. QED
    BY <1>9, <2>1, OneCall, CallsStep DEF Close
<1>10. ASSUME NEW h \in Gens, YieldFrom(x, h) PROVE Inv'
  <2>1. CASE Fails(x)
    BY <1>10, <2>1, FailsStep DEF YieldFrom
  <2>2. CASE Calls(x, <<Call("start", h), Call("yieldfrom", h)>>)
    <3>1. PICK a \in Frame : a = Call("start", h) /\ FrameFits(a, x)
      BY <1>1, <1>2
    <3>2. PICK b \in Frame : b = Call("yieldfrom", h) /\ FrameFits(b, x)
      BY <1>1, <1>10 DEF YieldFrom
    <3>. QED
      BY <1>10, <2>2, <3>1, <3>2, TwoCallsStep DEF YieldFrom
  <2>. QED
    BY <1>10, <2>1, <2>2 DEF YieldFrom
<1>11. Sees[x] \subseteq Gens /\ (x \in Gens => Delegates[x] \subseteq Gens)
  BY ProgramAssumption
<1>12. CASE \E g \in Sees[x] : \/ Next_(x, g) \/ Throw(x, g) \/ Read(x, g)
                               \/ Rewind(x, g) \/ Close(x, g)
  BY <1>5, <1>6, <1>7, <1>8, <1>9, <1>11, <1>12
<1>13. CASE x \in Gens /\ \E h \in Delegates[x] : YieldFrom(x, h)
  BY <1>10, <1>11, <1>13
<1>. QED
  BY <1>12, <1>13, YieldStep, RecoverStep, EndStep DEF PHP

-----------------------------------------------------------------------------
(* The invariant holds *)

LEMMA InitInv == Init => Inv
<1>. SUFFICES ASSUME Init PROVE Inv
  OBVIOUS
<1>1. /\ \A g \in Gens : g \in Threads /\ g # Main
      /\ MostFuel \in Nat /\ \A g \in Gens : Fuel[g] \in Nat /\ Fuel[g] <= MostFuel
  BY ProgramAssumption, FuelAssumption DEF Threads
<1>2. Typed
  <2>1. [c \in Channels |-> "none"] \in [Channels -> Msgs]
    BY DEF Msgs
  <2>2. gen \in [Gens -> GeneratorState]
    BY <1>1, <2>1 DEF Init, GeneratorState, Msgs
  <2>3. thr \in [Threads -> Thread]
    <3>1. \A x \in Threads : (IF x = Main THEN 0 ELSE Fuel[x]) \in 0 .. MostFuel
      BY <1>1 DEF Threads
    <3>. QED
      BY <3>1, NoFrames DEF Init, Thread, Places, Msgs
  <2>. QED
    BY <2>2, <2>3 DEF Typed
<1>3. \A x \in Threads : thr[x].calls = <<>> /\ ~ Delegating(x)
  BY NoFrames DEF Init, Delegating
<1>4. ThreadsFit
  BY <1>3, NoFrames DEF ThreadsFit, ThreadFits
<1>5. \A g \in Gens : /\ gen[g].fin = "none" /\ gen[g].delegate = None /\ gen[g].epoch = 0
                      /\ \A n \in Channels : gen[g].done[n] = "none"
                      /\ thr[g].at = "born" /\ thr[g].fuel = Fuel[g]
  BY <1>1 DEF Init
<1>6. GensFit
  BY <1>1, <1>3, <1>5 DEF GensFit, GenFits
<1>7. \A x \in Threads : Moving(x) => x = Main
  BY <1>5 DEF Moving, Threads
<1>. QED
  BY <1>2, <1>4, <1>6, <1>7 DEF Inv, OneMoves

LEMMA NextInv == Inv /\ [Next]_vars => Inv'
<1>. SUFFICES ASSUME Inv, [Next]_vars PROVE Inv'
  OBVIOUS
<1>1. CASE UNCHANGED vars
  BY <1>1 DEF vars, Inv, Typed, ThreadsFit, ThreadFits, FrameFits, GensFit, GenFits,
              Delegating, OneMoves, Moving
<1>2. ASSUME NEW x \in Threads, Native(x) PROVE Inv'
  BY <1>2, StartStep, AdvanceRefusedStep, AdvanceStep, ResumeStep, ReceiveDoneStep,
     ReceiveYieldStep, FollowDelegateStep, WaitAfterDelegateDoneStep, ForceCloseStep,
     CloseAfterDelegateStep, YieldFromGeneratorStep, DelegationDoneStep DEF Native
<1>. QED
  BY <1>1, <1>2, PHPStep DEF Next

LEMMA InvHolds == Spec => []Inv
BY InitInv, NextInv, PTL DEF Spec

(* Type correctness, and only a body that yields or waits for the result   *)
(* of a delegation has a delegate, for every program                       *)
(* (generatorYieldFromGenerator sets it).                                  *)
THEOREM GeneratorTypeOK == Spec => []TypeOK
<1>1. Inv => TypeOK
  BY DEF Inv, Typed, GensFit, GenFits, TypeOK
<1>. QED
  BY <1>1, InvHolds, PTL

(* At most one goroutine runs PHP code, for any number of generators and   *)
(* any program: every hand over of control waits on a channel.             *)
THEOREM OneRunsPHP == Spec => []SoloRunner
<1>1. Inv => SoloRunner
  <2>. SUFFICES ASSUME Inv PROVE Cardinality({x \in Threads : InPHP(x)}) <= 1
    BY DEF SoloRunner
  <2>1. \A x \in Threads : InPHP(x) => Moving(x)
    BY DEF InPHP, Moving
  <2>2. \A x, y \in Threads : InPHP(x) /\ InPHP(y) => x = y
    BY <2>1 DEF Inv, OneMoves
  <2>3. CASE {x \in Threads : InPHP(x)} = {}
    <3>1. Cardinality({}) = 0
      BY FS_EmptySet
    <3>. QED
      BY <2>3, <3>1
  <2>4. CASE \E x \in Threads : InPHP(x)
    <3>1. PICK x \in Threads : InPHP(x)
      BY <2>4
    <3>2. {y \in Threads : InPHP(y)} = {x}
      BY <2>2, <3>1
    <3>3. Cardinality({x}) = 1
      BY FS_Singleton
    <3>. QED
      BY <3>2, <3>3
  <2>. QED
    BY <2>3, <2>4
<1>. QED
  BY <1>1, InvHolds, PTL

-----------------------------------------------------------------------------
(* The calls on generators: the properties that hold for programs in which *)
(* no generator that delegates can be reached from its own body            *)
(* (NoReentry), for any number of generators and fuel.                     *)
(*                                                                         *)
(* While a delegation goes on, and after its end until the caller has set  *)
(* the status again, a generator is Suspended although a call on it is in  *)
(* progress.  No second call slips in, because the goroutines that are     *)
(* active form a chain, in which the bodies further down cannot reach the  *)
(* generators further up.                                                  *)

(* The invariant.                                                          *)

(* Programs: a rank falls with every delegation, does not grow from a body *)
(* to the generators it holds, and falls to those of them that delegate.   *)
Beneath(rank, g, x) == rank[g] < rank[x] \/ (rank[g] = rank[x] /\ Delegates[g] = {})
Ordered(rank) ==
    \A x \in Gens : /\ \A g \in Sees[x] : Beneath(rank, g, x)
                    /\ \A h \in Delegates[x] : rank[h] < rank[x]
NoReentry == \E rank \in [Gens -> Nat] : Ordered(rank)
Rank == CHOOSE rank \in [Gens -> Nat] : Ordered(rank)

(* The stack of a goroutine: f is directly above h, as the call on the     *)
(* delegate of a call that goes on there, or as the start before a call.   *)
Chained == {"deleg", "closedeleg"}
Starting == {"start", "resume", "wait"}
Above(f, h) ==
    \/ h.op \in Chained /\ f.g = h.inner /\ Rank[h.inner] < Rank[h.g] /\ f.op # "yieldfrom"
    \/ h.op \in {"advance", "throw", "yieldfrom"} /\ f.g = h.g /\ f.op \in Starting
Nested(s) == \A i \in 1 .. Len(s) - 1 : Above(s[i], s[i + 1])

(* The stack of a body has only calls on generators that it can reach.     *)
Reaches(f, x) ==
    /\ x \in Gens => Beneath(Rank, f.g, x)
    /\ f.op = "yieldfrom" => f.g \in Delegates[x]
Sound(s, x) == Nested(s) /\ \A f \in Frames(s) : Reaches(f, x)
StackFits(x) == Sound(thr[x].calls, x)
StacksFit == \A x \in Threads : StackFits(x)

(* A goroutine that runs, waits for a body, or has something on its way.   *)
Signal(g) == gen[g].done[gen[g].epoch]
Signalled(g) == thr[g].at = "delegating" /\ Signal(g) # "none"
Due(g) == thr[g].at = "ended" /\ gen[g].fin # "none"
Active(x) == thr[x].at \in {"body", "yielding"} \/ (x \in Gens /\ (Due(x) \/ Signalled(x)))
Waiting(x) == thr[x].at = "body" /\ InCall(x, Away)

(* The active goroutines are a chain in which each waits for the next one, *)
(* and no body reaches a generator that those before it wait for, except   *)
(* one of its own rank.                                                    *)
Chain(depth) ==
    /\ \A x, y \in Threads : Active(x) /\ Active(y) /\ depth[x] = depth[y] => x = y
    /\ \A x \in Threads, g \in Gens :
         Waiting(x) /\ Top(x).g = g => Active(g) /\ depth[g] = depth[x] + 1
    /\ \A x, y \in Threads : Active(x) /\ Moving(y) => depth[x] <= depth[y]
    /\ \A x, y \in Threads : Active(x) /\ Active(y) /\ depth[x] < depth[y] =>
         Waiting(x) /\ y \in Gens /\ Rank[y] <= Rank[Top(x).g]
InChain == \E depth \in [Threads -> Nat] : Chain(depth)

(* What a call in progress knows of its generator.                         *)
Closer == {"resumeclose", "closing", "closedeleg"}
CallFits(f) ==
    LET g == f.g
        at == thr[g].at
        status == gen[g].status
    IN  /\ gen[g].started /\ (gen[g].forceClosing <=> f.op \in Closer)
        /\ f.op = "resume" => /\ status = "Running" /\ at \in {"born", "parked"}
                              /\ at = "born" => f.msg = "ok"
        /\ f.op = "resumeclose" => status = "Running" /\ at = "parked"
        /\ f.op \in {"wait", "closing"} =>
             \/ (at = "body" \/ Signalled(g)) /\ status = "Running"
             \/ at = "yielding" /\ f.op = "wait" /\ status \in {"Suspended", "Running"}
             \/ Due(g) /\ status \in {"Closed", "Running"}
        /\ f.op = "signalled" =>
             /\ Delegates[g] # {}
             /\ \/ (at \in {"body", "yielding"} \/ Signalled(g)) /\ status = "Suspended"
                \/ Due(g) /\ status = "Closed"
        /\ f.op \in Chained =>
             /\ at = "delegating" /\ ~Signalled(g)
             /\ gen[g].delegate = f.inner /\ gen[g].epoch = f.ch
             /\ status = IF f.op = "deleg" THEN "Suspended" ELSE "Running"

(* A generator without a call in progress.                                 *)
Resting(g) ==
    \/ /\ gen[g].status = "Created" /\ thr[g].at = "born"
       /\ ~gen[g].started /\ ~gen[g].valid /\ ~gen[g].forceClosing
    \/ /\ gen[g].status = "Suspended" /\ gen[g].started /\ gen[g].valid /\ ~gen[g].forceClosing
       /\ thr[g].at = "parked" \/ (thr[g].at = "delegating" /\ ~Signalled(g))
    \/ gen[g].status = "Closed" /\ gen[g].started /\ thr[g].at = "ended" /\ ~Due(g)

(* The calls in progress of a stack, and who has one on g.                 *)
Progress(s) == {f \in Frames(s) : f.op \in InProgress}
Holds(x, g) == \E f \in Progress(thr[x].calls) : f.g = g
Held(g) == \E x \in Threads : Holds(x, g)

CallsFit == \A x \in Threads : \A f \in Progress(thr[x].calls) : CallFits(f)
OneHolds == \A g \in Gens : \A x, y \in Threads : Holds(x, g) /\ Holds(y, g) => x = y
OthersRest == \A g \in Gens : ~Held(g) => Resting(g)
HoldsFit == CallsFit /\ OneHolds /\ OthersRest

(* A delegate has been started, and has ended when its delegation ends     *)
(* with a value; no yield from outlives the decision to close its body.    *)
DelegateFits(g) ==
    /\ \A d \in Gens : gen[g].delegate = d =>
         /\ d \in Delegates[g] /\ gen[d].started
         /\ thr[g].at = "delegating" /\ Signal(g) = "ok" => gen[d].status = "Closed" /\ ~Held(d)
    /\ gen[g].forceClosing => ~Delegating(g)
DelegatesFit == \A g \in Gens : DelegateFits(g)

Orderly == NoReentry /\ StacksFit /\ InChain /\ HoldsFit /\ DelegatesFit

-----------------------------------------------------------------------------
(* Stacks *)

LEMMA RankFacts == ASSUME NoReentry PROVE Rank \in [Gens -> Nat] /\ Ordered(Rank)
BY DEF NoReentry, Rank

LEMMA NestedRanks ==
  ASSUME Rank \in [Gens -> Nat], NEW s \in Seq(Frame), Nested(s),
         NEW i \in 1 .. Len(s), NEW j \in 1 .. Len(s), i < j
  PROVE  /\ Rank[s[i].g] <= Rank[s[j].g] /\ s[i].op # "yieldfrom"
         /\ s[j].op \in InProgress => s[j].op \in Chained /\ Rank[s[i].g] < Rank[s[j].g]
<1>1. Len(s) \in Nat /\ \A n \in 1 .. Len(s) : s[n] \in Frame /\ s[n].g \in Gens
  <2>1. Len(s) \in Nat /\ \A n \in 1 .. Len(s) : s[n] \in Frame
    BY LenProperties, ElementOfSeq
  <2>2. \A f \in Frame : f.g \in Gens
    BY DEF Frame
  <2>. QED
    BY <2>1, <2>2
<1>2. \A n \in 1 .. Len(s) - 1 : Above(s[n], s[n + 1])
  BY DEF Nested
<1>3. ASSUME NEW n \in 1 .. Len(s) - 1 PROVE Rank[s[n].g] <= Rank[s[n + 1].g]
  <2>1. n \in 1 .. Len(s) /\ n + 1 \in 1 .. Len(s) /\ Above(s[n], s[n + 1])
    BY <1>1, <1>2
  <2>2. Rank[s[n].g] \in Nat /\ Rank[s[n + 1].g] \in Nat
    BY <1>1, <2>1
  <2>. QED
    BY <2>1, <2>2 DEF Above
<1>. DEFINE N == Len(s) - i
            S == {n \in 0 .. N : Rank[s[i].g] <= Rank[s[i + n].g]}
<1>4. 0 \in S
  BY <1>1
<1>5. ASSUME NEW n \in 0 .. N - 1, n \in S PROVE n + 1 \in S
  <2>1. /\ i + n \in 1 .. Len(s) - 1 /\ i + n \in 1 .. Len(s) /\ (i + n) + 1 \in 1 .. Len(s)
        /\ i + (n + 1) = (i + n) + 1 /\ n + 1 \in 0 .. N
    BY <1>1
  <2>2. /\ Rank[s[i].g] \in Nat /\ Rank[s[i + n].g] \in Nat /\ Rank[s[(i + n) + 1].g] \in Nat
    BY <1>1, <2>1
  <2>3. Rank[s[i].g] <= Rank[s[i + n].g] /\ Rank[s[i + n].g] <= Rank[s[(i + n) + 1].g]
    BY <1>3, <1>5, <2>1
  <2>. QED
    BY <2>1, <2>2, <2>3
<1>6. 0 .. N \subseteq S
  <2>1. N \in Nat
    BY <1>1
  <2>. HIDE DEF N, S
  <2>. QED
    BY <1>4, <1>5, <2>1, UpToInduction
<1>7. Rank[s[i].g] <= Rank[s[j - 1].g] /\ Rank[s[i].g] <= Rank[s[j].g]
  <2>1. /\ j - i \in 0 .. N /\ j - 1 - i \in 0 .. N
        /\ i + (j - i) = j /\ i + (j - 1 - i) = j - 1
    BY <1>1
  <2>2. j - i \in S /\ j - 1 - i \in S
    <3>. HIDE DEF S
    <3>. QED
      BY <1>6, <2>1
  <2>. QED
    BY <2>1, <2>2
<1>8. Above(s[j - 1], s[j]) /\ Above(s[i], s[i + 1]) /\ j - 1 \in 1 .. Len(s)
  <2>1. j - 1 \in 1 .. Len(s) - 1 /\ i \in 1 .. Len(s) - 1 /\ (j - 1) + 1 = j
    BY <1>1
  <2>. QED
    BY <1>2, <2>1
<1>9. s[j].op \in InProgress => s[j].op \in Chained /\ Rank[s[j - 1].g] < Rank[s[j].g]
  BY <1>8 DEF Above, InProgress
<1>10. Rank[s[i].g] \in Nat /\ Rank[s[j - 1].g] \in Nat /\ Rank[s[j].g] \in Nat
  BY <1>1, <1>8
<1>11. s[i].op # "yieldfrom"
  BY <1>8 DEF Above, Starting
<1>. QED
  BY <1>7, <1>9, <1>10, <1>11

(* The frames under the top of a stack.                                    *)
LEMMA StackSplit ==
  ASSUME NEW s \in Seq(Frame), s # <<>>
  PROVE  /\ Tail(s) \in Seq(Frame) /\ Head(s) \in Frame /\ Frames(s) = {Head(s)} \cup Frames(Tail(s))
         /\ \A f \in Frames(Tail(s)) : \E j \in 2 .. Len(s) : f = s[j]
<1>1. Len(s) \in Nat \ {0} /\ Head(s) = s[1] /\ \A i \in 1 .. Len(s) : s[i] \in Frame
  BY EmptySeq, LenProperties, ElementOfSeq, HeadTailProperties
<1>2. /\ Tail(s) \in Seq(Frame) /\ Len(Tail(s)) = Len(s) - 1
      /\ \A i \in 1 .. Len(Tail(s)) : Tail(s)[i] = s[i + 1]
  BY HeadTailProperties
<1>3. \A f \in Frames(Tail(s)) : \E j \in 2 .. Len(s) : f = s[j]
  <2>1. \A i \in 1 .. Len(Tail(s)) : i + 1 \in 2 .. Len(s)
    BY <1>1, <1>2
  <2>. QED
    BY <1>2, <2>1 DEF Frames
<1>4. \A j \in 2 .. Len(s) : s[j] \in Frames(Tail(s))
  <2>1. \A j \in 2 .. Len(s) : j - 1 \in 1 .. Len(Tail(s)) /\ (j - 1) + 1 = j
    BY <1>1, <1>2
  <2>. QED
    BY <1>2, <2>1 DEF Frames
<1>5. 1 \in 1 .. Len(s) /\ \A j \in 1 .. Len(s) : j # 1 => j \in 2 .. Len(s)
  BY <1>1
<1>6. Frames(s) \subseteq {Head(s)} \cup Frames(Tail(s))
  BY <1>1, <1>4, <1>5 DEF Frames
<1>7. Head(s) \in Frame /\ Head(s) \in Frames(s) /\ Frames(Tail(s)) \subseteq Frames(s)
  BY StackFacts
<1>. QED
  BY <1>2, <1>3, <1>6, <1>7

LEMMA Buried ==
  ASSUME NoReentry, NEW s \in Seq(Frame), s # <<>>, Nested(s)
  PROVE  /\ Nested(Tail(s)) /\ (Tail(s) # <<>> => Above(Head(s), Head(Tail(s))))
         /\ \A f \in Frames(Tail(s)) :
              /\ Rank[Head(s).g] <= Rank[f.g] /\ Head(s).op # "yieldfrom"
              /\ f.op \in InProgress => f.op \in Chained /\ Rank[Head(s).g] < Rank[f.g]
<1>1. Len(s) \in Nat \ {0} /\ Head(s) = s[1]
  BY EmptySeq, LenProperties, HeadTailProperties
<1>2. /\ Tail(s) \in Seq(Frame) /\ Len(Tail(s)) = Len(s) - 1
      /\ \A i \in 1 .. Len(Tail(s)) : Tail(s)[i] = s[i + 1]
  BY HeadTailProperties
<1>3. Nested(Tail(s))
  <2>. SUFFICES ASSUME NEW i \in 1 .. Len(Tail(s)) - 1 PROVE Above(Tail(s)[i], Tail(s)[i + 1])
    BY DEF Nested
  <2>1. /\ i + 1 \in 1 .. Len(s) - 1 /\ i \in 1 .. Len(Tail(s)) /\ i + 1 \in 1 .. Len(Tail(s))
    BY <1>1, <1>2
  <2>2. Above(s[i + 1], s[(i + 1) + 1])
    BY <2>1 DEF Nested
  <2>. QED
    BY <1>2, <2>1, <2>2
<1>4. Tail(s) # <<>> => Above(Head(s), Head(Tail(s)))
  <2>. SUFFICES ASSUME Tail(s) # <<>> PROVE Above(Head(s), Head(Tail(s)))
    OBVIOUS
  <2>1. Len(Tail(s)) \in Nat \ {0} /\ Head(Tail(s)) = Tail(s)[1]
    BY <1>2, EmptySeq, LenProperties, HeadTailProperties
  <2>2. 1 \in 1 .. Len(s) - 1 /\ 1 \in 1 .. Len(Tail(s)) /\ 1 + 1 = 2
    BY <1>1, <1>2, <2>1
  <2>3. Above(s[1], s[1 + 1]) /\ Tail(s)[1] = s[1 + 1]
    BY <1>2, <2>2 DEF Nested
  <2>. QED
    BY <1>1, <2>1, <2>3
<1>5. ASSUME NEW f \in Frames(Tail(s))
      PROVE  /\ Rank[Head(s).g] <= Rank[f.g] /\ Head(s).op # "yieldfrom"
             /\ f.op \in InProgress => f.op \in Chained /\ Rank[Head(s).g] < Rank[f.g]
  <2>1. PICK j \in 2 .. Len(s) : f = s[j]
    BY StackSplit
  <2>2. 1 \in 1 .. Len(s) /\ j \in 1 .. Len(s) /\ 1 < j
    BY <1>1
  <2>. QED
    BY <1>1, <2>1, <2>2, RankFacts, NestedRanks
<1>. QED
  BY <1>3, <1>4, <1>5

LEMMA PushNested ==
  ASSUME NEW s \in Seq(Frame), Nested(s), NEW f \in Frame, s # <<>> => Above(f, Head(s))
  PROVE  Nested(<<f>> \o s) /\ Progress(<<f>> \o s)
           = Progress(s) \cup (IF f.op \in InProgress THEN {f} ELSE {})
<1>. DEFINE t == <<f>> \o s
<1>1. <<f>> \in Seq(Frame) /\ Len(<<f>>) = 1 /\ <<f>>[1] = f
  OBVIOUS
<1>2. /\ t \in Seq(Frame) /\ Len(t) = 1 + Len(s)
      /\ \A i \in 1 .. 1 + Len(s) : t[i] = IF i <= 1 THEN <<f>>[i] ELSE s[i - 1]
  BY <1>1, ConcatProperties
<1>3. Len(s) \in Nat
  BY LenProperties
<1>4. Frames(t) = {f} \cup Frames(s)
  BY PushFacts
<1>. HIDE DEF t
<1>5. ASSUME NEW i \in 1 .. Len(t) - 1 PROVE Above(t[i], t[i + 1])
  <2>1. i \in 1 .. Len(s) /\ i + 1 \in 1 .. 1 + Len(s) /\ i \in 1 .. 1 + Len(s)
    BY <1>2, <1>3
  <2>2. t[i + 1] = s[i]
    BY <1>2, <1>3, <2>1
  <2>3. CASE i = 1
    <3>1. t[i] = f /\ s # <<>> /\ Head(s) = s[1]
      BY <1>1, <1>2, <1>3, <2>1, <2>3, EmptySeq, HeadTailProperties
    <3>. QED
      BY <2>2, <2>3, <3>1
  <2>4. CASE i # 1
    <3>1. i - 1 \in 1 .. Len(s) - 1 /\ t[i] = s[i - 1] /\ (i - 1) + 1 = i
      BY <1>2, <1>3, <2>1, <2>4
    <3>2. Above(s[i - 1], s[(i - 1) + 1])
      BY <3>1 DEF Nested
    <3>. QED
      BY <2>2, <3>1, <3>2
  <2>. QED
    BY <2>3, <2>4
<1>. QED
  BY <1>4, <1>5 DEF Nested, Progress, t

LEMMA NoneNested == Nested(<<>>) /\ Progress(<<>>) = {}
BY NoFrames DEF Nested, Progress

-----------------------------------------------------------------------------
(* The stack of a goroutine after its top call has moved.                  *)

LEMMA TopSplit ==
  ASSUME Inv, NoReentry, NEW x \in Threads, StackFits(x), thr[x].calls # <<>>
  PROVE  /\ thr[x] \in Thread /\ thr[x].calls \in Seq(Frame) /\ thr[x].at = "body"
         /\ Tail(thr[x].calls) \in Seq(Frame) /\ Sound(Tail(thr[x].calls), x)
         /\ Top(x) \in Frame /\ Top(x).g \in Gens /\ Reaches(Top(x), x)
         /\ Progress(thr[x].calls) = Progress(Tail(thr[x].calls))
              \cup (IF Top(x).op \in InProgress THEN {Top(x)} ELSE {})
         /\ Tail(thr[x].calls) # <<>> => Above(Top(x), Head(Tail(thr[x].calls)))
         /\ \A f \in Frames(Tail(thr[x].calls)) :
              Rank[Top(x).g] <= Rank[f.g] /\ Top(x).op # "yieldfrom"
         /\ \A f \in Progress(Tail(thr[x].calls)) :
              f.op \in Chained /\ f.g # Top(x).g /\ Rank[Top(x).g] < Rank[f.g]
<1>. DEFINE s == thr[x].calls
<1>1. /\ thr[x] \in Thread /\ s \in Seq(Frame) /\ s # <<>> /\ Nested(s) /\ Top(x) = Head(s)
      /\ \A f \in Frames(s) : Reaches(f, x)
  BY Types DEF StackFits, Sound, Top
<1>2. thr[x].at = "body"
  BY <1>1 DEF Inv, ThreadsFit, ThreadFits
<1>. HIDE DEF s
<1>3. /\ Tail(s) \in Seq(Frame) /\ Head(s) \in Frame /\ Frames(s) = {Head(s)} \cup Frames(Tail(s))
      /\ Frames(Tail(s)) \subseteq Frame
  BY <1>1, StackSplit, FramesFact
<1>4. /\ Nested(Tail(s)) /\ (Tail(s) # <<>> => Above(Head(s), Head(Tail(s))))
      /\ \A f \in Frames(Tail(s)) :
           /\ Rank[Head(s).g] <= Rank[f.g] /\ Head(s).op # "yieldfrom"
           /\ f.op \in InProgress => f.op \in Chained /\ Rank[Head(s).g] < Rank[f.g]
  BY <1>1, Buried
<1>5. Sound(Tail(s), x) /\ Reaches(Head(s), x)
  BY <1>1, <1>3, <1>4 DEF Sound
<1>6. Progress(s) = Progress(Tail(s)) \cup (IF Head(s).op \in InProgress THEN {Head(s)} ELSE {})
  BY <1>3 DEF Progress
<1>7. Head(s).g \in Gens /\ \A f \in Frames(Tail(s)) : f.g \in Gens
  BY <1>3 DEF Frame
<1>8. \A g \in Gens : Rank[g] \in Nat
  BY RankFacts
<1>9. \A f \in Progress(Tail(s)) :
        f.op \in Chained /\ f.g # Head(s).g /\ Rank[Head(s).g] < Rank[f.g]
  <2>. SUFFICES ASSUME NEW f \in Progress(Tail(s))
                PROVE  f.op \in Chained /\ f.g # Head(s).g /\ Rank[Head(s).g] < Rank[f.g]
    OBVIOUS
  <2>1. f \in Frames(Tail(s)) /\ f.op \in InProgress
    BY DEF Progress
  <2>2. f.op \in Chained /\ Rank[Head(s).g] < Rank[f.g]
    BY <1>4, <2>1
  <2>. QED
    BY <1>7, <1>8, <2>1, <2>2
<1>. QED
  BY <1>1, <1>2, <1>3, <1>4, <1>5, <1>6, <1>7, <1>9 DEF s

LEMMA BecomeStack ==
  ASSUME Inv, NoReentry, NEW x \in Threads, StackFits(x), thr[x].calls # <<>>,
         NEW f \in Frame, f.g = Top(x).g, f.op # "yieldfrom",
         Top(x).op \in Starting => f.op \in Starting, NEW s, s = Becoming(thr[x], f).calls
  PROVE  /\ s \in Seq(Frame) /\ s # <<>> /\ Head(s) = f /\ Sound(s, x)
         /\ Progress(s) = Progress(Tail(thr[x].calls))
              \cup (IF f.op \in InProgress THEN {f} ELSE {})
<1>. DEFINE t == Tail(thr[x].calls)
<1>1. /\ thr[x] \in Thread /\ t \in Seq(Frame) /\ Nested(t)
      /\ \A q \in Frames(t) : Reaches(q, x)
      /\ Reaches(Top(x), x) /\ (t # <<>> => Above(Top(x), Head(t)))
  BY TopSplit DEF Sound
<1>2. s = <<f>> \o t
  BY <1>1 DEF Becoming, Thread
<1>. HIDE DEF t
<1>3. t # <<>> => Above(f, Head(t))
  BY <1>1 DEF Above
<1>4. Reaches(f, x)
  BY <1>1 DEF Reaches
<1>5. /\ s \in Seq(Frame) /\ s # <<>> /\ Head(s) = f /\ Frames(s) = {f} \cup Frames(t)
  BY <1>1, <1>2, PushFacts
<1>6. Nested(s) /\ Progress(s) = Progress(t) \cup (IF f.op \in InProgress THEN {f} ELSE {})
  BY <1>1, <1>2, <1>3, PushNested
<1>. QED
  BY <1>1, <1>4, <1>5, <1>6 DEF Sound, t

LEMMA PushStack ==
  ASSUME Inv, NoReentry, NEW x \in Threads, StackFits(x), thr[x].calls # <<>>,
         NEW f \in Frame, f.g = Top(x).g, f.op \in Chained, Top(x).op \notin Starting,
         NEW c \in Frame, c.op # "yieldfrom", c.op \notin InProgress, c.g = f.inner,
         Rank[f.inner] < Rank[f.g], NEW s, s = Calling(Becoming(thr[x], f), c).calls
  PROVE  /\ s \in Seq(Frame) /\ s # <<>> /\ Head(s) = c /\ Sound(s, x)
         /\ Progress(s) = Progress(Tail(thr[x].calls)) \cup {f}
<1>1. f.op # "yieldfrom" /\ f.op \in InProgress
  BY DEF Chained, InProgress
<1>2. PICK t : /\ t = Becoming(thr[x], f).calls
               /\ t \in Seq(Frame) /\ t # <<>> /\ Head(t) = f /\ Sound(t, x)
               /\ Progress(t) = Progress(Tail(thr[x].calls)) \cup {f}
  BY <1>1, BecomeStack
<1>3. thr[x] \in Thread /\ Becoming(thr[x], f) \in Thread
  BY TopSplit, BecomingFacts
<1>4. s = <<c>> \o t
  BY <1>2, <1>3 DEF Calling, Thread
<1>5. Above(c, f)
  BY DEF Above
<1>6. Nested(t) /\ \A q \in Frames(t) : Reaches(q, x)
  BY <1>2 DEF Sound
<1>7. Nested(s) /\ Progress(s) = Progress(t)
  BY <1>2, <1>4, <1>5, <1>6, PushNested
<1>8. s \in Seq(Frame) /\ s # <<>> /\ Head(s) = c /\ Frames(s) = {c} \cup Frames(t)
  BY <1>2, <1>4, PushFacts
<1>9. f \in Frames(t)
  BY <1>2, StackFacts
<1>10. Reaches(c, x)
  <2>1. Reaches(f, x) /\ f.g \in Gens /\ c.g \in Gens
    BY <1>6, <1>9 DEF Frame
  <2>2. \A g \in Gens : Rank[g] \in Nat
    BY RankFacts
  <2>. SUFFICES ASSUME x \in Gens PROVE Beneath(Rank, c.g, x)
    BY DEF Reaches
  <2>3. Beneath(Rank, f.g, x) /\ Rank[x] \in Nat /\ Rank[f.g] \in Nat /\ Rank[c.g] \in Nat
    BY <2>1, <2>2 DEF Reaches
  <2>4. Rank[c.g] < Rank[f.g] /\ Rank[f.g] <= Rank[x]
    BY <2>3 DEF Beneath
  <2>5. Rank[c.g] < Rank[x]
    BY <2>3, <2>4
  <2>. QED
    BY <2>5 DEF Beneath
<1>. QED
  BY <1>2, <1>6, <1>7, <1>8, <1>10 DEF Sound

LEMMA ReturnStack ==
  ASSUME Inv, NoReentry, NEW x \in Threads, StackFits(x), thr[x].calls # <<>>,
         NEW r \in Msgs, NEW s, s = Returned(x, r).calls
  PROVE  /\ s \in Seq(Frame) /\ Sound(s, x) /\ (s # <<>> => Head(s).op \notin Away)
         /\ Progress(s) = Progress(Tail(thr[x].calls)) /\ Frames(s) \subseteq Frames(thr[x].calls)
<1>. DEFINE t == Tail(thr[x].calls)
            u == IF r # "ok" /\ t # <<>> /\ Head(t).op \notin {"deleg", "closedeleg"}
                 THEN Tail(t) ELSE t
<1>1. /\ thr[x] \in Thread /\ t \in Seq(Frame) /\ Sound(t, x)
      /\ (t # <<>> => Above(Top(x), Head(t)))
      /\ \A f \in Progress(t) : f.op \in Chained
  BY TopSplit
<1>2. \A q, h : Above(q, h) => h.op \notin Away
  BY DEF Above, Chained, Away
<1>3. /\ u \in Seq(Frame) /\ Sound(u, x) /\ Progress(u) = Progress(t)
      /\ (u # <<>> => Head(u).op \notin Away)
  <2>1. u = t => /\ u \in Seq(Frame) /\ Sound(u, x) /\ Progress(u) = Progress(t)
                 /\ (u # <<>> => Head(u).op \notin Away)
    BY <1>1, <1>2
  <2>2. u # t => /\ u \in Seq(Frame) /\ Sound(u, x) /\ Progress(u) = Progress(t)
                 /\ (u # <<>> => Head(u).op \notin Away)
    <3>. SUFFICES ASSUME u # t
                  PROVE  /\ u \in Seq(Frame) /\ Sound(u, x) /\ Progress(u) = Progress(t)
                         /\ (u # <<>> => Head(u).op \notin Away)
      OBVIOUS
    <3>1. t # <<>> /\ Head(t).op \notin Chained /\ u = Tail(t)
      BY DEF Chained
    <3>. HIDE DEF t, u
    <3>2. /\ Tail(t) \in Seq(Frame) /\ Frames(t) = {Head(t)} \cup Frames(Tail(t))
      BY <1>1, <3>1, StackSplit
    <3>3. Nested(Tail(t)) /\ (Tail(t) # <<>> => Above(Head(t), Head(Tail(t))))
      BY <1>1, <3>1, Buried DEF Sound
    <3>4. Progress(Tail(t)) = Progress(t)
      <4>1. Head(t) \in Frames(t) /\ Head(t) \notin Progress(t)
        BY <1>1, <3>1, <3>2
      <4>. QED
        BY <3>2, <4>1 DEF Progress
    <3>5. Sound(Tail(t), x)
      BY <1>1, <3>2, <3>3 DEF Sound
    <3>. QED
      BY <1>2, <3>1, <3>2, <3>3, <3>4, <3>5
  <2>. QED
    BY <2>1, <2>2
<1>4. s = u
  <2>. DEFINE th == [thr[x] EXCEPT !.calls = u]
              th2 == [thr[x] EXCEPT !.calls = u, !.res = IF Head(u).op = "deleg" THEN r ELSE "ok"]
  <2>1. Returned(x, r) = IF u = <<>> THEN Raised(x, th, r) ELSE th2
    BY DEF Returned
  <2>2. u \in Seq(Frame)
    BY <1>3
  <2>. HIDE DEF u
  <2>3. th \in Thread /\ th.calls = u /\ th2.calls = u
    BY <1>1, <2>2 DEF Thread
  <2>. HIDE DEF th, th2
  <2>4. Raised(x, th, r).calls = u
    BY <2>3, RaisedFacts
  <2>. QED
    BY <2>1, <2>3, <2>4
<1>. QED
  BY <1>3, <1>4, ReturnedFacts

-----------------------------------------------------------------------------
(* Who has a call in progress.                                             *)

(* A step of x that is about no other body than k.                         *)
Touches(x, k) ==
    /\ \A y \in Threads \ {x} : thr'[y].calls = thr[y].calls
    /\ \A y \in Threads \ {x, k} : thr'[y] = thr[y]
    /\ \A h \in Gens \ {k} : gen'[h] = gen[h] /\ thr'[h].at = thr[h].at

LEMMA Ranks ==
  ASSUME NoReentry
  PROVE  /\ \A g \in Gens : Rank[g] \in Nat
         /\ \A g \in Gens : \A h \in Delegates[g] : h \in Gens /\ Rank[h] < Rank[g] /\ h # g
<1>1. \A g \in Gens : Rank[g] \in Nat
  BY RankFacts
<1>2. \A g \in Gens : \A h \in Delegates[g] : h \in Gens /\ g \in Threads /\ Rank[h] < Rank[g]
  BY RankFacts, ProgramAssumption DEF Ordered, Threads
<1>3. \A g \in Gens : \A h \in Delegates[g] : h # g
  BY <1>1, <1>2
<1>. QED
  BY <1>1, <1>2, <1>3

(* A call in progress with another goroutine than the one that runs is on  *)
(* a generator of no lower rank.                                           *)
LEMMA HolderAbove ==
  ASSUME Inv, Orderly, NEW x \in Threads, thr[x].at = "body", Moving(x),
         NEW y \in Threads, y # x, NEW q \in Progress(thr[y].calls)
  PROVE  /\ x \in Gens /\ q \in Frame /\ q.g \in Gens /\ Rank[x] <= Rank[q.g]
         /\ q.op \in Chained => Rank[x] < Rank[q.g]
<1>1. NoReentry /\ StackFits(y) /\ thr[y].calls # <<>>
  BY NoFrames DEF Orderly, StacksFit, Progress
<1>2. PICK depth \in [Threads -> Nat] : Chain(depth)
  BY DEF Orderly, InChain
<1>3. thr[y].at = "body"
  BY <1>1, TopSplit
<1>4. Active(x) /\ Active(y)
  BY <1>3 DEF Active
<1>5. depth[y] < depth[x]
  <2>1. depth[y] <= depth[x] /\ (depth[y] = depth[x] => y = x)
    BY <1>2, <1>4 DEF Chain
  <2>2. depth[x] \in Nat /\ depth[y] \in Nat
    BY <1>2
  <2>. QED
    BY <2>1, <2>2
<1>6. Waiting(y) /\ x \in Gens /\ Rank[x] <= Rank[Top(y).g]
  BY <1>2, <1>4, <1>5 DEF Chain
<1>7. /\ Top(y) \in Frame /\ Top(y).g \in Gens
      /\ \A f \in Progress(Tail(thr[y].calls)) : Rank[Top(y).g] < Rank[f.g]
      /\ q \in Progress(Tail(thr[y].calls)) \/ q = Top(y)
  BY <1>1, TopSplit
<1>8. Top(y).op \notin Chained
  BY <1>6 DEF Waiting, InCall, Away, Chained
<1>9. q \in Frame
  BY <1>1, TopSplit, FramesFact DEF Progress
<1>10. q.g \in Gens
  BY <1>9 DEF Frame
<1>11. Rank[x] \in Nat /\ Rank[Top(y).g] \in Nat /\ Rank[q.g] \in Nat
  BY <1>1, <1>6, <1>7, <1>10, Ranks
<1>12. CASE q = Top(y)
  BY <1>6, <1>8, <1>9, <1>10, <1>12
<1>13. CASE q \in Progress(Tail(thr[y].calls))
  <2>1. Rank[Top(y).g] < Rank[q.g]
    BY <1>7, <1>13
  <2>. QED
    BY <1>6, <1>9, <1>10, <1>11, <2>1
<1>. QED
  BY <1>7, <1>12, <1>13

(* The body that runs has a rank no lower than what it calls.              *)
LEMMA Downward ==
  ASSUME Inv, NoReentry, NEW x \in Threads, StackFits(x), thr[x].calls # <<>>, x \in Gens
  PROVE  /\ Top(x).g \in Gens /\ Rank[Top(x).g] \in Nat /\ Rank[x] \in Nat
         /\ Rank[Top(x).g] <= Rank[x]
         /\ Rank[Top(x).g] = Rank[x] => Delegates[Top(x).g] = {}
<1>1. Top(x).g \in Gens /\ Beneath(Rank, Top(x).g, x)
  BY TopSplit DEF Reaches
<1>2. Rank[Top(x).g] \in Nat /\ Rank[x] \in Nat
  BY <1>1, Ranks
<1>. QED
  BY <1>1, <1>2 DEF Beneath

(* A generator that is suspended when it is advanced or closed has no call *)
(* in progress (generatorAdvance, generatorThrowInner, generatorForceClose *)
(* look at status only).                                                   *)
LEMMA FreeToCall ==
  ASSUME Inv, Orderly, NEW x \in Threads, InCall(x, {"advance", "throw", "close"}),
         gen[Top(x).g].status = "Suspended"
  PROVE  ~ Held(Top(x).g)
<1>. DEFINE k == Top(x).g
<1>1. NoReentry /\ StackFits(x) /\ CallsFit
  BY DEF Orderly, StacksFit, HoldsFit
<1>2. /\ thr[x].calls # <<>> /\ thr[x].at = "body" /\ Top(x).op \in {"advance", "throw", "close"}
      /\ k \in Gens /\ Moving(x)
  BY TopFacts DEF Away
<1>3. Top(x).op \notin InProgress
  BY <1>2 DEF InProgress
<1>. SUFFICES ASSUME NEW y \in Threads, NEW q \in Progress(thr[y].calls), q.g = k
              PROVE  FALSE
  BY DEF Held, Holds
<1>4. y # x
  BY <1>1, <1>2, <1>3, TopSplit
<1>5. /\ x \in Gens /\ q \in Frame /\ Rank[x] <= Rank[k]
      /\ q.op \in Chained => Rank[x] < Rank[k]
  BY <1>2, <1>4, HolderAbove
<1>6. /\ Rank[k] \in Nat /\ Rank[x] \in Nat /\ Rank[k] <= Rank[x]
      /\ Rank[k] = Rank[x] => Delegates[k] = {}
  BY <1>1, <1>2, <1>5, Downward
<1>7. Delegates[k] = {} /\ q.op \notin Chained
  <2>1. Rank[k] = Rank[x]
    BY <1>5, <1>6
  <2>. QED
    BY <1>5, <1>6, <2>1
<1>8. CallFits(q) /\ q.op \in InProgress
  BY <1>1 DEF CallsFit, Progress
<1>9. thr[k].at = "yielding"
  BY <1>7, <1>8 DEF CallFits, InProgress, Chained
<1>10. Moving(k) /\ k \in Threads
  BY <1>2, <1>9 DEF Moving, Threads
<1>11. k = x
  BY <1>2, <1>10 DEF Inv, OneMoves
<1>. QED
  BY <1>2, <1>9, <1>11

(* The delegate has no call in progress once the call on it has returned   *)
(* (generatorAdvanceDelegated).                                            *)
LEMMA InnerRests ==
  ASSUME Inv, Orderly, NEW x \in Threads, InCall(x, {"deleg"})
  PROVE  /\ Top(x).inner \in Delegates[Top(x).g] /\ Top(x).inner \in Gens
         /\ Top(x).inner # Top(x).g /\ gen[Top(x).inner].started
         /\ ~ Held(Top(x).inner)
<1>. DEFINE k == Top(x).g
            d == Top(x).inner
<1>1. NoReentry /\ StackFits(x) /\ CallsFit
  BY DEF Orderly, StacksFit, HoldsFit
<1>2. /\ thr[x].calls # <<>> /\ thr[x].at = "body" /\ Top(x).op = "deleg"
      /\ k \in Gens /\ Moving(x) /\ d \in Gens
  BY TopFacts DEF Away, FrameFits
<1>3. Top(x) \in Progress(thr[x].calls)
  BY <1>2, TopFacts DEF Progress, InProgress
<1>4. gen[k].delegate = d
  BY <1>1, <1>2, <1>3 DEF CallsFit, CallFits, Chained
<1>5. d \in Delegates[k] /\ gen[d].started
  BY <1>2, <1>4 DEF Orderly, DelegatesFit, DelegateFits
<1>6. Rank[d] < Rank[k] /\ d # k /\ Rank[d] \in Nat /\ Rank[k] \in Nat
  BY <1>1, <1>2, <1>5, Ranks
<1>7. ~ Held(d)
  <2>. SUFFICES ASSUME NEW y \in Threads, NEW q \in Progress(thr[y].calls), q.g = d
                PROVE  FALSE
    BY DEF Held, Holds
  <2>1. CASE y = x
    <3>1. q \in Progress(Tail(thr[x].calls))
      BY <1>1, <1>2, <1>6, <2>1, TopSplit
    <3>2. Rank[k] < Rank[d]
      BY <1>1, <1>2, <3>1, TopSplit
    <3>. QED
      BY <1>6, <3>2
  <2>2. CASE y # x
    <3>1. x \in Gens /\ Rank[x] <= Rank[d]
      BY <1>2, <2>2, HolderAbove
    <3>2. Rank[k] <= Rank[x] /\ Rank[x] \in Nat
      BY <1>1, <1>2, <3>1, Downward
    <3>. QED
      BY <1>6, <3>1, <3>2
  <2>. QED
    BY <2>1, <2>2
<1>. QED
  BY <1>2, <1>5, <1>6, <1>7

(* The call on the top of a stack that is in progress is the only one.     *)
LEMMA TopHeld ==
  ASSUME Inv, Orderly, NEW x \in Threads, thr[x].calls # <<>>, Top(x).op \in InProgress
  PROVE  /\ CallFits(Top(x)) /\ Held(Top(x).g)
         /\ \A y \in Threads \ {x} : ~ Holds(y, Top(x).g)
<1>1. Top(x) \in Progress(thr[x].calls) /\ Top(x).g \in Gens
  BY TopSplit DEF Orderly, StacksFit
<1>2. CallFits(Top(x)) /\ Holds(x, Top(x).g)
  BY <1>1 DEF Orderly, HoldsFit, CallsFit, Holds
<1>. QED
  BY <1>1, <1>2 DEF Orderly, HoldsFit, OneHolds, Held

LEMMA SameFits ==
  ASSUME NEW g, gen'[g] = gen[g], thr'[g].at = thr[g].at
  PROVE  /\ \A f : f.g = g => (CallFits(f)' <=> CallFits(f))
         /\ Resting(g)' <=> Resting(g)
<1>1. (Signalled(g)' <=> Signalled(g)) /\ (Due(g)' <=> Due(g))
  BY DEF Signalled, Signal, Due
<1>2. Resting(g)' <=> Resting(g)
  BY <1>1 DEF Resting
<1>3. ASSUME NEW f, f.g = g PROVE CallFits(f)' <=> CallFits(f)
  BY <1>1, <1>3 DEF CallFits
<1>. QED
  BY <1>2, <1>3

LEMMA Elsewhere ==
  ASSUME NEW x, NEW k, Touches(x, k), NEW y \in Threads \ {x}
  PROVE  /\ Progress(thr'[y].calls) = Progress(thr[y].calls)
         /\ \A g : Holds(y, g)' <=> Holds(y, g)
<1>1. thr'[y].calls = thr[y].calls
  BY DEF Touches
<1>. QED
  BY <1>1 DEF Progress, Holds

(* No call in progress begins or ends.                                     *)
LEMMA HoldSame ==
  ASSUME Inv, Orderly, NEW x \in Threads, NEW k \in Threads, Touches(x, k),
         Progress(thr'[x].calls) = Progress(thr[x].calls),
         k \in Gens => /\ \A f \in Frame : f.g = k /\ f.op \in InProgress /\ CallFits(f)
                                             => CallFits(f)'
                       /\ Resting(k) => Resting(k)'
  PROVE  HoldsFit' /\ \A h \in Gens : Held(h)' <=> Held(h)
<1>1. \A y \in Threads : Progress(thr'[y].calls) = Progress(thr[y].calls)
  BY Elsewhere
<1>2. \A y \in Threads : \A g : Holds(y, g)' <=> Holds(y, g)
  BY <1>1 DEF Holds
<1>3. \A g : Held(g)' <=> Held(g)
  BY <1>2 DEF Held
<1>4. OneHolds'
  BY <1>2 DEF OneHolds, Orderly, HoldsFit
<1>5. OthersRest'
  <2>. SUFFICES ASSUME NEW g \in Gens, ~ Held(g) PROVE Resting(g)'
    BY <1>3 DEF OthersRest
  <2>1. Resting(g)
    BY DEF Orderly, HoldsFit, OthersRest
  <2>2. CASE g = k
    BY <2>1, <2>2
  <2>3. CASE g # k
    BY <2>1, <2>3, SameFits DEF Touches
  <2>. QED
    BY <2>2, <2>3
<1>6. CallsFit'
  <2>. SUFFICES ASSUME NEW y \in Threads, NEW f \in Progress(thr[y].calls) PROVE CallFits(f)'
    BY <1>1 DEF CallsFit
  <2>1. CallFits(f) /\ f \in Frame /\ f.op \in InProgress
    BY Types, FramesFact DEF Orderly, HoldsFit, CallsFit, Progress
  <2>2. f.g \in Gens
    BY <2>1 DEF Frame
  <2>3. CASE f.g = k
    BY <2>1, <2>2, <2>3
  <2>4. CASE f.g # k
    <3>1. gen'[f.g] = gen[f.g] /\ thr'[f.g].at = thr[f.g].at
      BY <2>2, <2>4 DEF Touches
    <3>. QED
      BY <2>1, <3>1, SameFits
  <2>. QED
    BY <2>3, <2>4
<1>. QED
  BY <1>3, <1>4, <1>5, <1>6 DEF HoldsFit

(* The top call of x begins, goes on or ends.                              *)
LEMMA HoldTop ==
  ASSUME Inv, Orderly, NEW x \in Threads, thr[x].calls # <<>>, NEW k, k = Top(x).g,
         Touches(x, k), \A y \in Threads \ {x} : ~ Holds(y, k),
         NEW F, Progress(thr'[x].calls) = Progress(Tail(thr[x].calls)) \cup F,
         \A f \in F : f.g = k /\ CallFits(f)', F = {} => Resting(k)'
  PROVE  /\ HoldsFit' /\ \A h \in Gens \ {k} : Held(h)' <=> Held(h)
         /\ F # {} => Held(k)'
<1>1. /\ k \in Gens /\ \A f \in Progress(Tail(thr[x].calls)) : f.g # k
      /\ Progress(thr[x].calls) = Progress(Tail(thr[x].calls))
           \cup (IF Top(x).op \in InProgress THEN {Top(x)} ELSE {})
  BY TopSplit DEF Orderly, StacksFit
<1>2. \A y \in Threads \ {x} : \A g : Holds(y, g)' <=> Holds(y, g)
  BY Elsewhere
<1>3. \A h \in Gens \ {k} : Holds(x, h)' <=> Holds(x, h)
  BY <1>1 DEF Holds
<1>4. Holds(x, k)' <=> F # {}
  BY <1>1 DEF Holds
<1>5. \A h \in Gens \ {k} : Held(h)' <=> Held(h)
  BY <1>2, <1>3 DEF Held
<1>6. Held(k)' <=> F # {}
  BY <1>2, <1>4 DEF Held
<1>7. OneHolds'
  <2>. SUFFICES ASSUME NEW g \in Gens, NEW y \in Threads, NEW z \in Threads,
                       Holds(y, g)', Holds(z, g)'
                PROVE  y = z
    BY DEF OneHolds
  <2>1. CASE g = k
    BY <1>2, <2>1
  <2>2. CASE g # k
    <3>1. Holds(y, g) /\ Holds(z, g)
      BY <1>2, <1>3, <2>2
    <3>. QED
      BY <3>1 DEF Orderly, HoldsFit, OneHolds
  <2>. QED
    BY <2>1, <2>2
<1>8. OthersRest'
  <2>. SUFFICES ASSUME NEW g \in Gens, ~ Held(g)' PROVE Resting(g)'
    BY DEF OthersRest
  <2>1. CASE g = k
    BY <1>6, <2>1
  <2>2. CASE g # k
    <3>1. Resting(g)
      BY <1>5, <2>2 DEF Orderly, HoldsFit, OthersRest
    <3>. QED
      BY <2>2, <3>1, SameFits DEF Touches
  <2>. QED
    BY <2>1, <2>2
<1>9. ASSUME NEW y \in Threads, NEW f \in Progress(thr[y].calls), f.g # k
      PROVE  CallFits(f)'
  <2>1. CallFits(f) /\ f \in Frame
    BY Types, FramesFact DEF Orderly, HoldsFit, CallsFit, Progress
  <2>2. f.g \in Gens
    BY <2>1 DEF Frame
  <2>3. gen'[f.g] = gen[f.g] /\ thr'[f.g].at = thr[f.g].at
    BY <1>9, <2>2 DEF Touches
  <2>. QED
    BY <2>1, <2>3, SameFits
<1>10. CallsFit'
  <2>. SUFFICES ASSUME NEW y \in Threads, NEW f \in Progress(thr'[y].calls) PROVE CallFits(f)'
    BY DEF CallsFit
  <2>1. CASE y = x
    <3>1. CASE f \in F
      BY <3>1
    <3>2. CASE f \in Progress(Tail(thr[x].calls))
      BY <1>1, <1>9, <3>2
    <3>. QED
      BY <2>1, <3>1, <3>2
  <2>2. CASE y # x
    <3>1. f \in Progress(thr[y].calls)
      BY <2>2, Elsewhere
    <3>2. f.g # k
      BY <2>2, <3>1 DEF Holds
    <3>. QED
      BY <1>9, <3>1, <3>2
  <2>. QED
    BY <2>1, <2>2
<1>. QED
  BY <1>5, <1>6, <1>7, <1>8, <1>10 DEF HoldsFit

-----------------------------------------------------------------------------
(* The chain of active goroutines.                                         *)

Quiet(y) == thr'[y] = thr[y] /\ (y \in Gens => Like(gen'[y], gen[y]))

LEMMA QuietFacts ==
  ASSUME NEW y, Quiet(y)
  PROVE  /\ Active(y)' <=> Active(y)
         /\ Waiting(y)' <=> Waiting(y)
         /\ Top(y)' = Top(y)
<1>1. y \in Gens => (Due(y)' <=> Due(y)) /\ (Signalled(y)' <=> Signalled(y))
  BY DEF Quiet, Like, Due, Signalled, Signal
<1>2. Active(y)' <=> Active(y)
  BY <1>1 DEF Active, Quiet
<1>. QED
  BY <1>2 DEF Quiet, Waiting, InCall, Top

LEMMA ActiveFacts ==
  ASSUME NEW x \in Threads
  PROVE  /\ Moving(x) => Active(x) /\ ~ Waiting(x)
         /\ Active(x) /\ ~ Waiting(x) => Moving(x)
         /\ Waiting(x) => Active(x)
<1>1. x \in Gens /\ thr[x].at = "ended" => (Due(x) <=> gen[x].fin # "none")
  BY DEF Due
<1>2. x \in Gens /\ thr[x].at = "delegating"
        => (Signalled(x) <=> gen[x].done[gen[x].epoch] # "none")
  BY DEF Signalled, Signal
<1>3. Moving(x) => Active(x)
  BY <1>1, <1>2 DEF Moving, Active
<1>4. Moving(x) => ~ Waiting(x)
  BY DEF Moving, Waiting, InCall, Top
<1>5. Waiting(x) => Active(x)
  BY DEF Waiting, Active
<1>6. ASSUME Active(x), ~ Waiting(x) PROVE Moving(x)
  <2>1. CASE thr[x].at = "body"
    BY <1>6, <2>1 DEF Waiting, InCall, Top, Moving
  <2>2. CASE thr[x].at = "yielding"
    BY <2>2 DEF Moving
  <2>3. CASE x \in Gens /\ (Due(x) \/ Signalled(x))
    BY <2>3 DEF Due, Signalled, Signal, Moving
  <2>. QED
    BY <1>6, <2>1, <2>2, <2>3 DEF Active
<1>. QED
  BY <1>3, <1>4, <1>5, <1>6

LEMMA ActiveNext ==
  ASSUME NEW x \in Threads
  PROVE  /\ Moving(x)' => Active(x)' /\ ~ Waiting(x)'
         /\ Active(x)' /\ ~ Waiting(x)' => Moving(x)'
<1>1. (Moving(x) => Active(x) /\ ~ Waiting(x)) /\ (Active(x) /\ ~ Waiting(x) => Moving(x))
  BY ActiveFacts
<1>. QED
  BY <1>1, PTL

(* x goes on, whatever it does to itself.                                  *)
LEMMA ChainKept ==
  ASSUME OneMoves', InChain, NEW x \in Threads, Moving(x), Active(x)', ~ Waiting(x)',
         \A y \in Threads \ {x} : Quiet(y)
  PROVE  InChain'
<1>1. PICK depth \in [Threads -> Nat] : Chain(depth)
  BY DEF InChain
<1>2. \A y \in Threads : depth[y] \in Nat
  BY <1>1
<1>3. Active(x) /\ \A y \in Threads : Active(y) => depth[y] <= depth[x]
  BY <1>1, ActiveFacts DEF Chain
<1>4. \A y \in Threads \ {x} : (Active(y)' <=> Active(y)) /\ (Waiting(y)' <=> Waiting(y))
                               /\ Top(y)' = Top(y)
  BY QuietFacts
<1>5. \A y \in Threads : Moving(y)' => y = x
  BY ActiveNext DEF OneMoves
<1>6. \A y \in Threads : Active(y)' => Active(y)
  BY <1>3, <1>4
<1>7. \A y, z \in Threads : Active(y)' /\ Active(z)' /\ depth[y] = depth[z] => y = z
  BY <1>1, <1>6 DEF Chain
<1>8. \A y \in Threads, g \in Gens :
        Waiting(y)' /\ Top(y)'.g = g => Active(g)' /\ depth[g] = depth[y] + 1
  <2>. SUFFICES ASSUME NEW y \in Threads, NEW g \in Gens, Waiting(y)', Top(y)'.g = g
                PROVE  Active(g)' /\ depth[g] = depth[y] + 1
    OBVIOUS
  <2>1. y # x /\ Waiting(y) /\ Top(y).g = g
    BY <1>4
  <2>2. Active(g) /\ depth[g] = depth[y] + 1
    BY <1>1, <2>1 DEF Chain
  <2>3. g \in Threads
    BY DEF Threads
  <2>. QED
    BY <1>4, <2>2, <2>3
<1>9. \A y, z \in Threads : Active(y)' /\ Moving(z)' => depth[y] <= depth[z]
  BY <1>3, <1>5, <1>6
<1>10. \A y, z \in Threads : Active(y)' /\ Active(z)' /\ depth[y] < depth[z] =>
         Waiting(y)' /\ z \in Gens /\ Rank[z] <= Rank[Top(y)'.g]
  <2>. SUFFICES ASSUME NEW y \in Threads, NEW z \in Threads, Active(y)', Active(z)',
                       depth[y] < depth[z]
                PROVE  Waiting(y)' /\ z \in Gens /\ Rank[z] <= Rank[Top(y)'.g]
    OBVIOUS
  <2>1. Active(y) /\ Active(z) /\ y # x
    <3>1. depth[z] <= depth[x]
      BY <1>3, <1>6
    <3>2. y # x
      BY <1>2, <3>1
    <3>. QED
      BY <1>6, <3>2
  <2>2. Waiting(y) /\ z \in Gens /\ Rank[z] <= Rank[Top(y).g]
    BY <1>1, <2>1 DEF Chain
  <2>. QED
    BY <1>4, <2>1, <2>2
<1>11. Chain(depth)'
  BY <1>7, <1>8, <1>9, <1>10 DEF Chain
<1>. QED
  BY <1>1, <1>11 DEF InChain

(* x hands control to a body that it can reach and waits for it.           *)
LEMMA ChainPush ==
  ASSUME Inv, NoReentry, OneMoves', InChain, NEW x \in Threads, StackFits(x), Moving(x),
         thr[x].calls # <<>>, NEW k \in Gens, k = Top(x).g, k # x, ~ Active(k),
         Active(k)', ~ Waiting(k)', Waiting(x)', Top(x)'.g = k,
         \A y \in Threads \ {x, k} : Quiet(y)
  PROVE  InChain'
<1>1. PICK depth \in [Threads -> Nat] : Chain(depth)
  BY DEF InChain
<1>2. k \in Threads /\ \A y \in Threads : depth[y] \in Nat
  BY <1>1 DEF Threads
<1>3. Active(x) /\ \A y \in Threads : Active(y) => depth[y] <= depth[x]
  BY <1>1, ActiveFacts DEF Chain
<1>4. \A y \in Threads \ {x, k} : (Active(y)' <=> Active(y)) /\ (Waiting(y)' <=> Waiting(y))
                                  /\ Top(y)' = Top(y)
  BY QuietFacts
<1>5. \A y \in Threads : Moving(y)' => y = k
  BY <1>2, ActiveNext DEF OneMoves
<1>6. \A y \in Threads \ {k} : Active(y)' => Active(y)
  BY <1>3, <1>4
<1>. DEFINE new == [depth EXCEPT ![k] = depth[x] + 1]
<1>7. /\ new \in [Threads -> Nat] /\ new[k] = depth[x] + 1
      /\ \A y \in Threads \ {k} : new[y] = depth[y]
  BY <1>1, <1>2
<1>. HIDE DEF new
<1>8. \A y \in Threads \ {k} : Active(y)' => new[y] < new[k] /\ new[y] <= new[x] /\ depth[y] <= depth[x]
  <2>. SUFFICES ASSUME NEW y \in Threads \ {k}, Active(y)'
                PROVE  new[y] < new[k] /\ new[y] <= new[x] /\ depth[y] <= depth[x]
    OBVIOUS
  <2>1. depth[y] <= depth[x] /\ new[y] = depth[y] /\ new[x] = depth[x]
    BY <1>3, <1>6, <1>7
  <2>. QED
    BY <1>2, <1>7, <2>1
<1>9. \A y, z \in Threads : Active(y)' /\ Active(z)' /\ new[y] = new[z] => y = z
  <2>. SUFFICES ASSUME NEW y \in Threads, NEW z \in Threads, Active(y)', Active(z)',
                       new[y] = new[z]
                PROVE  y = z
    OBVIOUS
  <2>1. y # k /\ z # k => depth[y] = depth[z] /\ Active(y) /\ Active(z)
    BY <1>6, <1>7
  <2>2. y # k /\ z # k => y = z
    BY <1>1, <2>1 DEF Chain
  <2>3. y = k => z = k
    BY <1>2, <1>7, <1>8
  <2>4. z = k => y = k
    BY <1>2, <1>7, <1>8
  <2>. QED
    BY <2>2, <2>3, <2>4
<1>10. \A y \in Threads, g \in Gens :
         Waiting(y)' /\ Top(y)'.g = g => Active(g)' /\ new[g] = new[y] + 1
  <2>. SUFFICES ASSUME NEW y \in Threads, NEW g \in Gens, Waiting(y)', Top(y)'.g = g
                PROVE  Active(g)' /\ new[g] = new[y] + 1
    OBVIOUS
  <2>1. CASE y = x
    BY <1>7, <2>1
  <2>2. CASE y # x
    <3>1. y # k /\ Waiting(y) /\ Top(y).g = g
      BY <1>4, <2>2
    <3>2. Active(g) /\ depth[g] = depth[y] + 1
      BY <1>1, <3>1 DEF Chain
    <3>3. g \in Threads \ {k}
      BY <3>2 DEF Threads
    <3>4. Active(g)'
      <4>1. Active(x)'
        BY DEF Waiting, Active
      <4>. QED
        BY <1>4, <3>2, <3>3, <4>1
    <3>. QED
      BY <1>7, <3>1, <3>2, <3>3, <3>4
  <2>. QED
    BY <2>1, <2>2
<1>11. \A y, z \in Threads : Active(y)' /\ Moving(z)' => new[y] <= new[z]
  <2>. SUFFICES ASSUME NEW y \in Threads, NEW z \in Threads, Active(y)', Moving(z)'
                PROVE  new[y] <= new[z]
    OBVIOUS
  <2>1. z = k /\ new[k] \in Nat /\ new[y] \in Nat
    BY <1>5, <1>7
  <2>. QED
    BY <1>8, <2>1
<1>12. \A y, z \in Threads : Active(y)' /\ Active(z)' /\ new[y] < new[z] =>
         Waiting(y)' /\ z \in Gens /\ Rank[z] <= Rank[Top(y)'.g]
  <2>. SUFFICES ASSUME NEW y \in Threads, NEW z \in Threads, Active(y)', Active(z)',
                       new[y] < new[z]
                PROVE  Waiting(y)' /\ z \in Gens /\ Rank[z] <= Rank[Top(y)'.g]
    OBVIOUS
  <2>0. new[y] \in Nat /\ new[z] \in Nat /\ new[k] \in Nat
    BY <1>2, <1>7
  <2>1. y # k
    BY <1>8, <2>0
  <2>2. CASE z = k
    <3>1. Rank[k] \in Nat
      BY Ranks
    <3>2. CASE y = x
      BY <2>2, <3>1, <3>2
    <3>3. CASE y # x
      <4>1. Active(y) /\ depth[y] < depth[x]
        <5>1. Active(y) /\ depth[y] <= depth[x]
          BY <1>6, <1>8, <2>1
        <5>2. depth[y] # depth[x]
          BY <1>1, <1>3, <3>3, <5>1 DEF Chain
        <5>. QED
          BY <1>2, <5>1, <5>2
      <4>2. Waiting(y) /\ x \in Gens /\ Rank[x] <= Rank[Top(y).g]
        BY <1>1, <1>3, <4>1 DEF Chain
      <4>3. Rank[k] <= Rank[x] /\ Rank[x] \in Nat
        BY <4>2, Downward
      <4>4. Top(y).g \in Gens
        <5>1. InCall(y, Away)
          BY <4>2 DEF Waiting
        <5>. QED
          BY <5>1, TopFacts
      <4>5. Rank[k] <= Rank[Top(y).g]
        <5>1. Rank[Top(y).g] \in Nat
          BY <4>4, Ranks
        <5>. QED
          BY <3>1, <4>2, <4>3, <5>1
      <4>. QED
        BY <1>4, <2>1, <2>2, <3>3, <4>2, <4>5
    <3>. QED
      BY <3>2, <3>3
  <2>3. CASE z # k
    <3>1. Active(y) /\ Active(z) /\ depth[y] < depth[z] /\ depth[z] <= depth[x]
      BY <1>6, <1>7, <1>8, <2>1, <2>3
    <3>2. y # x
      BY <1>2, <3>1
    <3>3. Waiting(y) /\ z \in Gens /\ Rank[z] <= Rank[Top(y).g]
      BY <1>1, <3>1 DEF Chain
    <3>. QED
      BY <1>4, <2>1, <3>2, <3>3
  <2>. QED
    BY <2>2, <2>3
<1>13. Chain(new)'
  BY <1>9, <1>10, <1>11, <1>12 DEF Chain
<1>. QED
  BY <1>7, <1>13 DEF InChain

(* The body that x waits for hands control back.                           *)
LEMMA ChainPop ==
  ASSUME Inv, OneMoves', InChain, NEW x \in Threads, Waiting(x), NEW k \in Gens, k = Top(x).g,
         k # x, Moving(k), ~ Active(k)', Active(x)', ~ Waiting(x)',
         \A y \in Threads \ {x, k} : Quiet(y)
  PROVE  InChain'
<1>1. PICK depth \in [Threads -> Nat] : Chain(depth)
  BY DEF InChain
<1>2. k \in Threads /\ \A y \in Threads : depth[y] \in Nat
  BY <1>1 DEF Threads
<1>3. /\ Active(k) /\ Active(x) /\ depth[k] = depth[x] + 1
      /\ \A y \in Threads : Active(y) => depth[y] <= depth[k]
  BY <1>1, <1>2, ActiveFacts DEF Chain
<1>4. \A y \in Threads \ {x, k} : (Active(y)' <=> Active(y)) /\ (Waiting(y)' <=> Waiting(y))
                                  /\ Top(y)' = Top(y)
  BY QuietFacts
<1>5. \A y \in Threads : Moving(y)' => y = x
  BY ActiveNext DEF OneMoves
<1>6. \A y \in Threads : Active(y)' => y # k /\ Active(y) /\ depth[y] <= depth[x]
  <2>. SUFFICES ASSUME NEW y \in Threads, Active(y)'
                PROVE  y # k /\ Active(y) /\ depth[y] <= depth[x]
    OBVIOUS
  <2>1. y # k /\ Active(y)
    BY <1>3, <1>4
  <2>2. depth[y] <= depth[k] /\ depth[y] # depth[k]
    BY <1>1, <1>2, <1>3, <2>1 DEF Chain
  <2>. QED
    BY <1>2, <1>3, <2>1, <2>2
<1>7. \A y \in Threads : Waiting(y)' => y # k /\ y # x /\ Waiting(y) /\ Top(y)' = Top(y)
  <2>1. ~ Waiting(k)'
    BY DEF Waiting, Active
  <2>. QED
    BY <1>4, <2>1
<1>8. \A y, z \in Threads : Active(y)' /\ Active(z)' /\ depth[y] = depth[z] => y = z
  BY <1>1, <1>6 DEF Chain
<1>9. \A y \in Threads, g \in Gens :
        Waiting(y)' /\ Top(y)'.g = g => Active(g)' /\ depth[g] = depth[y] + 1
  <2>. SUFFICES ASSUME NEW y \in Threads, NEW g \in Gens, Waiting(y)', Top(y)'.g = g
                PROVE  Active(g)' /\ depth[g] = depth[y] + 1
    OBVIOUS
  <2>1. y # k /\ y # x /\ Waiting(y) /\ Top(y).g = g
    BY <1>7
  <2>2. Active(g) /\ depth[g] = depth[y] + 1 /\ Active(y)
    BY <1>1, <2>1, ActiveFacts DEF Chain
  <2>3. g # k
    <3>1. depth[y] # depth[x]
      BY <1>1, <1>3, <2>1, <2>2 DEF Chain
    <3>. QED
      BY <1>2, <1>3, <2>2, <3>1
  <2>4. g \in Threads
    BY DEF Threads
  <2>5. Active(g)'
    BY <1>4, <2>2, <2>3, <2>4
  <2>. QED
    BY <2>2, <2>5
<1>10. \A y, z \in Threads : Active(y)' /\ Moving(z)' => depth[y] <= depth[z]
  BY <1>5, <1>6
<1>11. \A y, z \in Threads : Active(y)' /\ Active(z)' /\ depth[y] < depth[z] =>
         Waiting(y)' /\ z \in Gens /\ Rank[z] <= Rank[Top(y)'.g]
  <2>. SUFFICES ASSUME NEW y \in Threads, NEW z \in Threads, Active(y)', Active(z)',
                       depth[y] < depth[z]
                PROVE  Waiting(y)' /\ z \in Gens /\ Rank[z] <= Rank[Top(y)'.g]
    OBVIOUS
  <2>1. Active(y) /\ Active(z) /\ depth[z] <= depth[x] /\ y # k
    BY <1>6
  <2>2. y # x
    BY <1>2, <2>1
  <2>3. Waiting(y) /\ z \in Gens /\ Rank[z] <= Rank[Top(y).g]
    BY <1>1, <2>1 DEF Chain
  <2>. QED
    BY <1>4, <2>1, <2>2, <2>3
<1>12. Chain(depth)'
  BY <1>8, <1>9, <1>10, <1>11 DEF Chain
<1>. QED
  BY <1>1, <1>12 DEF InChain

(* Nobody begins or ends to wait.                                          *)
LEMMA ChainSame ==
  ASSUME InChain,
         \A y \in Threads : /\ (Active(y)' <=> Active(y)) /\ (Waiting(y)' <=> Waiting(y))
                            /\ Top(y)'.g = Top(y).g
  PROVE  InChain'
<1>1. PICK depth \in [Threads -> Nat] : Chain(depth)
  BY DEF InChain
<1>2. \A y \in Threads : Moving(y)' => Moving(y)
  <2>1. \A y \in Threads : Moving(y)' => Active(y)' /\ ~ Waiting(y)'
    BY ActiveNext
  <2>. QED
    BY <2>1, ActiveFacts
<1>3. Chain(depth)'
  <2>1. \A g \in Gens : g \in Threads
    BY DEF Threads
  <2>. QED
    BY <1>1, <1>2, <2>1 DEF Chain
<1>. QED
  BY <1>1, <1>3 DEF InChain

-----------------------------------------------------------------------------
(* Steps                                                                   *)

(* What a step of x about the body k leaves to show.                       *)
LEMMA OrderlyStep ==
  ASSUME Inv, Orderly, Inv', NEW x \in Threads, NEW k \in Threads, Touches(x, k),
         StackFits(x)', InChain', HoldsFit', \A h \in Gens \ {k} : Held(h)' <=> Held(h),
         x # k => (Delegating(x)' => Delegating(x)),
         k \in Gens =>
           /\ gen[k].started => gen'[k].started
           /\ gen[k].status = "Closed" /\ ~ Held(k) => gen'[k].status = "Closed" /\ ~ Held(k)'
           /\ \A d \in Gens : gen'[k].delegate = d =>
                /\ d \in Delegates[k] /\ gen[d].started
                /\ thr'[k].at = "delegating" /\ Signal(k)' = "ok"
                     => gen[d].status = "Closed" /\ ~ Held(d)
           /\ gen'[k].forceClosing => ~ Delegating(k)'
  PROVE  Orderly'
<1>1. NoReentry
  BY DEF Orderly
<1>2. StacksFit'
  <2>. SUFFICES ASSUME NEW y \in Threads \ {x} PROVE StackFits(y)'
    BY DEF StacksFit
  <2>1. StackFits(y) /\ thr'[y].calls = thr[y].calls
    BY DEF Orderly, StacksFit, Touches
  <2>. QED
    BY <2>1 DEF StackFits, Sound
<1>3. \A h \in Gens : gen[h].started => gen'[h].started
  BY DEF Touches
<1>4. \A h \in Gens : gen[h].status = "Closed" /\ ~ Held(h) => gen'[h].status = "Closed" /\ ~ Held(h)'
  BY DEF Touches
<1>5. ASSUME NEW g \in Gens, g # k PROVE DelegateFits(g)'
  <2>1. DelegateFits(g) /\ gen'[g] = gen[g] /\ thr'[g].at = thr[g].at
    BY <1>5 DEF Orderly, DelegatesFit, Touches
  <2>2. Signal(g)' = Signal(g)
    BY <2>1 DEF Signal
  <2>3. ASSUME NEW d \in Gens, gen'[g].delegate = d
        PROVE  /\ d \in Delegates[g] /\ gen'[d].started
               /\ thr'[g].at = "delegating" /\ Signal(g)' = "ok"
                    => gen'[d].status = "Closed" /\ ~ Held(d)'
    <3>1. /\ d \in Delegates[g] /\ gen[d].started
          /\ thr'[g].at = "delegating" /\ Signal(g)' = "ok"
               => gen[d].status = "Closed" /\ ~ Held(d)
      BY <2>1, <2>2, <2>3 DEF DelegateFits
    <3>. QED
      BY <1>3, <1>4, <3>1
  <2>5. gen'[g].forceClosing => ~ Delegating(g)'
    <3>1. Delegating(g)' => Delegating(g)
      <4>1. CASE g = x
        BY <1>5, <4>1
      <4>2. CASE g # x
        <5>1. thr'[g].calls = thr[g].calls
          BY <4>2 DEF Touches, Threads
        <5>. QED
          BY <5>1 DEF Delegating
      <4>. QED
        BY <4>1, <4>2
    <3>. QED
      BY <2>1, <3>1 DEF DelegateFits
  <2>. QED
    BY <2>3, <2>5 DEF DelegateFits
<1>6. ASSUME k \in Gens PROVE DelegateFits(k)'
  BY <1>3, <1>4, <1>6 DEF DelegateFits
<1>. QED
  BY <1>1, <1>2, <1>5, <1>6 DEF Orderly, DelegatesFit

(* x goes on in its calls.                                                 *)
Moved(x) ==
    /\ \A y \in Threads \ {x} : thr'[y] = thr[y]
    /\ thr'[x].at = "body" /\ Sound(thr'[x].calls, x) /\ (Delegating(x)' => Delegating(x))

LEMMA MovedTouches ==
  ASSUME NEW x \in Threads, thr[x].at = "body", Moved(x), NEW k \in Threads,
         \A h \in Gens \ {k} : gen'[h] = gen[h]
  PROVE  /\ Touches(x, k) /\ StackFits(x)'
         /\ \A h \in Gens : thr'[h].at = thr[h].at
BY DEF Moved, Touches, StackFits, Threads

LEMMA ReturnMoves ==
  ASSUME Inv, Orderly, NEW x \in Threads, thr[x].calls # <<>>, NEW r \in Msgs,
         NEW th, th = Returned(x, r), thr'[x] = th
  PROVE  /\ Sound(thr'[x].calls, x) /\ thr'[x].at = "body" /\ (Delegating(x)' => Delegating(x))
         /\ Progress(thr'[x].calls) = Progress(Tail(thr[x].calls))
         /\ Active(x)' /\ ~ Waiting(x)'
<1>1. NoReentry /\ StackFits(x)
  BY DEF Orderly, StacksFit
<1>2. thr'[x].at = "body" /\ Frames(thr'[x].calls) \subseteq Frames(thr[x].calls)
  BY <1>1, TopSplit, ReturnedFacts
<1>3. /\ Sound(thr'[x].calls, x)
      /\ Progress(thr'[x].calls) = Progress(Tail(thr[x].calls))
      /\ (thr'[x].calls # <<>> => Head(thr'[x].calls).op \notin Away)
  BY <1>1, ReturnStack
<1>4. Active(x)' /\ ~ Waiting(x)'
  BY <1>2, <1>3 DEF Active, Waiting, InCall, Top
<1>5. Delegating(x)' => Delegating(x)
  BY <1>2 DEF Delegating
<1>. QED
  BY <1>2, <1>3, <1>4, <1>5

LEMMA BecomeMoves ==
  ASSUME Inv, Orderly, NEW x \in Threads, thr[x].calls # <<>>,
         NEW f \in Frame, f.g = Top(x).g, f.op # "yieldfrom",
         Top(x).op \in Starting => f.op \in Starting,
         NEW th, th = Becoming(thr[x], f), thr'[x].calls = th.calls, thr'[x].at = th.at
  PROVE  /\ Sound(thr'[x].calls, x) /\ thr'[x].at = "body" /\ (Delegating(x)' => Delegating(x))
         /\ Progress(thr'[x].calls) = Progress(Tail(thr[x].calls))
              \cup (IF f.op \in InProgress THEN {f} ELSE {})
         /\ Active(x)' /\ Top(x)' = f /\ (Waiting(x)' <=> f.op \in Away)
<1>1. NoReentry /\ StackFits(x)
  BY DEF Orderly, StacksFit
<1>2. thr'[x].at = "body" /\ Frames(thr'[x].calls) \subseteq {f} \cup Frames(thr[x].calls)
  <2>1. thr[x] \in Thread /\ thr[x].at = "body"
    BY <1>1, TopSplit
  <2>. QED
    BY <2>1, BecomingFacts
<1>3. /\ Sound(thr'[x].calls, x) /\ thr'[x].calls # <<>> /\ Head(thr'[x].calls) = f
      /\ Progress(thr'[x].calls) = Progress(Tail(thr[x].calls))
           \cup (IF f.op \in InProgress THEN {f} ELSE {})
  BY <1>1, BecomeStack
<1>4. Active(x)' /\ Top(x)' = f /\ (Waiting(x)' <=> f.op \in Away)
  BY <1>2, <1>3 DEF Active, Waiting, InCall, Top
<1>5. Delegating(x)' => Delegating(x)
  BY <1>2 DEF Delegating
<1>. QED
  BY <1>2, <1>3, <1>4, <1>5

(* Another call in progress takes the place of the top one.                *)
LEMMA BecomeCall ==
  ASSUME Inv, Orderly, NEW x \in Threads, thr[x].calls # <<>>,
         NEW f \in Frame, f.g = Top(x).g, f.op \in InProgress \ Away,
         Top(x).op \in Starting => f.op \in Starting, thr'[x] = Becoming(thr[x], f)
  PROVE  /\ Sound(thr'[x].calls, x) /\ thr'[x].at = "body" /\ (Delegating(x)' => Delegating(x))
         /\ Progress(thr'[x].calls) = Progress(Tail(thr[x].calls)) \cup {f}
         /\ Active(x)' /\ ~ Waiting(x)'
<1>1. f.op # "yieldfrom" /\ f.op \in InProgress /\ f.op \notin Away
  BY DEF InProgress
<1>2. /\ Sound(thr'[x].calls, x) /\ thr'[x].at = "body" /\ (Delegating(x)' => Delegating(x))
      /\ Progress(thr'[x].calls) = Progress(Tail(thr[x].calls))
           \cup (IF f.op \in InProgress THEN {f} ELSE {})
      /\ Active(x)' /\ (Waiting(x)' <=> f.op \in Away)
  BY <1>1, BecomeMoves
<1>. QED
  BY <1>1, <1>2

LEMMA PushMoves ==
  ASSUME Inv, Orderly, NEW x \in Threads, thr[x].calls # <<>>,
         NEW f \in Frame, f.g = Top(x).g, f.op \in Chained, Top(x).op \notin Starting,
         NEW c \in Frame, c.op \in Entries, c.g = f.inner, Rank[f.inner] < Rank[f.g],
         thr'[x] = Calling(Becoming(thr[x], f), c)
  PROVE  /\ Sound(thr'[x].calls, x) /\ thr'[x].at = "body" /\ (Delegating(x)' => Delegating(x))
         /\ Progress(thr'[x].calls) = Progress(Tail(thr[x].calls)) \cup {f}
         /\ Active(x)' /\ ~ Waiting(x)'
<1>1. NoReentry /\ StackFits(x)
  BY DEF Orderly, StacksFit
<1>2. c.op # "yieldfrom" /\ c.op \notin InProgress /\ c.op \notin Away /\ f.op # "yieldfrom"
  BY DEF Entries, InProgress, Away, Chained
<1>3. PICK th \in Thread : /\ th = Becoming(thr[x], f) /\ th.at = "body"
                           /\ Frames(th.calls) \subseteq {f} \cup Frames(thr[x].calls)
  <2>1. thr[x] \in Thread /\ thr[x].at = "body"
    BY <1>1, TopSplit
  <2>. DEFINE t == Becoming(thr[x], f)
  <2>2. t \in Thread /\ t.at = thr[x].at /\ Frames(t.calls) \subseteq {f} \cup Frames(thr[x].calls)
    BY <2>1, BecomingFacts
  <2>. HIDE DEF t
  <2>3. t \in Thread /\ t.at = "body" /\ Frames(t.calls) \subseteq {f} \cup Frames(thr[x].calls)
    BY <2>1, <2>2
  <2>. QED
    BY <2>3 DEF t
<1>4. thr'[x].at = "body" /\ Frames(thr'[x].calls) = {c} \cup Frames(th.calls)
  <2>. DEFINE t == Calling(th, c)
  <2>1. t.at = th.at /\ Frames(t.calls) = {c} \cup Frames(th.calls)
    BY CallingFacts
  <2>2. thr'[x] = t
    BY <1>3
  <2>. HIDE DEF t
  <2>. QED
    BY <1>3, <2>1, <2>2
<1>5. /\ Sound(thr'[x].calls, x) /\ thr'[x].calls # <<>> /\ Head(thr'[x].calls) = c
      /\ Progress(thr'[x].calls) = Progress(Tail(thr[x].calls)) \cup {f}
  BY <1>1, <1>2, PushStack
<1>6. Active(x)' /\ ~ Waiting(x)'
  BY <1>2, <1>4, <1>5 DEF Active, Waiting, InCall, Top
<1>7. Delegating(x)' => Delegating(x)
  BY <1>2, <1>3, <1>4 DEF Delegating
<1>. QED
  BY <1>4, <1>5, <1>6, <1>7

(* The step of a call that keeps control, and leaves what others wait for. *)
LEMMA TopStep ==
  ASSUME Inv, Inv', Orderly, NEW x \in Threads, thr[x].calls # <<>>, Moving(x),
         NEW k \in Gens, k = Top(x).g, k # x, Moved(x), Active(x)', ~ Waiting(x)',
         \A h \in Gens \ {k} : gen'[h] = gen[h], Like(gen'[k], gen[k]),
         \A y \in Threads \ {x} : ~ Holds(y, k),
         NEW F, Progress(thr'[x].calls) = Progress(Tail(thr[x].calls)) \cup F,
         \A f \in F : f.g = k /\ CallFits(f)', F = {} => Resting(k)',
         gen[k].started => gen'[k].started, gen[k].status # "Closed" \/ Held(k),
         gen'[k].forceClosing => ~ Delegating(k)
  PROVE  Orderly'
<1>1. k \in Threads /\ thr[x].at = "body" /\ thr'[k] = thr[k]
  BY TopSplit DEF Orderly, StacksFit, Threads, Moved
<1>2. Touches(x, k) /\ StackFits(x)'
  BY <1>1, MovedTouches
<1>3. InChain'
  <2>1. \A y \in Threads \ {x} : Quiet(y)
    BY DEF Quiet, Moved, Like
  <2>. QED
    BY <2>1, ChainKept DEF Inv, Orderly
<1>4. HoldsFit' /\ \A h \in Gens \ {k} : Held(h)' <=> Held(h)
  BY <1>2, HoldTop
<1>5. DelegateFits(k) /\ GenFits(k)
  BY DEF Orderly, DelegatesFit, Inv, GensFit
<1>6. Signal(k)' = Signal(k) /\ gen'[k].delegate = gen[k].delegate /\ (Delegating(k)' <=> Delegating(k))
  BY <1>1 DEF Signal, Like, Delegating
<1>7. \A d \in Gens : gen'[k].delegate = d =>
        /\ d \in Delegates[k] /\ gen[d].started
        /\ thr'[k].at = "delegating" /\ Signal(k)' = "ok"
             => gen[d].status = "Closed" /\ ~ Held(d)
  BY <1>1, <1>5, <1>6 DEF DelegateFits
<1>8. Delegating(x)' => Delegating(x)
  BY DEF Moved
<1>. QED
  BY <1>1, <1>2, <1>3, <1>4, <1>6, <1>7, <1>8, OrderlyStep

LEMMA TopGoesOn ==
  ASSUME Inv, Inv', Orderly, NEW x \in Threads, thr[x].calls # <<>>, Moving(x),
         NEW k \in Gens, k = Top(x).g, k # x, Moved(x), Active(x)', ~ Waiting(x)',
         \A h \in Gens \ {k} : gen'[h] = gen[h], Like(gen'[k], gen[k]),
         \A y \in Threads \ {x} : ~ Holds(y, k),
         NEW f, Progress(thr'[x].calls) = Progress(Tail(thr[x].calls)) \cup {f},
         f.g = k, CallFits(f)',
         gen[k].started => gen'[k].started, gen[k].status # "Closed",
         gen'[k].forceClosing => ~ Delegating(k)
  PROVE  Orderly'
<1>. DEFINE F == {f}
<1>1. /\ Progress(thr'[x].calls) = Progress(Tail(thr[x].calls)) \cup F
      /\ (F = {} => Resting(k)') /\ \A q \in F : q = f
  OBVIOUS
<1>2. \A q \in F : q.g = k /\ CallFits(q)'
  BY <1>1
<1>. HIDE DEF F
<1>. QED
  BY <1>1, <1>2, TopStep

LEMMA ReturnEntry ==
  ASSUME Inv, Inv', Orderly, NEW x \in Threads, thr[x].calls # <<>>, Top(x).op \notin InProgress,
         NEW r \in Msgs, Return(x, r),
         NEW k \in Gens, \A h \in Gens \ {k} : gen'[h] = gen[h],
         gen'[k] = gen[k] \/ (gen[k].status # "Suspended" /\ gen'[k] = [gen[k] EXCEPT !.valid = FALSE])
  PROVE  Orderly'
<1>1. /\ k \in Threads /\ thr[x].at = "body" /\ Top(x).op \notin Away
      /\ Progress(thr[x].calls) = Progress(Tail(thr[x].calls))
  <2>1. NoReentry /\ StackFits(x) /\ k \in Threads /\ Top(x).op \notin Away
    BY DEF Orderly, StacksFit, Threads, Away, InProgress
  <2>2. /\ thr[x].at = "body"
        /\ Progress(thr[x].calls) = Progress(Tail(thr[x].calls))
             \cup (IF Top(x).op \in InProgress THEN {Top(x)} ELSE {})
    BY <2>1, TopSplit
  <2>3. Progress(thr[x].calls) = Progress(Tail(thr[x].calls))
    BY <2>2
  <2>. QED
    BY <2>1, <2>2, <2>3
<1>2. Moving(x)
  BY <1>1 DEF Moving, Top
<1>3. thr'[x] = Returned(x, r) /\ \A y \in Threads \ {x} : thr'[y] = thr[y]
  BY DEF Return, Inv, Typed
<1>4. /\ Moved(x) /\ Active(x)' /\ ~ Waiting(x)'
      /\ Progress(thr'[x].calls) = Progress(thr[x].calls)
  BY <1>1, <1>3, ReturnMoves DEF Moved
<1>5. Touches(x, k) /\ StackFits(x)' /\ thr'[k].at = thr[k].at
  BY <1>1, <1>4, MovedTouches
<1>6. /\ Like(gen'[k], gen[k]) /\ gen'[k].status = gen[k].status
      /\ gen'[k].started = gen[k].started /\ gen'[k].forceClosing = gen[k].forceClosing
      /\ gen'[k].valid = gen[k].valid \/ (gen[k].status # "Suspended" /\ gen'[k].valid = FALSE)
  <2>1. gen[k] \in GeneratorState
    BY Types
  <2>. QED
    BY <2>1 DEF Like, GeneratorState
<1>7. InChain'
  <2>1. \A y \in Threads \ {x} : Quiet(y)
    BY <1>3, <1>6 DEF Quiet, Like
  <2>. QED
    BY <1>2, <1>4, <2>1, ChainKept DEF Inv, Orderly
<1>8. Signal(k)' = Signal(k) /\ (Signalled(k)' <=> Signalled(k)) /\ (Due(k)' <=> Due(k))
  BY <1>5, <1>6 DEF Like, Signal, Signalled, Due
<1>9. HoldsFit' /\ \A h \in Gens : Held(h)' <=> Held(h)
  <2>1. ASSUME NEW f \in Frame, f.g = k, CallFits(f) PROVE CallFits(f)'
    <3>1. gen'[k].delegate = gen[k].delegate /\ gen'[k].epoch = gen[k].epoch
      BY <1>6 DEF Like
    <3>. QED
      BY <1>5, <1>6, <1>8, <2>1, <3>1 DEF CallFits
  <2>2. Resting(k) => Resting(k)'
    BY <1>5, <1>6, <1>8 DEF Resting
  <2>. QED
    BY <1>1, <1>4, <1>5, <2>1, <2>2, HoldSame
<1>10. DelegateFits(k) /\ (Delegating(k)' => Delegating(k)) /\ (Delegating(x)' => Delegating(x))
  BY <1>1, <1>3, <1>4 DEF Orderly, DelegatesFit, Delegating, Moved
<1>11. \A d \in Gens : gen'[k].delegate = d =>
        /\ d \in Delegates[k] /\ gen[d].started
        /\ thr'[k].at = "delegating" /\ Signal(k)' = "ok"
             => gen[d].status = "Closed" /\ ~ Held(d)
  BY <1>5, <1>6, <1>8, <1>10 DEF DelegateFits, Like
<1>12. gen'[k].forceClosing => ~ Delegating(k)'
  BY <1>6, <1>10 DEF DelegateFits
<1>. QED
  BY <1>1, <1>5, <1>6, <1>7, <1>9, <1>10, <1>11, <1>12, OrderlyStep

-----------------------------------------------------------------------------
(* Calls begin                                                             *)

LEMMA StartOrderly ==
  ASSUME Inv, Inv', Orderly, NEW x \in Threads, Start(x) PROVE Orderly'
<1>. DEFINE k == Top(x).g
<1>1. /\ InCall(x, {"start"}) /\ thr[x].calls # <<>> /\ thr[x].at = "body" /\ Top(x).op = "start"
      /\ k \in Gens /\ k \in Threads /\ gen[k] \in GeneratorState /\ Moving(x)
      /\ Top(x).op \notin InProgress
  BY TopFacts, Types DEF Start, Away, InProgress
<1>2. CASE Return(x, "ok") /\ UNCHANGED gen
  BY <1>1, <1>2, ReturnEntry DEF Msgs
<1>3. CASE /\ ~ gen[k].started /\ gen[k].status # "Closed"
           /\ gen' = [gen EXCEPT ![k].started = TRUE, ![k].status = "Running"]
           /\ Become(x, Call("resume", k))
  <2>1. \A y \in Threads : ~ Holds(y, k)
    <3>. SUFFICES ASSUME NEW y \in Threads, NEW f \in Progress(thr[y].calls), f.g = k
                  PROVE  FALSE
      BY DEF Holds
    <3>1. CallFits(f)
      BY DEF Orderly, HoldsFit, CallsFit
    <3>. QED
      BY <1>3, <3>1 DEF CallFits
  <2>2. /\ Resting(k) /\ gen[k].status = "Created" /\ thr[k].at = "born"
        /\ ~ gen[k].forceClosing
    <3>1. Resting(k)
      BY <1>1, <2>1 DEF Orderly, HoldsFit, OthersRest, Held
    <3>. QED
      BY <1>3, <3>1 DEF Resting
  <2>3. PICK f \in Frame : f = Call("resume", k)
    BY <1>1, CallFacts DEF InProgress
  <2>4. f.op = "resume" /\ f.g = k /\ f.msg = "ok"
    BY <2>3 DEF Call
  <2>5. thr'[x] = Becoming(thr[x], f) /\ \A y \in Threads \ {x} : thr'[y] = thr[y]
    BY <1>3, <2>3 DEF Become, Inv, Typed
  <2>6. /\ gen'[k].started = TRUE /\ gen'[k].status = "Running" /\ Like(gen'[k], gen[k])
        /\ gen'[k].forceClosing = gen[k].forceClosing
        /\ \A h \in Gens \ {k} : gen'[h] = gen[h]
    BY <1>1, <1>3 DEF Inv, Typed, GeneratorState, Like
  <2>7. /\ Sound(thr'[x].calls, x) /\ thr'[x].at = "body" /\ (Delegating(x)' => Delegating(x))
        /\ Progress(thr'[x].calls) = Progress(Tail(thr[x].calls)) \cup {f}
        /\ Active(x)' /\ ~ Waiting(x)'
    <3>1. f.op \in Starting /\ f.op \in InProgress \ Away
      BY <2>4 DEF Starting, InProgress, Away
    <3>. QED
      BY <1>1, <2>4, <2>5, <3>1, BecomeCall
  <2>8. Moved(x) /\ k # x /\ thr'[k] = thr[k]
    BY <1>1, <2>2, <2>5, <2>7 DEF Moved
  <2>9. CallFits(f)'
    BY <2>2, <2>4, <2>6, <2>8 DEF CallFits, Closer, Chained
  <2>10. gen'[k].forceClosing => ~ Delegating(k)
    BY <2>2, <2>6
  <2>. HIDE DEF k
  <2>. QED
    BY <1>1, <1>3, <2>1, <2>4, <2>6, <2>7, <2>8, <2>9, <2>10, TopGoesOn DEF k
<1>. QED
  BY <1>2, <1>3 DEF Start

LEMMA AdvanceRefusedOrderly ==
  ASSUME Inv, Inv', Orderly, NEW x \in Threads, AdvanceRefused(x) PROVE Orderly'
<1>. DEFINE k == Top(x).g
<1>1. /\ thr[x].calls # <<>> /\ k \in Gens /\ gen[k] \in GeneratorState
      /\ Top(x).op \notin InProgress
  BY TopFacts, Types DEF AdvanceRefused, InProgress
<1>2. PICK r \in Msgs : Return(x, r)
  BY DEF AdvanceRefused, Msgs
<1>3. /\ \A h \in Gens \ {k} : gen'[h] = gen[h]
      /\ gen'[k] = gen[k] \/ (gen[k].status # "Suspended" /\ gen'[k] = [gen[k] EXCEPT !.valid = FALSE])
  BY <1>1 DEF AdvanceRefused, Inv, Typed
<1>. QED
  BY <1>1, <1>2, <1>3, ReturnEntry

(* The goroutine of a suspended generator that no call in progress is on.  *)
LEMMA SuspendedFacts ==
  ASSUME Inv, Orderly, NEW x \in Threads, InCall(x, {"advance", "throw", "close"}),
         NEW k, k = Top(x).g, gen[k].status = "Suspended"
  PROVE  /\ thr[x].calls # <<>> /\ thr[x].at = "body" /\ Moving(x) /\ Top(x) \in Frame
         /\ Top(x).op \in {"advance", "throw", "close"}
         /\ k \in Gens /\ k \in Threads /\ k # x /\ gen[k] \in GeneratorState
         /\ \A y \in Threads : ~ Holds(y, k)
         /\ gen[k].started /\ ~ gen[k].forceClosing /\ ~ Delegating(k)
         /\ gen[k].delegate = None => thr[k].at = "parked"
         /\ gen[k].delegate # None =>
              thr[k].at = "delegating" /\ ~ Signalled(k)
              /\ gen[k].delegate \in Gens /\ Rank[gen[k].delegate] < Rank[k]
<1>1. /\ thr[x].calls # <<>> /\ thr[x].at = "body" /\ Moving(x) /\ Top(x) \in Frame
      /\ Top(x).op \in {"advance", "throw", "close"}
      /\ k \in Gens /\ k \in Threads /\ gen[k] \in GeneratorState
  BY TopFacts, Types DEF Away
<1>2. ~ Held(k) /\ \A y \in Threads : ~ Holds(y, k)
  BY FreeToCall DEF Held
<1>3. Resting(k)
  BY <1>1, <1>2 DEF Orderly, HoldsFit, OthersRest
<1>4. /\ gen[k].started /\ ~ gen[k].forceClosing
      /\ thr[k].at = "parked" \/ (thr[k].at = "delegating" /\ ~ Signalled(k))
  BY <1>3 DEF Resting
<1>5. GenFits(k) /\ ThreadFits(k)
  BY <1>1 DEF Inv, GensFit, ThreadsFit
<1>6. ~ Delegating(k)
  BY <1>4, <1>5, NoFrames DEF ThreadFits, Delegating
<1>7. gen[k].delegate = None => thr[k].at = "parked"
  BY <1>4, <1>5 DEF GenFits
<1>8. gen[k].delegate # None =>
        thr[k].at = "delegating" /\ ~ Signalled(k)
        /\ gen[k].delegate \in Gens /\ Rank[gen[k].delegate] < Rank[k]
  <2>1. gen[k].delegate \in Gens \cup {None}
    BY <1>1 DEF GeneratorState
  <2>2. gen[k].delegate # None => gen[k].delegate \in Delegates[k]
    BY <1>1, <2>1 DEF Orderly, DelegatesFit, DelegateFits
  <2>3. gen[k].delegate # None => Rank[gen[k].delegate] < Rank[k]
    BY <1>1, <2>2, Ranks DEF Orderly
  <2>. QED
    BY <1>4, <1>5, <2>1, <2>3 DEF GenFits
<1>. QED
  BY <1>1, <1>2, <1>4, <1>6, <1>7, <1>8

LEMMA AdvanceOrderly ==
  ASSUME Inv, Inv', Orderly, NEW x \in Threads, Advance(x) PROVE Orderly'
<1>1. PICK k : k = Top(x).g
  OBVIOUS
<1>2. gen[k].status = "Suspended" /\ InCall(x, {"advance", "throw"})
      /\ InCall(x, {"advance", "throw", "close"})
  BY <1>1 DEF Advance, InCall
<1>3. /\ thr[x].calls # <<>> /\ thr[x].at = "body" /\ Moving(x) /\ Top(x) \in Frame
      /\ Top(x).op \in {"advance", "throw"}
      /\ k \in Gens /\ k \in Threads /\ k # x /\ gen[k] \in GeneratorState
      /\ \A y \in Threads : ~ Holds(y, k)
      /\ gen[k].started /\ ~ gen[k].forceClosing /\ ~ Delegating(k)
  BY <1>1, <1>2, SuspendedFacts DEF InCall
<1>4. CASE /\ gen[k].delegate # None
           /\ gen' = [gen EXCEPT ![k].advanced = TRUE]
           /\ thr' = [thr EXCEPT ![x] =
                Calling(Becoming(@, [Top(x) EXCEPT !.op = "deleg", !.inner = gen[k].delegate,
                                                   !.ch = gen[k].epoch]),
                        Call(Top(x).op, gen[k].delegate))]
  <2>1. /\ thr[k].at = "delegating" /\ ~ Signalled(k)
        /\ gen[k].delegate \in Gens /\ Rank[gen[k].delegate] < Rank[k]
    BY <1>1, <1>2, <1>4, SuspendedFacts
  <2>2. PICK f \in Frame :
          /\ f = [Top(x) EXCEPT !.op = "deleg", !.inner = gen[k].delegate, !.ch = gen[k].epoch]
          /\ f.op = "deleg" /\ f.g = k /\ f.inner = gen[k].delegate /\ f.ch = gen[k].epoch
    <3>1. gen[k].epoch \in 0 .. MostFuel
      BY <1>3 DEF GeneratorState
    <3>2. [Top(x) EXCEPT !.op = "deleg", !.inner = gen[k].delegate, !.ch = gen[k].epoch] \in Frame
      BY <1>3, <2>1, <3>1 DEF Frame, InProgress
    <3>. QED
      BY <1>1, <1>3, <3>2 DEF Frame
  <2>3. PICK c \in Frame : /\ c = Call(Top(x).op, gen[k].delegate)
                           /\ c.op \in Entries /\ c.g = f.inner
    <3>1. Top(x).op \in Entries
      BY <1>3 DEF Entries
    <3>. QED
      BY <2>1, <2>2, <3>1, CallFacts
  <2>4. thr'[x] = Calling(Becoming(thr[x], f), c) /\ \A y \in Threads \ {x} : thr'[y] = thr[y]
    BY <1>4, <2>2, <2>3 DEF Inv, Typed
  <2>5. /\ gen'[k].started = gen[k].started /\ gen'[k].status = gen[k].status
        /\ gen'[k].forceClosing = gen[k].forceClosing /\ Like(gen'[k], gen[k])
        /\ \A h \in Gens \ {k} : gen'[h] = gen[h]
    BY <1>3, <1>4 DEF Inv, Typed, GeneratorState, Like
  <2>6. /\ Sound(thr'[x].calls, x) /\ thr'[x].at = "body" /\ (Delegating(x)' => Delegating(x))
        /\ Progress(thr'[x].calls) = Progress(Tail(thr[x].calls)) \cup {f}
        /\ Active(x)' /\ ~ Waiting(x)'
    <3>1. f.op \in Chained /\ Top(x).op \notin Starting /\ Rank[f.inner] < Rank[f.g]
      BY <1>3, <2>1, <2>2 DEF Chained, Starting
    <3>. QED
      <4>1. /\ thr[x].calls # <<>> /\ f.g = Top(x).g /\ c.op \in Entries /\ c.g = f.inner
            /\ thr'[x] = Calling(Becoming(thr[x], f), c)
        BY <1>1, <1>3, <2>2, <2>3, <2>4
      <4>. QED
        BY <3>1, <4>1, PushMoves
  <2>7. Moved(x) /\ thr'[k] = thr[k]
    BY <1>3, <2>4, <2>6 DEF Moved
  <2>8. CallFits(f)'
    <3>1. ~ Signalled(k)' /\ gen'[k].delegate = gen[k].delegate /\ gen'[k].epoch = gen[k].epoch
      BY <2>1, <2>5, <2>7 DEF Signalled, Signal, Like
    <3>. QED
      BY <1>2, <1>3, <2>1, <2>2, <2>5, <2>7, <3>1 DEF CallFits, Closer, Chained
  <2>. QED
    BY <1>1, <1>2, <1>3, <2>2, <2>5, <2>6, <2>7, <2>8, TopGoesOn
<1>5. CASE /\ gen[k].delegate = None
           /\ gen' = [gen EXCEPT ![k].advanced = TRUE, ![k].status = "Running"]
           /\ Become(x, [Top(x) EXCEPT !.op = "resume",
                                       !.msg = IF Top(x).op = "throw" THEN "throw" ELSE "ok"])
  <2>1. thr[k].at = "parked"
    BY <1>1, <1>2, <1>5, SuspendedFacts
  <2>2. PICK f \in Frame :
          /\ f = [Top(x) EXCEPT !.op = "resume", !.msg = IF Top(x).op = "throw" THEN "throw" ELSE "ok"]
          /\ f.op = "resume" /\ f.g = k
    <3>1. [Top(x) EXCEPT !.op = "resume", !.msg = IF Top(x).op = "throw" THEN "throw" ELSE "ok"]
            \in Frame
      BY <1>3 DEF Frame, InProgress, Msgs
    <3>. QED
      BY <1>1, <1>3, <3>1 DEF Frame
  <2>4. thr'[x] = Becoming(thr[x], f) /\ \A y \in Threads \ {x} : thr'[y] = thr[y]
    BY <1>5, <2>2 DEF Become, Inv, Typed
  <2>5. /\ gen'[k].started = gen[k].started /\ gen'[k].status = "Running"
        /\ gen'[k].forceClosing = gen[k].forceClosing /\ Like(gen'[k], gen[k])
        /\ \A h \in Gens \ {k} : gen'[h] = gen[h]
    BY <1>3, <1>5 DEF Inv, Typed, GeneratorState, Like
  <2>6. /\ Sound(thr'[x].calls, x) /\ thr'[x].at = "body" /\ (Delegating(x)' => Delegating(x))
        /\ Progress(thr'[x].calls) = Progress(Tail(thr[x].calls)) \cup {f}
        /\ Active(x)' /\ ~ Waiting(x)'
    <3>1. f.op \in Starting /\ f.op \in InProgress \ Away
      BY <2>2 DEF Starting, InProgress, Away
    <3>. QED
      BY <1>1, <1>3, <2>2, <2>4, <3>1, BecomeCall
  <2>7. Moved(x) /\ thr'[k] = thr[k]
    BY <1>3, <2>4, <2>6 DEF Moved
  <2>8. CallFits(f)'
    BY <1>3, <2>1, <2>2, <2>5, <2>7 DEF CallFits, Closer, Chained
  <2>. QED
    BY ZenonT(60), <1>1, <1>2, <1>3, <2>2, <2>5, <2>6, <2>7, <2>8, TopGoesOn
<1>. QED
  BY <1>1, <1>4, <1>5 DEF Advance

LEMMA ForceCloseOrderly ==
  ASSUME Inv, Inv', Orderly, NEW x \in Threads, ForceClose(x) PROVE Orderly'
<1>1. PICK k : k = Top(x).g
  OBVIOUS
<1>2. InCall(x, {"close"}) /\ InCall(x, {"advance", "throw", "close"})
  BY DEF ForceClose, InCall
<1>3. CASE Return(x, "ok") /\ UNCHANGED gen
  <2>1. thr[x].calls # <<>> /\ Top(x).op \notin InProgress /\ k \in Gens
    BY <1>1, <1>2, TopFacts DEF InProgress
  <2>. QED
    BY <1>3, <2>1, ReturnEntry DEF Msgs
<1>4. CASE /\ gen[k].status = "Suspended"
           /\ gen' = [gen EXCEPT ![k].forceClosing = TRUE, ![k].status = "Running"]
           /\ thr' = [thr EXCEPT ![x] =
                IF gen[k].delegate = None
                THEN Becoming(@, [Top(x) EXCEPT !.op = "resumeclose", !.msg = "close"])
                ELSE IF Unreferenced(gen[k].delegate)
                THEN Calling(Becoming(@, [Top(x) EXCEPT !.op = "closedeleg", !.inner = gen[k].delegate,
                                                        !.ch = gen[k].epoch]),
                             Call("close", gen[k].delegate))
                ELSE Becoming(@, [Top(x) EXCEPT !.op = "closedeleg", !.inner = gen[k].delegate,
                                                !.ch = gen[k].epoch])]
  <2>1. /\ thr[x].calls # <<>> /\ thr[x].at = "body" /\ Moving(x) /\ Top(x) \in Frame
        /\ Top(x).op = "close"
        /\ k \in Gens /\ k \in Threads /\ k # x /\ gen[k] \in GeneratorState
        /\ \A y \in Threads : ~ Holds(y, k)
        /\ gen[k].started /\ ~ gen[k].forceClosing /\ ~ Delegating(k)
    BY <1>1, <1>2, <1>4, SuspendedFacts DEF InCall
  <2>2. /\ gen'[k].started = gen[k].started /\ gen'[k].status = "Running"
        /\ gen'[k].forceClosing = TRUE /\ Like(gen'[k], gen[k])
        /\ \A h \in Gens \ {k} : gen'[h] = gen[h]
    BY <1>4, <2>1 DEF Inv, Typed, GeneratorState, Like
  <2>3. \A y \in Threads \ {x} : thr'[y] = thr[y]
    BY <1>4 DEF Inv, Typed
  <2>4. ASSUME NEW f \in Frame, f.g = k, CallFits(f)',
               Sound(thr'[x].calls, x), thr'[x].at = "body", Delegating(x)' => Delegating(x),
               Progress(thr'[x].calls) = Progress(Tail(thr[x].calls)) \cup {f},
               Active(x)', ~ Waiting(x)'
        PROVE  Orderly'
    <3>1. Moved(x)
      BY <2>3, <2>4 DEF Moved
    <3>. QED
      BY <1>1, <1>4, <2>1, <2>2, <2>4, <3>1, TopGoesOn
  <2>5. CASE gen[k].delegate = None
    <3>1. thr[k].at = "parked" /\ thr'[k] = thr[k]
      BY <1>1, <1>2, <1>4, <2>1, <2>3, <2>5, SuspendedFacts
    <3>2. PICK f \in Frame : /\ f = [Top(x) EXCEPT !.op = "resumeclose", !.msg = "close"]
                             /\ f.op = "resumeclose" /\ f.g = k
      <4>1. [Top(x) EXCEPT !.op = "resumeclose", !.msg = "close"] \in Frame
        BY <2>1 DEF Frame, InProgress, Msgs
      <4>. QED
        BY <1>1, <2>1, <4>1 DEF Frame
    <3>3. thr'[x] = Becoming(thr[x], f)
      BY <1>4, <2>5, <3>2 DEF Inv, Typed
    <3>4. f.op \in InProgress \ Away /\ Top(x).op \notin Starting
      BY <2>1, <3>2 DEF Starting, InProgress, Away
    <3>5. /\ Sound(thr'[x].calls, x) /\ thr'[x].at = "body" /\ (Delegating(x)' => Delegating(x))
          /\ Progress(thr'[x].calls) = Progress(Tail(thr[x].calls)) \cup {f}
          /\ Active(x)' /\ ~ Waiting(x)'
      BY <1>1, <2>1, <3>2, <3>3, <3>4, BecomeCall
    <3>6. CallFits(f)'
      BY <2>1, <2>2, <3>1, <3>2 DEF CallFits, Closer, Chained
    <3>. QED
      BY <2>4, <3>2, <3>5, <3>6
  <2>6. CASE gen[k].delegate # None
    <3>1. /\ thr[k].at = "delegating" /\ ~ Signalled(k) /\ thr'[k] = thr[k]
          /\ gen[k].delegate \in Gens /\ Rank[gen[k].delegate] < Rank[k]
      BY <1>1, <1>2, <1>4, <2>1, <2>3, <2>6, SuspendedFacts
    <3>2. PICK f \in Frame :
            /\ f = [Top(x) EXCEPT !.op = "closedeleg", !.inner = gen[k].delegate, !.ch = gen[k].epoch]
            /\ f.op = "closedeleg" /\ f.g = k /\ f.inner = gen[k].delegate /\ f.ch = gen[k].epoch
      <4>1. gen[k].epoch \in 0 .. MostFuel
        BY <2>1 DEF GeneratorState
      <4>2. [Top(x) EXCEPT !.op = "closedeleg", !.inner = gen[k].delegate, !.ch = gen[k].epoch]
              \in Frame
        BY <2>1, <3>1, <4>1 DEF Frame, InProgress
      <4>. QED
        BY <1>1, <2>1, <4>2 DEF Frame
    <3>3. PICK c \in Frame : c = Call("close", gen[k].delegate) /\ c.op \in Entries /\ c.g = f.inner
      <4>1. "close" \in Entries
        BY DEF Entries
      <4>. QED
        BY <3>1, <3>2, <4>1, CallFacts
    <3>4. /\ f.op \in Chained /\ f.op \in InProgress \ Away /\ Top(x).op \notin Starting
          /\ Rank[f.inner] < Rank[f.g]
      BY <2>1, <3>1, <3>2 DEF Chained, Starting, InProgress, Away
    <3>5. thr'[x] = Calling(Becoming(thr[x], f), c) \/ thr'[x] = Becoming(thr[x], f)
      BY <1>4, <2>6, <3>2, <3>3 DEF Inv, Typed
    <3>6. /\ Sound(thr'[x].calls, x) /\ thr'[x].at = "body" /\ (Delegating(x)' => Delegating(x))
          /\ Progress(thr'[x].calls) = Progress(Tail(thr[x].calls)) \cup {f}
          /\ Active(x)' /\ ~ Waiting(x)'
      <4>1. CASE thr'[x] = Calling(Becoming(thr[x], f), c)
        <5>1. thr[x].calls # <<>> /\ f.g = Top(x).g /\ c.op \in Entries /\ c.g = f.inner
          BY <1>1, <2>1, <3>2, <3>3
        <5>. QED
          BY <3>4, <4>1, <5>1, PushMoves
      <4>2. CASE thr'[x] = Becoming(thr[x], f)
        BY <1>1, <2>1, <3>2, <3>4, <4>2, BecomeCall
      <4>. QED
        BY <3>5, <4>1, <4>2
    <3>7. CallFits(f)'
      <4>1. ~ Signalled(k)' /\ gen'[k].delegate = gen[k].delegate /\ gen'[k].epoch = gen[k].epoch
        BY <2>2, <3>1 DEF Signalled, Signal, Like
      <4>. QED
        BY <2>1, <2>2, <3>1, <3>2, <4>1 DEF CallFits, Closer, Chained
    <3>. QED
      BY <2>4, <3>2, <3>6, <3>7
  <2>. QED
    BY <2>5, <2>6
<1>. QED
  BY <1>1, <1>3, <1>4 DEF ForceClose

-----------------------------------------------------------------------------
(* Control changes hands                                                   *)

(* x lets the body k run and waits for it.                                 *)
LEMMA HandOver ==
  ASSUME Inv, Inv', Orderly, NEW x \in Threads, thr[x].calls # <<>>,
         Top(x).op \in InProgress \ Away, NEW k \in Gens, k = Top(x).g, k # x, Touches(x, k),
         \A y \in Threads \ {x, k} : Quiet(y),
         NEW f \in Frame, f.g = k, f.op \in Away, Top(x).op \in Starting => f.op \in Starting,
         NEW th, th = Becoming(thr[x], f), thr'[x].calls = th.calls, thr'[x].at = th.at,
         CallFits(f)', ~ Active(k), Active(k)', ~ Waiting(k)',
         gen'[k].started, gen'[k].delegate = gen[k].delegate,
         thr'[k].at = "delegating" /\ Signal(k)' = "ok" =>
           \A d \in Gens : gen[k].delegate = d => gen[d].status = "Closed" /\ ~ Held(d),
         gen'[k].forceClosing => ~ Delegating(k)'
  PROVE  Orderly'
<1>1. NoReentry /\ StackFits(x) /\ k \in Threads
  BY DEF Orderly, StacksFit, Threads
<1>2. thr[x].at = "body" /\ Moving(x)
  <2>1. thr[x].at = "body"
    BY <1>1, TopSplit
  <2>. QED
    BY <2>1 DEF Moving, Top
<1>3. f.op # "yieldfrom" /\ f.op \in InProgress
  BY DEF Away, InProgress
<1>4. Held(k) /\ \A y \in Threads \ {x} : ~ Holds(y, k)
  BY TopHeld
<1>5. /\ Sound(thr'[x].calls, x) /\ thr'[x].at = "body" /\ (Delegating(x)' => Delegating(x))
      /\ Progress(thr'[x].calls) = Progress(Tail(thr[x].calls))
           \cup (IF f.op \in InProgress THEN {f} ELSE {})
      /\ Top(x)' = f /\ (Waiting(x)' <=> f.op \in Away)
  BY <1>3, BecomeMoves
<1>6. StackFits(x)'
  BY <1>5 DEF StackFits
<1>7. InChain'
  BY <1>1, <1>2, <1>5, ChainPush DEF Inv, Orderly
<1>. DEFINE F == {f}
<1>8. /\ Progress(thr'[x].calls) = Progress(Tail(thr[x].calls)) \cup F
      /\ (F = {} => Resting(k)') /\ \A q \in F : q = f
  BY <1>3, <1>5
<1>9. \A q \in F : q.g = k /\ CallFits(q)'
  BY <1>8
<1>10. HoldsFit' /\ \A h \in Gens \ {k} : Held(h)' <=> Held(h)
  <2>. HIDE DEF F
  <2>. QED
    BY <1>4, <1>8, <1>9, HoldTop
<1>11. DelegateFits(k)
  BY DEF Orderly, DelegatesFit
<1>12. \A d \in Gens : gen'[k].delegate = d =>
         /\ d \in Delegates[k] /\ gen[d].started
         /\ thr'[k].at = "delegating" /\ Signal(k)' = "ok"
              => gen[d].status = "Closed" /\ ~ Held(d)
  BY <1>11 DEF DelegateFits
<1>. QED
  BY <1>1, <1>4, <1>5, <1>6, <1>7, <1>10, <1>12, OrderlyStep

(* The body k that x waits for lets x go on.                               *)
LEMMA HandBack ==
  ASSUME Inv, Inv', Orderly, NEW x \in Threads, thr[x].calls # <<>>,
         Top(x).op \in Away, NEW k \in Gens, k = Top(x).g, k # x, Touches(x, k),
         \A y \in Threads \ {x, k} : Quiet(y),
         NEW r \in Msgs, NEW th, th = Returned(x, r), thr'[x] = th,
         Moving(k), ~ Active(k)', Resting(k)',
         gen'[k].started, gen'[k].delegate = gen[k].delegate,
         thr'[k].at = "delegating" => ~ Signalled(k)',
         gen'[k].forceClosing => ~ Delegating(k)'
  PROVE  Orderly'
<1>1. NoReentry /\ StackFits(x) /\ k \in Threads
  BY DEF Orderly, StacksFit, Threads
<1>2. thr[x].at = "body" /\ Waiting(x)
  <2>1. thr[x].at = "body"
    BY <1>1, TopSplit
  <2>. QED
    BY <2>1 DEF Waiting, InCall
<1>3. Top(x).op \in InProgress
  BY DEF Away, InProgress
<1>4. Held(k) /\ \A y \in Threads \ {x} : ~ Holds(y, k)
  BY <1>3, TopHeld
<1>5. /\ Sound(thr'[x].calls, x) /\ thr'[x].at = "body" /\ (Delegating(x)' => Delegating(x))
      /\ Progress(thr'[x].calls) = Progress(Tail(thr[x].calls))
      /\ Active(x)' /\ ~ Waiting(x)'
  BY ReturnMoves
<1>6. StackFits(x)'
  BY <1>5 DEF StackFits
<1>7. InChain'
  BY <1>2, <1>5, ChainPop DEF Inv, Orderly
<1>. DEFINE F == {}
<1>8. /\ Progress(thr'[x].calls) = Progress(Tail(thr[x].calls)) \cup F
      /\ (F = {} => Resting(k)') /\ \A q \in F : q.g = k /\ CallFits(q)'
  BY <1>5
<1>9. HoldsFit' /\ \A h \in Gens \ {k} : Held(h)' <=> Held(h)
  <2>. HIDE DEF F
  <2>. QED
    BY <1>4, <1>8, HoldTop
<1>10. DelegateFits(k) /\ ~ (thr'[k].at = "delegating" /\ Signal(k)' = "ok")
  BY DEF Orderly, DelegatesFit, Signalled
<1>11. \A d \in Gens : gen'[k].delegate = d =>
         /\ d \in Delegates[k] /\ gen[d].started
         /\ thr'[k].at = "delegating" /\ Signal(k)' = "ok"
              => gen[d].status = "Closed" /\ ~ Held(d)
  BY <1>10 DEF DelegateFits
<1>. QED
  BY <1>1, <1>4, <1>5, <1>6, <1>7, <1>9, <1>11, OrderlyStep

LEMMA ResumeOrderly ==
  ASSUME Inv, Inv', Orderly, NEW x \in Threads, Resume(x) PROVE Orderly'
<1>1. PICK k : k = Top(x).g
  OBVIOUS
<1>2. InCall(x, {"resume", "resumeclose"})
  BY DEF Resume
<1>3. /\ thr[x].calls # <<>> /\ thr[x].at = "body" /\ Top(x).op \in {"resume", "resumeclose"}
      /\ Top(x) \in Frame /\ k \in Gens /\ k \in Threads /\ gen[k] \in GeneratorState
      /\ thr[k] \in Thread
  BY <1>1, <1>2, TopFacts, Types
<1>4. Top(x).op \in InProgress \ Away
  BY <1>3 DEF InProgress, Away
<1>5. CallFits(Top(x))
  BY <1>3, <1>4, TopHeld
<1>6. /\ gen[k].started /\ (gen[k].forceClosing <=> Top(x).op = "resumeclose")
      /\ gen[k].status = "Running" /\ thr[k].at \in {"born", "parked"}
      /\ thr[k].at = "born" => Top(x).msg = "ok"
  BY <1>1, <1>3, <1>5 DEF CallFits, Closer
<1>7. k # x /\ thr[k].calls = <<>> /\ ~ Delegating(k)
  BY <1>3, <1>6, NoFrames DEF Inv, ThreadsFit, ThreadFits, Delegating
<1>8. PICK f \in Frame :
        /\ f = Call(IF Top(x).op = "resume" THEN "wait" ELSE "closing", k)
        /\ f.g = k /\ f.op \in Away /\ f.op = IF Top(x).op = "resume" THEN "wait" ELSE "closing"
  <2>1. (IF Top(x).op = "resume" THEN "wait" ELSE "closing") \in InProgress \cap Away
    BY DEF InProgress, Away
  <2>. QED
    BY <1>3, <2>1, CallFacts
<1>9. PICK b : /\ b = Raised(k, [thr[k] EXCEPT !.at = "body"], Top(x).msg)
               /\ b.at = "body" /\ b.calls = <<>>
  <2>. DEFINE t == [thr[k] EXCEPT !.at = "body"]
  <2>1. t \in Thread /\ t.at = "body" /\ t.calls = <<>>
    BY <1>3, <1>7 DEF Thread, Places
  <2>2. Top(x).msg \in Msgs
    BY <1>3 DEF Frame
  <2>3. Raised(k, t, Top(x).msg).at = "body" /\ Raised(k, t, Top(x).msg).calls = <<>>
    <3>. HIDE DEF t
    <3>. QED
      BY <2>1, <2>2, RaisedFacts
  <2>. QED
    BY <2>3
<1>10. /\ thr' = [thr EXCEPT ![x] = Becoming(thr[x], f), ![k] = b]
       /\ gen' = [gen EXCEPT ![k].status = "Running"]
  BY <1>1, <1>6, <1>8, <1>9 DEF Resume, With
<1>11. /\ thr'[x] = Becoming(thr[x], f) /\ thr'[k] = b
       /\ \A y \in Threads \ {x, k} : thr'[y] = thr[y]
  BY <1>3, <1>7, <1>10 DEF Inv, Typed
<1>12. /\ gen'[k].status = "Running" /\ gen'[k].started = gen[k].started
       /\ gen'[k].forceClosing = gen[k].forceClosing /\ gen'[k].delegate = gen[k].delegate
       /\ \A h \in Gens \ {k} : gen'[h] = gen[h]
  BY <1>3, <1>10 DEF Inv, Typed, GeneratorState
<1>13. Touches(x, k) /\ \A y \in Threads \ {x, k} : Quiet(y)
  <2>1. thr'[x].at = thr[x].at
    BY <1>3, <1>11, Types, BecomingFacts
  <2>2. thr'[k].calls = thr[k].calls
    BY <1>7, <1>9, <1>11
  <2>. QED
    BY <1>11, <1>12, <2>1, <2>2 DEF Touches, Quiet, Like, Threads
<1>14. ~ Active(k) /\ Active(k)' /\ ~ Waiting(k)' /\ ~ Delegating(k)'
  BY <1>6, <1>9, <1>11, NoFrames DEF Active, Due, Signalled, Waiting, InCall, Delegating
<1>15. CallFits(f)'
  BY ZenonT(60), <1>3, <1>6, <1>8, <1>9, <1>11, <1>12 DEF CallFits, Closer, Chained
<1>16. /\ Top(x).op \in Starting => f.op \in Starting
       /\ ~ (thr'[k].at = "delegating" /\ Signal(k)' = "ok") /\ gen'[k].started
  BY <1>3, <1>6, <1>8, <1>9, <1>11, <1>12 DEF Starting
<1>. QED
  BY <1>1, <1>3, <1>4, <1>7, <1>8, <1>11, <1>12, <1>13, <1>14, <1>15, <1>16, HandOver

LEMMA ReceiveDoneOrderly ==
  ASSUME Inv, Inv', Orderly, NEW x \in Threads, ReceiveDone(x) PROVE Orderly'
<1>1. PICK k : k = Top(x).g
  OBVIOUS
<1>2. InCall(x, {"wait", "closing"}) /\ gen[k].fin # "none"
  BY <1>1 DEF ReceiveDone
<1>3. /\ thr[x].calls # <<>> /\ thr[x].at = "body" /\ Top(x).op \in {"wait", "closing"}
      /\ k \in Gens /\ k \in Threads /\ gen[k] \in GeneratorState
  BY <1>1, <1>2, TopFacts, Types
<1>4. Top(x).op \in InProgress /\ Top(x).op \in Away
  BY <1>3 DEF InProgress, Away
<1>5. CallFits(Top(x))
  BY <1>3, <1>4, TopHeld
<1>6. /\ thr[k].at = "ended" /\ k # x /\ thr[k].calls = <<>> /\ ~ Delegating(k)
  BY <1>2, <1>3, NoFrames DEF Inv, GensFit, GenFits, ThreadsFit, ThreadFits, Delegating
<1>7. gen[k].started
  BY <1>1, <1>5 DEF CallFits
<1>8. PICK r \in Msgs : Return(x, r)
  <2>1. gen[k].fin \in Msgs
    BY <1>3 DEF GeneratorState
  <2>. QED
    BY <1>1, <2>1 DEF ReceiveDone, Msgs
<1>9. thr'[x] = Returned(x, r) /\ \A y \in Threads \ {x} : thr'[y] = thr[y]
  BY <1>8 DEF Return, Inv, Typed
<1>10. /\ gen'[k].fin = "none" /\ gen'[k].status = "Closed" /\ gen'[k].started = gen[k].started
       /\ gen'[k].delegate = gen[k].delegate
       /\ \A h \in Gens \ {k} : gen'[h] = gen[h]
  BY <1>1, <1>3 DEF ReceiveDone, Inv, Typed, GeneratorState
<1>11. PICK th : th = Returned(x, r) /\ thr'[x] = th /\ th.at = "body"
  BY <1>3, <1>9, ReturnedFacts
<1>12. Touches(x, k) /\ \A y \in Threads \ {x, k} : Quiet(y)
  BY <1>3, <1>6, <1>9, <1>10, <1>11 DEF Touches, Quiet, Like, Threads
<1>13. thr'[k] = thr[k] /\ ~ Due(k)' /\ ~ Signalled(k)'
  BY <1>3, <1>6, <1>9, <1>10 DEF Due, Signalled
<1>14. /\ Moving(k) /\ ~ Active(k)' /\ Resting(k)' /\ ~ Delegating(k)'
  BY <1>2, <1>3, <1>6, <1>7, <1>10, <1>13 DEF Moving, Active, Resting, Delegating
<1>. QED
  BY <1>1, <1>3, <1>4, <1>6, <1>7, <1>10, <1>11, <1>12, <1>13, <1>14, HandBack

LEMMA ReceiveYieldOrderly ==
  ASSUME Inv, Inv', Orderly, NEW x \in Threads, ReceiveYield(x) PROVE Orderly'
<1>1. PICK k : k = Top(x).g
  OBVIOUS
<1>2. InCall(x, {"wait", "closing"}) /\ thr[k].at = "yielding"
  BY <1>1 DEF ReceiveYield
<1>3. /\ thr[x].calls # <<>> /\ thr[x].at = "body" /\ Top(x).op \in {"wait", "closing"}
      /\ k \in Gens /\ k \in Threads /\ gen[k] \in GeneratorState /\ thr[k] \in Thread
  BY <1>1, <1>2, TopFacts, Types
<1>4. Top(x).op \in InProgress /\ Top(x).op \in Away
  BY <1>3 DEF InProgress, Away
<1>5. CallFits(Top(x))
  BY <1>3, <1>4, TopHeld
<1>6. k # x /\ thr[k].calls = <<>> /\ ~ Delegating(k) /\ Moving(k)
  BY <1>2, <1>3, NoFrames DEF Inv, ThreadsFit, ThreadFits, Delegating, Moving
<1>7. gen[k].started /\ Top(x).op = "wait" /\ ~ gen[k].forceClosing
  <2>1. ~ Due(k) /\ ~ Signalled(k)
    BY <1>2 DEF Due, Signalled
  <2>2. Top(x).op = "wait" /\ gen[k].started
    BY <1>1, <1>2, <1>3, <1>5, <2>1 DEF CallFits
  <2>. QED
    BY <1>1, <1>5, <2>2 DEF CallFits, Closer
<1>8. PICK b : /\ b = [thr[k] EXCEPT !.at = IF gen[k].delegate = None THEN "parked" ELSE "delegating"]
               /\ b.at = IF gen[k].delegate = None THEN "parked" ELSE "delegating"
               /\ b.calls = <<>>
  <2>. DEFINE a == IF gen[k].delegate = None THEN "parked" ELSE "delegating"
              t == [thr[k] EXCEPT !.at = a]
  <2>1. t.at = a /\ t.calls = <<>>
    <3>. HIDE DEF a
    <3>. QED
      BY <1>3, <1>6 DEF Thread
  <2>. QED
    BY <2>1
<1>9. PICK th : th = Returned(x, "ok") /\ th.at = "body"
  BY <1>3, ReturnedFacts DEF Msgs
<1>10. /\ thr'[x] = th /\ thr'[k] = b
       /\ \A y \in Threads \ {x, k} : thr'[y] = thr[y]
  BY <1>1, <1>3, <1>6, <1>8, <1>9 DEF ReceiveYield, With, Inv, Typed
<1>11. /\ gen'[k].status = "Suspended" /\ gen'[k].valid = TRUE /\ gen'[k].started = gen[k].started
       /\ gen'[k].forceClosing = gen[k].forceClosing /\ Like(gen'[k], gen[k])
       /\ \A h \in Gens \ {k} : gen'[h] = gen[h]
  BY <1>1, <1>3, <1>7 DEF ReceiveYield, Inv, Typed, GeneratorState, Like
<1>12. Touches(x, k) /\ \A y \in Threads \ {x, k} : Quiet(y)
  <2>1. thr'[x].at = thr[x].at /\ thr'[k].calls = thr[k].calls
    BY <1>3, <1>6, <1>8, <1>9, <1>10
  <2>. QED
    BY <1>10, <1>11, <2>1 DEF Touches, Quiet, Like, Threads
<1>13. ~ Due(k)' /\ ~ Signalled(k)'
  <2>1. gen[k].delegate # None => gen[k].done[gen[k].epoch] = "none"
    BY <1>2, <1>3 DEF Inv, GensFit, GenFits
  <2>2. thr'[k].at = "delegating" => Signal(k)' = "none"
    BY <1>8, <1>10, <1>11, <2>1 DEF Signal, Like
  <2>. QED
    BY <1>8, <1>10, <2>2 DEF Due, Signalled
<1>14. /\ ~ Active(k)' /\ Resting(k)' /\ ~ gen'[k].forceClosing
  BY <1>3, <1>7, <1>8, <1>10, <1>11, <1>13 DEF Active, Resting
<1>15. "ok" \in Msgs /\ gen'[k].delegate = gen[k].delegate /\ gen'[k].started
  BY <1>7, <1>11 DEF Msgs, Like
<1>. QED
  BY <1>1, <1>3, <1>4, <1>6, <1>9, <1>10, <1>12, <1>13, <1>14, <1>15, HandBack

LEMMA FollowDelegateOrderly ==
  ASSUME Inv, Inv', Orderly, NEW x \in Threads, FollowDelegate(x) PROVE Orderly'
<1>1. PICK k : k = Top(x).g
  OBVIOUS
<1>2. PICK d : d = Top(x).inner
  OBVIOUS
<1>3. InCall(x, {"deleg"})
  BY DEF FollowDelegate
<1>4. /\ thr[x].calls # <<>> /\ thr[x].at = "body" /\ Top(x).op = "deleg" /\ Top(x) \in Frame
      /\ k \in Gens /\ k \in Threads /\ gen[k] \in GeneratorState
      /\ thr[x] \in Thread /\ thr[k] \in Thread /\ Moving(x)
  BY <1>1, <1>3, TopFacts, Types DEF Away
<1>5. Top(x).op \in InProgress \ Away
  BY <1>4 DEF InProgress, Away
<1>6. CallFits(Top(x)) /\ Held(k) /\ \A y \in Threads \ {x} : ~ Holds(y, k)
  BY <1>1, <1>4, <1>5, TopHeld
<1>7. /\ gen[k].started /\ ~ gen[k].forceClosing /\ gen[k].status = "Suspended"
      /\ thr[k].at = "delegating" /\ ~ Signalled(k)
      /\ gen[k].delegate = d /\ gen[k].epoch = Top(x).ch
  BY <1>1, <1>2, <1>4, <1>6 DEF CallFits, Closer, Chained
<1>8. k # x /\ thr[k].calls = <<>> /\ ~ Delegating(k)
  BY <1>4, <1>7, NoFrames DEF Inv, ThreadsFit, ThreadFits, Delegating
<1>9. d \in Delegates[k] /\ d \in Gens /\ d # k /\ gen[d].started /\ ~ Held(d)
  BY <1>1, <1>2, <1>3, InnerRests
<1>10. ~ gen[d].valid => gen[d].status = "Closed"
  <2>1. Resting(d)
    BY <1>9 DEF Orderly, HoldsFit, OthersRest
  <2>. QED
    BY <1>9, <2>1 DEF Resting
<1>11. CASE /\ gen' = [gen EXCEPT ![k].status = "Suspended", ![k].valid = TRUE]
            /\ Return(x, "ok")
  <2>1. PICK th : th = Returned(x, "ok") /\ thr'[x] = th /\ \A y \in Threads \ {x} : thr'[y] = thr[y]
    BY <1>11 DEF Return, Inv, Typed
  <2>2. /\ Moved(x) /\ Active(x)' /\ ~ Waiting(x)'
        /\ Progress(thr'[x].calls) = Progress(Tail(thr[x].calls))
    <3>1. "ok" \in Msgs
      BY DEF Msgs
    <3>. QED
      BY <1>4, <2>1, <3>1, ReturnMoves DEF Moved
  <2>3. /\ gen'[k].status = "Suspended" /\ gen'[k].valid = TRUE /\ gen'[k].started = gen[k].started
        /\ gen'[k].forceClosing = gen[k].forceClosing /\ Like(gen'[k], gen[k])
        /\ \A h \in Gens \ {k} : gen'[h] = gen[h]
    BY <1>4, <1>11 DEF Inv, Typed, GeneratorState, Like
  <2>4. thr'[k] = thr[k] /\ ~ Signalled(k)'
    BY <1>4, <1>7, <1>8, <2>1, <2>3 DEF Signalled, Signal, Like
  <2>5. Resting(k)'
    BY <1>7, <2>3, <2>4 DEF Resting
  <2>. DEFINE F == {}
  <2>6. /\ Progress(thr'[x].calls) = Progress(Tail(thr[x].calls)) \cup F
        /\ \A f \in F : f.g = k /\ CallFits(f)'
    BY <2>2
  <2>. HIDE DEF F
  <2>. QED
    BY <1>1, <1>4, <1>6, <1>7, <1>8, <2>2, <2>3, <2>5, <2>6, TopStep
<1>12. CASE \E out \in {Outcome(x, d)} :
              /\ out # "none" /\ gen[k].done[Top(x).ch] = "none"
              /\ gen' = [gen EXCEPT ![k].done[Top(x).ch] = out]
              /\ thr' = [thr EXCEPT ![x] =
                           [Becoming(@, Call("signalled", k)) EXCEPT !.res = "ok"]]
  <2>1. PICK out : out = Outcome(x, d) /\ out # "none"
                   /\ gen' = [gen EXCEPT ![k].done[Top(x).ch] = out]
    BY <1>12
  <2>2. out = "ok" => gen[d].status = "Closed"
    BY <1>10, <2>1 DEF Outcome
  <2>3. PICK f \in Frame : f = Call("signalled", k) /\ f.op = "signalled" /\ f.g = k
    <3>1. "signalled" \in InProgress
      BY DEF InProgress
    <3>. QED
      BY <1>4, <3>1, CallFacts
  <2>4. PICK th \in Thread : th = Becoming(thr[x], f) /\ th.at = "body"
    BY <1>4, BecomingFacts
  <2>5. /\ thr'[x].calls = th.calls /\ thr'[x].at = th.at
        /\ \A y \in Threads \ {x} : thr'[y] = thr[y]
    <3>1. thr'[x] = [th EXCEPT !.res = "ok"] /\ \A y \in Threads \ {x} : thr'[y] = thr[y]
      BY <1>12, <2>3, <2>4 DEF Inv, Typed
    <3>. QED
      BY <3>1 DEF Thread
  <2>6. Top(x).ch \in Channels
    <3>1. FrameFits(Top(x), x)
      BY <1>3, TopFacts
    <3>2. Top(x).ch \in 1 .. gen[k].epoch
      BY <1>1, <1>4, <3>1 DEF FrameFits
    <3>3. gen[k].epoch \in 0 .. MostFuel /\ MostFuel \in Nat
      BY <1>4, Types DEF GeneratorState
    <3>. QED
      BY <3>2, <3>3 DEF Channels
  <2>7. /\ gen'[k].status = gen[k].status /\ gen'[k].started = gen[k].started
        /\ gen'[k].forceClosing = gen[k].forceClosing /\ gen'[k].delegate = gen[k].delegate
        /\ gen'[k].epoch = gen[k].epoch /\ gen'[k].done[Top(x).ch] = out
        /\ \A h \in Gens \ {k} : gen'[h] = gen[h]
    BY <1>4, <2>1, <2>6 DEF Inv, Typed, GeneratorState
  <2>8. thr'[k] = thr[k] /\ Signal(k)' = out /\ Signalled(k)'
    BY <1>4, <1>7, <1>8, <2>1, <2>5, <2>7 DEF Signalled, Signal
  <2>9. Touches(x, k) /\ \A y \in Threads \ {x, k} : Quiet(y)
    BY <1>4, <2>4, <2>5, <2>7, <2>8 DEF Touches, Quiet, Like, Threads
  <2>10. ~ Active(k) /\ Active(k)' /\ ~ Waiting(k)' /\ ~ Delegating(k)'
    BY <1>4, <1>7, <1>8, <2>8 DEF Active, Due, Waiting, Delegating
  <2>11. CallFits(f)'
    BY <1>7, <1>9, <2>3, <2>7, <2>8 DEF CallFits, Closer, Chained
  <2>12. /\ f.op \in Away /\ (Top(x).op \in Starting => f.op \in Starting)
         /\ thr[x].calls # <<>> /\ f.g = k
    BY <1>4, <2>3 DEF Away, Starting
  <2>13. thr'[k].at = "delegating" /\ Signal(k)' = "ok" =>
           \A e \in Gens : gen[k].delegate = e => gen[e].status = "Closed" /\ ~ Held(e)
    BY <1>7, <1>9, <2>2, <2>8
  <2>14. gen'[k].started /\ gen'[k].delegate = gen[k].delegate /\ ~ gen'[k].forceClosing
    BY <1>7, <2>7
  <2>. QED
    BY <1>1, <1>4, <1>5, <1>8, <2>4, <2>5, <2>9, <2>10, <2>11, <2>12, <2>13, <2>14, HandOver
<1>. QED
  BY <1>1, <1>2, <1>11, <1>12 DEF FollowDelegate

LEMMA CloseAfterDelegateOrderly ==
  ASSUME Inv, Inv', Orderly, NEW x \in Threads, CloseAfterDelegate(x) PROVE Orderly'
<1>1. PICK k : k = Top(x).g
  OBVIOUS
<1>3. InCall(x, {"closedeleg"})
  BY DEF CloseAfterDelegate
<1>4. /\ thr[x].calls # <<>> /\ thr[x].at = "body" /\ Top(x).op = "closedeleg" /\ Top(x) \in Frame
      /\ k \in Gens /\ k \in Threads /\ gen[k] \in GeneratorState
      /\ thr[x] \in Thread /\ thr[k] \in Thread
  BY <1>1, <1>3, TopFacts, Types
<1>5. Top(x).op \in InProgress \ Away
  BY <1>4 DEF InProgress, Away
<1>6. CallFits(Top(x))
  BY <1>4, <1>5, TopHeld
<1>7. /\ gen[k].started /\ gen[k].forceClosing /\ gen[k].status = "Running"
      /\ thr[k].at = "delegating" /\ ~ Signalled(k) /\ gen[k].epoch = Top(x).ch
  BY <1>1, <1>4, <1>6 DEF CallFits, Closer, Chained
<1>8. k # x /\ thr[k].calls = <<>>
  BY <1>4, <1>7, NoFrames DEF Inv, ThreadsFit, ThreadFits
<1>9. gen' = [gen EXCEPT ![k].done[Top(x).ch] = "close"]
  BY <1>1 DEF CloseAfterDelegate
<1>10. PICK f \in Frame : f = Call("closing", k) /\ f.op = "closing" /\ f.g = k
  <2>1. "closing" \in InProgress
    BY DEF InProgress
  <2>. QED
    BY <1>4, <2>1, CallFacts
<1>11. PICK th \in Thread : th = Becoming(thr[x], f) /\ th.at = "body"
  BY <1>4, BecomingFacts
<1>12. thr'[x] = th /\ \A y \in Threads \ {x} : thr'[y] = thr[y]
  BY <1>1, <1>10, <1>11 DEF CloseAfterDelegate, Become, Inv, Typed
<1>13. Top(x).ch \in Channels
  <2>1. FrameFits(Top(x), x)
    BY <1>3, TopFacts
  <2>2. Top(x).ch \in 1 .. gen[k].epoch
    BY <1>1, <1>4, <2>1 DEF FrameFits
  <2>3. gen[k].epoch \in 0 .. MostFuel /\ MostFuel \in Nat
    BY <1>4, Types DEF GeneratorState
  <2>. QED
    BY <2>2, <2>3 DEF Channels
<1>14. /\ gen'[k].status = gen[k].status /\ gen'[k].started = gen[k].started
       /\ gen'[k].forceClosing = gen[k].forceClosing /\ gen'[k].delegate = gen[k].delegate
       /\ gen'[k].epoch = gen[k].epoch /\ gen'[k].done[Top(x).ch] = "close"
       /\ \A h \in Gens \ {k} : gen'[h] = gen[h]
  BY <1>4, <1>9, <1>13 DEF Inv, Typed, GeneratorState
<1>15. thr'[k] = thr[k] /\ Signal(k)' = "close" /\ Signalled(k)'
  BY <1>4, <1>7, <1>8, <1>12, <1>14 DEF Signalled, Signal
<1>16. Touches(x, k) /\ \A y \in Threads \ {x, k} : Quiet(y)
  BY <1>4, <1>11, <1>12, <1>14, <1>15 DEF Touches, Quiet, Like, Threads
<1>17. ~ Active(k) /\ Active(k)' /\ ~ Waiting(k)' /\ ~ Delegating(k)'
  BY <1>4, <1>7, <1>8, <1>15, NoFrames DEF Active, Due, Waiting, Delegating
<1>18. CallFits(f)'
  BY <1>7, <1>10, <1>14, <1>15 DEF CallFits, Closer, Chained
<1>19. /\ f.op \in Away /\ (Top(x).op \in Starting => f.op \in Starting)
       /\ ~ (thr'[k].at = "delegating" /\ Signal(k)' = "ok")
  BY <1>4, <1>10, <1>15 DEF Away, Starting
<1>. QED
  BY ZenonT(60), <1>1, <1>4, <1>5, <1>7, <1>8, <1>10, <1>11, <1>12, <1>14, <1>16, <1>17, <1>18, <1>19,
     HandOver

LEMMA WaitAfterDelegateDoneOrderly ==
  ASSUME Inv, Inv', Orderly, NEW x \in Threads, WaitAfterDelegateDone(x) PROVE Orderly'
<1>1. PICK k : k = Top(x).g
  OBVIOUS
<1>3. InCall(x, {"signalled"})
  BY DEF WaitAfterDelegateDone
<1>4. /\ thr[x].calls # <<>> /\ thr[x].at = "body" /\ Top(x).op = "signalled" /\ Top(x) \in Frame
      /\ k \in Gens /\ k \in Threads /\ gen[k] \in GeneratorState
      /\ thr[x] \in Thread /\ thr[k] \in Thread
  BY <1>1, <1>3, TopFacts, Types
<1>5. Top(x).op \in InProgress
  BY <1>4 DEF InProgress
<1>6. CallFits(Top(x)) /\ Held(k) /\ \A y \in Threads \ {x} : ~ Holds(y, k)
  BY <1>1, <1>4, <1>5, TopHeld
<1>7. /\ gen[k].started /\ ~ gen[k].forceClosing
      /\ thr[k].at \in {"body", "yielding"} \/ Signalled(k) \/ Due(k)
  BY <1>1, <1>4, <1>6 DEF CallFits, Closer
<1>8. PICK f \in Frame : f = Call("wait", k) /\ f.op = "wait" /\ f.g = k
  <2>1. "wait" \in InProgress
    BY DEF InProgress
  <2>. QED
    BY <1>4, <2>1, CallFacts
<1>9. thr'[x] = Becoming(thr[x], f) /\ \A y \in Threads \ {x} : thr'[y] = thr[y]
  BY <1>1, <1>8 DEF WaitAfterDelegateDone, Become, Inv, Typed
<1>10. /\ gen'[k].status = "Running" /\ gen'[k].started = gen[k].started
       /\ gen'[k].forceClosing = gen[k].forceClosing /\ Like(gen'[k], gen[k])
       /\ \A h \in Gens \ {k} : gen'[h] = gen[h]
  BY <1>1, <1>4 DEF WaitAfterDelegateDone, Inv, Typed, GeneratorState, Like
<1>11. PICK th : th = Becoming(thr[x], f) /\ thr'[x].calls = th.calls /\ thr'[x].at = th.at
  BY <1>9
<1>12. /\ Sound(thr'[x].calls, x) /\ thr'[x].at = "body" /\ (Delegating(x)' => Delegating(x))
       /\ Progress(thr'[x].calls) = Progress(Tail(thr[x].calls))
            \cup (IF f.op \in InProgress THEN {f} ELSE {})
       /\ Active(x)' /\ Top(x)' = f /\ (Waiting(x)' <=> f.op \in Away)
  <2>1. f.g = Top(x).g /\ f.op # "yieldfrom" /\ (Top(x).op \in Starting => f.op \in Starting)
    BY <1>1, <1>4, <1>8 DEF Starting
  <2>. QED
    BY <1>4, <1>11, <2>1, BecomeMoves
<1>13. Moved(x)
  BY <1>9, <1>12 DEF Moved
<1>14. Touches(x, k) /\ StackFits(x)' /\ thr'[k].at = thr[k].at
  BY <1>4, <1>10, <1>13, MovedTouches
<1>15. (Due(k)' <=> Due(k)) /\ (Signalled(k)' <=> Signalled(k)) /\ Signal(k)' = Signal(k)
  BY <1>10, <1>14 DEF Due, Signalled, Signal, Like
<1>16. InChain'
  <2>1. Active(x) /\ Waiting(x) /\ Active(x)' /\ Waiting(x)' /\ Top(x)'.g = Top(x).g
    <3>1. f.op \in Away /\ Top(x).op \in Away
      BY <1>4, <1>8 DEF Away
    <3>. QED
      BY <1>1, <1>4, <1>8, <1>12, <3>1 DEF Active, Waiting, InCall
  <2>2. \A y \in Threads \ {x} : Quiet(y)
    BY <1>9, <1>10 DEF Quiet, Like
  <2>3. \A y \in Threads : /\ (Active(y)' <=> Active(y)) /\ (Waiting(y)' <=> Waiting(y))
                           /\ Top(y)'.g = Top(y).g
    BY <2>1, <2>2, QuietFacts
  <2>. QED
    BY <2>3, ChainSame DEF Orderly
<1>17. CallFits(f)'
  <2>1. \/ thr'[k].at = "body" \/ Signalled(k)' \/ thr'[k].at = "yielding" \/ Due(k)'
    BY <1>7, <1>14, <1>15
  <2>2. gen'[k].started /\ ~ gen'[k].forceClosing
    BY <1>7, <1>10
  <2>. QED
    BY <1>8, <1>10, <2>1, <2>2 DEF CallFits, Closer, Chained
<1>. DEFINE F == {f}
<1>18. /\ Progress(thr'[x].calls) = Progress(Tail(thr[x].calls)) \cup F
       /\ (F = {} => Resting(k)') /\ \A q \in F : q = f
  BY <1>8, <1>12 DEF InProgress
<1>19. \A q \in F : q.g = k /\ CallFits(q)'
  BY <1>8, <1>17, <1>18
<1>20. HoldsFit' /\ \A h \in Gens \ {k} : Held(h)' <=> Held(h)
  <2>. HIDE DEF F
  <2>. QED
    BY <1>1, <1>4, <1>6, <1>14, <1>18, <1>19, HoldTop
<1>21. \A d \in Gens : gen'[k].delegate = d =>
         /\ d \in Delegates[k] /\ gen[d].started
         /\ thr'[k].at = "delegating" /\ Signal(k)' = "ok"
              => gen[d].status = "Closed" /\ ~ Held(d)
  BY <1>4, <1>10, <1>14, <1>15 DEF Orderly, DelegatesFit, DelegateFits, Like
<1>22. gen'[k].started /\ ~ gen'[k].forceClosing
  BY <1>7, <1>10
<1>. QED
  BY <1>4, <1>6, <1>12, <1>14, <1>16, <1>20, <1>21, <1>22, OrderlyStep

-----------------------------------------------------------------------------
(* Bodies                                                                  *)

(* A body yields a value or delegates.                                     *)
LEMMA YieldsOrderly ==
  ASSUME Inv, Inv', Orderly, NEW x \in Gens, thr[x].at = "body", Moving(x),
         Progress(thr[x].calls) = {}, ~ gen[x].forceClosing,
         \A y \in Threads \ {x} : thr'[y] = thr[y],
         thr'[x].at = "yielding", thr'[x].calls = <<>>,
         \A h \in Gens \ {x} : gen'[h] = gen[h],
         gen'[x].status = "Suspended", gen'[x].started = gen[x].started,
         gen'[x].forceClosing = gen[x].forceClosing,
         \A d \in Gens : gen'[x].delegate = d => d \in Delegates[x] /\ gen[d].started
  PROVE  Orderly'
<1>1. x \in Threads /\ Touches(x, x)
  BY DEF Threads, Touches
<1>2. StackFits(x)' /\ Progress(thr'[x].calls) = {} /\ ~ Delegating(x)'
  BY NoneNested, NoFrames DEF StackFits, Sound, Delegating
<1>3. InChain'
  <2>1. \A y \in Threads \ {x} : Quiet(y)
    BY DEF Quiet, Like
  <2>2. Active(x)' /\ ~ Waiting(x)'
    BY DEF Active, Waiting
  <2>. QED
    BY <1>1, <2>1, <2>2, ChainKept DEF Inv, Orderly
<1>4. ~ Resting(x) /\ ~ Signalled(x) /\ ~ Due(x)
  BY DEF Resting, Signalled, Due
<1>5. ASSUME NEW f \in Frame, f.g = x, f.op \in InProgress, CallFits(f) PROVE CallFits(f)'
  <2>1. f.op \notin Closer /\ gen[x].started
    BY <1>5 DEF CallFits
  <2>2. f.op \in {"wait", "signalled"} /\ (f.op = "signalled" => Delegates[x] # {})
    BY <1>4, <1>5, <2>1 DEF CallFits, InProgress, Closer, Chained
  <2>. QED
    BY <1>5, <2>1, <2>2 DEF CallFits, Chained
<1>6. HoldsFit' /\ \A h \in Gens : Held(h)' <=> Held(h)
  BY <1>1, <1>2, <1>4, <1>5, HoldSame
<1>7. Held(x)
  BY <1>4 DEF Orderly, HoldsFit, OthersRest
<1>. QED
  BY <1>1, <1>2, <1>3, <1>6, <1>7, OrderlyStep

LEMMA YieldFromGeneratorOrderly ==
  ASSUME Inv, Inv', Orderly, NEW x \in Threads, YieldFromGenerator(x) PROVE Orderly'
<1>1. PICK h : h = Top(x).g
  OBVIOUS
<1>2. InCall(x, {"yieldfrom"})
  BY DEF YieldFromGenerator
<1>3. /\ thr[x].calls # <<>> /\ thr[x].at = "body" /\ Top(x).op = "yieldfrom" /\ Moving(x)
      /\ h \in Gens /\ x \in Gens /\ gen[x] \in GeneratorState /\ thr[x] \in Thread
      /\ Top(x) \in Frames(thr[x].calls)
  BY <1>1, <1>2, TopFacts, Types DEF FrameFits, Away
<1>4. Top(x).op \notin InProgress
  BY <1>3 DEF InProgress
<1>5. CASE UNCHANGED gen /\ \E r \in Msgs : Return(x, r)
  BY <1>3, <1>4, <1>5, ReturnEntry
<1>6. CASE /\ gen[h].status # "Running" /\ gen[h].valid
           /\ gen' = [gen EXCEPT ![x].delegate = h, ![x].epoch = gen[x].epoch + 1,
                                 ![x].valid = TRUE, ![x].status = "Suspended"]
           /\ thr' = [thr EXCEPT ![x].calls = <<>>, ![x].at = "yielding"]
  <2>1. NoReentry /\ StackFits(x)
    BY DEF Orderly, StacksFit
  <2>2. h \in Delegates[x]
    <3>1. Reaches(Top(x), x)
      BY <1>3, <2>1, TopSplit
    <3>. QED
      BY <1>1, <1>3, <3>1 DEF Reaches
  <2>3. Progress(thr[x].calls) = {}
    <3>1. Frames(Tail(thr[x].calls)) = {}
      BY <1>3, <2>1, TopSplit
    <3>2. Progress(Tail(thr[x].calls)) = {}
      BY <3>1 DEF Progress
    <3>3. Progress(thr[x].calls) = Progress(Tail(thr[x].calls))
            \cup (IF Top(x).op \in InProgress THEN {Top(x)} ELSE {})
      BY <1>3, <2>1, TopSplit
    <3>. QED
      BY <1>4, <3>2, <3>3
  <2>4. ~ gen[x].forceClosing
    <3>1. Delegating(x)
      BY <1>3 DEF Delegating
    <3>. QED
      BY <1>3, <3>1 DEF Orderly, DelegatesFit, DelegateFits
  <2>5. gen[h].started
    <3>1. CASE Held(h)
      <4>1. PICK y \in Threads : \E f \in Progress(thr[y].calls) : f.g = h
        BY <3>1 DEF Held, Holds
      <4>2. PICK f \in Progress(thr[y].calls) : f.g = h
        BY <4>1
      <4>3. CallFits(f)
        BY <4>2 DEF Orderly, HoldsFit, CallsFit
      <4>. QED
        BY <4>2, <4>3 DEF CallFits
    <3>2. CASE ~ Held(h)
      <4>1. Resting(h)
        BY <1>3, <3>2 DEF Orderly, HoldsFit, OthersRest
      <4>. QED
        BY <1>6, <4>1 DEF Resting
    <3>. QED
      BY <3>1, <3>2
  <2>6. /\ gen'[x].status = "Suspended" /\ gen'[x].started = gen[x].started
        /\ gen'[x].forceClosing = gen[x].forceClosing /\ gen'[x].delegate = h
        /\ \A g \in Gens \ {x} : gen'[g] = gen[g]
    BY <1>3, <1>6 DEF Inv, Typed, GeneratorState
  <2>7. /\ thr'[x].calls = <<>> /\ thr'[x].at = "yielding"
        /\ \A y \in Threads \ {x} : thr'[y] = thr[y]
    BY <1>3, <1>6 DEF Inv, Typed, Thread
  <2>. QED
    BY <1>3, <2>2, <2>3, <2>4, <2>5, <2>6, <2>7, YieldsOrderly
<1>7. "throw" \in Msgs /\ "ok" \in Msgs
  BY DEF Msgs
<1>. QED
  BY <1>1, <1>5, <1>6, <1>7 DEF YieldFromGenerator

LEMMA DelegationDoneOrderly ==
  ASSUME Inv, Inv', Orderly, NEW x \in Threads, DelegationDone(x) PROVE Orderly'
<1>1. /\ x \in Gens /\ thr[x].at = "delegating" /\ gen[x].done[gen[x].epoch] # "none"
      /\ gen[x] \in GeneratorState /\ thr[x] \in Thread
  BY Types DEF DelegationDone
<1>2. thr[x].calls = <<>> /\ Moving(x) /\ Signalled(x) /\ ~ Due(x)
  BY <1>1 DEF Inv, ThreadsFit, ThreadFits, Moving, Signalled, Signal, Due
<1>3. PICK th : th = thr'[x] /\ th.at = "body" /\ th.calls = <<>>
  <2>. DEFINE t == [thr[x] EXCEPT !.at = "body"]
              m == gen[x].done[gen[x].epoch]
  <2>1. thr'[x] = Raised(x, t, m)
    BY <1>1 DEF DelegationDone, Inv, Typed
  <2>2. t \in Thread /\ t.at = "body" /\ t.calls = <<>>
    BY <1>1, <1>2 DEF Thread, Places
  <2>3. m \in Msgs
    <3>1. gen[x].epoch \in Channels
      <4>1. gen[x].delegate # None /\ GenFits(x)
        BY <1>1 DEF Inv, GensFit, GenFits
      <4>2. gen[x].epoch > 0 /\ gen[x].epoch \in 0 .. MostFuel /\ MostFuel \in Nat
        BY <1>1, <4>1, Types DEF GenFits, GeneratorState
      <4>. QED
        BY <4>2 DEF Channels
    <3>. QED
      BY <1>1, <3>1 DEF GeneratorState
  <2>. HIDE DEF t, m
  <2>. QED
    BY <2>1, <2>2, <2>3, RaisedFacts
<1>4. \A y \in Threads \ {x} : thr'[y] = thr[y]
  BY DEF DelegationDone, Inv, Typed
<1>5. /\ gen'[x].delegate = None /\ gen'[x].started = gen[x].started
      /\ gen'[x].status = gen[x].status /\ gen'[x].forceClosing = gen[x].forceClosing
      /\ \A h \in Gens \ {x} : gen'[h] = gen[h]
  BY <1>1 DEF DelegationDone, Inv, Typed, GeneratorState
<1>6. Touches(x, x)
  BY <1>4, <1>5 DEF Touches, Threads
<1>7. /\ StackFits(x)' /\ Progress(thr'[x].calls) = Progress(thr[x].calls) /\ ~ Delegating(x)'
  BY <1>2, <1>3, NoneNested, NoFrames DEF StackFits, Sound, Delegating
<1>8. InChain'
  <2>1. \A y \in Threads \ {x} : Quiet(y)
    BY <1>4, <1>5 DEF Quiet, Like
  <2>2. Active(x)' /\ ~ Waiting(x)'
    BY <1>3 DEF Active, Waiting, InCall
  <2>. QED
    BY <1>2, <2>1, <2>2, ChainKept DEF Inv, Orderly
<1>9. ASSUME NEW f \in Frame, f.g = x, f.op \in InProgress, CallFits(f) PROVE CallFits(f)'
  <2>1. f.op \in Away
    BY <1>1, <1>2, <1>9 DEF CallFits, InProgress, Away, Chained
  <2>2. /\ gen[x].started /\ (gen[x].forceClosing <=> f.op \in Closer)
        /\ f.op \in {"wait", "closing"} => gen[x].status = "Running"
        /\ f.op = "signalled" => gen[x].status = "Suspended" /\ Delegates[x] # {}
    BY <1>1, <1>2, <1>9 DEF CallFits
  <2>. QED
    BY <1>3, <1>5, <1>9, <2>1, <2>2 DEF CallFits, Away, Chained
<1>10. ~ Resting(x)
  BY <1>1, <1>2 DEF Resting
<1>11. HoldsFit' /\ \A h \in Gens : Held(h)' <=> Held(h)
  BY <1>6, <1>7, <1>9, <1>10, HoldSame
<1>12. None \notin Gens
  BY Types
<1>. QED
  BY <1>1, <1>5, <1>6, <1>7, <1>8, <1>11, <1>12, OrderlyStep

LEMMA EndOrderly ==
  ASSUME Inv, Inv', Orderly, NEW x \in Threads, End(x) PROVE Orderly'
<1>1. /\ x \in Gens /\ thr[x].at = "body" /\ thr[x].calls = <<>> /\ Moving(x)
      /\ thr[x] \in Thread /\ gen[x] \in GeneratorState
  BY Types DEF End, InPHP, Moving
<1>2. PICK e \in Msgs :
        gen' = [gen EXCEPT ![x].status = "Closed", ![x].valid = FALSE, ![x].genErr = e,
                           ![x].fin = IF e = "none" THEN "ok" ELSE e]
  <2>1. thr[x].err \in Msgs
    BY <1>1 DEF Thread
  <2>. QED
    BY <2>1 DEF End, Msgs
<1>3. /\ gen'[x].status = "Closed" /\ gen'[x].fin # "none" /\ gen'[x].started = gen[x].started
      /\ gen'[x].forceClosing = gen[x].forceClosing /\ gen'[x].delegate = gen[x].delegate
      /\ \A h \in Gens \ {x} : gen'[h] = gen[h]
  BY <1>1, <1>2 DEF Inv, Typed, GeneratorState
<1>4. /\ thr'[x].at = "ended" /\ thr'[x].calls = <<>>
      /\ \A y \in Threads \ {x} : thr'[y] = thr[y]
  BY <1>1 DEF End, Inv, Typed, Thread
<1>5. Touches(x, x) /\ Due(x)'
  BY <1>3, <1>4 DEF Touches, Threads, Due
<1>6. /\ StackFits(x)' /\ Progress(thr'[x].calls) = Progress(thr[x].calls) /\ ~ Delegating(x)'
  BY <1>1, <1>4, NoneNested, NoFrames DEF StackFits, Sound, Delegating
<1>7. InChain'
  <2>1. \A y \in Threads \ {x} : Quiet(y)
    BY <1>3, <1>4 DEF Quiet, Like
  <2>2. Active(x)' /\ ~ Waiting(x)'
    BY <1>1, <1>4, <1>5 DEF Active, Waiting
  <2>. QED
    BY <1>1, <2>1, <2>2, ChainKept DEF Inv, Orderly
<1>8. ~ Resting(x) /\ ~ Signalled(x)
  BY <1>1 DEF Resting, Signalled
<1>9. ASSUME NEW f \in Frame, f.g = x, f.op \in InProgress, CallFits(f) PROVE CallFits(f)'
  <2>1. f.op \in Away
    BY <1>1, <1>8, <1>9 DEF CallFits, InProgress, Away, Chained
  <2>2. /\ gen[x].started /\ (gen[x].forceClosing <=> f.op \in Closer)
        /\ f.op = "signalled" => Delegates[x] # {}
    BY <1>9 DEF CallFits
  <2>. QED
    BY <1>3, <1>5, <1>9, <2>1, <2>2 DEF CallFits, Away, Chained
<1>10. HoldsFit' /\ \A h \in Gens : Held(h)' <=> Held(h)
  BY <1>5, <1>6, <1>8, <1>9, HoldSame
<1>11. Held(x)
  BY <1>1, <1>8 DEF Orderly, HoldsFit, OthersRest
<1>12. \A d \in Gens : gen[x].delegate = d => d \in Delegates[x] /\ gen[d].started
  BY <1>1 DEF Orderly, DelegatesFit, DelegateFits
<1>. QED
  BY <1>1, <1>3, <1>4, <1>5, <1>6, <1>7, <1>10, <1>11, <1>12, OrderlyStep

(* PHP code calls, fails or goes on.                                       *)
LEMMA CodeOrderly ==
  ASSUME Inv, Inv', Orderly, NEW x \in Threads, InPHP(x), UNCHANGED gen,
         \A y \in Threads \ {x} : thr'[y] = thr[y], thr'[x].at = "body",
         Sound(thr'[x].calls, x), Progress(thr'[x].calls) = {},
         thr'[x].calls # <<>> => Head(thr'[x].calls).op \notin Away,
         x \in Gens /\ gen[x].forceClosing => ~ Delegating(x)'
  PROVE  Orderly'
<1>1. thr[x].at = "body" /\ thr[x].calls = <<>> /\ Moving(x)
  BY DEF InPHP, Moving
<1>2. Touches(x, x) /\ StackFits(x)' /\ thr'[x].at = thr[x].at /\ gen' = gen
  BY <1>1 DEF Touches, StackFits, Threads
<1>3. Progress(thr'[x].calls) = Progress(thr[x].calls)
  BY <1>1, NoneNested
<1>4. InChain'
  <2>1. \A y \in Threads \ {x} : Quiet(y)
    BY DEF Quiet, Like
  <2>2. Active(x)' /\ ~ Waiting(x)'
    BY DEF Active, Waiting, InCall, Top
  <2>. QED
    BY <1>1, <2>1, <2>2, ChainKept DEF Inv, Orderly
<1>5. HoldsFit' /\ \A h \in Gens : Held(h)' <=> Held(h)
  <2>1. /\ \A f : f.g = x => (CallFits(f)' <=> CallFits(f))
        /\ Resting(x)' <=> Resting(x)
    BY <1>2, SameFits
  <2>. QED
    BY <1>2, <1>3, <2>1, HoldSame
<1>6. x \in Gens => Signal(x)' = Signal(x) /\ DelegateFits(x)
  BY <1>2 DEF Signal, Orderly, DelegatesFit
<1>7. x \in Gens =>
        \A d \in Gens : gen'[x].delegate = d =>
          /\ d \in Delegates[x] /\ gen[d].started
          /\ thr'[x].at = "delegating" /\ Signal(x)' = "ok"
               => gen[d].status = "Closed" /\ ~ Held(d)
  BY <1>2, <1>6 DEF DelegateFits
<1>. QED
  BY <1>2, <1>4, <1>5, <1>7, OrderlyStep

LEMMA FailsOrderly ==
  ASSUME Inv, Inv', Orderly, NEW x \in Threads, MayAct(x), Fails(x) PROVE Orderly'
<1>1. Burnt(x) \in Thread /\ Burnt(x).at = "body" /\ Burnt(x).calls = <<>>
  BY BurntFacts
<1>2. PICK b \in Thread : b = Burnt(x) /\ b.at = "body" /\ b.calls = <<>>
  BY <1>1
<1>3. Raised(x, b, "throw").at = "body" /\ Raised(x, b, "throw").calls = <<>>
  BY <1>2, RaisedFacts DEF Msgs
<1>4. /\ thr'[x] = Raised(x, b, "throw") /\ \A y \in Threads \ {x} : thr'[y] = thr[y]
      /\ UNCHANGED gen
  BY <1>2 DEF Fails, Inv, Typed
<1>5. /\ thr'[x].at = "body" /\ thr'[x].calls = <<>> /\ InPHP(x)
      /\ Sound(thr'[x].calls, x) /\ Progress(thr'[x].calls) = {} /\ ~ Delegating(x)'
  BY <1>3, <1>4, NoneNested, NoFrames DEF Sound, Delegating, MayAct
<1>. QED
  BY <1>4, <1>5, CodeOrderly

LEMMA RecoverOrderly ==
  ASSUME Inv, Inv', Orderly, NEW x \in Threads, Recover(x) PROVE Orderly'
<1>1. thr[x] \in Thread /\ thr[x].at = "body" /\ thr[x].calls = <<>> /\ InPHP(x)
  BY Types DEF Recover, InPHP
<1>2. /\ thr'[x].at = "body" /\ thr'[x].calls = <<>> /\ UNCHANGED gen
      /\ \A y \in Threads \ {x} : thr'[y] = thr[y]
  BY <1>1 DEF Recover, Inv, Typed, Thread
<1>3. Sound(thr'[x].calls, x) /\ Progress(thr'[x].calls) = {} /\ ~ Delegating(x)'
  BY <1>2, NoneNested, NoFrames DEF Sound, Delegating
<1>. QED
  BY <1>1, <1>2, <1>3, CodeOrderly

LEMMA CallsOrderly ==
  ASSUME Inv, Inv', Orderly, NEW x \in Threads, MayAct(x), NEW fs \in Seq(Frame), Calls(x, fs),
         Sound(fs, x), \A f \in Frames(fs) : f.op \in Entries \cup {"yieldfrom"},
         x \in Gens /\ gen[x].forceClosing => \A f \in Frames(fs) : f.op # "yieldfrom"
  PROVE  Orderly'
<1>1. PICK b \in Thread : b = Burnt(x) /\ b.at = "body"
  BY BurntFacts
<1>2. /\ thr'[x] = [b EXCEPT !.calls = fs] /\ \A y \in Threads \ {x} : thr'[y] = thr[y]
      /\ UNCHANGED gen /\ InPHP(x)
  BY <1>1 DEF Calls, Inv, Typed, MayAct
<1>3. thr'[x].at = "body" /\ thr'[x].calls = fs
  BY <1>1, <1>2 DEF Thread
<1>4. Progress(fs) = {} /\ (fs # <<>> => Head(fs).op \notin Away)
  <2>1. \A f \in Frames(fs) : f.op \notin InProgress /\ f.op \notin Away
    BY DEF Entries, InProgress, Away
  <2>2. fs # <<>> => Head(fs) \in Frames(fs)
    BY StackFacts
  <2>. QED
    BY <2>1, <2>2 DEF Progress
<1>5. x \in Gens /\ gen[x].forceClosing => ~ Delegating(x)'
  BY <1>3 DEF Delegating
<1>. QED
  BY <1>2, <1>3, <1>4, <1>5, CodeOrderly

LEMMA OneSound ==
  ASSUME NEW x, NEW a \in Frame, Reaches(a, x) PROVE Sound(<<a>>, x)
<1>1. Len(<<a>>) = 1 /\ Frames(<<a>>) = {a}
  BY OneCall
<1>2. 1 .. Len(<<a>>) - 1 = {}
  BY <1>1
<1>. QED
  BY <1>1, <1>2 DEF Sound, Nested

LEMMA TwoSound ==
  ASSUME NEW x, NEW a \in Frame, NEW b \in Frame, Reaches(a, x), Reaches(b, x), Above(a, b)
  PROVE  Sound(<<a, b>>, x)
<1>1. Len(<<a, b>>) = 2 /\ <<a, b>>[1] = a /\ <<a, b>>[2] = b /\ Frames(<<a, b>>) = {a, b}
  BY TwoCalls
<1>2. 1 .. Len(<<a, b>>) - 1 = {1}
  BY <1>1
<1>. QED
  BY <1>1, <1>2 DEF Sound, Nested

LEMMA PHPOrderly ==
  ASSUME Inv, Inv', Orderly, NEW x \in Threads, PHP(x) PROVE Orderly'
<1>1. ASSUME NEW op \in Entries \cup {"yieldfrom"}, NEW g \in Gens
      PROVE  Call(op, g) \in Frame /\ Call(op, g).op = op /\ Call(op, g).g = g
  BY CallFacts
<1>2. /\ \A g \in Sees[x] : g \in Gens /\ (x \in Gens => Beneath(Rank, g, x))
      /\ x \in Gens => \A h \in Delegates[x] : h \in Gens /\ Beneath(Rank, h, x)
  <2>1. Ordered(Rank) /\ NoReentry
    BY RankFacts DEF Orderly
  <2>2. \A g \in Sees[x] : g \in Gens /\ (x \in Gens => Beneath(Rank, g, x))
    BY <2>1, ProgramAssumption DEF Ordered
  <2>3. x \in Gens => \A h \in Delegates[x] : h \in Gens /\ Beneath(Rank, h, x)
    BY <2>1, Ranks DEF Beneath
  <2>. QED
    BY <2>2, <2>3
<1>3. {"start", "advance", "throw", "close"} \subseteq Entries
  BY DEF Entries
<1>4. ASSUME NEW g \in Sees[x], NEW op \in {"start", "close"}, MayAct(x), Calls(x, <<Call(op, g)>>)
      PROVE  Orderly'
  <2>1. PICK a \in Frame : a = Call(op, g) /\ a.op = op /\ a.g = g
    BY <1>1, <1>2, <1>3
  <2>2. Reaches(a, x) /\ a.op \in Entries /\ a.op # "yieldfrom"
    BY <1>2, <1>3, <2>1 DEF Reaches
  <2>3. PICK fs \in Seq(Frame) : fs = <<a>> /\ Frames(fs) = {a} /\ Sound(fs, x)
    BY <2>2, OneCall, OneSound
  <2>4. Calls(x, fs) /\ \A f \in Frames(fs) : f.op \in Entries /\ f.op # "yieldfrom"
    BY <1>4, <2>1, <2>2, <2>3
  <2>. QED
    BY <1>4, <2>3, <2>4, CallsOrderly
<1>5. ASSUME NEW g \in Sees[x], NEW op \in {"advance", "throw"}, MayAct(x),
             Calls(x, <<Call("start", g), Call(op, g)>>)
      PROVE  Orderly'
  <2>1. PICK a \in Frame : a = Call("start", g) /\ a.op = "start" /\ a.g = g
    BY <1>1, <1>2, <1>3
  <2>2. PICK b \in Frame : b = Call(op, g) /\ b.op = op /\ b.g = g
    BY <1>1, <1>2, <1>3
  <2>3. /\ Reaches(a, x) /\ Reaches(b, x) /\ Above(a, b)
        /\ \A f \in {a, b} : f.op \in Entries /\ f.op # "yieldfrom"
    BY <1>2, <1>3, <2>1, <2>2 DEF Reaches, Above, Starting
  <2>4. PICK fs \in Seq(Frame) : fs = <<a, b>> /\ Frames(fs) = {a, b} /\ Sound(fs, x)
    BY <2>3, TwoCalls, TwoSound
  <2>5. Calls(x, fs) /\ \A f \in Frames(fs) : f.op \in Entries /\ f.op # "yieldfrom"
    BY <1>5, <2>1, <2>2, <2>3, <2>4
  <2>. QED
    BY <1>5, <2>4, <2>5, CallsOrderly
<1>6. ASSUME x \in Gens, NEW h \in Delegates[x], YieldFrom(x, h) PROVE Orderly'
  <2>1. CASE Fails(x)
    BY <1>6, <2>1, FailsOrderly DEF YieldFrom
  <2>2. CASE ~ gen[x].forceClosing /\ Calls(x, <<Call("start", h), Call("yieldfrom", h)>>)
    <3>1. PICK a \in Frame : a = Call("start", h) /\ a.op = "start" /\ a.g = h
      BY <1>1, <1>2, <1>3, <1>6
    <3>2. PICK b \in Frame : b = Call("yieldfrom", h) /\ b.op = "yieldfrom" /\ b.g = h
      BY <1>1, <1>2, <1>6
    <3>3. /\ Reaches(a, x) /\ Reaches(b, x) /\ Above(a, b)
          /\ \A f \in {a, b} : f.op \in Entries \cup {"yieldfrom"}
      BY <1>2, <1>3, <1>6, <3>1, <3>2 DEF Reaches, Above, Starting
    <3>4. PICK fs \in Seq(Frame) : fs = <<a, b>> /\ Frames(fs) = {a, b} /\ Sound(fs, x)
      BY <3>3, TwoCalls, TwoSound
    <3>5. Calls(x, fs) /\ \A f \in Frames(fs) : f.op \in Entries \cup {"yieldfrom"}
      BY <2>2, <3>1, <3>2, <3>3, <3>4
    <3>. QED
      BY <1>6, <2>2, <3>4, <3>5, CallsOrderly DEF YieldFrom
  <2>. QED
    BY <1>6, <2>1, <2>2 DEF YieldFrom
<1>7. ASSUME NEW g \in Sees[x], Next_(x, g) PROVE Orderly'
  BY <1>5, <1>7, FailsOrderly DEF Next_
<1>8. ASSUME NEW g \in Sees[x], Throw(x, g) PROVE Orderly'
  BY <1>5, <1>8 DEF Throw
<1>9. ASSUME NEW g \in Sees[x], Read(x, g) PROVE Orderly'
  BY <1>4, <1>9 DEF Read
<1>10. ASSUME NEW g \in Sees[x], Rewind(x, g) PROVE Orderly'
  BY <1>4, <1>10, FailsOrderly DEF Rewind
<1>11. ASSUME NEW g \in Sees[x], Close(x, g) PROVE Orderly'
  BY <1>4, <1>11 DEF Close
<1>12. ASSUME Yield(x) PROVE Orderly'
  <2>1. CASE Fails(x)
    BY <1>12, <2>1, FailsOrderly DEF Yield
  <2>2. CASE /\ ~ gen[x].forceClosing
             /\ gen' = [gen EXCEPT ![x].status = "Suspended", ![x].valid = TRUE]
             /\ thr' = [thr EXCEPT ![x] = [Burnt(x) EXCEPT !.at = "yielding"]]
    <3>1. MayAct(x) /\ x \in Gens /\ gen[x] \in GeneratorState
      BY <1>12, Types DEF Yield
    <3>2. thr[x].at = "body" /\ Progress(thr[x].calls) = {} /\ Moving(x)
      BY <3>1, BurntFacts, NoneNested DEF MayAct, InPHP
    <3>3. PICK b \in Thread : b = Burnt(x) /\ b.calls = <<>>
      BY <3>1, BurntFacts
    <3>4. /\ thr'[x].at = "yielding" /\ thr'[x].calls = <<>>
          /\ \A y \in Threads \ {x} : thr'[y] = thr[y]
      <4>1. thr'[x] = [b EXCEPT !.at = "yielding"] /\ \A y \in Threads \ {x} : thr'[y] = thr[y]
        BY <2>2, <3>3 DEF Inv, Typed
      <4>. QED
        BY <3>3, <4>1 DEF Thread
    <3>5. /\ gen'[x].status = "Suspended" /\ gen'[x].started = gen[x].started
          /\ gen'[x].forceClosing = gen[x].forceClosing /\ gen'[x].delegate = gen[x].delegate
          /\ \A h \in Gens \ {x} : gen'[h] = gen[h]
      BY <2>2, <3>1 DEF Inv, Typed, GeneratorState
    <3>6. \A d \in Gens : gen'[x].delegate = d => d \in Delegates[x] /\ gen[d].started
      BY <3>1, <3>5 DEF Orderly, DelegatesFit, DelegateFits
    <3>. QED
      BY <2>2, <3>1, <3>2, <3>4, <3>5, <3>6, YieldsOrderly
  <2>. QED
    BY <1>12, <2>1, <2>2 DEF Yield
<1>13. CASE \E g \in Sees[x] : \/ Next_(x, g) \/ Throw(x, g) \/ Read(x, g)
                               \/ Rewind(x, g) \/ Close(x, g)
  BY <1>7, <1>8, <1>9, <1>10, <1>11, <1>13
<1>. QED
  BY <1>6, <1>12, <1>13, RecoverOrderly, EndOrderly DEF PHP

-----------------------------------------------------------------------------
(* The invariant holds                                                     *)

LEMMA InitOrderly == ASSUME NoReentry, Init PROVE Orderly
<1>1. \A g \in Gens : g \in Threads /\ g # Main
  BY ProgramAssumption DEF Threads
<1>2. /\ \A x \in Threads : /\ thr[x].calls = <<>> /\ Progress(thr[x].calls) = {}
                            /\ ~ Delegating(x) /\ StackFits(x)
      /\ \A g \in Gens : /\ thr[g].at = "born" /\ gen[g].status = "Created" /\ ~ gen[g].started
                         /\ ~ gen[g].valid /\ ~ gen[g].forceClosing /\ gen[g].delegate = None
  BY <1>1, NoneNested, NoFrames DEF Init, Delegating, StackFits, Sound
<1>3. \A x \in Threads : ~ Waiting(x) /\ (Active(x) => x = Main) /\ (Moving(x) => x = Main)
  <2>1. \A x \in Threads : x # Main => x \in Gens /\ thr[x].at = "born"
    BY <1>2 DEF Threads
  <2>. QED
    BY <1>2, <2>1 DEF Waiting, InCall, Active, Due, Signalled, Moving
<1>4. InChain
  <2>. DEFINE depth == [x \in Threads |-> 0]
  <2>1. depth \in [Threads -> Nat] /\ \A x \in Threads : depth[x] = 0
    OBVIOUS
  <2>. HIDE DEF depth
  <2>2. Chain(depth)
    BY <1>3, <2>1 DEF Chain
  <2>. QED
    BY <2>1, <2>2 DEF InChain
<1>5. HoldsFit
  <2>1. \A g \in Gens : Resting(g)
    BY <1>2 DEF Resting
  <2>. QED
    BY <1>2, <2>1 DEF HoldsFit, CallsFit, OneHolds, OthersRest, Holds
<1>6. DelegatesFit
  <2>1. None \notin Gens
    BY ProgramAssumption
  <2>. QED
    BY <1>2, <2>1 DEF DelegatesFit, DelegateFits
<1>. QED
  BY <1>2, <1>4, <1>5, <1>6 DEF Orderly, StacksFit

LEMMA NextOrderly == ASSUME Inv, Inv', Orderly, [Next]_vars PROVE Orderly'
<1>1. CASE UNCHANGED vars
  <2>1. gen' = gen /\ thr' = thr
    BY <1>1 DEF vars
  <2>2. \A x : /\ (Active(x)' <=> Active(x)) /\ (Waiting(x)' <=> Waiting(x))
               /\ (Moving(x)' <=> Moving(x)) /\ Top(x)' = Top(x)
               /\ (Delegating(x)' <=> Delegating(x)) /\ (StackFits(x)' <=> StackFits(x))
    BY <2>1 DEF Active, Due, Signalled, Signal, Waiting, InCall, Top, Moving, Delegating,
                StackFits, Sound
  <2>3. InChain' <=> InChain
    BY <2>1, <2>2 DEF InChain, Chain
  <2>4. \A g : /\ (\A x : Holds(x, g)' <=> Holds(x, g)) /\ (Held(g)' <=> Held(g))
    BY <2>1 DEF Holds, Held
  <2>5. \A g : /\ (\A f : f.g = g => (CallFits(f)' <=> CallFits(f))) /\ (Resting(g)' <=> Resting(g))
    BY <2>1, SameFits
  <2>6. HoldsFit' <=> HoldsFit
    BY <2>1, <2>4, <2>5 DEF HoldsFit, CallsFit, OneHolds, OthersRest
  <2>7. DelegatesFit' <=> DelegatesFit
    BY <2>1, <2>2, <2>4 DEF DelegatesFit, DelegateFits, Signal
  <2>. QED
    BY <2>2, <2>3, <2>6, <2>7 DEF Orderly, StacksFit
<1>2. ASSUME NEW x \in Threads, Native(x) PROVE Orderly'
  BY <1>2, StartOrderly, AdvanceRefusedOrderly, AdvanceOrderly, ResumeOrderly,
     ReceiveDoneOrderly, ReceiveYieldOrderly, FollowDelegateOrderly,
     WaitAfterDelegateDoneOrderly, ForceCloseOrderly, CloseAfterDelegateOrderly,
     YieldFromGeneratorOrderly, DelegationDoneOrderly DEF Native
<1>. QED
  BY <1>1, <1>2, PHPOrderly DEF Next

LEMMA OrderlyHolds == ASSUME NoReentry PROVE Spec => [](Inv /\ Orderly)
<1>1. Init => Inv /\ Orderly
  BY InitInv, InitOrderly
<1>2. Inv /\ Orderly /\ [Next]_vars => (Inv /\ Orderly)'
  BY NextInv, NextOrderly
<1>. QED
  BY <1>1, <1>2, PTL DEF Spec

-----------------------------------------------------------------------------
(* What follows from it                                                    *)

LEMMA CallsOnFacts ==
  ASSUME Inv, NEW g \in Gens
  PROVE  /\ \A c \in CallsOn(g) : \E x \in Threads : \E i \in 1 .. Len(thr[x].calls) :
              c = <<x, i>> /\ thr[x].calls[i] \in Progress(thr[x].calls) /\ thr[x].calls[i].g = g
         /\ Held(g) => CallsOn(g) # {}
<1>1. \A x \in Threads : DOMAIN thr[x].calls = 1 .. Len(thr[x].calls)
  BY Types, LenProperties
<1>2. ASSUME NEW c \in CallsOn(g)
      PROVE  \E x \in Threads : \E i \in 1 .. Len(thr[x].calls) :
               c = <<x, i>> /\ thr[x].calls[i] \in Progress(thr[x].calls) /\ thr[x].calls[i].g = g
  <2>1. PICK x \in Threads : c \in {<<x, i>> : i \in {j \in DOMAIN thr[x].calls :
                                      /\ thr[x].calls[j].g = g
                                      /\ thr[x].calls[j].op \in InProgress}}
    BY DEF CallsOn
  <2>2. PICK i \in DOMAIN thr[x].calls :
          c = <<x, i>> /\ thr[x].calls[i].g = g /\ thr[x].calls[i].op \in InProgress
    BY <2>1
  <2>. QED
    BY <1>1, <2>2 DEF Progress, Frames
<1>3. ASSUME Held(g) PROVE CallsOn(g) # {}
  <2>1. PICK x \in Threads : Holds(x, g)
    BY <1>3 DEF Held
  <2>2. PICK i \in 1 .. Len(thr[x].calls) : thr[x].calls[i].g = g /\ thr[x].calls[i].op \in InProgress
    BY <2>1 DEF Holds, Progress, Frames
  <2>3. <<x, i>> \in CallsOn(g)
    BY <1>1, <2>2 DEF CallsOn
  <2>. QED
    BY <2>3
<1>. QED
  BY <1>2, <1>3

(* A generator that is resumed, closed or advanced through a delegation    *)
(* has no other call in progress, for any program in which no body reaches *)
(* a generator that delegates to it: the status that generatorAdvance,     *)
(* generatorThrowInner and generatorForceClose look at is enough.          *)
THEOREM OneCallAtATime == ASSUME NoReentry PROVE Spec => []OneCallPerGenerator
<1>1. Inv /\ Orderly => OneCallPerGenerator
  <2>. SUFFICES ASSUME Inv, Orderly, NEW g \in Gens PROVE Cardinality(CallsOn(g)) <= 1
    BY DEF OneCallPerGenerator
  <2>1. ASSUME NEW b \in CallsOn(g), NEW c \in CallsOn(g) PROVE b = c
    <3>1. PICK x \in Threads : \E i \in 1 .. Len(thr[x].calls) :
            b = <<x, i>> /\ thr[x].calls[i] \in Progress(thr[x].calls) /\ thr[x].calls[i].g = g
      BY CallsOnFacts
    <3>2. PICK i \in 1 .. Len(thr[x].calls) :
            b = <<x, i>> /\ thr[x].calls[i] \in Progress(thr[x].calls) /\ thr[x].calls[i].g = g
      BY <3>1
    <3>3. PICK y \in Threads : \E j \in 1 .. Len(thr[y].calls) :
            c = <<y, j>> /\ thr[y].calls[j] \in Progress(thr[y].calls) /\ thr[y].calls[j].g = g
      BY CallsOnFacts
    <3>4. PICK j \in 1 .. Len(thr[y].calls) :
            c = <<y, j>> /\ thr[y].calls[j] \in Progress(thr[y].calls) /\ thr[y].calls[j].g = g
      BY <3>3
    <3>5. x = y
      BY <3>2, <3>4 DEF Orderly, HoldsFit, OneHolds, Holds
    <3>6. NoReentry /\ thr[x].calls \in Seq(Frame) /\ Nested(thr[x].calls)
      BY Types DEF Orderly, StacksFit, StackFits, Sound
    <3>7. /\ Rank \in [Gens -> Nat] /\ Rank[g] \in Nat
          /\ thr[x].calls[i].op \in InProgress /\ thr[x].calls[j].op \in InProgress
      BY <3>2, <3>4, <3>5, <3>6, RankFacts DEF Progress
    <3>8. ~ i < j
      BY <3>2, <3>4, <3>5, <3>6, <3>7, NestedRanks
    <3>9. ~ j < i
      BY <3>2, <3>4, <3>5, <3>6, <3>7, NestedRanks
    <3>10. i = j
      BY <3>2, <3>4, <3>8, <3>9
    <3>. QED
      BY <3>2, <3>4, <3>5, <3>10
  <2>2. CASE CallsOn(g) = {}
    <3>1. Cardinality({}) = 0
      BY FS_EmptySet
    <3>. QED
      BY <2>2, <3>1
  <2>3. CASE CallsOn(g) # {}
    <3>1. PICK c : CallsOn(g) = {c}
      BY <2>1, <2>3
    <3>2. Cardinality({c}) = 1
      BY FS_Singleton
    <3>. QED
      BY <3>1, <3>2
  <2>. QED
    BY <2>2, <2>3
<1>. QED
  BY <1>1, OrderlyHolds, PTL

(* The status that every guard of generator.go reads is true of the        *)
(* goroutine: a suspended one waits to be resumed (or the caller is about  *)
(* to set it right), a running one has its caller, a closed one has ended. *)
THEOREM StatusHolds == ASSUME NoReentry PROVE Spec => []StatusIsTrue
<1>1. Inv /\ Orderly => StatusIsTrue
  <2>. SUFFICES ASSUME Inv, Orderly, NEW g \in Gens
                PROVE  /\ gen[g].status = "Suspended" =>
                            \/ thr[g].at \in {"yielding", "parked", "delegating"}
                            \/ \E x \in Threads : InCall(x, {"signalled"}) /\ Top(x).g = g
                       /\ gen[g].status = "Running" => CallsOn(g) # {}
                       /\ gen[g].status = "Closed" => thr[g].at = "ended"
    BY DEF StatusIsTrue
  <2>1. CASE ~ Held(g)
    <3>1. Resting(g)
      BY <2>1 DEF Orderly, HoldsFit, OthersRest
    <3>. QED
      BY <3>1 DEF Resting
  <2>2. CASE Held(g)
    <3>1. PICK x \in Threads : Holds(x, g)
      BY <2>2 DEF Held
    <3>2. PICK f \in Progress(thr[x].calls) : f.g = g
      BY <3>1 DEF Holds
    <3>3. CallFits(f) /\ f.op \in InProgress
      BY <3>2 DEF Orderly, HoldsFit, CallsFit, Progress
    <3>4. f.op = "signalled" => InCall(x, {"signalled"}) /\ Top(x).g = g
      <4>. SUFFICES ASSUME f.op = "signalled" PROVE InCall(x, {"signalled"}) /\ Top(x).g = g
        OBVIOUS
      <4>1. thr[x].calls # <<>>
        BY <3>2, NoneNested
      <4>2. f = Top(x)
        <5>1. NoReentry /\ StackFits(x)
          BY DEF Orderly, StacksFit
        <5>2. f \notin Progress(Tail(thr[x].calls))
          BY <4>1, <5>1, TopSplit DEF Chained
        <5>. QED
          BY <3>2, <4>1, <5>1, <5>2, TopSplit
      <4>. QED
        BY <3>2, <4>1, <4>2 DEF InCall
    <3>5. CallsOn(g) # {}
      BY <2>2, CallsOnFacts
    <3>6. gen[g].status = "Suspended" /\ f.op # "signalled" => thr[g].at \in {"yielding", "delegating"}
      BY <3>2, <3>3 DEF CallFits, InProgress, Chained
    <3>7. gen[g].status = "Closed" => thr[g].at = "ended"
      BY <3>2, <3>3 DEF CallFits, InProgress, Chained, Due
    <3>. QED
      BY <3>4, <3>5, <3>6, <3>7
  <2>. QED
    BY <2>1, <2>2
<1>. QED
  BY <1>1, OrderlyHolds, PTL

(* "yield from" gives the outer body a value only once the inner generator *)
(* has ended (generatorAdvanceDelegated).                                  *)
THEOREM InnerEndsFirst == ASSUME NoReentry PROVE Spec => []DelegationEndsWithInner
<1>1. Inv /\ Orderly => DelegationEndsWithInner
  <2>. SUFFICES ASSUME Inv, Orderly, NEW g \in Gens, thr[g].at = "delegating", Signal(g) = "ok"
                PROVE  gen[gen[g].delegate].status = "Closed"
    BY DEF DelegationEndsWithInner, Signal
  <2>1. gen[g].delegate # None /\ gen[g] \in GeneratorState
    BY Types DEF Inv, GensFit, GenFits
  <2>2. gen[g].delegate \in Gens
    BY <2>1 DEF GeneratorState
  <2>. QED
    BY <2>2 DEF Orderly, DelegatesFit, DelegateFits
<1>. QED
  BY <1>1, OrderlyHolds, PTL

(* No value that a force-closed generator yields reaches a caller: the     *)
(* "should not happen" case of generatorForceClose does not happen.        *)
THEOREM ClosingIsFinal == ASSUME NoReentry PROVE Spec => []ForceClosedNeverYields
<1>1. Inv /\ Orderly => ForceClosedNeverYields
  <2>. SUFFICES ASSUME Inv, Orderly, NEW g \in Gens, gen[g].forceClosing
                PROVE  gen[g].status \in {"Running", "Closed"} /\ thr[g].at # "yielding"
    BY DEF ForceClosedNeverYields
  <2>1. CASE ~ Held(g)
    <3>1. Resting(g)
      BY <2>1 DEF Orderly, HoldsFit, OthersRest
    <3>. QED
      BY <3>1 DEF Resting
  <2>2. CASE Held(g)
    <3>1. PICK x \in Threads : Holds(x, g)
      BY <2>2 DEF Held
    <3>2. PICK f \in Progress(thr[x].calls) : f.g = g
      BY <3>1 DEF Holds
    <3>3. CallFits(f)
      BY <3>2 DEF Orderly, HoldsFit, CallsFit
    <3>4. f.op \in Closer
      BY <3>2, <3>3 DEF CallFits
    <3>. QED
      BY <3>2, <3>3, <3>4 DEF CallFits, Closer, Chained, Due, Signalled
  <2>. QED
    BY <2>1, <2>2
<1>. QED
  BY <1>1, OrderlyHolds, PTL
=============================================================================
