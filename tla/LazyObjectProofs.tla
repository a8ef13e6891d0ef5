--------------------------- MODULE LazyObjectProofs ---------------------------
(* Proofs about LazyObject, for scripts that do not reset an object whose  *)
(* initializer is running: for any number of objects, properties and       *)
(* initializers and any nesting of accesses, initializers and destructors, *)
(* an initializer is owed until it succeeds, never runs inside itself, and *)
(* a ghost shows either its skipped properties or all of them.             *)
EXTENDS LazyObject, Iteration, SequenceTheorems, TLAPS

Calls == 1 .. Len(calls)

(* The numbers of initializers are given once: to an object, to the call   *)
(* of an initializer, or to a destructor that will hand it to its object.  *)
NumbersOfObjects ==
    /\ done \subseteq 1 .. inits
    /\ \A o \in Objs : obj[o].init = 0 \/ obj[o].init \in (1 .. inits) \ done
    /\ \A o, x \in Objs : o # x /\ obj[o].init = obj[x].init => obj[o].init = 0

NumbersOfCalls ==
    /\ \A i \in Calls : calls[i].op # "access" => calls[i].init \in (1 .. inits) \ done
    /\ \A i, j \in Calls :
         /\ i # j /\ calls[i].op # "access" /\ calls[j].op # "access"
         => calls[i].init # calls[j].init

NumbersOfBoth ==
    \A i \in Calls, x \in Objs :
      \/ calls[i].op = "access"
      \/ calls[i].op = "init" /\ calls[i].o = x
      \/ obj[x].init # calls[i].init

NumbersAreUnique == NumbersOfObjects /\ NumbersOfCalls /\ NumbersOfBoth

(* What holds of objects alone.                                            *)
ObjectsFit ==
    \A o \in Objs :
      /\ Lazy(o) => obj[o].made /\ obj[o].init # 0
      /\ obj[o].state = "ghost" => ~obj[o].initializing /\ obj[o].h = obj[o].skipped
      /\ obj[o].state = "ghostDone" => obj[o].h = Props
      /\ obj[o].init # 0 /\ ~Lazy(o) => obj[o].initializing

InitializingOnes == \A o \in Objs : obj[o].initializing => BeingInitialized(o)

InstancesAreMade == \A o \in Objs : obj[o].inst # NoObj => obj[obj[o].inst].made

ObjectsAreSound == ObjectsFit /\ InitializingOnes /\ InstancesAreMade

(* What the call of an initializer knows of its object.                    *)
InitCall(f) ==
    /\ obj[f.o].initializing /\ obj[f.o].made
    /\ obj[f.o].init \in {0, f.init}
    /\ \/ /\ f.state = "ghost" /\ obj[f.o].state = "ghostDone"
          /\ f.h = obj[f.o].skipped /\ obj[f.o].init = f.init
       \/ f.state = "proxy" /\ obj[f.o].state = "proxy"
       \/ f.state = "proxy" /\ obj[f.o].state = "proxyDone" /\ obj[f.o].init = 0

(* How the calls nest: no object is initialized twice, no destructor runs  *)
(* above the initializer of its object, and an access waits for the        *)
(* initializer of its object.                                              *)
InitCalls ==
    /\ \A i \in Calls : calls[i].op = "init" => InitCall(calls[i])
    /\ \A i \in Calls : calls[i].op # "init" => obj[calls[i].o].made

InitsApart ==
    \A i, j \in Calls :
      /\ calls[j].op = "init"
      /\ (calls[i].op = "init" /\ i # j) \/ (calls[i].op = "destroy" /\ j < i)
      => calls[i].o # calls[j].o

AccessesWait ==
    \A i \in Calls :
      calls[i].op = "access" =>
        /\ i < Len(calls) => calls[i+1].op = "init" /\ calls[i+1].o = calls[i].o
        /\ i = Len(calls) /\ calls[i].at = "inited"
             => obj[calls[i].o].state \in {"ghostDone", "proxyDone"}

CallsAreSound == InitCalls /\ InitsApart /\ AccessesWait

Inv == TypeOK /\ NumbersAreUnique /\ ObjectsAreSound /\ CallsAreSound

-----------------------------------------------------------------------------
(* Calls *)

(* An access has the fields of an access, and so on.                       *)
LEMMA FrameKinds ==
  ASSUME NEW f \in Frame
  PROVE  /\ f.op \in {"access", "init", "destroy"}
         /\ f.op = "access" => f \in Access
         /\ f.op = "init" => f \in Initialization
         /\ f.op = "destroy" => f \in Destruction
         /\ f.o \in Objs
BY DEF Frame, Access, Initialization, Destruction

(* The calls without the innermost one.                                    *)
LEMMA BelowFacts ==
  ASSUME calls \in Seq(Frame), calls # <<>>
  PROVE  /\ Len(calls) \in Nat /\ Len(calls) > 0 /\ Cur \in Frame
         /\ Below \in Seq(Frame) /\ Len(Below) = Len(calls) - 1
         /\ \A i \in 1 .. Len(calls) - 1 : Below[i] = calls[i]
<1>1. Len(calls) \in Nat /\ Len(calls) > 0
  BY EmptySeq, LenProperties
<1>2. \A i \in 1 .. Len(calls) : calls[i] \in Frame
  BY ElementOfSeq
<1>3. PICK n \in Nat : Len(calls) = n + 1
  <2>1. Len(calls) - 1 \in Nat /\ Len(calls) = (Len(calls) - 1) + 1
    BY <1>1
  <2>. QED
    BY <2>1
<1>4. Cur \in Frame
  BY <1>1, <1>2 DEF Cur
<1>5. Below = SubSeq(calls, 1, n)
  BY <1>3 DEF Below
<1>6. \A i \in 1 .. n : calls[i] \in Frame
  BY <1>2, <1>3
<1>7. /\ Below \in Seq(Frame)
      /\ Len(Below) = IF 1 <= n THEN n - 1 + 1 ELSE 0
      /\ \A i \in 1 .. n - 1 + 1 : Below[i] = calls[1 + i - 1]
  BY <1>5, <1>6, SubSeqProperties
<1>8. Len(Below) = n /\ \A i \in 1 .. n : Below[i] = calls[i]
  BY <1>7
<1>. QED
  BY <1>1, <1>3, <1>4, <1>7, <1>8

(* The calls with one more.                                                *)
LEMMA PushFacts ==
  ASSUME NEW C \in Seq(Frame), NEW f \in Frame
  PROVE  /\ Append(C, f) \in Seq(Frame) /\ Len(C) \in Nat
         /\ Len(Append(C, f)) = Len(C) + 1
         /\ \A i \in 1 .. Len(C) : Append(C, f)[i] = C[i]
         /\ Append(C, f)[Len(C) + 1] = f
BY AppendProperties, LenProperties

(* The calls with the innermost access at another place.                   *)
LEMMA ResumeFacts ==
  ASSUME calls \in Seq(Frame), InAccess, NEW o \in Objs, NEW at \in Steps
  PROVE  /\ Resume(o, at) \in Seq(Frame) /\ Len(Resume(o, at)) = Len(calls)
         /\ \A i \in 1 .. Len(calls) - 1 : Resume(o, at)[i] = calls[i]
         /\ Resume(o, at)[Len(calls)].op = "access" /\ Resume(o, at)[Len(calls)].o = o
         /\ Resume(o, at)[Len(calls)].at = at
<1>1. Len(calls) \in Nat /\ Len(calls) > 0 /\ Cur \in Access
  BY BelowFacts, FrameKinds DEF InAccess
<1>. DEFINE f == [Cur EXCEPT !.o = o, !.at = at]
<1>2. f \in Access
  BY <1>1 DEF Access
<1>3. f \in Frame
  BY <1>2 DEF Frame
<1>4. Resume(o, at) = [calls EXCEPT ![Len(calls)] = f]
  BY <1>1, LenProperties DEF Resume, Cur
<1>5. f.op = "access" /\ f.o = o /\ f.at = at
  BY <1>1 DEF Access
<1>. HIDE DEF f
<1>6. /\ Resume(o, at) \in Seq(Frame) /\ Len(Resume(o, at)) = Len(calls)
      /\ \A i \in 1 .. Len(calls) : Resume(o, at)[i] = IF i = Len(calls) THEN f ELSE calls[i]
  BY <1>1, <1>3, <1>4, ExceptSeq
<1>. QED
  BY <1>1, <1>5, <1>6

-----------------------------------------------------------------------------
(* Steps that change one object and no call *)

(* What such a step makes of o, for the conjuncts of the invariant.        *)
Fits(o, r, n) ==
    /\ r.made
    /\ r.init \in {0, obj[o].init} \/ (r.init = inits + 1 /\ n = inits + 1)
    /\ r.state \in Kinds => r.init # 0
    /\ r.state = "ghost" => ~r.initializing /\ r.h = r.skipped
    /\ r.state = "ghostDone" => r.h = Props
    /\ r.init # 0 /\ r.state \notin Kinds => r.initializing
    /\ r.initializing => obj[o].initializing
    /\ r.inst \in {NoObj, obj[o].inst}
    /\ \A i \in Calls :
         calls[i].op = "init" /\ calls[i].o = o =>
           /\ r.initializing /\ r.init \in {0, calls[i].init}
           /\ \/ /\ calls[i].state = "ghost" /\ r.state = "ghostDone"
                 /\ calls[i].h = r.skipped /\ r.init = calls[i].init
              \/ calls[i].state = "proxy" /\ r.state = "proxy"
              \/ calls[i].state = "proxy" /\ r.state = "proxyDone" /\ r.init = 0

LEMMA InstanceType == ASSUME Inv, NEW o \in Objs PROVE obj[o].inst \in Objs \cup {NoObj}
BY DEF Inv, TypeOK, Object

LEMMA ObjectStep ==
  ASSUME Inv, Php, NEW o \in Objs, NEW r \in Object, NEW n \in 0 .. MaxInits,
         n \in {inits, inits + 1}, Fits(o, r, n),
         obj' = [obj EXCEPT ![o] = r], inits' = n, UNCHANGED <<calls, done>>
  PROVE  Inv'
<1>. USE LazyAssumption
<1>1. /\ obj' \in [Objs -> Object] /\ obj'[o] = r
      /\ \A x \in Objs \ {o} : obj'[x] = obj[x]
      /\ obj \in [Objs -> Object] /\ inits \in Nat /\ done \subseteq 1 .. inits
      /\ calls \in Seq(Frame)
  BY DEF Inv, TypeOK, NumbersAreUnique, NumbersOfObjects
<1>2. Len(calls) \in Nat /\ \A i \in Calls : calls[i] \in Frame /\ calls[i].o \in Objs
  BY <1>1, LenProperties, ElementOfSeq, FrameKinds DEF Calls
<1>3. TypeOK'
  BY <1>1 DEF Inv, TypeOK
<1>4. NumbersAreUnique'
  BY <1>1, <1>2 DEF Inv, NumbersAreUnique, NumbersOfObjects, NumbersOfCalls,
                    NumbersOfBoth, Fits, Calls
<1>5. ObjectsAreSound'
  <2>1. ObjectsFit'
    BY <1>1 DEF Inv, ObjectsAreSound, ObjectsFit, Fits, Lazy
  <2>2. InitializingOnes'
    BY <1>1 DEF Inv, ObjectsAreSound, InitializingOnes, Fits, BeingInitialized
  <2>3. InstancesAreMade'
    BY <1>1, InstanceType DEF Inv, ObjectsAreSound, InstancesAreMade, Fits
  <2>. QED
    BY <2>1, <2>2, <2>3 DEF ObjectsAreSound
<1>6. CallsAreSound'
  BY SMTT(60), <1>1, <1>2 DEF Inv, CallsAreSound, InitCalls, InitsApart, AccessesWait, Fits,
                    Calls, InitCall, Php, Cur
<1>. QED
  BY <1>3, <1>4, <1>5, <1>6 DEF Inv

(* The invariant at the fields of one object.                              *)
LEMMA ObjectFacts ==
  ASSUME Inv, NEW o \in Objs
  PROVE  /\ obj[o] \in Object /\ inits \in 0 .. MaxInits
         /\ Lazy(o) => obj[o].made /\ obj[o].init # 0
         /\ obj[o].state = "ghost" => ~obj[o].initializing /\ obj[o].h = obj[o].skipped
         /\ obj[o].state = "ghostDone" => obj[o].h = Props
         /\ obj[o].init # 0 /\ ~Lazy(o) => obj[o].initializing
         /\ \A i \in Calls :
              calls[i].op = "init" /\ calls[i].o = o =>
                /\ obj[o].initializing /\ obj[o].made
                /\ obj[o].init \in {0, calls[i].init}
                /\ \/ /\ calls[i].state = "ghost" /\ obj[o].state = "ghostDone"
                      /\ calls[i].h = obj[o].skipped /\ obj[o].init = calls[i].init
                   \/ calls[i].state = "proxy" /\ obj[o].state = "proxy"
                   \/ calls[i].state = "proxy" /\ obj[o].state = "proxyDone"
                      /\ obj[o].init = 0
BY DEF Inv, TypeOK, ObjectsAreSound, ObjectsFit, CallsAreSound, InitCalls, InitCall, Calls

(* MakeLazyGhost and MakeLazyProxy leave nothing of the object behind.     *)
LEMMA MadeLazyFacts ==
  ASSUME NEW o \in Objs, obj[o] \in Object, NEW kind \in Kinds, NEW n \in 0 .. MaxInits
  PROVE  /\ MadeLazy(o, kind, n) \in Object
         /\ MadeLazy(o, kind, n).made /\ MadeLazy(o, kind, n).state = kind
         /\ MadeLazy(o, kind, n).init = n /\ MadeLazy(o, kind, n).inst = NoObj
         /\ MadeLazy(o, kind, n).skipped = {} /\ MadeLazy(o, kind, n).h = {}
         /\ ~MadeLazy(o, kind, n).initializing
BY DEF MadeLazy, Object, Kinds, States

(* What a lazy state becomes.                                              *)
LEMMA DoneFacts ==
  ASSUME NEW r \in Object
  PROVE  LET d == [r EXCEPT !.state = DoneOf(@), !.init = 0]
         IN  /\ d \in Object /\ d.made = r.made /\ d.h = r.h
             /\ d.state = DoneOf(r.state) /\ d.init = 0 /\ d.inst = r.inst
             /\ d.skipped = r.skipped /\ d.initializing = r.initializing
<1>. PICK st \in States : st = DoneOf(r.state)
  BY DEF DoneOf, States
<1>. DEFINE d == [r EXCEPT !.state = st, !.init = 0]
<1>1. 0 \in 0 .. MaxInits
  BY LazyAssumption
<1>2. /\ d \in Object /\ d.made = r.made /\ d.h = r.h
      /\ d.state = st /\ d.init = 0 /\ d.inst = r.inst
      /\ d.skipped = r.skipped /\ d.initializing = r.initializing
  BY <1>1 DEF Object
<1>. QED
  BY <1>2

LEMMA NewPlainInv == ASSUME Inv, NEW o \in Objs, NewPlain(o) PROVE Inv'
<1>. DEFINE r == [obj[o] EXCEPT !.made = TRUE, !.h = Props]
<1>1. Php /\ obj[o] \in Object /\ obj' = [obj EXCEPT ![o] = r] /\ ~obj[o].made
  BY ObjectFacts DEF NewPlain, Inv, TypeOK
<1>2. /\ r \in Object /\ r.made /\ r.h = Props
      /\ r.state = obj[o].state /\ r.init = obj[o].init /\ r.inst = obj[o].inst
      /\ r.skipped = obj[o].skipped /\ r.initializing = obj[o].initializing
  BY <1>1 DEF Object
<1>3. ~Lazy(o)
  BY <1>1, ObjectFacts
<1>4. Fits(o, r, inits)
  BY <1>1, <1>2, <1>3, ObjectFacts DEF Fits, Lazy, Kinds
<1>. QED
  BY <1>1, <1>2, <1>4, ObjectFacts, ObjectStep DEF NewPlain

LEMMA NewLazyInv ==
  ASSUME Inv, NEW o \in Objs, NEW kind \in Kinds, NewLazy(o, kind)
  PROVE  Inv'
<1>. DEFINE r == MadeLazy(o, kind, inits + 1)
<1>1. /\ Php /\ obj[o] \in Object /\ ~obj[o].made
      /\ inits + 1 \in 0 .. MaxInits /\ inits + 1 # 0
      /\ obj' = [obj EXCEPT ![o] = r] /\ inits' = inits + 1 /\ UNCHANGED <<calls, done>>
  BY ObjectFacts, LazyAssumption DEF NewLazy
<1>2. \A i \in Calls : ~(calls[i].op = "init" /\ calls[i].o = o)
  BY <1>1, ObjectFacts
<1>3. /\ r \in Object /\ r.made /\ r.state = kind /\ r.init = inits + 1
      /\ r.inst = NoObj /\ r.skipped = {} /\ r.h = {} /\ ~r.initializing
  BY <1>1, MadeLazyFacts
<1>. HIDE DEF r
<1>4. Fits(o, r, inits + 1)
  BY <1>1, <1>2, <1>3 DEF Fits, Kinds
<1>. QED
  BY <1>1, <1>3, <1>4, ObjectStep

LEMMA SkipInv == ASSUME Inv, NEW o \in Objs, NEW p \in Props, Skip(o, p) PROVE Inv'
<1>. DEFINE r == [obj[o] EXCEPT !.h = @ \cup {p}]
            s == [r EXCEPT !.skipped = @ \cup {p}]
            d == [s EXCEPT !.state = DoneOf(@), !.init = 0]
<1>1. /\ Php /\ obj[o] \in Object /\ obj[o].made /\ UNCHANGED <<calls, inits, done>>
      /\ obj' = [obj EXCEPT ![o] = IF Lazy(o) THEN Realized(s) ELSE r]
  BY ObjectFacts DEF Skip
<1>2. /\ r \in Object /\ r.made /\ r.h = obj[o].h \cup {p}
      /\ r.state = obj[o].state /\ r.init = obj[o].init /\ r.inst = obj[o].inst
      /\ r.skipped = obj[o].skipped /\ r.initializing = obj[o].initializing
  BY <1>1 DEF Object
<1>3. /\ s \in Object /\ s.made /\ s.h = obj[o].h \cup {p}
      /\ s.state = obj[o].state /\ s.init = obj[o].init /\ s.inst = obj[o].inst
      /\ s.skipped = obj[o].skipped \cup {p} /\ s.initializing = obj[o].initializing
  BY <1>2 DEF Object
<1>4. /\ d \in Object /\ d.made /\ d.h = s.h
      /\ d.state = DoneOf(s.state) /\ d.init = 0 /\ d.inst = obj[o].inst
      /\ d.skipped = s.skipped /\ d.initializing = obj[o].initializing
  BY <1>3, DoneFacts
<1>5. CASE ~Lazy(o)
  <2>1. Fits(o, r, inits)
    BY <1>1, <1>2, <1>5, ObjectFacts DEF Fits, Lazy, Kinds
  <2>. QED
    BY <1>1, <1>2, <1>5, <2>1, ObjectFacts, ObjectStep
<1>6. CASE Lazy(o) /\ s.skipped # Props
  <2>1. Realized(s) = s
    BY <1>6 DEF Realized
  <2>2. Fits(o, s, inits)
    BY <1>1, <1>3, <1>6, ObjectFacts DEF Fits, Lazy, Kinds
  <2>. QED
    BY <1>1, <1>3, <1>6, <2>1, <2>2, ObjectFacts, ObjectStep
<1>7. CASE Lazy(o) /\ s.skipped = Props
  <2>1. Realized(s) = d
    BY <1>3, <1>7 DEF Realized, Lazy
  <2>2. Fits(o, d, inits)
    BY <1>1, <1>3, <1>4, <1>7, ObjectFacts DEF Fits, Lazy, Kinds, DoneOf
  <2>. QED
    BY <1>1, <1>4, <1>7, <2>1, <2>2, ObjectFacts, ObjectStep
<1>. QED
  BY <1>5, <1>6, <1>7

LEMMA MarkInv == ASSUME Inv, NEW o \in Objs, Mark(o) PROVE Inv'
<1>. DEFINE d == [obj[o] EXCEPT !.state = DoneOf(@), !.init = 0]
            r == [obj[o] EXCEPT !.state = DoneOf(@), !.init = 0, !.h = Props]
<1>1. /\ Php /\ obj[o] \in Object /\ Lazy(o) /\ obj[o].made
      /\ obj' = [obj EXCEPT ![o] = r] /\ UNCHANGED <<calls, inits, done>>
  BY ObjectFacts DEF Mark, Inv, TypeOK
<1>2. /\ d \in Object /\ d.made = obj[o].made /\ d.h = obj[o].h
      /\ d.state = DoneOf(obj[o].state) /\ d.init = 0 /\ d.inst = obj[o].inst
      /\ d.skipped = obj[o].skipped /\ d.initializing = obj[o].initializing
  BY <1>1, DoneFacts
<1>3. r = [d EXCEPT !.h = Props]
  BY <1>1 DEF Object
<1>. HIDE DEF d, r
<1>4. /\ r \in Object /\ r.made /\ r.h = Props
      /\ r.state = DoneOf(obj[o].state) /\ r.init = 0 /\ r.inst = obj[o].inst
      /\ r.skipped = obj[o].skipped /\ r.initializing = obj[o].initializing
  BY <1>1, <1>2, <1>3 DEF Object
<1>5. Fits(o, r, inits)
  BY <1>1, <1>4, ObjectFacts DEF Fits, Lazy, Kinds, DoneOf
<1>. QED
  BY <1>1, <1>4, <1>5, ObjectFacts, ObjectStep

-----------------------------------------------------------------------------
(* Steps that begin a call *)

(* The types of the calls.                                                 *)
LEMMA CallFacts ==
  ASSUME Inv
  PROVE  /\ calls \in Seq(Frame) /\ Len(calls) \in Nat
         /\ \A i \in Calls : calls[i] \in Frame /\ calls[i].o \in Objs
BY LenProperties, ElementOfSeq, FrameKinds DEF Inv, TypeOK, Calls

(* PHP code touches a property of an object.                               *)
LEMMA TouchInv ==
  ASSUME Inv, NEW o \in Objs, NEW p \in Props, NEW write \in BOOLEAN, Touch(o, p, write)
  PROVE  Inv'
<1>. DEFINE f == [op |-> "access", o |-> o, p |-> p, write |-> write, at |-> "start"]
<1>1. f \in Frame
  BY DEF Frame, Access, Steps
<1>2. /\ calls' \in Seq(Frame) /\ Len(calls') = Len(calls) + 1
      /\ \A i \in 1 .. Len(calls) : calls'[i] = calls[i]
      /\ calls'[Len(calls) + 1].op = "access" /\ calls'[Len(calls) + 1].o = o
      /\ calls'[Len(calls) + 1].at = "start"
      /\ obj[o].made /\ UNCHANGED <<obj, inits, done>>
      /\ Len(calls) > 0 => calls[Len(calls)].op # "access"
  BY <1>1, CallFacts, PushFacts, EmptySeq DEF Touch, Php, Cur
<1>3. TypeOK'
  BY <1>2 DEF Inv, TypeOK
<1>4. NumbersAreUnique'
  <2>. USE DEF Inv, NumbersAreUnique
  <2>1. NumbersOfObjects'
    BY <1>2 DEF NumbersOfObjects
  <2>2. \A i \in Calls' : \/ i \in Calls /\ calls'[i] = calls[i]
                         \/ calls'[i].op = "access"
    BY <1>2, CallFacts DEF Calls
  <2>3. NumbersOfCalls'
    BY SMTT(60), <1>2, <2>2 DEF NumbersOfCalls
  <2>4. NumbersOfBoth'
    BY <1>2, <2>2 DEF NumbersOfBoth
  <2>. QED
    BY <2>1, <2>3, <2>4
<1>5. ObjectsAreSound'
  BY <1>2, CallFacts DEF Inv, ObjectsAreSound, ObjectsFit, InitializingOnes,
                         InstancesAreMade, Lazy, BeingInitialized
<1>6. CallsAreSound'
  <2>1. InitCalls'
    BY SMTT(60), <1>2, CallFacts DEF Inv, CallsAreSound, InitCalls, InitCall, Calls
  <2>2. InitsApart'
    BY <1>2, CallFacts DEF Inv, CallsAreSound, InitsApart, Calls
  <2>3. AccessesWait'
    <3>. SUFFICES ASSUME NEW i \in 1 .. Len(calls) + 1, calls'[i].op = "access"
                  PROVE  /\ i < Len(calls) + 1 =>
                              calls'[i+1].op = "init" /\ calls'[i+1].o = calls'[i].o
                         /\ i = Len(calls) + 1 => calls'[i].at # "inited"
      BY <1>2, CallFacts DEF AccessesWait, Calls
    <3>1. CASE i = Len(calls) + 1
      BY <3>1, <1>2, CallFacts
    <3>2. CASE i < Len(calls)
      <4>1. i \in Calls /\ i + 1 \in 1 .. Len(calls)
        BY <3>2, CallFacts DEF Calls
      <4>. QED
        BY <4>1, <3>2, <1>2, CallFacts DEF Inv, CallsAreSound, AccessesWait
    <3>3. CASE i = Len(calls)
      BY <3>3, <1>2, CallFacts
    <3>. QED
      BY <3>1, <3>2, <3>3, CallFacts
  <2>. QED
    BY <2>1, <2>2, <2>3 DEF CallsAreSound
<1>. QED
  BY <1>3, <1>4, <1>5, <1>6 DEF Inv

(* An initializer is called: C are the calls, the access that waits for it *)
(* noted as such.                                                          *)
LEMMA BeginInv ==
  ASSUME Inv, NEW o \in Objs, Triggers(o),
         NEW C \in Seq(Frame), Begin(o, C),
         Len(C) = Len(calls), \A i \in 1 .. Len(calls) - 1 : C[i] = calls[i],
         \/ Php /\ C = calls
         \/ /\ InAccess
            /\ C[Len(calls)].op = "access" /\ C[Len(calls)].o = o
  PROVE  Inv'
<1>. PICK n \in Nat : n = Len(calls)
  BY CallFacts
<1>1. /\ obj[o] \in Object /\ obj[o].made /\ obj[o].init # 0 /\ ~obj[o].initializing
      /\ obj[o].state \in Kinds /\ (obj[o].state = "ghost" => obj[o].h = obj[o].skipped)
  BY ObjectFacts DEF Triggers, Lazy
<1>2. PICK f \in Frame : f = [op |-> "init", o |-> o, init |-> obj[o].init,
                               state |-> obj[o].state, h |-> obj[o].h]
  <2>1. obj[o].init \in 1 .. MaxInits /\ obj[o].h \in SUBSET Props
    BY <1>1, LazyAssumption DEF Object
  <2>2. [op |-> "init", o |-> o, init |-> obj[o].init,
         state |-> obj[o].state, h |-> obj[o].h] \in Initialization
    BY <1>1, <2>1 DEF Initialization
  <2>. QED
    BY <2>2 DEF Frame
<1>16. Begun(obj[o]) \in Object
  BY <1>1 DEF Begun, Object, States, Kinds
<1>3. PICK r \in Object :
      /\ r = Begun(obj[o]) /\ r.made /\ r.init = obj[o].init /\ r.inst = obj[o].inst
      /\ r.initializing /\ r.skipped = obj[o].skipped
      /\ \/ obj[o].state = "ghost" /\ r.state = "ghostDone" /\ r.h = Props
         \/ obj[o].state = "proxy" /\ r.state = "proxy"
  BY <1>1, <1>16 DEF Begun, Object, Kinds
<1>4. /\ obj \in [Objs -> Object] /\ obj' \in [Objs -> Object] /\ obj'[o] = r
      /\ \A x \in Objs \ {o} : obj'[x] = obj[x]
      /\ UNCHANGED <<inits, done>>
  BY <1>3 DEF Begin, Inv, TypeOK
<1>5. /\ n \in Nat /\ calls' \in Seq(Frame) /\ Len(calls') = n + 1
      /\ \A i \in 1 .. n : calls'[i] = C[i]
      /\ calls'[n + 1] = f
  BY <1>2, PushFacts DEF Begin
<1>6. /\ \A i \in 1 .. n : calls'[i].op = calls[i].op /\ calls'[i].o \in Objs
      /\ \A i \in 1 .. n : calls[i].op # "access" => calls'[i] = calls[i]
      /\ \A i \in 1 .. n - 1 : calls'[i] = calls[i]
      /\ \A i \in 1 .. n : calls[i].op = "access" =>
           \/ i < n /\ calls'[i] = calls[i]
           \/ i = n /\ calls'[n].op = "access" /\ calls'[n].o = o
  <2>1. CASE Php /\ C = calls
    BY <2>1, <1>5, CallFacts, EmptySeq DEF Php, Cur, Calls
  <2>2. CASE InAccess /\ C[n].op = "access" /\ C[n].o = o
    BY SMTT(60), <2>2, <1>5, CallFacts DEF InAccess, Cur, Calls
  <2>. QED
    BY <2>1, <2>2
<1>7. \A i \in 1 .. n : ~(calls[i].op = "init" /\ calls[i].o = o)
  BY <1>1, ObjectFacts DEF Calls
<1>8. f.op = "init" /\ f.o = o /\ f.init = obj[o].init /\ f.state = obj[o].state
      /\ f.h = obj[o].h
  BY <1>2
<1>9. TypeOK'
  BY <1>4, <1>5 DEF Inv, TypeOK
<1>13. \A x \in Objs : /\ obj'[x].init = obj[x].init /\ obj'[x].inst = obj[x].inst
                       /\ obj[x].made => obj'[x].made
  BY <1>1, <1>3, <1>4
<1>14. /\ Calls' = Calls \cup {n + 1} /\ n + 1 \notin Calls
       /\ \A i \in Calls : ~(n + 1 < i)
  BY <1>5 DEF Calls
<1>15. /\ \A i \in Calls : calls'[i].op = calls[i].op /\ calls'[i].o \in Objs
       /\ \A i \in Calls : calls[i].op # "access" => calls'[i] = calls[i]
       /\ \A i \in Calls : calls[i].op = "access" =>
            calls'[i] = calls[i] \/ (calls'[i].op = "access" /\ calls'[i].o = o)
       /\ \A i \in Calls : ~(calls[i].op = "init" /\ calls[i].o = o)
  BY <1>6, <1>7 DEF Calls
<1>10. NumbersAreUnique'
  <2>. USE DEF Inv, NumbersAreUnique
  <2>1. NumbersOfObjects'
    BY <1>4, <1>13 DEF NumbersOfObjects
  <2>2. NumbersOfCalls'
    <3>1. \A i \in Calls : calls[i].op # "access" => calls[i].init # f.init
      BY <1>8, <1>15 DEF NumbersOfBoth
    <3>2. f.init \in (1 .. inits) \ done
      BY <1>1, <1>8 DEF NumbersOfObjects
    <3>3. \A i \in Calls' :
            \/ i = n + 1 /\ calls'[i] = f
            \/ i \in Calls /\ (calls'[i] = calls[i] \/ calls'[i].op = "access")
      BY <1>5, <1>14, <1>15
    <3>4. \A i \in Calls' : calls'[i].op # "access" => calls'[i].init \in (1 .. inits) \ done
      BY <3>2, <3>3 DEF NumbersOfCalls
    <3>5. ASSUME NEW i \in Calls', NEW j \in Calls', i # j,
                 calls'[i].op # "access", calls'[j].op # "access"
          PROVE  calls'[i].init # calls'[j].init
      <4>1. CASE i \in Calls /\ j \in Calls
        <5>1. calls'[i] = calls[i] /\ calls'[j] = calls[j]
          BY <3>3, <3>5, <4>1, <1>14
        <5>2. calls[i].op # "access" /\ calls[j].op # "access"
          BY <3>5, <5>1
        <5>3. calls[i].init # calls[j].init
          BY <3>5, <4>1, <5>2 DEF NumbersOfCalls
        <5>. QED
          BY <5>1, <5>3
      <4>2. CASE i = n + 1
        <5>1. calls'[i] = f /\ j \in Calls
          BY <1>5, <1>14, <3>5, <4>2
        <5>2. calls'[j] = calls[j]
          BY <1>14, <3>3, <3>5, <5>1
        <5>3. calls[j].op # "access"
          BY <3>5, <5>2
        <5>4. calls[j].init # f.init
          BY <3>1, <5>1, <5>3
        <5>. QED
          BY <5>1, <5>2, <5>4
      <4>3. CASE j = n + 1
        <5>1. calls'[j] = f /\ i \in Calls
          BY <1>5, <1>14, <3>5, <4>3
        <5>2. calls'[i] = calls[i]
          BY <1>14, <3>3, <3>5, <5>1
        <5>3. calls[i].op # "access"
          BY <3>5, <5>2
        <5>4. calls[i].init # f.init
          BY <3>1, <5>1, <5>3
        <5>. QED
          BY <5>1, <5>2, <5>4
      <4>. QED
        BY <1>14, <4>1, <4>2, <4>3
    <3>. QED
      BY <1>4, <3>4, <3>5 DEF NumbersOfCalls
  <2>3. NumbersOfBoth'
    <3>1. \A x \in Objs \ {o} : obj[x].init # f.init
      BY <1>1, <1>8 DEF NumbersOfObjects
    <3>. SUFFICES ASSUME NEW i \in Calls', NEW x \in Objs, calls'[i].op # "access"
                  PROVE  \/ calls'[i].op = "init" /\ calls'[i].o = x
                         \/ obj[x].init # calls'[i].init
      BY <1>13 DEF NumbersOfBoth
    <3>2. CASE i = n + 1
      BY <1>5, <1>8, <3>1, <3>2
    <3>3. CASE i \in Calls
      BY <1>15, <3>3 DEF NumbersOfBoth
    <3>. QED
      BY <1>14, <3>2, <3>3
  <2>. QED
    BY <2>1, <2>2, <2>3
<1>11. ObjectsAreSound'
  <2>1. \A x \in Objs : (BeingInitialized(x) \/ x = o) => BeingInitialized(x)'
    BY <1>5, <1>8, <1>14, <1>15 DEF BeingInitialized, Calls
  <2>2. ObjectsFit'
    BY <1>1, <1>3, <1>4 DEF Inv, ObjectsAreSound, ObjectsFit, Lazy, Kinds
  <2>3. InitializingOnes'
    BY <1>4, <2>1 DEF Inv, ObjectsAreSound, InitializingOnes
  <2>4. InstancesAreMade'
    BY <1>13, InstanceType DEF Inv, ObjectsAreSound, InstancesAreMade
  <2>. QED
    BY <2>2, <2>3, <2>4 DEF ObjectsAreSound
<1>12. CallsAreSound'
  <2>. USE DEF Inv, CallsAreSound
  <2>1. InitCalls'
    <3>1. ASSUME NEW i \in Calls, calls'[i].op = "init" PROVE InitCall(calls[i])'
      <4>1. calls'[i] = calls[i] /\ calls[i].o \in Objs \ {o} /\ InitCall(calls[i])
        BY <3>1, <1>15, CallFacts DEF InitCalls
      <4>. QED
        BY <4>1, <1>4 DEF InitCall
    <3>2. InitCall(calls[n + 1])'
      BY <1>5, <1>1, <1>3, <1>4, <1>8 DEF InitCall, Kinds
    <3>3. \A i \in Calls : calls'[i].op # "init" => obj'[calls'[i].o].made
      BY <1>1, <1>13, <1>15, CallFacts DEF InitCalls
    <3>. QED
      <4>1. ASSUME NEW i \in Calls', calls'[i].op = "init" PROVE InitCall(calls[i])'
        BY <4>1, <3>1, <3>2, <1>14
      <4>2. ASSUME NEW i \in Calls', calls'[i].op # "init" PROVE obj'[calls'[i].o].made
        BY <4>2, <3>3, <1>5, <1>8, <1>14
      <4>. QED
        BY <4>1, <4>2 DEF InitCalls
  <2>2. InitsApart'
    BY <1>5, <1>8, <1>14, <1>15 DEF InitsApart
  <2>3. AccessesWait'
    <3>. SUFFICES ASSUME NEW i \in 1 .. n + 1, calls'[i].op = "access"
                  PROVE  /\ i < n + 1 =>
                              calls'[i+1].op = "init" /\ calls'[i+1].o = calls'[i].o
                         /\ i # n + 1
      <4>1. Calls' = 1 .. n + 1 /\ Len(calls') = n + 1
        BY <1>5 DEF Calls
      <4>. QED
        BY <4>1, <1>5 DEF AccessesWait
    <3>1. i # n + 1
      BY <1>5, <1>8
    <3>2. CASE i < n
      <4>1. i \in Calls /\ i + 1 \in 1 .. n /\ calls'[i] = calls[i]
        BY <3>2, <1>5, <1>6 DEF Calls
      <4>2. calls[i + 1].op = "init" /\ calls[i + 1].o = calls[i].o
        BY <3>2, <4>1 DEF AccessesWait
      <4>. QED
        BY <4>1, <4>2, <1>6, <3>1
    <3>3. CASE i = n
      BY <3>1, <3>3, <1>5, <1>6, <1>8
    <3>. QED
      BY <3>1, <3>2, <3>3, <1>5
  <2>. QED
    BY <2>1, <2>2, <2>3
<1>. QED
  BY <1>9, <1>10, <1>11, <1>12 DEF Inv

(* A reset calls the destructor of an object that is not being initialized. *)
Destroys(o, kind) ==
    /\ obj' = [obj EXCEPT ![o].destructed = TRUE]
    /\ calls' = Append(calls, [op |-> "destroy", o |-> o, init |-> inits + 1,
                               state |-> kind, failed |-> FALSE])
    /\ inits' = inits + 1 /\ UNCHANGED done

LEMMA DestroyInv ==
  ASSUME Inv, Php, NEW o \in Objs, NEW kind \in Kinds,
         obj[o].made, ~BeingInitialized(o), inits < MaxInits, Destroys(o, kind)
  PROVE  Inv'
<1>. PICK n \in Nat : n = Len(calls)
  BY CallFacts
<1>1. /\ obj[o] \in Object /\ inits \in Nat /\ inits + 1 \in 1 .. MaxInits
      /\ inits + 1 \in 1 .. inits + 1 /\ inits' = inits + 1 /\ done' = done
  BY ObjectFacts, LazyAssumption DEF Destroys
<1>2. [op |-> "destroy", o |-> o, init |-> inits + 1, state |-> kind, failed |-> FALSE]
        \in Destruction
  BY <1>1 DEF Destruction
<1>3. PICK f \in Frame :
        f = [op |-> "destroy", o |-> o, init |-> inits + 1, state |-> kind,
             failed |-> FALSE]
  BY <1>2 DEF Frame
<1>4. f.op = "destroy" /\ f.o = o /\ f.init = inits + 1
  BY <1>3
<1>5. /\ calls' \in Seq(Frame) /\ Len(calls') = n + 1
      /\ \A i \in 1 .. n : calls'[i] = calls[i]
      /\ calls'[n + 1] = f
      /\ n > 0 => calls[n].op # "access"
  BY <1>3, CallFacts, PushFacts, EmptySeq DEF Php, Cur, Destroys
<1>6. /\ obj' \in [Objs -> Object]
      /\ \A x \in Objs : /\ obj'[x].made = obj[x].made /\ obj'[x].state = obj[x].state
                         /\ obj'[x].init = obj[x].init /\ obj'[x].inst = obj[x].inst
                         /\ obj'[x].skipped = obj[x].skipped /\ obj'[x].h = obj[x].h
                         /\ obj'[x].initializing = obj[x].initializing
  BY <1>1 DEF Inv, TypeOK, Object, Destroys
<1>7. /\ Calls' = Calls \cup {n + 1} /\ n + 1 \notin Calls
      /\ \A i \in Calls : ~(n + 1 < i)
      /\ \A i \in Calls : calls'[i] = calls[i] /\ calls'[i].op = calls[i].op
  BY <1>5 DEF Calls
<1>8. \A i \in Calls : ~(calls[i].op = "init" /\ calls[i].o = o)
  BY DEF BeingInitialized, Calls
<1>9. \A k \in (1 .. inits) \ done : k \in (1 .. inits + 1) \ done /\ k # inits + 1
  BY <1>1
<1>10. TypeOK'
  BY <1>1, <1>5, <1>6 DEF Inv, TypeOK
<1>11. NumbersAreUnique'
  <2>. USE DEF Inv, NumbersAreUnique
  <2>1. NumbersOfObjects'
    BY <1>1, <1>6, <1>9 DEF NumbersOfObjects
  <2>2. NumbersOfCalls'
    <3>1. inits + 1 \notin done
      BY <1>1 DEF NumbersOfObjects
    <3>. QED
      BY <1>1, <1>4, <1>5, <1>7, <1>9, <3>1 DEF NumbersOfCalls
  <2>3. NumbersOfBoth'
    <3>1. \A x \in Objs : obj[x].init # inits + 1
      BY <1>1, <1>9 DEF NumbersOfObjects
    <3>. QED
      BY <1>4, <1>5, <1>6, <1>7, <3>1 DEF NumbersOfBoth
  <2>. QED
    BY <2>1, <2>2, <2>3
<1>12. ObjectsAreSound'
  <2>. USE DEF Inv, ObjectsAreSound
  <2>1. ObjectsFit'
    BY <1>6 DEF ObjectsFit, Lazy
  <2>2. InitializingOnes'
    BY <1>5, <1>6 DEF InitializingOnes, BeingInitialized
  <2>3. InstancesAreMade'
    BY <1>6, InstanceType DEF InstancesAreMade
  <2>. QED
    BY <2>1, <2>2, <2>3
<1>13. CallsAreSound'
  <2>. USE DEF Inv, CallsAreSound
  <2>1. InitCalls'
    <3>1. ASSUME NEW i \in Calls, calls[i].op = "init" PROVE InitCall(calls[i])'
      <4>1. calls[i].o \in Objs /\ InitCall(calls[i]) /\ calls'[i] = calls[i]
        BY <3>1, <1>7, CallFacts DEF InitCalls
      <4>. QED
        BY <4>1, <1>6 DEF InitCall
    <3>2. ASSUME NEW i \in Calls, calls[i].op # "init" PROVE obj'[calls[i].o].made
      BY <3>2, <1>6, CallFacts DEF InitCalls
    <3>3. obj'[f.o].made
      BY <1>4, <1>6
    <3>4. ASSUME NEW i \in Calls', calls'[i].op = "init" PROVE InitCall(calls[i])'
      BY <3>4, <3>1, <1>4, <1>5, <1>7
    <3>5. ASSUME NEW i \in Calls', calls'[i].op # "init" PROVE obj'[calls'[i].o].made
      BY <3>5, <3>2, <3>3, <1>5, <1>7
    <3>. QED
      BY <3>4, <3>5 DEF InitCalls
  <2>2. InitsApart'
    BY <1>4, <1>5, <1>7, <1>8 DEF InitsApart
  <2>3. AccessesWait'
    <3>. SUFFICES ASSUME NEW i \in 1 .. n + 1, calls'[i].op = "access"
                  PROVE  /\ i < n + 1 =>
                              calls'[i+1].op = "init" /\ calls'[i+1].o = calls'[i].o
                         /\ i # n + 1
      BY ZenonT(60), <1>5 DEF AccessesWait, Calls
    <3>1. i # n + 1 /\ i # n
      BY <1>4, <1>5
    <3>2. i \in Calls /\ i + 1 \in 1 .. n /\ i < n /\ calls[i].op = "access"
      BY <3>1, <1>5 DEF Calls
    <3>. QED
      BY <3>1, <3>2, <1>5 DEF AccessesWait
  <2>. QED
    BY <2>1, <2>2, <2>3
<1>. QED
  BY <1>10, <1>11, <1>12, <1>13 DEF Inv

LEMMA ResetInv ==
  ASSUME Inv, ~MayResetOwn, NEW o \in Objs, NEW kind \in Kinds, Reset(o, kind)
  PROVE  Inv'
<1>1. Php /\ obj[o].made /\ ~BeingInitialized(o) /\ inits < MaxInits /\ obj[o] \in Object
  BY ObjectFacts DEF Reset, Resettable
<1>2. CASE obj' = [obj EXCEPT ![o] = MadeLazy(o, kind, inits + 1)] /\ UNCHANGED calls
  <2>1. PICK r \in Object :
          /\ r = MadeLazy(o, kind, inits + 1)
          /\ r.made /\ r.state = kind /\ r.init = inits + 1
          /\ r.inst = NoObj /\ r.skipped = {} /\ r.h = {} /\ ~r.initializing
    BY <1>1, MadeLazyFacts, ObjectFacts, LazyAssumption
  <2>2. inits + 1 # 0 /\ inits + 1 \in 0 .. MaxInits
    BY <1>1, ObjectFacts, LazyAssumption
  <2>3. \A i \in Calls : ~(calls[i].op = "init" /\ calls[i].o = o)
    BY <1>1 DEF BeingInitialized, Calls
  <2>4. Fits(o, r, inits + 1)
    BY <2>1, <2>2, <2>3 DEF Fits, Kinds
  <2>. QED
    BY <1>1, <1>2, <2>1, <2>2, <2>4, ObjectStep DEF Reset
<1>3. CASE /\ obj' = [obj EXCEPT ![o].destructed = TRUE]
           /\ calls' = Append(calls, [op |-> "destroy", o |-> o, init |-> inits + 1,
                                      state |-> kind, failed |-> FALSE])
  BY <1>1, <1>3, DestroyInv DEF Reset, Destroys
<1>. QED
  BY <1>2, <1>3 DEF Reset

-----------------------------------------------------------------------------
(* Steps that end a call *)

(* The innermost call ends, and with a failed initializer the access that  *)
(* waits for it; m calls are left, and o becomes r.                        *)
Pops(m, o, r) ==
    /\ calls # <<>> /\ calls' \in Seq(Frame) /\ Len(calls') = m /\ m < Len(calls)
    /\ \A i \in 1 .. m : calls'[i] = calls[i]
    /\ obj' = [obj EXCEPT ![o] = r]
    /\ UNCHANGED inits
    /\ done' = done \/ (Cur.op = "init" /\ done' = done \cup {Cur.init})

(* What such a step makes of o, for the conjuncts of the invariant.        *)
Closes(m, o, r) ==
    /\ r.made
    /\ \/ r.init = 0
       \/ r.init = obj[o].init /\ done' = done
       \/ Cur.op = "destroy" /\ r.init = Cur.init /\ done' = done
    /\ Cur.op = "init" => Cur.o = o
    /\ r.state \in Kinds => r.init # 0
    /\ r.state = "ghost" => ~r.initializing /\ r.h = r.skipped
    /\ r.state = "ghostDone" => r.h = Props
    /\ r.init # 0 /\ r.state \notin Kinds => r.initializing
    /\ r.initializing => obj[o].initializing /\ Cur.op # "init" /\ m = Len(calls) - 1
    /\ r.inst \in Objs => obj[r.inst].made
    /\ \A i \in 1 .. m :
         calls[i].op = "init" /\ calls[i].o = o =>
           /\ r.initializing /\ r.init \in {0, calls[i].init}
           /\ \/ /\ calls[i].state = "ghost" /\ r.state = "ghostDone"
                 /\ calls[i].h = r.skipped /\ r.init = calls[i].init
              \/ calls[i].state = "proxy" /\ r.state = "proxy"
              \/ calls[i].state = "proxy" /\ r.state = "proxyDone" /\ r.init = 0
    /\ m > 0 /\ calls[m].op = "access" => calls[m].o = o /\ r.state \in {"ghostDone", "proxyDone"}
    /\ m = Len(calls) - 1 \/ (Cur.op = "init" /\ m = Len(calls) - 2 /\ calls[m + 1].op = "access")

LEMMA PopStep ==
  ASSUME Inv, NEW m \in Nat, NEW o \in Objs, NEW r \in Object,
         Pops(m, o, r), Closes(m, o, r)
  PROVE  Inv'
<1>. PICK n \in Nat : n = Len(calls) /\ m < n
  BY CallFacts DEF Pops
<1>1. /\ obj \in [Objs -> Object] /\ obj' \in [Objs -> Object] /\ obj'[o] = r
      /\ \A x \in Objs \ {o} : obj'[x] = obj[x]
      /\ inits' = inits
  BY DEF Pops, Inv, TypeOK
<1>2. PICK f \in Frame : f = Cur /\ f = calls[n]
  BY BelowFacts, CallFacts DEF Pops, Cur
<1>3. /\ Calls = 1 .. n /\ Calls' = 1 .. m /\ Calls' \subseteq Calls
      /\ n \in Calls /\ n \notin Calls'
      /\ \A i \in Calls' : calls'[i] = calls[i] /\ calls'[i].op = calls[i].op
  BY DEF Pops, Calls
<1>4. \A i \in Calls : calls[i] \in Frame /\ calls[i].o \in Objs
  BY CallFacts
<1>5. TypeOK'
  <2>1. f.op = "init" => f.init \in 1 .. MaxInits
    BY FrameKinds DEF Initialization
  <2>. QED
    BY <1>1, <1>2, <2>1 DEF Pops, Inv, TypeOK
<1>6. NumbersAreUnique'
  <2>. USE DEF Inv, NumbersAreUnique
  <2>1. /\ \A x \in Objs : obj[x].init = 0 \/ obj[x].init \in (1 .. inits) \ done
        /\ f.op # "access" => f.init \in (1 .. inits) \ done
        /\ \A x \in Objs : f.op = "destroy" \/ (f.op = "init" /\ x # o) => obj[x].init # f.init
    BY <1>2, <1>3, FrameKinds DEF NumbersOfObjects, NumbersOfCalls, NumbersOfBoth, Closes
  <2>2. /\ \A x \in Objs \ {o} : obj'[x].init = obj[x].init
        /\ obj'[o].init = r.init
    BY <1>1
  <2>3. done \subseteq done' /\ done' \subseteq 1 .. inits
    BY <1>2, <2>1 DEF Pops, NumbersOfObjects
  <2>4. \A x \in Objs : obj'[x].init = 0 \/ obj'[x].init \notin done'
    BY <1>2, <2>1, <2>2 DEF Pops, Closes
  <2>5. NumbersOfObjects'
    BY <1>1, <1>2, <2>1, <2>2, <2>3, <2>4 DEF NumbersOfObjects, Closes
  <2>6. NumbersOfCalls'
    <3>1. \A i \in Calls' : calls[i].op # "access" => calls[i].init \notin done'
      BY <1>2, <1>3 DEF NumbersOfCalls, Pops
    <3>. QED
      BY <1>1, <1>3, <3>1 DEF NumbersOfCalls
  <2>7. NumbersOfBoth'
    <3>1. \A i \in Calls' :
            calls[i].op = "access" \/ f.op # "destroy" \/ calls[i].init # f.init
      BY <1>2, <1>3 DEF NumbersOfCalls
    <3>2. \A i \in Calls' :
            \/ calls[i].op = "access" \/ calls[i].init # 0
      BY <1>3, LazyAssumption DEF NumbersOfCalls
    <3>. QED
      BY <1>1, <1>2, <1>3, <2>2, <3>1, <3>2 DEF NumbersOfBoth, Closes
  <2>. QED
    BY <2>5, <2>6, <2>7
<1>7. ObjectsAreSound'
  <2>. USE DEF Inv, ObjectsAreSound
  <2>1. ObjectsFit'
    BY <1>1 DEF ObjectsFit, Lazy, Closes
  <2>2. InitializingOnes'
    <3>. SUFFICES ASSUME NEW x \in Objs, obj'[x].initializing
                  PROVE  \E i \in Calls' : calls[i].op = "init" /\ calls[i].o = x
      BY <1>3 DEF InitializingOnes, BeingInitialized, Calls
    <3>1. PICK i \in Calls : calls[i].op = "init" /\ calls[i].o = x
      BY <1>1 DEF Closes, InitializingOnes, BeingInitialized, Calls
    <3>2. i # n
      BY <1>1, <1>2, <3>1 DEF Closes
    <3>3. i \in Calls'
      BY <1>2, <1>3, <3>1, <3>2 DEF Closes
    <3>. QED
      BY <3>1, <3>3
  <2>3. InstancesAreMade'
    <3>1. \A x \in Objs : obj[x].made => obj'[x].made
      BY <1>1 DEF Closes
    <3>2. r.inst \in Objs \cup {NoObj} /\ NoObj \notin Objs
      BY LazyAssumption DEF Object
    <3>. QED
      BY <1>1, <3>1, <3>2, InstanceType DEF InstancesAreMade, Closes
  <2>. QED
    BY <2>1, <2>2, <2>3
<1>8. CallsAreSound'
  <2>. USE DEF Inv, CallsAreSound
  <2>1. InitCalls'
    <3>1. ASSUME NEW i \in Calls', calls[i].op = "init", calls[i].o # o
          PROVE  InitCall(calls[i])'
      <4>1. calls[i].o \in Objs \ {o} /\ InitCall(calls[i]) /\ calls'[i] = calls[i]
        BY <3>1, <1>3, <1>4 DEF InitCalls
      <4>. QED
        BY <4>1, <1>1 DEF InitCall
    <3>2. ASSUME NEW i \in Calls', calls[i].op = "init", calls[i].o = o
          PROVE  InitCall(calls[i])'
      BY <3>2, <1>1, <1>3 DEF InitCall, Closes
    <3>3. ASSUME NEW i \in Calls', calls'[i].op # "init" PROVE obj'[calls'[i].o].made
      <4>1. calls[i].o \in Objs /\ obj[calls[i].o].made /\ calls'[i] = calls[i]
        BY <3>3, <1>3, <1>4 DEF InitCalls
      <4>. QED
        BY <4>1, <1>1 DEF Closes
    <3>. QED
      BY <3>1, <3>2, <3>3, <1>3 DEF InitCalls
  <2>2. InitsApart'
    BY <1>3 DEF InitsApart
  <2>3. AccessesWait'
    <3>. SUFFICES ASSUME NEW i \in 1 .. m, calls[i].op = "access"
                  PROVE  /\ i < m => calls[i+1].op = "init" /\ calls[i+1].o = calls[i].o
                         /\ i = m => obj'[calls[i].o].state \in {"ghostDone", "proxyDone"}
      <4>1. \A i \in 1 .. m : i < m => i + 1 \in 1 .. m
        OBVIOUS
      <4>. QED
        BY <1>3, <4>1 DEF AccessesWait, Pops
    <3>1. i < m => calls[i+1].op = "init" /\ calls[i+1].o = calls[i].o
      BY <1>3 DEF AccessesWait
    <3>2. i = m => obj'[calls[i].o].state \in {"ghostDone", "proxyDone"}
      BY <1>1 DEF Closes
    <3>. QED
      BY <3>1, <3>2
  <2>. QED
    BY <2>1, <2>2, <2>3
<1>. QED
  BY <1>5, <1>6, <1>7, <1>8 DEF Inv

(* What the calls below the innermost one cannot be.                       *)
LEMMA InnermostFacts ==
  ASSUME Inv, calls # <<>>, NEW n \in Nat, n = Len(calls)
  PROVE  /\ n > 0 /\ Cur = calls[n] /\ Cur \in Frame /\ Cur.o \in Objs
         /\ Cur.op = "init" => InitCall(Cur)
         /\ Cur.op # "init" => obj[Cur.o].made
         /\ Cur.op \in {"init", "destroy"} =>
              \A i \in 1 .. n - 1 : ~(calls[i].op = "init" /\ calls[i].o = Cur.o)
         /\ \A i \in 1 .. n - 1 : calls[i].op = "access" =>
              calls[i + 1].op = "init" /\ calls[i + 1].o = calls[i].o
         /\ Cur.op = "access" /\ Cur.at = "inited"
              => obj[Cur.o].state \in {"ghostDone", "proxyDone"}
<1>1. n > 0 /\ Cur = calls[n] /\ Cur \in Frame /\ Cur.o \in Objs
  BY BelowFacts, CallFacts, FrameKinds DEF Cur
<1>2. n \in Calls /\ \A i \in 1 .. n - 1 : i \in Calls /\ i # n /\ i < n
  BY <1>1 DEF Calls
<1>. QED
  BY <1>1, <1>2 DEF Inv, CallsAreSound, InitCalls, InitsApart, AccessesWait

(* The step takes the innermost call away, and only that.                  *)
LEMMA BelowStep ==
  ASSUME Inv, calls # <<>>, calls' = Below, NEW n \in Nat, n = Len(calls)
  PROVE  /\ n - 1 \in Nat /\ calls' \in Seq(Frame) /\ Len(calls') = n - 1
         /\ \A i \in 1 .. n - 1 : calls'[i] = calls[i]
BY CallFacts, BelowFacts

(* A destructor throws: the call notes it, and nothing else changes.       *)
LEMMA DestructorFailsInv == ASSUME Inv, DestructorFails PROVE Inv'
<1>. PICK n \in Nat : n = Len(calls)
  BY CallFacts
<1>1. calls # <<>> /\ n > 0 /\ Cur = calls[n] /\ Cur.op = "destroy" /\ Cur \in Destruction
  BY InnermostFacts, FrameKinds DEF DestructorFails
<1>. DEFINE f == [Cur EXCEPT !.failed = TRUE]
<1>2. f \in Destruction /\ f.op = "destroy" /\ f.o = Cur.o /\ f.init = Cur.init
  BY <1>1 DEF Destruction
<1>3. f \in Frame
  BY <1>2 DEF Frame
<1>4. calls' = [calls EXCEPT ![n] = f]
  BY <1>1, CallFacts DEF DestructorFails, Cur
<1>5. UNCHANGED <<obj, inits, done>>
  BY DEF DestructorFails
<1>. HIDE DEF f
<1>6. /\ calls' \in Seq(Frame) /\ Len(calls') = n
      /\ \A i \in 1 .. n : calls'[i] = IF i = n THEN f ELSE calls[i]
  BY <1>1, <1>3, <1>4, CallFacts, ExceptSeq
<1>7. /\ Calls = 1 .. n /\ Calls' = Calls
      /\ \A i \in Calls : /\ calls'[i].op = calls[i].op /\ calls'[i].o = calls[i].o
                          /\ calls'[i].init = calls[i].init
      /\ \A i \in Calls : calls[i].op # "destroy" => calls'[i] = calls[i]
  <2>1. Calls = 1 .. n /\ Calls' = Calls
    BY <1>6 DEF Calls
  <2>2. \A i \in 1 .. n : calls'[i] = calls[i] \/ (i = n /\ calls'[i] = f)
    BY <1>6
  <2>. QED
    BY <1>1, <1>2, <2>1, <2>2
<1>8. TypeOK'
  BY <1>5, <1>6 DEF Inv, TypeOK
<1>9. NumbersAreUnique'
  BY <1>5, <1>7 DEF Inv, NumbersAreUnique, NumbersOfObjects, NumbersOfCalls, NumbersOfBoth
<1>10. ObjectsAreSound'
  <2>. USE DEF Inv, ObjectsAreSound
  <2>1. ObjectsFit'
    BY <1>5 DEF ObjectsFit, Lazy
  <2>2. InitializingOnes'
    <3>1. \A x \in Objs : BeingInitialized(x) => BeingInitialized(x)'
      BY <1>6, <1>7 DEF BeingInitialized
    <3>. QED
      BY <1>5, <3>1 DEF InitializingOnes
  <2>3. InstancesAreMade'
    BY <1>5 DEF InstancesAreMade
  <2>. QED
    BY <2>1, <2>2, <2>3
<1>11. CallsAreSound'
  <2>. USE DEF Inv, CallsAreSound
  <2>1. InitCalls'
    <3>1. ASSUME NEW i \in Calls, calls[i].op = "init" PROVE InitCall(calls[i])'
      BY <3>1, <1>5, <1>7 DEF InitCalls, InitCall
    <3>2. ASSUME NEW i \in Calls, calls[i].op # "init" PROVE obj[calls'[i].o].made
      BY <3>2, <1>7 DEF InitCalls
    <3>. QED
      BY <1>5, <1>7, <3>1, <3>2 DEF InitCalls
  <2>2. InitsApart'
    BY <1>7 DEF InitsApart
  <2>3. AccessesWait'
    <3>1. \A i \in Calls : calls'[i].op = "access" =>
            i \in 1 .. n - 1 /\ calls[i].op = "access" /\ i + 1 \in Calls
      BY <1>1, <1>6, <1>7
    <3>2. \A i \in 1 .. n - 1 : calls[i].op = "access" =>
            calls[i + 1].op = "init" /\ calls[i + 1].o = calls[i].o
      BY <1>1, InnermostFacts
    <3>. QED
      BY <3>1, <3>2, <1>6, <1>7 DEF AccessesWait
  <2>. QED
    BY <2>1, <2>2, <2>3
<1>. QED
  BY <1>8, <1>9, <1>10, <1>11 DEF Inv

LEMMA DestructorEndsInv == ASSUME Inv, DestructorEnds PROVE Inv'
<1>. PICK n \in Nat : n = Len(calls)
  BY CallFacts
<1>1. calls # <<>> /\ Cur.op = "destroy" /\ Cur.o \in Objs /\ n > 0 /\ Cur = calls[n]
  BY InnermostFacts DEF DestructorEnds
<1>2. Cur.state \in Kinds /\ Cur.init \in 1 .. MaxInits
  BY <1>1, InnermostFacts, FrameKinds DEF Destruction
<1>3. PICK r \in Object :
        /\ r = MadeLazy(Cur.o, Cur.state, Cur.init)
        /\ r.made /\ r.state \in Kinds /\ r.init = Cur.init /\ r.init # 0
        /\ r.inst = NoObj /\ r.skipped = {} /\ r.h = {} /\ ~r.initializing
  BY <1>1, <1>2, MadeLazyFacts, ObjectFacts, LazyAssumption
<1>4. Pops(n - 1, Cur.o, r)
  BY <1>1, <1>3, BelowStep DEF DestructorEnds, Pops
<1>5. Closes(n - 1, Cur.o, r)
  <2>1. \A i \in 1 .. n - 1 : ~(calls[i].op = "init" /\ calls[i].o = Cur.o)
    BY <1>1, InnermostFacts
  <2>2. ~(n - 1 > 0 /\ calls[n - 1].op = "access")
    BY <1>1, InnermostFacts
  <2>3. NoObj \notin Objs /\ done' = done
    BY LazyAssumption DEF DestructorEnds
  <2>. QED
    BY <1>1, <1>3, <2>1, <2>2, <2>3 DEF Closes, Kinds
<1>. PICK m \in Nat, o \in Objs : m = n - 1 /\ o = Cur.o
  BY <1>1
<1>6. Pops(m, o, r) /\ Closes(m, o, r)
  BY <1>4, <1>5
<1>. QED
  BY <1>6, PopStep

LEMMA InitFailsInv == ASSUME Inv, InitFails PROVE Inv'
<1>. PICK n \in Nat : n = Len(calls)
  BY CallFacts
<1>1. /\ calls # <<>> /\ Cur.op = "init" /\ Cur.o \in Objs /\ n > 0 /\ Cur = calls[n]
      /\ InitCall(Cur) /\ Cur.h \in SUBSET Props /\ Cur.state \in Kinds
      /\ Cur.init \in 1 .. MaxInits
  BY InnermostFacts, FrameKinds DEF InitFails, Initialization
<1>2. obj[Cur.o] \in Object
  BY <1>1, ObjectFacts
<1>3. PICK r \in Object :
        /\ r = PutBack(obj[Cur.o], Cur)
        /\ ~r.initializing /\ r.init = obj[Cur.o].init /\ r.inst = obj[Cur.o].inst
        /\ r.skipped = obj[Cur.o].skipped /\ r.made = obj[Cur.o].made
        /\ \/ Cur.state = "ghost" /\ r.state = "ghost" /\ r.h = Cur.h
           \/ Cur.state = "proxy" /\ r.state = obj[Cur.o].state
  <2>1. PutBack(obj[Cur.o], Cur) \in Object
    BY ZenonT(60), <1>1, <1>2 DEF PutBack, Object, States, Kinds
  <2>. QED
    BY <1>1, <1>2, <2>1 DEF PutBack, Object, Kinds
<1>4. PICK m \in Nat :
        /\ \/ m = n - 1 /\ (m > 0 => calls[m].op # "access")
           \/ m = n - 2 /\ calls[m + 1].op = "access"
        /\ calls' \in Seq(Frame) /\ Len(calls') = m
        /\ \A i \in 1 .. m : calls'[i] = calls[i]
  <2>1. /\ n - 1 \in Nat /\ Below \in Seq(Frame) /\ Len(Below) = n - 1
        /\ \A i \in 1 .. n - 1 : Below[i] = calls[i]
    BY <1>1, CallFacts, BelowFacts
  <2>2. CASE n - 1 > 0 /\ calls[n - 1].op = "access"
    <3>1. n - 2 \in Nat /\ \A i \in 1 .. n - 2 : Below[i] \in Frame
      BY <2>1, <2>2, CallFacts DEF Calls
    <3>2. calls' = SubSeq(Below, 1, n - 2)
      BY <2>1, <2>2 DEF InitFails
    <3>3. /\ calls' \in Seq(Frame)
          /\ Len(calls') = IF 1 <= n - 2 THEN n - 2 - 1 + 1 ELSE 0
          /\ \A i \in 1 .. n - 2 - 1 + 1 : calls'[i] = Below[1 + i - 1]
      BY <3>1, <3>2, SubSeqProperties
    <3>4. Len(calls') = n - 2 /\ \A i \in 1 .. n - 2 : calls'[i] = calls[i]
      BY <2>1, <3>1, <3>3
    <3>. QED
      BY <2>2, <3>1, <3>3, <3>4
  <2>3. CASE ~(n - 1 > 0 /\ calls[n - 1].op = "access")
    <3>1. calls' = Below
      BY <2>1, <2>3 DEF InitFails
    <3>. QED
      BY <2>1, <2>3, <3>1
  <2>. QED
    BY <2>2, <2>3
<1>5. m < n /\ Pops(m, Cur.o, r)
  BY <1>1, <1>3, <1>4 DEF InitFails, Pops
<1>6. Closes(m, Cur.o, r)
  <2>1. \A i \in 1 .. m : ~(calls[i].op = "init" /\ calls[i].o = Cur.o)
    BY <1>1, <1>5, InnermostFacts
  <2>2. ~(m > 0 /\ calls[m].op = "access")
    <3>1. CASE m = n - 2 /\ calls[m + 1].op = "access"
      BY <3>1, <1>1, InnermostFacts
    <3>. QED
      BY <3>1, <1>4
  <2>3. /\ r.made /\ done' = done
        /\ r.state \in Kinds => r.init # 0
        /\ r.state = "ghost" => r.h = r.skipped
        /\ r.state # "ghostDone"
        /\ r.init # 0 => r.state \in Kinds
    <3>. PICK o \in Objs : o = Cur.o
      BY <1>1
    <3>1. /\ obj[o].made
          /\ \/ /\ Cur.state = "ghost" /\ Cur.h = obj[o].skipped
                /\ obj[o].init = Cur.init /\ Cur.init # 0
             \/ Cur.state = "proxy" /\ obj[o].state = "proxy"
             \/ Cur.state = "proxy" /\ obj[o].state = "proxyDone" /\ obj[o].init = 0
      BY <1>1 DEF InitCall
    <3>2. obj[o].state = "proxy" => obj[o].init # 0
      BY ObjectFacts DEF Lazy, Kinds
    <3>3. /\ r.init = obj[o].init /\ r.skipped = obj[o].skipped /\ r.made = obj[o].made
          /\ \/ Cur.state = "ghost" /\ r.state = "ghost" /\ r.h = Cur.h
             \/ Cur.state = "proxy" /\ r.state = obj[o].state
      BY <1>3
    <3>4. done' = done
      BY DEF InitFails
    <3>. QED
      BY <3>1, <3>2, <3>3, <3>4 DEF Kinds
  <2>4. r.inst \in Objs => obj[r.inst].made
    BY <1>1, <1>3, LazyAssumption DEF Inv, ObjectsAreSound, InstancesAreMade
  <2>5. m = Len(calls) - 1 \/ (Cur.op = "init" /\ m = Len(calls) - 2 /\ calls[m + 1].op = "access")
    BY <1>1, <1>4
  <2>6. ~r.initializing /\ r.init = obj[Cur.o].init
    BY <1>3
  <2>. QED
    BY <2>1, <2>2, <2>3, <2>4, <2>5, <2>6 DEF Closes
<1>. PICK o \in Objs : o = Cur.o
  BY <1>1
<1>7. Pops(m, o, r) /\ Closes(m, o, r)
  BY <1>5, <1>6
<1>. QED
  BY <1>7, PopStep

(* An initializer returns with success: o keeps no initializer, and is what *)
(* its access expects.                                                     *)
LEMMA ReturnStep ==
  ASSUME Inv, calls # <<>>, Cur.op = "init", calls' = Below, NEW r \in Object,
         obj' = [obj EXCEPT ![Cur.o] = r], inits' = inits, done' = done \cup {Cur.init},
         r.made, r.init = 0, ~r.initializing,
         \/ r.state = "ghostDone" /\ r.h = Props
         \/ r.state = "proxyDone",
         r.inst \in Objs => obj[r.inst].made
  PROVE  Inv'
<1>. PICK n \in Nat : n = Len(calls)
  BY CallFacts
<1>1. Cur.o \in Objs /\ n > 0 /\ Cur = calls[n]
  BY InnermostFacts
<1>2. Pops(n - 1, Cur.o, r)
  BY <1>1, BelowStep DEF Pops
<1>3. Closes(n - 1, Cur.o, r)
  <2>1. \A i \in 1 .. n - 1 : ~(calls[i].op = "init" /\ calls[i].o = Cur.o)
    BY InnermostFacts
  <2>2. n - 1 > 0 /\ calls[n - 1].op = "access" => calls[n - 1].o = Cur.o
    BY <1>1, InnermostFacts
  <2>. QED
    BY <1>1, <2>1, <2>2 DEF Closes, Kinds
<1>. PICK m \in Nat, o \in Objs : m = n - 1 /\ o = Cur.o
  BY <1>1
<1>4. Pops(m, o, r) /\ Closes(m, o, r)
  BY <1>2, <1>3
<1>. QED
  BY <1>4, PopStep

LEMMA GhostReturnsInv == ASSUME Inv, GhostReturns PROVE Inv'
<1>1. /\ calls # <<>> /\ Cur.op = "init" /\ Cur.o \in Objs
      /\ obj[Cur.o].state = "ghostDone" /\ obj[Cur.o].made
  <2>1. calls # <<>> /\ Cur.op = "init" /\ Cur.state = "ghost" /\ Len(calls) \in Nat
    BY CallFacts DEF GhostReturns
  <2>2. Cur.o \in Objs /\ InitCall(Cur)
    BY <2>1, InnermostFacts
  <2>. QED
    BY <2>1, <2>2 DEF InitCall
<1>2. obj[Cur.o] \in Object /\ obj[Cur.o].h = Props
  BY <1>1, ObjectFacts
<1>3. PICK r \in Object :
        /\ r = [obj[Cur.o] EXCEPT !.initializing = FALSE, !.init = 0]
        /\ r.made /\ r.init = 0 /\ ~r.initializing
        /\ r.state = "ghostDone" /\ r.h = Props /\ r.inst = obj[Cur.o].inst
  <2>1. 0 \in 0 .. MaxInits
    BY LazyAssumption
  <2>2. [obj[Cur.o] EXCEPT !.initializing = FALSE, !.init = 0] \in Object
    BY <1>2, <2>1 DEF Object
  <2>. QED
    BY <1>1, <1>2, <2>2 DEF Object
<1>4. obj' = [obj EXCEPT ![Cur.o] = r]
  BY <1>1, <1>3 DEF GhostReturns, Inv, TypeOK
<1>5. r.inst \in Objs => obj[r.inst].made
  BY <1>1, <1>3, LazyAssumption DEF Inv, ObjectsAreSound, InstancesAreMade
<1>. QED
  BY <1>1, <1>3, <1>4, <1>5, ReturnStep DEF GhostReturns

LEMMA ProxyReturnsInv == ASSUME Inv, NEW x \in Objs, ProxyReturns(x) PROVE Inv'
<1>1. /\ calls # <<>> /\ Cur.op = "init" /\ Cur.o \in Objs
      /\ obj[Cur.o].made /\ obj[x].made
  <2>1. calls # <<>> /\ Cur.op = "init" /\ obj[x].made /\ Len(calls) \in Nat
    BY CallFacts DEF ProxyReturns, Returnable
  <2>2. Cur.o \in Objs /\ InitCall(Cur)
    BY <2>1, InnermostFacts
  <2>. QED
    BY <2>1, <2>2 DEF InitCall
<1>2. obj[Cur.o] \in Object
  BY <1>1, ObjectFacts
<1>3. PICK r \in Object :
        /\ r = [obj[Cur.o] EXCEPT !.initializing = FALSE, !.init = 0, !.inst = x,
                                  !.state = "proxyDone"]
        /\ r.made /\ r.init = 0 /\ ~r.initializing
        /\ r.state = "proxyDone" /\ r.inst = x
  <2>1. 0 \in 0 .. MaxInits
    BY LazyAssumption
  <2>2. [obj[Cur.o] EXCEPT !.initializing = FALSE, !.init = 0, !.inst = x,
                           !.state = "proxyDone"] \in Object
    BY <1>2, <2>1 DEF Object, States
  <2>. QED
    BY <1>1, <1>2, <2>2 DEF Object
<1>4. obj' = [obj EXCEPT ![Cur.o] = r]
  BY <1>1, <1>3 DEF ProxyReturns, Inv, TypeOK
<1>. QED
  BY <1>1, <1>3, <1>4, ReturnStep DEF ProxyReturns

(* An access ends at the table of its object.                              *)
LEMMA AccessEndsInv == ASSUME Inv, AccessEnds PROVE Inv'
<1>. PICK n \in Nat : n = Len(calls)
  BY CallFacts
<1>1. /\ calls # <<>> /\ Cur.op = "access" /\ Cur.o \in Objs /\ n > 0 /\ Cur = calls[n]
      /\ obj[Cur.o].made /\ Cur.p \in Props
  BY InnermostFacts, FrameKinds DEF AccessEnds, InAccess, Access
<1>2. obj[Cur.o] \in Object
  BY <1>1, ObjectFacts
<1>3. obj[Cur.o].state = "ghost" => Cur.p \in obj[Cur.o].skipped
  <2>1. CASE Cur.at = "inited"
    BY <2>1, <1>1, InnermostFacts
  <2>2. CASE Cur.at = "start"
    BY <2>2, <1>1, ObjectFacts DEF AccessEnds, Needs, Triggers, Lazy, Kinds
  <2>. QED
    BY <2>1, <2>2 DEF AccessEnds
<1>4. PICK r \in Object :
        /\ obj' = [obj EXCEPT ![Cur.o] = r]
        /\ r.made /\ r.init = obj[Cur.o].init /\ r.inst = obj[Cur.o].inst
        /\ r.initializing = obj[Cur.o].initializing /\ r.state = obj[Cur.o].state
        /\ r.skipped = obj[Cur.o].skipped
        /\ r.h = obj[Cur.o].h \/ r.h = obj[Cur.o].h \cup {Cur.p}
  <2>1. CASE Cur.write
    <3>. DEFINE r == [obj[Cur.o] EXCEPT !.h = @ \cup {Cur.p}]
    <3>1. r \in Object
      BY <1>1, <1>2 DEF Object
    <3>2. /\ r.made /\ r.init = obj[Cur.o].init /\ r.inst = obj[Cur.o].inst
          /\ r.initializing = obj[Cur.o].initializing /\ r.state = obj[Cur.o].state
          /\ r.skipped = obj[Cur.o].skipped /\ r.h = obj[Cur.o].h \cup {Cur.p}
      BY <1>1, <1>2 DEF Object
    <3>3. obj' = [obj EXCEPT ![Cur.o] = r]
      BY <2>1, <1>1 DEF AccessEnds, Inv, TypeOK
    <3>. QED
      BY <3>1, <3>2, <3>3
  <2>2. CASE ~Cur.write
    <3>1. obj' = obj /\ obj = [obj EXCEPT ![Cur.o] = obj[Cur.o]]
      BY <2>2, <1>1 DEF AccessEnds, Inv, TypeOK
    <3>. QED
      BY <3>1, <1>1, <1>2
  <2>. QED
    BY <2>1, <2>2
<1>5. Pops(n - 1, Cur.o, r)
  <2>1. calls' = Below /\ inits' = inits /\ done' = done
    BY DEF AccessEnds
  <2>2. /\ n - 1 \in Nat /\ calls' \in Seq(Frame) /\ Len(calls') = n - 1
        /\ \A i \in 1 .. n - 1 : calls'[i] = calls[i]
    BY <1>1, <2>1, BelowStep
  <2>. QED
    BY <1>1, <1>4, <2>1, <2>2 DEF Pops
<1>6. Closes(n - 1, Cur.o, r)
  <2>1. ~(n - 1 > 0 /\ calls[n - 1].op = "access")
    <3>1. \A i \in 1 .. n - 1 : calls[i].op = "access" => calls[i + 1].op = "init"
      BY <1>1, InnermostFacts
    <3>2. n - 1 > 0 => n - 1 \in 1 .. n - 1 /\ (n - 1) + 1 = n
      OBVIOUS
    <3>. QED
      BY <1>1, <3>1, <3>2
  <2>2. /\ r.state \in Kinds => r.init # 0
        /\ r.state = "ghost" => ~r.initializing /\ r.h = r.skipped
        /\ r.state = "ghostDone" => r.h = Props
        /\ r.init # 0 /\ r.state \notin Kinds => r.initializing
    <3>1. /\ obj[Cur.o].state \in Kinds => obj[Cur.o].init # 0
          /\ obj[Cur.o].state = "ghost" =>
               ~obj[Cur.o].initializing /\ obj[Cur.o].h = obj[Cur.o].skipped
          /\ obj[Cur.o].state = "ghostDone" => obj[Cur.o].h = Props
          /\ obj[Cur.o].init # 0 /\ obj[Cur.o].state \notin Kinds => obj[Cur.o].initializing
      BY <1>1, ObjectFacts DEF Lazy
    <3>3. Props \cup {Cur.p} = Props
      BY <1>1
    <3>4. Cur.p \in obj[Cur.o].skipped => obj[Cur.o].skipped \cup {Cur.p} = obj[Cur.o].skipped
      OBVIOUS
    <3>5. r.state = "ghost" => r.h = r.skipped
      BY <1>3, <1>4, <3>1, <3>4
    <3>6. r.state = "ghostDone" => r.h = Props
      BY <1>4, <3>1, <3>3
    <3>2. /\ r.state = "ghost" => r.h = r.skipped
          /\ r.state = "ghostDone" => r.h = Props
      BY <3>5, <3>6
    <3>. QED
      BY <1>4, <3>1, <3>2
  <2>3. ASSUME NEW i \in 1 .. n - 1, calls[i].op = "init", calls[i].o = Cur.o
        PROVE  /\ r.initializing /\ r.init \in {0, calls[i].init}
               /\ \/ /\ calls[i].state = "ghost" /\ r.state = "ghostDone"
                     /\ calls[i].h = r.skipped /\ r.init = calls[i].init
                  \/ calls[i].state = "proxy" /\ r.state = "proxy"
                  \/ calls[i].state = "proxy" /\ r.state = "proxyDone" /\ r.init = 0
    <3>. PICK o \in Objs : o = Cur.o
      BY <1>1
    <3>1. i \in Calls /\ calls[i].op = "init" /\ calls[i].o = o
      BY <2>3 DEF Calls
    <3>2. /\ obj[o].initializing /\ obj[o].init \in {0, calls[i].init}
          /\ \/ /\ calls[i].state = "ghost" /\ obj[o].state = "ghostDone"
                /\ calls[i].h = obj[o].skipped /\ obj[o].init = calls[i].init
             \/ calls[i].state = "proxy" /\ obj[o].state = "proxy"
             \/ calls[i].state = "proxy" /\ obj[o].state = "proxyDone" /\ obj[o].init = 0
      BY <3>1, ObjectFacts
    <3>3. /\ r.init = obj[o].init /\ r.initializing = obj[o].initializing
          /\ r.state = obj[o].state /\ r.skipped = obj[o].skipped
      BY <1>4
    <3>. QED
      BY <3>2, <3>3
  <2>4. r.inst \in Objs => obj[r.inst].made
    BY <1>1, <1>4, LazyAssumption DEF Inv, ObjectsAreSound, InstancesAreMade
  <2>. QED
    BY <1>1, <1>4, <2>1, <2>2, <2>3, <2>4 DEF Closes, AccessEnds
<1>. PICK m \in Nat, o \in Objs : m = n - 1 /\ o = Cur.o
  BY <1>1
<1>7. Pops(m, o, r) /\ Closes(m, o, r)
  BY <1>5, <1>6
<1>. QED
  BY <1>7, PopStep

-----------------------------------------------------------------------------
(* Steps of an access *)

(* The access is at another place.                                         *)
LEMMA GoOnInv ==
  ASSUME Inv, InAccess, NEW o \in Objs, NEW at \in Steps, at # "inited",
         obj[o].made, GoOn(o, at)
  PROVE  Inv'
<1>. PICK n \in Nat : n = Len(calls)
  BY CallFacts
<1>1. /\ calls # <<>> /\ n > 0 /\ Cur = calls[n] /\ Cur.op = "access" /\ Cur \in Access
      /\ \A i \in 1 .. n - 1 : calls[i].op # "access" \/ i + 1 \in 1 .. n - 1
  <2>1. calls # <<>> /\ Cur.op = "access"
    BY DEF InAccess
  <2>2. n > 0 /\ Cur = calls[n] /\ Cur \in Access
    BY <2>1, InnermostFacts, FrameKinds
  <2>3. \A i \in 1 .. n - 1 : calls[i].op = "access" => calls[i + 1].op = "init"
    BY <2>1, InnermostFacts
  <2>4. ASSUME NEW i \in 1 .. n - 1, calls[i].op = "access" PROVE i + 1 \in 1 .. n - 1
    <3>1. i + 1 # n
      BY <2>1, <2>2, <2>3, <2>4
    <3>. QED
      BY <3>1
  <2>. QED
    BY <2>1, <2>2, <2>4
<1>2. /\ calls' \in Seq(Frame) /\ Len(calls') = n
      /\ \A i \in 1 .. n - 1 : calls'[i] = calls[i]
      /\ calls'[n].op = "access" /\ calls'[n].o = o /\ calls'[n].at = at
  BY <1>1, CallFacts, ResumeFacts DEF GoOn, Access
<1>3. UNCHANGED <<obj, inits, done>>
  BY DEF GoOn
<1>4. /\ Calls = 1 .. n /\ Calls' = Calls
      /\ \A i \in Calls : calls'[i].op = calls[i].op
      /\ \A i \in Calls : calls[i].op # "access" => calls'[i] = calls[i]
      /\ \A i \in Calls : calls'[i] = calls[i] \/ (i = n /\ calls'[i].o = o)
  BY <1>1, <1>2 DEF Calls
<1>5. TypeOK'
  BY <1>2, <1>3 DEF Inv, TypeOK
<1>6. NumbersAreUnique'
  BY <1>3, <1>4 DEF Inv, NumbersAreUnique, NumbersOfObjects, NumbersOfCalls, NumbersOfBoth
<1>7. ObjectsAreSound'
  <2>. USE DEF Inv, ObjectsAreSound
  <2>1. ObjectsFit'
    BY <1>3 DEF ObjectsFit, Lazy
  <2>2. InitializingOnes'
    <3>1. \A x \in Objs : BeingInitialized(x) => BeingInitialized(x)'
      BY <1>2, <1>4 DEF BeingInitialized
    <3>. QED
      BY <1>3, <3>1 DEF InitializingOnes
  <2>3. InstancesAreMade'
    BY <1>3 DEF InstancesAreMade
  <2>. QED
    BY <2>1, <2>2, <2>3
<1>8. CallsAreSound'
  <2>. USE DEF Inv, CallsAreSound
  <2>1. InitCalls'
    <3>1. ASSUME NEW i \in Calls, calls[i].op = "init" PROVE InitCall(calls[i])'
      BY <3>1, <1>3, <1>4 DEF InitCalls, InitCall
    <3>2. ASSUME NEW i \in Calls, calls[i].op # "init" PROVE obj[calls'[i].o].made
      BY <3>2, <1>4 DEF InitCalls
    <3>. QED
      BY <1>3, <1>4, <3>1, <3>2 DEF InitCalls
  <2>2. InitsApart'
    BY <1>4 DEF InitsApart
  <2>3. AccessesWait'
    <3>. SUFFICES ASSUME NEW i \in 1 .. n, calls'[i].op = "access"
                  PROVE  /\ i < n =>
                              calls'[i+1].op = "init" /\ calls'[i+1].o = calls'[i].o
                         /\ i = n => calls'[i].at # "inited"
      BY <1>2, <1>4 DEF AccessesWait
    <3>1. CASE i < n
      <4>1. i \in 1 .. n - 1 /\ calls[i].op = "access" /\ i + 1 \in 1 .. n - 1
        BY <3>1, <1>1, <1>2
      <4>2. calls[i + 1].op = "init" /\ calls[i + 1].o = calls[i].o
        BY <4>1, <1>1, InnermostFacts
      <4>. QED
        BY <3>1, <4>1, <4>2, <1>2
    <3>. QED
      BY <3>1, <1>2
  <2>. QED
    BY <2>1, <2>2, <2>3
<1>. QED
  BY <1>5, <1>6, <1>7, <1>8 DEF Inv

(* The access waits for the initializer of an object.                      *)
LEMMA AccessBeginInv ==
  ASSUME Inv, InAccess, NEW at \in Steps, Triggers(Cur.o), Begin(Cur.o, Resume(Cur.o, at))
  PROVE  Inv'
<1>1. calls # <<>> /\ Cur.o \in Objs /\ Cur \in Access /\ Cur.op = "access"
  BY CallFacts, InnermostFacts, FrameKinds DEF InAccess
<1>. PICK C \in Seq(Frame) :
        /\ C = Resume(Cur.o, at) /\ Len(C) = Len(calls)
        /\ \A i \in 1 .. Len(calls) - 1 : C[i] = calls[i]
        /\ C[Len(calls)].op = "access" /\ C[Len(calls)].o = Cur.o
  BY <1>1, CallFacts, ResumeFacts DEF Access
<1>. QED
  BY <1>1, BeginInv

LEMMA AccessInitsInv == ASSUME Inv, AccessInits PROVE Inv'
BY AccessBeginInv DEF AccessInits, Needs, Steps

LEMMA AccessFollowsInv == ASSUME Inv, AccessFollows PROVE Inv'
<1>1. calls # <<>> /\ Cur.o \in Objs
  BY CallFacts, InnermostFacts DEF AccessFollows, InAccess
<1>2. obj[Cur.o].inst \in Objs /\ obj[obj[Cur.o].inst].made
  BY <1>1, InstanceType DEF AccessFollows, Follows, Delegates, Inv, ObjectsAreSound,
                            InstancesAreMade
<1>. QED
  BY <1>2, GoOnInv DEF AccessFollows, Steps

LEMMA AccessResolvesInv == ASSUME Inv, AccessResolves PROVE Inv'
<1>1. calls # <<>> /\ Cur.o \in Objs /\ obj[Cur.o].made
  BY CallFacts, InnermostFacts DEF AccessResolves, InAccess
<1>. QED
  BY <1>1, GoOnInv, AccessBeginInv DEF AccessResolves, Steps

LEMMA AccessRestartsInv == ASSUME Inv, AccessRestarts PROVE Inv'
<1>1. calls # <<>> /\ Cur.o \in Objs /\ obj[Cur.o].made
  BY CallFacts, InnermostFacts DEF AccessRestarts, InAccess
<1>. QED
  BY <1>1, GoOnInv DEF AccessRestarts, Steps

LEMMA InitializeInv == ASSUME Inv, NEW o \in Objs, Initialize(o) PROVE Inv'
BY CallFacts, BeginInv DEF Initialize

-----------------------------------------------------------------------------
(* The invariant *)

LEMMA InitInv == Init => Inv
<1>. SUFFICES ASSUME Init PROVE Inv
  OBVIOUS
<1>1. 0 \in 0 .. MaxInits /\ NoObj \in Objs \cup {NoObj}
  BY LazyAssumption
<1>2. TypeOK
  BY <1>1 DEF Init, TypeOK, Object, States
<1>3. Len(calls) = 0 /\ Calls = {}
  BY DEF Init, Calls
<1>4. NumbersAreUnique
  BY <1>3 DEF Init, NumbersAreUnique, NumbersOfObjects, NumbersOfCalls, NumbersOfBoth
<1>5. ObjectsAreSound
  BY <1>3 DEF Init, ObjectsAreSound, ObjectsFit, InitializingOnes, InstancesAreMade, Lazy,
              Kinds
<1>6. CallsAreSound
  BY <1>3 DEF CallsAreSound, InitCalls, InitsApart, AccessesWait
<1>. QED
  BY <1>2, <1>4, <1>5, <1>6 DEF Inv

LEMMA StutterInv == ASSUME Inv, UNCHANGED vars PROVE Inv'
<1>. USE DEF vars, Inv
<1>1. TypeOK'
  BY DEF TypeOK
<1>2. NumbersAreUnique'
  BY DEF NumbersAreUnique, NumbersOfObjects, NumbersOfCalls, NumbersOfBoth, Calls
<1>3. ObjectsAreSound'
  BY DEF ObjectsAreSound, ObjectsFit, InitializingOnes, InstancesAreMade, Lazy,
         BeingInitialized
<1>4. CallsAreSound'
  BY DEF CallsAreSound, InitCalls, InitsApart, AccessesWait, InitCall, Calls
<1>. QED
  BY <1>1, <1>2, <1>3, <1>4

LEMMA NextInv == ASSUME Inv, ~MayResetOwn, [Next]_vars PROVE Inv'
<1>1. ASSUME NEW o \in Objs, NewPlain(o) PROVE Inv'
  BY <1>1, NewPlainInv
<1>2. ASSUME NEW o \in Objs, Mark(o) PROVE Inv'
  BY <1>2, MarkInv
<1>3. ASSUME NEW o \in Objs, Initialize(o) PROVE Inv'
  BY <1>3, InitializeInv
<1>4. ASSUME NEW o \in Objs, ProxyReturns(o) PROVE Inv'
  BY <1>4, ProxyReturnsInv
<1>5. ASSUME NEW o \in Objs, NEW kind \in Kinds, NewLazy(o, kind) PROVE Inv'
  BY <1>5, NewLazyInv
<1>6. ASSUME NEW o \in Objs, NEW kind \in Kinds, Reset(o, kind) PROVE Inv'
  BY <1>6, ResetInv
<1>7. ASSUME NEW o \in Objs, NEW p \in Props, Skip(o, p) PROVE Inv'
  BY <1>7, SkipInv
<1>8. ASSUME NEW o \in Objs, NEW p \in Props, NEW write \in BOOLEAN, Touch(o, p, write)
      PROVE  Inv'
  BY <1>8, TouchInv
<1>9. DestructorEnds => Inv'
  BY DestructorEndsInv
<1>10. InitFails => Inv'
  BY InitFailsInv
<1>11. GhostReturns => Inv'
  BY GhostReturnsInv
<1>12. AccessInits => Inv'
  BY AccessInitsInv
<1>13. AccessFollows => Inv'
  BY AccessFollowsInv
<1>14. AccessResolves => Inv'
  BY AccessResolvesInv
<1>15. AccessRestarts => Inv'
  BY AccessRestartsInv
<1>16. AccessEnds => Inv'
  BY AccessEndsInv
<1>17. UNCHANGED vars => Inv'
  BY StutterInv
<1>18. DestructorFails => Inv'
  BY DestructorFailsInv
<1>. QED
  BY <1>1, <1>2, <1>3, <1>4, <1>5, <1>6, <1>7, <1>8, <1>9, <1>10, <1>11, <1>12, <1>13,
     <1>14, <1>15, <1>16, <1>17, <1>18 DEF Next

LEMMA InvHolds == ASSUME MayResetOwn = FALSE PROVE Spec => []Inv
<1>1. Init => Inv
  BY InitInv
<1>2. Inv /\ [Next]_vars => Inv'
  BY NextInv
<1>. QED
  BY <1>1, <1>2, PTL DEF Spec

-----------------------------------------------------------------------------
(* The properties of the runs *)

(* The objects, the calls of lazy.go and the numbers of the initializers   *)
(* are what their types say, whatever initializers and destructors do.     *)
THEOREM LazyTypeOK == ASSUME MayResetOwn = FALSE PROVE Spec => []TypeOK
<1>1. Inv => TypeOK
  BY DEF Inv
<1>. QED
  BY <1>1, InvHolds, PTL

(* TriggerLazyInit, the failure path of doGhostInit and the resets of      *)
(* reflection keep the initializer of a lazy object until it has           *)
(* succeeded, and leave none behind on an object that is not lazy.         *)
THEOREM InitializersAreOwed ==
  ASSUME MayResetOwn = FALSE PROVE Spec => []InitializerIsOwed
<1>1. Inv => InitializerIsOwed
  <2>. SUFFICES ASSUME Inv, NEW o \in Objs
                PROVE  /\ Lazy(o) => obj[o].init \in (1 .. inits) \ done
                       /\ ~Lazy(o) /\ ~BeingInitialized(o) => obj[o].init = 0
    BY DEF InitializerIsOwed
  <2>1. Lazy(o) => obj[o].init # 0
    BY ObjectFacts
  <2>2. ~Lazy(o) /\ ~BeingInitialized(o) => obj[o].init = 0
    BY ObjectFacts DEF Inv, ObjectsAreSound, InitializingOnes
  <2>. QED
    BY <2>1, <2>2 DEF Inv, NumbersAreUnique, NumbersOfObjects
<1>. QED
  BY <1>1, InvHolds, PTL

(* LazyInitializing, and the state that doGhostInit sets first, keep an    *)
(* initializer from running inside itself; no initializer succeeds twice.  *)
THEOREM InitializersRunAlone ==
  ASSUME MayResetOwn = FALSE PROVE Spec => []OneInitializerAtATime
<1>1. Inv => OneInitializerAtATime
  BY DEF Inv, NumbersAreUnique, NumbersOfCalls, CallsAreSound, InitsApart, Calls,
         OneInitializerAtATime
<1>. QED
  BY <1>1, InvHolds, PTL

(* A ghost that is lazy shows its skipped properties and no other: the     *)
(* table is put back when the initializer fails, and cleared by a reset.   *)
THEOREM LazyGhostsShowOnlySkipped ==
  ASSUME MayResetOwn = FALSE PROVE Spec => []LazyGhostShowsOnlySkipped
<1>1. Inv => LazyGhostShowsOnlySkipped
  BY DEF Inv, ObjectsAreSound, ObjectsFit, LazyGhostShowsOnlySkipped
<1>. QED
  BY <1>1, InvHolds, PTL

(* Every way to realize a ghost - initDefaultProps before the initializer, *)
(* a mark, checkAutoRealize - leaves all its properties in the table.      *)
THEOREM RealizedGhostsAreComplete ==
  ASSUME MayResetOwn = FALSE PROVE Spec => []RealizedGhostIsComplete
<1>1. Inv => RealizedGhostIsComplete
  BY DEF Inv, ObjectsAreSound, ObjectsFit, RealizedGhostIsComplete
<1>. QED
  BY <1>1, InvHolds, PTL
=============================================================================
