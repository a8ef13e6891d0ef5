----------------------------- MODULE FiberProofs -----------------------------
(* Proofs about Fiber: control is never lost and never duplicated, for any *)
(* number of fibers and generators and any length of their bodies.         *)
EXTENDS Fiber, TLAPS

(* What else holds of a body that a goroutine has resumed and not heard    *)
(* from: it has been started, and it is neither parked nor gone.           *)
CalledIsAway ==
    \A x \in Threads, b \in Bodies :
      /\ thr[x].on = b => status[b] # "Created"
      /\ WaitsFor(x, b) => thr[b].at \notin {"unborn", "parked", "ended"}

Inv == TypeOK /\ SoloRunner /\ StatusIsTrue /\ SendsAreReceived /\ CalledIsAway

-----------------------------------------------------------------------------
(* Initially only the script runs, and nobody waits.                       *)
LEMMA InitInv == Init => Inv
<1>. SUFFICES ASSUME Init PROVE Inv
  OBVIOUS
<1>. USE FiberAssumption DEF Init, Threads, Bodies
<1>1. TypeOK
  BY DEF TypeOK, Places, Goroutine
<1>2. SoloRunner
  BY DEF SoloRunner, Moving
<1>3. StatusIsTrue
  BY DEF StatusIsTrue
<1>4. SendsAreReceived
  BY DEF SendsAreReceived
<1>5. CalledIsAway
  BY DEF CalledIsAway, WaitsFor
<1>. QED
  BY <1>1, <1>2, <1>3, <1>4, <1>5 DEF Inv

(* A call uses up fuel and nothing else.                                   *)
LEMMA BurntFacts ==
  ASSUME TypeOK, NEW x \in Threads, MayCall(x)
  PROVE  /\ Burnt(x) \in Goroutine
         /\ Burnt(x).at = thr[x].at /\ Burnt(x).on = thr[x].on
<1>1. thr[x] \in Goroutine /\ Fuel \in Nat
  BY FiberAssumption DEF TypeOK, Goroutine
<1>2. x # Main => thr[x].fuel - 1 \in 0..Fuel
  BY <1>1 DEF MayCall, Goroutine
<1>. QED
  BY <1>1, <1>2 DEF Burnt, Places, Goroutine

-----------------------------------------------------------------------------
(* Every step keeps the invariant.  Each proof first says what the step    *)
(* does to the places of the one or two goroutines it moves.               *)

(* The caller waits, the fiber runs.                                       *)
LEMMA StartFiberInv ==
  ASSUME Inv, NEW x \in Threads, NEW f \in Fibers, StartFiber(x, f)
  PROVE  Inv'
<1>. USE FiberAssumption DEF Inv, Threads, Bodies, Goroutine
<1>1. f \in Bodies /\ f # x
  BY DEF StartFiber, MayCall, InPHP, Engaged, SoloRunner, Moving, TypeOK, StatusIsTrue
<1>2. /\ thr[x] \in Goroutine
      /\ thr[f] \in Goroutine
  BY <1>1 DEF TypeOK
<1>3. /\ Burnt(x) \in Goroutine
      /\ Burnt(x).at = thr[x].at /\ Burnt(x).on = thr[x].on
  BY BurntFacts DEF StartFiber
<1>4. /\ thr' \in [Threads -> Goroutine]
      /\ thr[x].at = "php" /\ thr[f].at = "unborn" /\ status[f] = "Created"
      /\ thr'[x].at = "waiting" /\ thr'[x].on = f
      /\ thr'[f].at = "php" /\ thr'[f].on = thr[f].on
      /\ \A y \in Threads \ {x, f} : thr'[y] = thr[y]
      /\ status' = [status EXCEPT ![f] = "Running"]
  BY <1>1, <1>2, <1>3 DEF StartFiber, MayCall, InPHP, Engaged, TypeOK, Places
<1>5. TypeOK'
  BY <1>1, <1>4 DEF TypeOK, Places, StatusIsTrue, SoloRunner, Moving
<1>6. SoloRunner'
  BY <1>1, <1>4 DEF SoloRunner, Moving, TypeOK
<1>7. StatusIsTrue'
  BY <1>1, <1>4 DEF StatusIsTrue, SoloRunner, Moving, TypeOK, SendsAreReceived,
         CalledIsAway, WaitsFor
<1>8. SendsAreReceived'
  BY <1>1, <1>4 DEF SendsAreReceived, SoloRunner, Moving, TypeOK, StatusIsTrue,
         CalledIsAway, WaitsFor
<1>9. CalledIsAway'
  BY <1>1, <1>4 DEF CalledIsAway, SoloRunner, Moving, TypeOK, StatusIsTrue,
         SendsAreReceived, WaitsFor
<1>. QED
  BY <1>5, <1>6, <1>7, <1>8, <1>9

(* The fiber is parked: its goroutine would be the one that moves.         *)
LEMMA ResumeFiberInv ==
  ASSUME Inv, NEW x \in Threads, NEW f \in Fibers, ResumeFiber(x, f)
  PROVE  Inv'
<1>. USE FiberAssumption DEF Inv, Threads, Bodies, Goroutine
<1>1. f \in Bodies /\ f # x
  BY DEF ResumeFiber, MayCall, InPHP, Engaged, SoloRunner, Moving, TypeOK, StatusIsTrue
<1>2. /\ thr[x] \in Goroutine
      /\ thr[f] \in Goroutine
  BY <1>1 DEF TypeOK
<1>3. /\ Burnt(x) \in Goroutine
      /\ Burnt(x).at = thr[x].at /\ Burnt(x).on = thr[x].on
  BY BurntFacts DEF ResumeFiber
<1>4. /\ thr' \in [Threads -> Goroutine]
      /\ thr[x].at = "php" /\ thr[f].at = "parked" /\ status[f] # "Terminated"
      /\ thr'[x].at = "sending" /\ thr'[x].on = f
      /\ \A y \in Threads \ {x} : thr'[y] = thr[y]
      /\ status' = [status EXCEPT ![f] = "Running"]
  BY ZenonT(60), <1>1, <1>2, <1>3
  DEF ResumeFiber, MayCall, InPHP, Engaged, TypeOK, Places, StatusIsTrue, SoloRunner, Moving
<1>5. TypeOK'
  BY <1>1, <1>4 DEF TypeOK, Places, StatusIsTrue, SoloRunner, Moving
<1>6. SoloRunner'
  BY <1>1, <1>4 DEF SoloRunner, Moving, TypeOK
<1>7. StatusIsTrue'
  BY <1>1, <1>4 DEF StatusIsTrue, SoloRunner, Moving, TypeOK, SendsAreReceived,
         CalledIsAway, WaitsFor
<1>8. SendsAreReceived'
  BY <1>1, <1>4 DEF SendsAreReceived, SoloRunner, Moving, TypeOK, StatusIsTrue,
         CalledIsAway, WaitsFor
<1>9. CalledIsAway'
  BY <1>1, <1>4 DEF CalledIsAway, SoloRunner, Moving, TypeOK, StatusIsTrue,
         SendsAreReceived, WaitsFor
<1>. QED
  BY <1>5, <1>6, <1>7, <1>8, <1>9

(* The same for a generator.                                               *)
LEMMA ResumeGeneratorInv ==
  ASSUME Inv, NEW x \in Threads, NEW g \in Gens, ResumeGenerator(x, g)
  PROVE  Inv'
<1>. USE FiberAssumption DEF Inv, Threads, Bodies, Goroutine
<1>1. g \in Bodies /\ g # x
  BY DEF ResumeGenerator, MayCall, InPHP, Engaged, SoloRunner, Moving, TypeOK, StatusIsTrue
<1>2. /\ thr[x] \in Goroutine
      /\ thr[g] \in Goroutine
  BY <1>1 DEF TypeOK
<1>3. /\ Burnt(x) \in Goroutine
      /\ Burnt(x).at = thr[x].at /\ Burnt(x).on = thr[x].on
  BY BurntFacts DEF ResumeGenerator
<1>4. /\ thr' \in [Threads -> Goroutine]
      /\ thr[x].at = "php" /\ thr[g].at = "parked" /\ status[g] # "Terminated"
      /\ thr'[x].at = "sending" /\ thr'[x].on = g
      /\ \A y \in Threads \ {x} : thr'[y] = thr[y]
      /\ status' = [status EXCEPT ![g] = "Running"]
  BY ZenonT(60), <1>1, <1>2, <1>3
  DEF ResumeGenerator, MayCall, InPHP, Engaged, TypeOK, Places, StatusIsTrue, SoloRunner, Moving
<1>5. TypeOK'
  BY <1>1, <1>4 DEF TypeOK, Places, StatusIsTrue, SoloRunner, Moving
<1>6. SoloRunner'
  BY <1>1, <1>4 DEF SoloRunner, Moving, TypeOK
<1>7. StatusIsTrue'
  BY <1>1, <1>4 DEF StatusIsTrue, SoloRunner, Moving, TypeOK, SendsAreReceived,
         CalledIsAway, WaitsFor
<1>8. SendsAreReceived'
  BY <1>1, <1>4 DEF SendsAreReceived, SoloRunner, Moving, TypeOK, StatusIsTrue,
         CalledIsAway, WaitsFor
<1>9. CalledIsAway'
  BY <1>1, <1>4 DEF CalledIsAway, SoloRunner, Moving, TypeOK, StatusIsTrue,
         SendsAreReceived, WaitsFor
<1>. QED
  BY <1>5, <1>6, <1>7, <1>8, <1>9

(* Control passes to the body, the caller waits.                           *)
LEMMA ResumedInv ==
  ASSUME Inv, NEW x \in Threads, Resumed(x)
  PROVE  Inv'
<1>. DEFINE b == thr[x].on
<1>. USE FiberAssumption DEF Inv, Threads, Bodies, Goroutine
<1>1. b \in Bodies /\ b # x
  BY DEF Resumed, SoloRunner, Moving, TypeOK, StatusIsTrue, b
<1>2. /\ thr[x] \in Goroutine
      /\ thr[b] \in Goroutine
  BY <1>1 DEF TypeOK
<1>3. /\ thr' \in [Threads -> Goroutine]
      /\ thr[x].at = "sending" /\ thr[x].on = b /\ thr[b].at = "parked"
      /\ thr'[x].at = "waiting" /\ thr'[x].on = b
      /\ thr'[b].at = "php" /\ thr'[b].on = thr[b].on
      /\ \A y \in Threads \ {x, b} : thr'[y] = thr[y]
      /\ status' = [status EXCEPT ![b] = "Running"]
  BY <1>1, <1>2 DEF Resumed, TypeOK, Places, StatusIsTrue, SoloRunner, Moving, b
<1>. HIDE DEF b
<1>4. TypeOK'
  BY <1>1, <1>3 DEF TypeOK, Places, StatusIsTrue, SoloRunner, Moving
<1>5. SoloRunner'
  BY <1>1, <1>3 DEF SoloRunner, Moving, TypeOK
<1>6. StatusIsTrue'
  BY <1>1, <1>3 DEF StatusIsTrue, SoloRunner, Moving, TypeOK, SendsAreReceived,
         CalledIsAway, WaitsFor
<1>7. SendsAreReceived'
  BY SMTT(60), <1>1, <1>3 DEF SendsAreReceived, SoloRunner, Moving, TypeOK, StatusIsTrue,
         CalledIsAway, WaitsFor
<1>8. CalledIsAway'
  BY <1>1, <1>3 DEF CalledIsAway, SoloRunner, Moving, TypeOK, StatusIsTrue,
         SendsAreReceived, WaitsFor
<1>. QED
  BY <1>4, <1>5, <1>6, <1>7, <1>8

(* A fiber hands control to the one caller that waits for it.              *)
LEMMA SuspendInv ==
  ASSUME Inv, NEW x \in Threads, Suspend(x)
  PROVE  Inv'
<1>. USE FiberAssumption DEF Inv, Threads, Bodies, Goroutine
<1>1. /\ Burnt(x) \in Goroutine
      /\ Burnt(x).at = thr[x].at /\ Burnt(x).on = thr[x].on
  BY BurntFacts DEF Suspend
<1>2. /\ thr' \in [Threads -> Goroutine]
      /\ x \in Bodies /\ thr[x].at = "php"
      /\ thr'[x].at = "suspending" /\ thr'[x].on = thr[x].on
      /\ \A y \in Threads \ {x} : thr'[y] = thr[y]
      /\ status' = [status EXCEPT ![x] = "Suspended"]
  BY <1>1 DEF Suspend, FiberOf, MayCall, InPHP, TypeOK, Places
<1>3. TypeOK'
  BY <1>2 DEF TypeOK, Places, StatusIsTrue, SoloRunner, Moving
<1>4. SoloRunner'
  BY <1>2 DEF SoloRunner, Moving, TypeOK
<1>5. StatusIsTrue'
  BY <1>2 DEF StatusIsTrue, SoloRunner, Moving, TypeOK, SendsAreReceived,
         CalledIsAway, WaitsFor
<1>6. SendsAreReceived'
  BY <1>2 DEF SendsAreReceived, SoloRunner, Moving, TypeOK, StatusIsTrue,
         CalledIsAway, WaitsFor
<1>7. CalledIsAway'
  BY <1>2 DEF CalledIsAway, SoloRunner, Moving, TypeOK, StatusIsTrue,
         SendsAreReceived, WaitsFor
<1>. QED
  BY <1>3, <1>4, <1>5, <1>6, <1>7

(* So does a generator.                                                    *)
LEMMA YieldInv ==
  ASSUME Inv, NEW x \in Threads, Yield(x)
  PROVE  Inv'
<1>. USE FiberAssumption DEF Inv, Threads, Bodies, Goroutine
<1>1. /\ Burnt(x) \in Goroutine
      /\ Burnt(x).at = thr[x].at /\ Burnt(x).on = thr[x].on
  BY BurntFacts DEF Yield
<1>2. /\ thr' \in [Threads -> Goroutine]
      /\ x \in Bodies /\ thr[x].at = "php"
      /\ thr'[x].at = "suspending" /\ thr'[x].on = thr[x].on
      /\ \A y \in Threads \ {x} : thr'[y] = thr[y]
      /\ status' = [status EXCEPT ![x] = "Suspended"]
  BY <1>1 DEF Yield, MayCall, InPHP, TypeOK, Places
<1>3. TypeOK'
  BY <1>2 DEF TypeOK, Places, StatusIsTrue, SoloRunner, Moving
<1>4. SoloRunner'
  BY <1>2 DEF SoloRunner, Moving, TypeOK
<1>5. StatusIsTrue'
  BY <1>2 DEF StatusIsTrue, SoloRunner, Moving, TypeOK, SendsAreReceived,
         CalledIsAway, WaitsFor
<1>6. SendsAreReceived'
  BY <1>2 DEF SendsAreReceived, SoloRunner, Moving, TypeOK, StatusIsTrue,
         CalledIsAway, WaitsFor
<1>7. CalledIsAway'
  BY <1>2 DEF CalledIsAway, SoloRunner, Moving, TypeOK, StatusIsTrue,
         SendsAreReceived, WaitsFor
<1>. QED
  BY <1>3, <1>4, <1>5, <1>6, <1>7

(* And a body that ends.                                                   *)
LEMMA EndInv ==
  ASSUME Inv, NEW x \in Threads, End(x)
  PROVE  Inv'
<1>. USE FiberAssumption DEF Inv, Threads, Bodies, Goroutine
<1>1. /\ thr' \in [Threads -> Goroutine]
      /\ x \in Bodies /\ thr[x].at = "php"
      /\ thr'[x].at = "finishing" /\ thr'[x].on = thr[x].on
      /\ \A y \in Threads \ {x} : thr'[y] = thr[y]
      /\ status' = [status EXCEPT ![x] = "Terminated"]
  BY DEF End, InPHP, TypeOK, Places
<1>2. TypeOK'
  BY <1>1 DEF TypeOK, Places, StatusIsTrue, SoloRunner, Moving
<1>3. SoloRunner'
  BY <1>1 DEF SoloRunner, Moving, TypeOK
<1>4. StatusIsTrue'
  BY <1>1 DEF StatusIsTrue, SoloRunner, Moving, TypeOK, SendsAreReceived,
         CalledIsAway, WaitsFor
<1>5. SendsAreReceived'
  BY <1>1 DEF SendsAreReceived, SoloRunner, Moving, TypeOK, StatusIsTrue,
         CalledIsAway, WaitsFor
<1>6. CalledIsAway'
  BY <1>1 DEF CalledIsAway, SoloRunner, Moving, TypeOK, StatusIsTrue,
         SendsAreReceived, WaitsFor
<1>. QED
  BY <1>2, <1>3, <1>4, <1>5, <1>6

(* The caller runs on, the body is parked.                                 *)
LEMMA ReceiveSuspendedInv ==
  ASSUME Inv, NEW x \in Threads, ReceiveSuspended(x)
  PROVE  Inv'
<1>. DEFINE b == thr[x].on
<1>. USE FiberAssumption DEF Inv, Threads, Bodies, Goroutine
<1>1. b \in Bodies /\ b # x
  BY DEF ReceiveSuspended, Released, SoloRunner, Moving, TypeOK, StatusIsTrue, b
<1>2. /\ thr[x] \in Goroutine
      /\ thr[b] \in Goroutine
  BY <1>1 DEF TypeOK
<1>3. /\ thr' \in [Threads -> Goroutine]
      /\ thr[x].at = "waiting" /\ thr[x].on = b /\ thr[b].at = "suspending"
      /\ thr'[x].at = "php" /\ thr'[x].on = None
      /\ thr'[b].at = "parked" /\ thr'[b].on = thr[b].on
      /\ \A y \in Threads \ {x, b} : thr'[y] = thr[y]
      /\ status' = status
  BY <1>1, <1>2 DEF ReceiveSuspended, Released, TypeOK, Places, b
<1>. HIDE DEF b
<1>4. TypeOK'
  BY <1>1, <1>3 DEF TypeOK, Places, StatusIsTrue, SoloRunner, Moving
<1>5. SoloRunner'
  BY <1>1, <1>3 DEF SoloRunner, Moving, TypeOK
<1>6. StatusIsTrue'
  BY <1>1, <1>3 DEF StatusIsTrue, SoloRunner, Moving, TypeOK, SendsAreReceived,
         CalledIsAway, WaitsFor
<1>7. SendsAreReceived'
  BY <1>1, <1>3 DEF SendsAreReceived, SoloRunner, Moving, TypeOK, StatusIsTrue,
         CalledIsAway, WaitsFor
<1>8. CalledIsAway'
  BY <1>1, <1>3 DEF CalledIsAway, SoloRunner, Moving, TypeOK, StatusIsTrue,
         SendsAreReceived, WaitsFor
<1>. QED
  BY <1>4, <1>5, <1>6, <1>7, <1>8

(* The caller runs on, the body is gone.                                   *)
LEMMA ReceiveEndInv ==
  ASSUME Inv, NEW x \in Threads, ReceiveEnd(x)
  PROVE  Inv'
<1>. DEFINE b == thr[x].on
<1>. USE FiberAssumption DEF Inv, Threads, Bodies, Goroutine
<1>1. b \in Bodies /\ b # x
  BY DEF ReceiveEnd, Released, SoloRunner, Moving, TypeOK, StatusIsTrue, b
<1>2. /\ thr[x] \in Goroutine
      /\ thr[b] \in Goroutine
  BY <1>1 DEF TypeOK
<1>3. /\ thr' \in [Threads -> Goroutine]
      /\ thr[x].at = "waiting" /\ thr[x].on = b /\ thr[b].at = "finishing"
      /\ thr'[x].at = "php" /\ thr'[x].on = None
      /\ thr'[b].at = "ended" /\ thr'[b].on = thr[b].on
      /\ \A y \in Threads \ {x, b} : thr'[y] = thr[y]
      /\ status' = status
  BY <1>1, <1>2 DEF ReceiveEnd, Released, TypeOK, Places, b
<1>. HIDE DEF b
<1>4. TypeOK'
  BY <1>1, <1>3 DEF TypeOK, Places, StatusIsTrue, SoloRunner, Moving
<1>5. SoloRunner'
  BY <1>1, <1>3 DEF SoloRunner, Moving, TypeOK
<1>6. StatusIsTrue'
  BY <1>1, <1>3 DEF StatusIsTrue, SoloRunner, Moving, TypeOK, SendsAreReceived,
         CalledIsAway, WaitsFor
<1>7. SendsAreReceived'
  BY SMTT(60), <1>1, <1>3 DEF SendsAreReceived, SoloRunner, Moving, TypeOK, StatusIsTrue,
         CalledIsAway, WaitsFor
<1>8. CalledIsAway'
  BY <1>1, <1>3 DEF CalledIsAway, SoloRunner, Moving, TypeOK, StatusIsTrue,
         SendsAreReceived, WaitsFor
<1>. QED
  BY <1>4, <1>5, <1>6, <1>7, <1>8

(* A refused call changes nothing but the fuel.                            *)
LEMMA FailsInv ==
  ASSUME Inv, NEW x \in Threads, MayCall(x), Fails(x)
  PROVE  Inv'
<1>. USE FiberAssumption DEF Inv, Threads, Bodies, Goroutine
<1>1. /\ Burnt(x) \in Goroutine
      /\ Burnt(x).at = thr[x].at /\ Burnt(x).on = thr[x].on
  BY BurntFacts
<1>2. /\ thr' \in [Threads -> Goroutine]
      /\ thr'[x].at = thr[x].at /\ thr'[x].on = thr[x].on
      /\ \A y \in Threads \ {x} : thr'[y] = thr[y]
      /\ status' = status
  BY <1>1 DEF Fails, MayCall, InPHP, TypeOK, Places
<1>3. TypeOK'
  BY <1>2 DEF TypeOK, Places, StatusIsTrue, SoloRunner, Moving
<1>4. SoloRunner'
  BY <1>2 DEF SoloRunner, Moving, TypeOK
<1>5. StatusIsTrue'
  BY <1>2 DEF StatusIsTrue, SoloRunner, Moving, TypeOK, SendsAreReceived,
         CalledIsAway, WaitsFor
<1>6. SendsAreReceived'
  BY <1>2 DEF SendsAreReceived, SoloRunner, Moving, TypeOK, StatusIsTrue,
         CalledIsAway, WaitsFor
<1>7. CalledIsAway'
  BY <1>2 DEF CalledIsAway, SoloRunner, Moving, TypeOK, StatusIsTrue,
         SendsAreReceived, WaitsFor
<1>. QED
  BY <1>3, <1>4, <1>5, <1>6, <1>7

-----------------------------------------------------------------------------
(* The invariant is inductive.                                             *)
LEMMA NextInv == Inv /\ [Next]_vars => Inv'
<1>. SUFFICES ASSUME Inv, [Next]_vars PROVE Inv'
  OBVIOUS
<1>1. ASSUME NEW x \in Threads, Native(x) PROVE Inv'
  BY <1>1, ResumedInv, ReceiveSuspendedInv, ReceiveEndInv DEF Native
<1>2. ASSUME NEW x \in Threads, PHP(x) PROVE Inv'
  <2>1. CASE \E f \in Fibers : StartFiber(x, f) \/ StartRefused(x, f)
                              \/ ResumeFiber(x, f) \/ ResumeRefused(x, f)
    BY <2>1, StartFiberInv, ResumeFiberInv, FailsInv DEF StartRefused, ResumeRefused
  <2>2. CASE \E g \in Gens : ResumeGenerator(x, g) \/ ResumeGeneratorRefused(x, g)
    BY <2>2, ResumeGeneratorInv, FailsInv DEF ResumeGeneratorRefused
  <2>3. CASE Suspend(x) \/ SuspendRefused(x) \/ Yield(x) \/ End(x)
    BY <2>3, SuspendInv, FailsInv, YieldInv, EndInv DEF SuspendRefused
  <2>. QED
    BY <1>2, <2>1, <2>2, <2>3 DEF PHP
<1>3. CASE UNCHANGED vars
  BY <1>3 DEF vars, Inv, TypeOK, SoloRunner, Moving, StatusIsTrue, SendsAreReceived,
              CalledIsAway, WaitsFor
<1>. QED
  BY <1>1, <1>2, <1>3 DEF Next

(* It holds in every reachable state.                                      *)
LEMMA InvHolds == Spec => []Inv
  BY InitInv, NextInv, PTL DEF Spec

(* "The protocol ensures mutual exclusion: at any point, exactly one side  *)
(* is running" (FiberState, fiber.go): for any number of fibers and        *)
(* generators driving each other, one goroutine has control.               *)
THEOREM MutualExclusion == Spec => []SoloRunner
<1>1. Inv => SoloRunner
  BY DEF Inv
<1>. QED
  BY InvHolds, <1>1, PTL

(* No goroutine is left with a message nobody takes: whoever resumes a     *)
(* body finds it parked, and a body that suspends or ends finds exactly    *)
(* one caller waiting (the channels of fiber.go are unbuffered).           *)
THEOREM NoStrandedSend == Spec => []SendsAreReceived
<1>1. Inv => SendsAreReceived
  BY DEF Inv
<1>. QED
  BY InvHolds, <1>1, PTL

(* The status that start(), resume(), throw() and suspend() check tells    *)
(* where the goroutine of the fiber is.                                    *)
THEOREM StatusIsReliable == Spec => []StatusIsTrue
<1>1. Inv => StatusIsTrue
  BY DEF Inv
<1>. QED
  BY InvHolds, <1>1, PTL

(* Every fiber, body and goroutine keeps its type: a goroutine waits only  *)
(* on the channels it has, and the current fiber is a fiber (fiber.go).    *)
THEOREM FiberTypeOK == Spec => []TypeOK
<1>1. Inv => TypeOK
  BY DEF Inv
<1>. QED
  BY InvHolds, <1>1, PTL

=============================================================================
