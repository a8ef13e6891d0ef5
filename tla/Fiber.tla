-------------------------------- MODULE Fiber --------------------------------
(***************************************************************************)
(* Fibers (core/phpobj/fiber.go) next to generators without delegation:    *)
(* each body is a goroutine that hands control to its caller and back over *)
(* unbuffered channels, resumeCh and suspendCh (yieldCh, doneCh).  Fibers  *)
(* nest: PHP code run by a fiber starts and resumes fibers and generators. *)
(* An exception that leaves a body ends it like a return: which one it is  *)
(* makes no difference to control, so errors and values are left out.      *)
(*                                                                         *)
(*   Fibers  Fiber objects, constructed                                    *)
(*   Gens    generators, created; every body can reach every object        *)
(*   Main    the goroutine of the script                                   *)
(*   None    no body                                                       *)
(*   Fuel    bound on the calls of each body                               *)
(***************************************************************************)
EXTENDS Naturals, FiniteSets

CONSTANTS Fibers, Gens, Main, None, Fuel

ASSUME FiberAssumption ==
    /\ Fibers \cap Gens = {}
    /\ Main \notin Fibers \cup Gens /\ None \notin Fibers \cup Gens \cup {Main}
    /\ Fuel \in Nat

Bodies == Fibers \cup Gens
Threads == Bodies \cup {Main}

VARIABLES status,  \* body |-> the status its methods check
          thr      \* goroutine |-> where it is

vars == <<status, thr>>

(* php: running PHP code.  sending: on resumeCh of the body on; waiting:   *)
(* for what the body on sends.  suspending, finishing: sending a suspended *)
(* value, or the end, to the caller; parked: receiving on resumeCh.        *)
Places == {"unborn", "php", "sending", "waiting", "suspending", "finishing", "parked", "ended"}

Goroutine == [at : Places, on : Bodies \cup {None}, fuel : 0..Fuel]

TypeOK ==
    /\ status \in [Bodies -> {"Created", "Running", "Suspended", "Terminated"}]
    /\ thr \in [Threads -> Goroutine]
    /\ \A x \in Threads : thr[x].on # None <=> thr[x].at \in {"sending", "waiting"}
    /\ \A b \in Bodies : thr[b].at = "unborn" <=> b \in Fibers /\ status[b] = "Created"
    /\ thr[Main].at \in {"php", "sending", "waiting"}

-----------------------------------------------------------------------------
InPHP(x) == thr[x].at = "php"
MayCall(x) == InPHP(x) /\ (x = Main \/ thr[x].fuel > 0)
Burnt(x) == IF x = Main THEN thr[x] ELSE [thr[x] EXCEPT !.fuel = @ - 1]
WaitsFor(x, b) == thr[x].at = "waiting" /\ thr[x].on = b

(* x goes on a channel of b.                                               *)
Engaged(x, at, b) == [Burnt(x) EXCEPT !.at = at, !.on = b]
Released(x) == [thr[x] EXCEPT !.at = "php", !.on = None]

(* A method that throws: nothing has changed.                              *)
Fails(x) == thr' = [thr EXCEPT ![x] = Burnt(x)] /\ UNCHANGED status

(* The FiberState that Fiber::suspend() finds under fiberContextKey: the   *)
(* goroutine of a fiber puts itself there, that of a generator starts over *)
(* from the global context.                                                *)
FiberOf(x) == IF x \in Fibers THEN x ELSE None

-----------------------------------------------------------------------------
(* Mutants of StartFiber: the status is not set; the caller does not wait. *)
StartFiberUnmarked(x, f) ==
    /\ MayCall(x) /\ status[f] = "Created"
    /\ thr' = [thr EXCEPT ![x] = Engaged(x, "waiting", f), ![f].at = "php"]
    /\ UNCHANGED status

StartFiberUnawaited(x, f) ==
    /\ MayCall(x) /\ status[f] = "Created"
    /\ status' = [status EXCEPT ![f] = "Running"]
    /\ thr' = [thr EXCEPT ![x] = Burnt(x), ![f].at = "php"]

(* fiberStart.                                                             *)
StartFiber(x, f) ==
    /\ MayCall(x) /\ status[f] = "Created"
    /\ status' = [status EXCEPT ![f] = "Running"]
    /\ thr' = [thr EXCEPT ![x] = Engaged(x, "waiting", f), ![f].at = "php"]

StartRefused(x, f) == MayCall(x) /\ status[f] # "Created" /\ Fails(x)

(* Mutant of ResumeFiber: any fiber that has been started can be resumed.  *)
ResumeFiberStarted(x, f) ==
    /\ MayCall(x) /\ status[f] \in {"Suspended", "Running"}
    /\ status' = [status EXCEPT ![f] = "Running"]
    /\ thr' = [thr EXCEPT ![x] = Engaged(x, "sending", f)]

(* fiberResume and fiberThrow.                                             *)
ResumeFiber(x, f) ==
    /\ MayCall(x) /\ status[f] = "Suspended"
    /\ status' = [status EXCEPT ![f] = "Running"]
    /\ thr' = [thr EXCEPT ![x] = Engaged(x, "sending", f)]

ResumeRefused(x, f) == MayCall(x) /\ status[f] # "Suspended" /\ Fails(x)

(* The resume message is received: at the receive of fiberSuspend, or by   *)
(* the goroutine of a generator.                                           *)
Resumed(x) ==
    /\ thr[x].at = "sending"
    /\ LET b == thr[x].on
       IN  /\ thr[b].at = "parked"
           /\ status' = [status EXCEPT ![b] = "Running"]
           /\ thr' = [thr EXCEPT ![x].at = "waiting", ![b].at = "php"]

(* Mutant of Suspend: the status stays Running.                            *)
SuspendStillRunning(x) ==
    /\ MayCall(x) /\ FiberOf(x) # None
    /\ status[FiberOf(x)] = "Running"
    /\ thr' = [thr EXCEPT ![x] = [Burnt(x) EXCEPT !.at = "suspending"]]
    /\ UNCHANGED status

(* fiberSuspend.                                                           *)
Suspend(x) ==
    /\ MayCall(x) /\ FiberOf(x) # None
    /\ status[FiberOf(x)] = "Running"
    /\ status' = [status EXCEPT ![FiberOf(x)] = "Suspended"]
    /\ thr' = [thr EXCEPT ![x] = [Burnt(x) EXCEPT !.at = "suspending"]]

SuspendRefused(x) ==
    /\ MayCall(x)
    /\ FiberOf(x) # None => status[FiberOf(x)] # "Running"
    /\ Fails(x)

(* The end of start(), resume() and throw(): the fiber has suspended, or   *)
(* its callback has returned or thrown.  The same for a generator.         *)
ReceiveSuspended(x) ==
    /\ thr[x].at = "waiting" /\ thr[thr[x].on].at = "suspending"
    /\ thr' = [thr EXCEPT ![x] = Released(x), ![thr[x].on].at = "parked"]
    /\ UNCHANGED status

ReceiveEnd(x) ==
    /\ thr[x].at = "waiting" /\ thr[thr[x].on].at = "finishing"
    /\ thr' = [thr EXCEPT ![x] = Released(x), ![thr[x].on].at = "ended"]
    /\ UNCHANGED status

(* Mutant of End: no message is sent.                                      *)
EndSilently(x) ==
    /\ x \in Bodies /\ InPHP(x)
    /\ status' = [status EXCEPT ![x] = "Terminated"]
    /\ thr' = [thr EXCEPT ![x].at = "ended"]

(* The callback of a fiber, or the body of a generator, returns or throws. *)
End(x) ==
    /\ x \in Bodies /\ InPHP(x)
    /\ status' = [status EXCEPT ![x] = "Terminated"]
    /\ thr' = [thr EXCEPT ![x].at = "finishing"]

(* A call on a generator that resumes it once: the first current(), later  *)
(* next() or send().                                                       *)
ResumeGenerator(x, g) ==
    /\ MayCall(x) /\ status[g] \in {"Created", "Suspended"}
    /\ status' = [status EXCEPT ![g] = "Running"]
    /\ thr' = [thr EXCEPT ![x] = Engaged(x, "sending", g)]

ResumeGeneratorRefused(x, g) ==
    MayCall(x) /\ status[g] \in {"Running", "Terminated"} /\ Fails(x)

Yield(x) ==
    /\ MayCall(x) /\ x \in Gens
    /\ status' = [status EXCEPT ![x] = "Suspended"]
    /\ thr' = [thr EXCEPT ![x] = [Burnt(x) EXCEPT !.at = "suspending"]]

-----------------------------------------------------------------------------
(* Constructed fibers have no goroutine, those of generators are waiting.  *)
Init ==
    /\ status = [b \in Bodies |-> "Created"]
    /\ thr = [x \in Threads |->
                [at |-> IF x = Main THEN "php" ELSE IF x \in Gens THEN "parked" ELSE "unborn",
                 on |-> None, fuel |-> IF x = Main THEN 0 ELSE Fuel]]

Native(x) == Resumed(x) \/ ReceiveSuspended(x) \/ ReceiveEnd(x)

PHP(x) ==
    \/ \E f \in Fibers : StartFiber(x, f) \/ StartRefused(x, f)
                         \/ ResumeFiber(x, f) \/ ResumeRefused(x, f)
    \/ \E g \in Gens : ResumeGenerator(x, g) \/ ResumeGeneratorRefused(x, g)
    \/ Suspend(x) \/ SuspendRefused(x) \/ Yield(x) \/ End(x)

Next == \E x \in Threads : Native(x) \/ PHP(x)

Spec == Init /\ [][Next]_vars

(* The Go scheduler runs every goroutine that can move; bodies are finite. *)
Fairness == /\ \A x \in Threads : WF_vars(Native(x))
            /\ \A b \in Bodies : WF_vars(PHP(b))

FairSpec == Spec /\ Fairness

-----------------------------------------------------------------------------
(* "at any point, exactly one side is running" (FiberState): one goroutine *)
(* runs PHP code, or control is on its way over one channel.               *)
Moving(x) == thr[x].at \in {"php", "sending", "suspending", "finishing"}
SoloRunner == \E x \in Threads : \A y \in Threads : Moving(y) <=> y = x

(* status, which every method checks, is true of the goroutine.            *)
StatusIsTrue ==
    \A b \in Bodies :
      /\ status[b] = "Created" => thr[b].at \in {"unborn", "parked"}
      /\ status[b] = "Suspended" => thr[b].at \in {"suspending", "parked"}
      /\ status[b] = "Terminated" => thr[b].at \in {"finishing", "ended"}
      /\ status[b] = "Running" => /\ thr[b].at \in {"php", "sending", "waiting", "parked"}
                                  /\ \E x \in Threads \ {b} : thr[x].on = b

(* The channels are unbuffered, so each send needs its receiver: who       *)
(* resumes a body finds it parked, and a body that suspends or ends finds  *)
(* one caller waiting, the one that resumed it last.                       *)
SendsAreReceived ==
    \A b \in Bodies :
      /\ \A x, y \in Threads : thr[x].on = b /\ thr[y].on = b => x = y
      /\ thr[b].at \in {"suspending", "finishing"} => \E x \in Threads : WaitsFor(x, b)
      /\ \A x \in Threads : thr[x].at = "sending" /\ thr[x].on = b => thr[b].at = "parked"

(* start(), resume(), throw() and the calls on generators return: nested   *)
(* fibers never wait for each other in a circle.                           *)
CallsReturn == \A x \in Threads : thr[x].on # None ~> thr[x].on = None

(* The goroutines on whose behalf x runs: those that wait for it, for one  *)
(* that waits for it, ...                                                  *)
Callers(x) ==
    LET C[i \in 0..Cardinality(Threads)] ==
          IF i = 0 THEN {x}
          ELSE C[i - 1] \cup {y \in Threads : \E z \in C[i - 1] : WaitsFor(y, z)}
    IN  C[Cardinality(Threads)]

(* Fiber::suspend() and Fiber::getCurrent() find a fiber wherever PHP code *)
(* runs in one, inside a generator too (gh9916-001.phpt suspends the fiber *)
(* from the body of a generator).                                          *)
FiberIsFound ==
    \A x \in Threads : InPHP(x) /\ Callers(x) \cap Fibers # {} => FiberOf(x) # None

=============================================================================
