------------------------------ MODULE Generator ------------------------------
(***************************************************************************)
(* PHP generators as goro runs them (core/phpobj/generator.go): the body   *)
(* of each generator is a goroutine, and caller and body hand control to   *)
(* each other over channels.  resumeCh and yieldCh are unbuffered, so a    *)
(* send and its receive are one step; doneCh and the delegateDone channel  *)
(* of each "yield from" hold one message.                                  *)
(*                                                                         *)
(* The Go functions that wait on a channel call each other (next() of an   *)
(* outer generator advances the inner one, whose body may call next() of a *)
(* third), so each goroutine keeps a stack of calls in progress.           *)
(*                                                                         *)
(*   Gens       generators                                                 *)
(*   Main       the goroutine of the script                                *)
(*   None       no generator                                               *)
(*   Sees       x |-> the generators the PHP code of x holds a variable of *)
(*   Delegates  g |-> the generators the body of g may "yield from"        *)
(*   Fuel       g |-> bound on the calls, yields and yield froms of its body *)
(*                                                                         *)
(* Values and keys are left out: no step depends on them.                  *)
(***************************************************************************)
EXTENDS Naturals, Sequences, FiniteSets

CONSTANTS Gens, Main, None, Sees, Delegates, Fuel

Threads == Gens \cup {Main}

ASSUME ProgramAssumption ==
    /\ Main \notin Gens /\ None \notin Gens
    /\ Sees \in [Threads -> SUBSET Gens]
    /\ Delegates \in [Gens -> SUBSET Gens]
    /\ Fuel \in [Gens -> Nat]

VARIABLES gen,  \* generator |-> its GeneratorState
          thr   \* goroutine |-> where it is

vars == <<gen, thr>>

(* What a channel or a call carries: a value, a PHP exception, or the      *)
(* GeneratorForceClose error.  "none" is an empty channel, or no error.    *)
Msgs == {"none", "ok", "throw", "close"}

(* Delegations are numbered; a body makes at most Fuel of them.            *)
MostFuel == CHOOSE n \in {Fuel[g] : g \in Gens} : \A g \in Gens : Fuel[g] <= n
Channels == 1..MostFuel

(* Gens is finite and not empty: there is a largest bound.                 *)
ASSUME FuelAssumption == MostFuel \in Nat /\ \A g \in Gens : Fuel[g] <= MostFuel

(* aborted is not kept: the body sets it whenever it sets genErr.  done is *)
(* the delegateDone channel of each yield from, epoch the last one made.   *)
GeneratorState ==
    [status : {"Created", "Suspended", "Running", "Closed"},
     started : BOOLEAN, advanced : BOOLEAN, valid : BOOLEAN, forceClosing : BOOLEAN,
     genErr : Msgs, fin : Msgs, delegate : Gens \cup {None},
     epoch : 0..MostFuel, done : [Channels -> Msgs]]

(* A Go call in progress on generator g.  start, advance, throw and close  *)
(* are about to run; resume and resumeclose send on resumeCh; wait and     *)
(* closing select on doneCh and yieldCh; deleg and closedeleg have a call  *)
(* on the delegate above them; signalled has sent on delegateDone;         *)
(* yieldfrom prepares a delegation.                                        *)
Entries == {"start", "advance", "throw", "close"}
InProgress == {"resume", "resumeclose", "wait", "closing", "deleg", "closedeleg", "signalled"}
Frame == [op : Entries \cup InProgress \cup {"yieldfrom"}, g : Gens,
          inner : Gens \cup {None}, ch : 0..MostFuel, msg : Msgs]
Call(op, g) == [op |-> op, g |-> g, inner |-> None, ch |-> 0, msg |-> "ok"]

(* born: before the first receive; body: in PHP code or in its calls;      *)
(* yielding: sending on yieldCh; parked: receiving on resumeCh;            *)
(* delegating: receiving on delegateDone.  err is the error that unwinds   *)
(* the PHP code, res the result of a call on a delegate.                   *)
Places == {"born", "body", "yielding", "parked", "delegating", "ended"}

Thread == [at : Places, calls : Seq(Frame), err : Msgs, res : Msgs, fuel : 0..MostFuel]

TypeOK ==
    /\ gen \in [Gens -> GeneratorState]
    /\ thr \in [Threads -> Thread]
    /\ \A g \in Gens : gen[g].delegate # None =>
         gen[g].epoch > 0 /\ thr[g].at \in {"yielding", "delegating"}

-----------------------------------------------------------------------------
(* The stack of a goroutine.                                               *)

Top(x) == Head(thr[x].calls)
InCall(x, ops) == thr[x].calls # <<>> /\ Top(x).op \in ops
InPHP(x) == thr[x].at = "body" /\ thr[x].calls = <<>>

Becoming(th, f) == [th EXCEPT !.calls = <<f>> \o Tail(@)]
Calling(th, f) == [th EXCEPT !.calls = <<f>> \o @]

(* An error reaches the PHP code; the script catches every one.            *)
Raised(x, th, e) == IF x = Main \/ e = "ok" THEN th ELSE [th EXCEPT !.err = e]

(* The top call returns r.  An error makes the method that was to go on    *)
(* after it return as well; only a delegation handles it.                  *)
Returned(x, r) ==
    LET th == thr[x]
        rest == Tail(th.calls)
        left == IF r # "ok" /\ rest # <<>> /\ Head(rest).op \notin {"deleg", "closedeleg"}
                THEN Tail(rest) ELSE rest
    IN  IF left = <<>> THEN Raised(x, [th EXCEPT !.calls = left], r)
        ELSE [th EXCEPT !.calls = left, !.res = IF Head(left).op = "deleg" THEN r ELSE "ok"]

Return(x, r) == thr' = [thr EXCEPT ![x] = Returned(x, r)]
Become(x, f) == thr' = [thr EXCEPT ![x] = Becoming(@, f)]

(* Both ends of an unbuffered channel move: x returns, or becomes f.       *)
With(x, th, g, tg) == thr' = [thr EXCEPT ![x] = th, ![g] = tg]

-----------------------------------------------------------------------------
(* The functions of generator.go, run by goroutine x.                      *)

(* generatorEnsureStarted.                                                 *)
Start(x) ==
    /\ InCall(x, {"start"})
    /\ LET g == Top(x).g
       IN  IF gen[g].started \/ gen[g].status = "Closed"
           THEN Return(x, "ok") /\ UNCHANGED gen
           ELSE /\ gen' = [gen EXCEPT ![g].started = TRUE, ![g].status = "Running"]
                /\ Become(x, Call("resume", g))

(* generatorAdvance and generatorThrowInner.                               *)
AdvanceRefused(x) ==
    /\ InCall(x, {"advance", "throw"})
    /\ LET f == Top(x)
       IN  /\ gen[f.g].status # "Suspended"
           /\ IF f.op = "advance"
              THEN gen' = [gen EXCEPT ![f.g].valid = FALSE] /\ Return(x, "ok")
              ELSE UNCHANGED gen /\ Return(x, "throw")

(* Mutant of Advance: only a closed generator refuses to be advanced.      *)
AdvanceUnlessClosed(x) ==
    /\ InCall(x, {"advance", "throw"})
    /\ LET f == Top(x)
       IN  /\ gen[f.g].status # "Closed" /\ gen[f.g].delegate = None
           /\ gen' = [gen EXCEPT ![f.g].advanced = TRUE, ![f.g].status = "Running"]
           /\ Become(x, [f EXCEPT !.op = "resume"])

(* A suspended one advances its delegate, or is resumed.                   *)
Advance(x) ==
    /\ InCall(x, {"advance", "throw"})
    /\ LET f == Top(x)
           r == gen[f.g]
       IN  /\ r.status = "Suspended"
           /\ \/ /\ r.delegate # None
                 /\ gen' = [gen EXCEPT ![f.g].advanced = TRUE]
                 /\ thr' = [thr EXCEPT ![x] =
                      Calling(Becoming(@, [f EXCEPT !.op = "deleg", !.inner = r.delegate,
                                                    !.ch = r.epoch]),
                              Call(f.op, r.delegate))]
              \/ /\ r.delegate = None
                 /\ gen' = [gen EXCEPT ![f.g].advanced = TRUE, ![f.g].status = "Running"]
                 /\ Become(x, [f EXCEPT !.op = "resume",
                                        !.msg = IF f.op = "throw" THEN "throw" ELSE "ok"])

(* The receive of resumeCh: at the start of the goroutine, where an error  *)
(* ends it, or in generatorYieldValueImpl.                                 *)
Resume(x) ==
    /\ InCall(x, {"resume", "resumeclose"})
    /\ LET f == Top(x)
           me == Becoming(thr[x], Call(IF f.op = "resume" THEN "wait" ELSE "closing", f.g))
           died == thr[f.g].at = "born" /\ f.msg # "ok"
       IN  /\ thr[f.g].at \in {"born", "parked"}
           /\ With(x, me, f.g, Raised(f.g, [thr[f.g] EXCEPT
                                              !.at = IF died THEN "ended" ELSE "body"], f.msg))
           /\ gen' = IF died THEN [gen EXCEPT ![f.g].status = "Closed", ![f.g].genErr = f.msg,
                                              ![f.g].fin = f.msg]
                     ELSE [gen EXCEPT ![f.g].status = "Running"]

(* The select on doneCh and yieldCh: the body has ended, or yields.        *)
ReceiveDone(x) ==
    /\ InCall(x, {"wait", "closing"})
    /\ LET f == Top(x)
           m == gen[f.g].fin
       IN  /\ m # "none"
           /\ gen' = [gen EXCEPT ![f.g].fin = "none", ![f.g].valid = FALSE,
                                 ![f.g].status = "Closed"]
           /\ Return(x, IF f.op = "closing" /\ m = "close" THEN "ok" ELSE m)

ReceiveYield(x) ==
    /\ InCall(x, {"wait", "closing"})
    /\ LET f == Top(x)
           g == f.g
       IN  /\ thr[g].at = "yielding"
           /\ With(x, Returned(x, "ok"), g,
                   [thr[g] EXCEPT !.at = IF gen[g].delegate = None THEN "parked"
                                         ELSE "delegating"])
           /\ gen' = [gen EXCEPT ![g].valid = f.op = "wait",
                                 ![g].status = IF f.op = "wait" THEN "Suspended" ELSE "Closed"]

(* Mutant of Outcome: the delegation ends whenever the call returns.       *)
OutcomeAlways(x, inner) ==
    IF thr[x].res # "ok" THEN thr[x].res
    ELSE IF gen[inner].genErr # "none" THEN gen[inner].genErr ELSE "ok"

(* generatorAdvanceDelegated once the call on the delegate has returned.   *)
(* Nothing ends the delegation while the delegate has a current value.     *)
Outcome(x, inner) ==
    IF thr[x].res # "ok" THEN thr[x].res
    ELSE IF gen[inner].valid THEN "none"
    ELSE IF gen[inner].genErr # "none" THEN gen[inner].genErr
    ELSE "ok"

(* Mutant of FollowDelegate: next() does not wait for the outer body.      *)
FollowDelegateUnawaited(x) ==
    /\ InCall(x, {"deleg"})
    /\ LET f == Top(x)
           out == Outcome(x, f.inner)
       IN  /\ gen' = IF out = "none" THEN [gen EXCEPT ![f.g].status = "Suspended"]
                     ELSE [gen EXCEPT ![f.g].done[f.ch] = out]
           /\ Return(x, "ok")

FollowDelegate(x) ==
    /\ InCall(x, {"deleg"})
    /\ LET f == Top(x)
           out == Outcome(x, f.inner)
       IN  \/ /\ out = "none"
              /\ gen' = [gen EXCEPT ![f.g].status = "Suspended", ![f.g].valid = TRUE]
              /\ Return(x, "ok")
           \/ /\ out # "none"
              /\ gen[f.g].done[f.ch] = "none"
              /\ gen' = [gen EXCEPT ![f.g].done[f.ch] = out]
              /\ thr' = [thr EXCEPT ![x] = [Becoming(@, Call("signalled", f.g)) EXCEPT !.res = "ok"]]

(* Mutant of WaitAfterDelegateDone: the status stays Suspended.            *)
WaitAfterDelegateDoneSuspended(x) ==
    InCall(x, {"signalled"}) /\ Become(x, Call("wait", Top(x).g)) /\ UNCHANGED gen

(* generatorWaitAfterDelegateDone: the status is set after the send, when  *)
(* the outer goroutine may be running already.                             *)
WaitAfterDelegateDone(x) ==
    /\ InCall(x, {"signalled"})
    /\ gen' = [gen EXCEPT ![Top(x).g].status = "Running"]
    /\ Become(x, Call("wait", Top(x).g))

(* generatorForceClose.  A delegate that no variable holds (refCount 0) is *)
(* closed first.                                                           *)
Unreferenced(g) == \A x \in Threads : g \notin Sees[x]

ForceClose(x) ==
    /\ InCall(x, {"close"})
    /\ LET f == Top(x)
           r == gen[f.g]
           g == f.g
           after == [f EXCEPT !.op = "closedeleg", !.inner = r.delegate, !.ch = r.epoch]
       IN  \/ r.status # "Suspended" /\ Return(x, "ok") /\ UNCHANGED gen
           \/ /\ r.status = "Suspended"
              /\ gen' = [gen EXCEPT ![g].forceClosing = TRUE, ![g].status = "Running"]
              /\ thr' = [thr EXCEPT ![x] =
                   IF r.delegate = None
                   THEN Becoming(@, [f EXCEPT !.op = "resumeclose", !.msg = "close"])
                   ELSE IF Unreferenced(r.delegate)
                   THEN Calling(Becoming(@, after), Call("close", r.delegate))
                   ELSE Becoming(@, after)]

CloseAfterDelegate(x) ==
    /\ InCall(x, {"closedeleg"})
    /\ LET f == Top(x)
       IN  /\ gen[f.g].done[f.ch] = "none"
           /\ gen' = [gen EXCEPT ![f.g].done[f.ch] = "close"]
           /\ Become(x, Call("closing", f.g))

(* generatorYieldFromGenerator, run by the body x once the inner generator *)
(* has been started.                                                       *)
YieldFromGenerator(x) ==
    /\ InCall(x, {"yieldfrom"})
    /\ LET h == Top(x).g
           r == gen[h]
           ch == gen[x].epoch + 1
       IN  \/ /\ h = x \/ r.status = "Running"
              /\ Return(x, "throw") /\ UNCHANGED gen
           \/ /\ h # x /\ r.status # "Running" /\ ~ r.valid
              /\ Return(x, IF r.genErr # "none" THEN "throw" ELSE "ok") /\ UNCHANGED gen
           \/ /\ h # x /\ r.status # "Running" /\ r.valid
              /\ gen' = [gen EXCEPT ![x].delegate = h, ![x].epoch = ch, ![x].valid = TRUE,
                                    ![x].status = "Suspended"]
              /\ thr' = [thr EXCEPT ![x].calls = <<>>, ![x].at = "yielding"]

(* Mutant of DelegationDone: delegate is not cleared.                      *)
DelegationDoneKept(x) ==
    /\ x \in Gens /\ thr[x].at = "delegating"
    /\ gen[x].done[gen[x].epoch] # "none"
    /\ gen' = [gen EXCEPT ![x].done[gen[x].epoch] = "none"]
    /\ thr' = [thr EXCEPT ![x].at = "body"]

(* The receive of delegateDone by the delegating body.                     *)
DelegationDone(x) ==
    /\ x \in Gens /\ thr[x].at = "delegating"
    /\ LET ch == gen[x].epoch
           m == gen[x].done[ch]
       IN  /\ m # "none"
           /\ gen' = [gen EXCEPT ![x].delegate = None, ![x].done[ch] = "none"]
           /\ thr' = [thr EXCEPT ![x] = Raised(x, [@ EXCEPT !.at = "body"], m)]

-----------------------------------------------------------------------------
(* PHP code: of the script, of generator bodies and of their finally       *)
(* blocks (which run with an error pending).                               *)

Burnt(x) == IF x = Main THEN thr[x] ELSE [thr[x] EXCEPT !.fuel = @ - 1]
MayAct(x) == InPHP(x) /\ (x = Main \/ thr[x].fuel > 0)

Calls(x, fs) == thr' = [thr EXCEPT ![x] = [Burnt(x) EXCEPT !.calls = fs]] /\ UNCHANGED gen
Fails(x) == thr' = [thr EXCEPT ![x] = Raised(x, Burnt(x), "throw")] /\ UNCHANGED gen

(* next() and send().                                                      *)
Next_(x, g) ==
    /\ MayAct(x)
    /\ IF gen[g].status = "Running" THEN Fails(x)
       ELSE Calls(x, <<Call("start", g), Call("advance", g)>>)

(* throw().                                                                *)
Throw(x, g) == MayAct(x) /\ Calls(x, <<Call("start", g), Call("throw", g)>>)

(* current(), key(), valid() and getReturn().                              *)
Read(x, g) == MayAct(x) /\ Calls(x, <<Call("start", g)>>)

Rewind(x, g) ==
    /\ MayAct(x)
    /\ IF gen[g].status = "Closed" \/ gen[g].advanced THEN Fails(x)
       ELSE Calls(x, <<Call("start", g)>>)

(* The destructor of a generator, and the end of a foreach over one.       *)
Close(x, g) == MayAct(x) /\ Calls(x, <<Call("close", g)>>)

(* Mutant of Yield: forceClosing is not looked at.                         *)
YieldAlways(x) ==
    /\ MayAct(x) /\ x \in Gens
    /\ gen' = [gen EXCEPT ![x].status = "Suspended", ![x].valid = TRUE]
    /\ thr' = [thr EXCEPT ![x] = [Burnt(x) EXCEPT !.at = "yielding"]]

(* yield, and each element of a yield from an array or an Iterator.        *)
Yield(x) ==
    /\ MayAct(x) /\ x \in Gens
    /\ IF gen[x].forceClosing THEN Fails(x)
       ELSE /\ gen' = [gen EXCEPT ![x].status = "Suspended", ![x].valid = TRUE]
            /\ thr' = [thr EXCEPT ![x] = [Burnt(x) EXCEPT !.at = "yielding"]]

YieldFrom(x, h) ==
    /\ MayAct(x) /\ x \in Gens
    /\ IF gen[x].forceClosing THEN Fails(x)
       ELSE Calls(x, <<Call("start", h), Call("yieldfrom", h)>>)

(* catch of an exception, or a finally block that returns or breaks.       *)
Recover(x) ==
    /\ InPHP(x) /\ thr[x].err # "none"
    /\ thr' = [thr EXCEPT ![x].err = "none"]
    /\ UNCHANGED gen

(* Mutant of End: a body that fails does not report on doneCh.             *)
EndSilently(x) ==
    /\ x \in Gens /\ InPHP(x)
    /\ gen' = [gen EXCEPT ![x].status = "Closed", ![x].valid = FALSE,
                          ![x].genErr = thr[x].err,
                          ![x].fin = IF thr[x].err = "none" THEN "ok" ELSE "none"]
    /\ thr' = [thr EXCEPT ![x].at = "ended", ![x].err = "none"]

(* The body returns, or an exception or the force-close error leaves it.   *)
End(x) ==
    /\ x \in Gens /\ InPHP(x)
    /\ \E e \in {thr[x].err, "throw"} :
         gen' = [gen EXCEPT ![x].status = "Closed", ![x].valid = FALSE, ![x].genErr = e,
                            ![x].fin = IF e = "none" THEN "ok" ELSE e]
    /\ thr' = [thr EXCEPT ![x].at = "ended", ![x].err = "none"]

-----------------------------------------------------------------------------
(* SpawnGeneratorWithOptions has been called for every generator.          *)
Init ==
    /\ gen = [g \in Gens |->
                [status |-> "Created", started |-> FALSE, advanced |-> FALSE, valid |-> FALSE,
                 forceClosing |-> FALSE, genErr |-> "none", fin |-> "none", delegate |-> None,
                 epoch |-> 0, done |-> [c \in Channels |-> "none"]]]
    /\ thr = [x \in Threads |->
                [at |-> IF x = Main THEN "body" ELSE "born", calls |-> <<>>, err |-> "none",
                 res |-> "ok", fuel |-> IF x = Main THEN 0 ELSE Fuel[x]]]

Native(x) ==
    \/ Start(x) \/ AdvanceRefused(x) \/ Advance(x) \/ Resume(x) \/ ReceiveDone(x)
    \/ ReceiveYield(x) \/ FollowDelegate(x) \/ WaitAfterDelegateDone(x) \/ ForceClose(x)
    \/ CloseAfterDelegate(x) \/ YieldFromGenerator(x) \/ DelegationDone(x)

PHP(x) ==
    \/ \E g \in Sees[x] : \/ Next_(x, g) \/ Throw(x, g) \/ Read(x, g)
                          \/ Rewind(x, g) \/ Close(x, g)
    \/ x \in Gens /\ \E h \in Delegates[x] : YieldFrom(x, h)
    \/ Yield(x) \/ Recover(x) \/ End(x)

Next == \E x \in Threads : Native(x) \/ PHP(x)

Spec == Init /\ [][Next]_vars

(* The Go scheduler runs every goroutine that can move; bodies are finite. *)
Fairness == /\ \A x \in Threads : WF_vars(Native(x))
            /\ \A g \in Gens : WF_vars(PHP(g))

FairSpec == Spec /\ Fairness

-----------------------------------------------------------------------------
(* The interpreter has no locks: at most one goroutine runs PHP code, all  *)
(* others wait for a channel (resumeCh, yieldCh, doneCh, delegateDone).    *)
SoloRunner == Cardinality({x \in Threads : InPHP(x)}) <= 1

(* The calls in progress on g, over all goroutines.                        *)
CallsOn(g) ==
    UNION {{<<x, i>> : i \in {j \in DOMAIN thr[x].calls : /\ thr[x].calls[j].g = g
                                                        /\ thr[x].calls[j].op \in InProgress}}
             : x \in Threads}

(* No generator is resumed, closed or advanced through a delegation while  *)
(* another call on it has not returned, where no body can reach the        *)
(* generator that delegates to it (generatorAdvance, generatorThrowInner,  *)
(* generatorForceClose act on Suspended generators only).                  *)
OneCallPerGenerator == \A g \in Gens : Cardinality(CallsOn(g)) <= 1

(* "Cannot resume an already running generator" (generatorNext,            *)
(* generatorSend): inside a call that resumes g no second one is accepted. *)
NoResumeInsideResume ==
    \A g \in Gens :
      Cardinality({c \in CallsOn(g) : thr[c[1]].calls[c[2]].op
                                      \in {"resume", "wait", "deleg", "signalled"}}) <= 1

(* status, which every guard reads, is true of the goroutine: a suspended  *)
(* generator has a goroutine that waits to be resumed, unless the caller   *)
(* is about to correct it (generatorWaitAfterDelegateDone); a running one  *)
(* has a caller that waits for it; a closed one has ended.                 *)
StatusIsTrue ==
    \A g \in Gens :
      /\ gen[g].status = "Suspended" =>
           \/ thr[g].at \in {"yielding", "parked", "delegating"}
           \/ \E x \in Threads : InCall(x, {"signalled"}) /\ Top(x).g = g
      /\ gen[g].status = "Running" => CallsOn(g) # {}
      /\ gen[g].status = "Closed" => thr[g].at = "ended"

(* "yield from" gives the outer body a value only when the inner generator *)
(* has finished (generatorAdvanceDelegated).                               *)
DelegationEndsWithInner ==
    \A g \in Gens :
      thr[g].at = "delegating" /\ gen[g].done[gen[g].epoch] = "ok"
        => gen[gen[g].delegate].status = "Closed"

(* A generator that is being force-closed runs its finally blocks and      *)
(* ends: no value it yields reaches a caller (the "should not happen" case *)
(* of generatorForceClose).                                                *)
ForceClosedNeverYields ==
    \A g \in Gens : gen[g].forceClosing =>
      gen[g].status \in {"Running", "Closed"} /\ thr[g].at # "yielding"

(* Every call on a generator returns: no caller waits for a goroutine that *)
(* has ended or that waits for the caller.                                 *)
CallsReturn == \A x \in Threads : thr[x].calls # <<>> ~> thr[x].calls = <<>>

=============================================================================
