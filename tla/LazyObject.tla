----------------------------- MODULE LazyObject -----------------------------
(***************************************************************************)
(* Lazy objects: core/phpobj/lazy.go, the property accesses of zobject.go  *)
(* that initialize them, and the methods of ReflectionClass and            *)
(* ReflectionProperty that make, reset and mark them                       *)
(* (ext/reflection/lazy.go).                                               *)
(*                                                                         *)
(* A ghost is filled in by its initializer; a proxy asks its factory for   *)
(* another object, its instance, and passes every access on to it.  Both   *)
(* are PHP functions, called in the middle of the access that needs them,  *)
(* and so is the destructor that a reset calls: whatever PHP code may do   *)
(* to any object, it may do there.  Every call of lazy.go that waits for   *)
(* PHP code is a frame of `calls'.  All objects are of one class, whose    *)
(* properties Props are declared without a type.                           *)
(***************************************************************************)
EXTENDS Integers, Sequences, FiniteSets

CONSTANTS
    Objs,           \* the objects a behaviour may create
    Props,          \* the properties of their class
    NoObj,          \* no instance
    MaxInits,       \* how many times objects may be made lazy
    MayResetOwn     \* a script resets an object that is being initialized

ASSUME LazyAssumption ==
    /\ IsFiniteSet(Objs) /\ NoObj \notin Objs
    /\ MaxInits \in Nat
    /\ MayResetOwn \in BOOLEAN

VARIABLES
    obj,    \* the objects
    calls,  \* the calls of lazy.go in progress, the innermost last
    inits,  \* how many initializers objects have been given: number n is n
    done    \* history: the initializers that have returned with success

vars == <<obj, calls, inits, done>>

\* LazyState; "none" is a plain object.
States == {"none", "ghost", "proxy", "ghostDone", "proxyDone"}
Kinds == {"ghost", "proxy"}
DoneOf(state) == IF state = "proxy" THEN "proxyDone" ELSE "ghostDone"

\* A ZObject: `init' is its LazyInitializer or 0, `initializing' and `skipped'
\* are LazyInitializing and LazySkippedProps, and h the properties its hash
\* table holds.
Object == [made : BOOLEAN, state : States, init : 0 .. MaxInits,
           inst : Objs \cup {NoObj}, skipped : SUBSET Props,
           initializing : BOOLEAN, destructed : BOOLEAN, h : SUBSET Props]

\* How far an access has come: it starts at o, o has been initialized, o is on
\* the chain of instances, or behind its end, which was lazy and has been
\* initialized.
Steps == {"start", "inited", "chain", "resolved"}

\* An access of property p, an initializer called with the state and the table
\* saved before, or a destructor called by a reset to `state' with initializer `init',
\* which may have thrown.
Access == [op : {"access"}, o : Objs, p : Props, write : BOOLEAN, at : Steps]
Initialization == [op : {"init"}, o : Objs, init : 1 .. MaxInits,
                   state : Kinds, h : SUBSET Props]
Destruction == [op : {"destroy"}, o : Objs, init : 1 .. MaxInits, state : Kinds,
                failed : BOOLEAN]
Frame == Access \cup Initialization \cup Destruction

Cur == calls[Len(calls)]
Below == SubSeq(calls, 1, Len(calls) - 1)
Lazy(o) == obj[o].state \in Kinds

\* An initializer of o is running.
BeingInitialized(o) ==
    \E i \in 1 .. Len(calls) : calls[i].op = "init" /\ calls[i].o = o

\* PHP code runs: the script, an initializer, or a destructor.
Php == calls # <<>> => Cur.op = "init" \/ (Cur.op = "destroy" /\ ~Cur.failed)

Init ==
    /\ obj = [o \in Objs |-> [made |-> FALSE, state |-> "none", init |-> 0,
                              inst |-> NoObj, skipped |-> {}, initializing |-> FALSE,
                              destructed |-> FALSE, h |-> {}]]
    /\ calls = <<>> /\ inits = 0 /\ done = {}
-----------------------------------------------------------------------------
(* Making an object lazy *)

\* MakeLazyGhost and MakeLazyProxy, with the destructed flag cleared: whatever
\* the object was, it starts again with no property and a new initializer.
MadeLazy(o, kind, n) ==
    [obj[o] EXCEPT !.made = TRUE, !.state = kind, !.init = n, !.inst = NoObj,
                   !.skipped = {}, !.initializing = FALSE, !.destructed = FALSE,
                   !.h = {}]

NewPlain(o) ==
    /\ Php /\ ~obj[o].made
    /\ obj' = [obj EXCEPT ![o].made = TRUE, ![o].h = Props]
    /\ UNCHANGED <<calls, inits, done>>

NewLazy(o, kind) ==
    /\ Php /\ ~obj[o].made /\ inits < MaxInits
    /\ obj' = [obj EXCEPT ![o] = MadeLazy(o, kind, inits + 1)]
    /\ inits' = inits + 1
    /\ UNCHANGED <<calls, done>>

\* resetAsLazyGhost and resetAsLazyProxy refuse an object that is lazy, but not
\* one whose initializer is running: then its state is already the initialized
\* one.  They call the destructor of the object, unless SKIP_DESTRUCTOR says
\* not to, or it has been called before.
Resettable(o) == obj[o].made /\ ~Lazy(o) /\ (MayResetOwn \/ ~BeingInitialized(o))

Reset(o, kind) ==
    /\ Php /\ Resettable(o) /\ inits < MaxInits
    /\ \/ /\ obj' = [obj EXCEPT ![o] = MadeLazy(o, kind, inits + 1)]
          /\ UNCHANGED calls
       \/ /\ ~obj[o].destructed
          /\ obj' = [obj EXCEPT ![o].destructed = TRUE]
          /\ calls' = Append(calls, [op |-> "destroy", o |-> o, init |-> inits + 1,
                                     state |-> kind, failed |-> FALSE])
    /\ inits' = inits + 1
    /\ UNCHANGED done

\* The destructor throws, and nobody looks at its exception.
DestructorFails ==
    /\ calls # <<>> /\ Cur.op = "destroy" /\ ~Cur.failed
    /\ calls' = [calls EXCEPT ![Len(calls)].failed = TRUE]
    /\ UNCHANGED <<obj, inits, done>>

\* The destructor is over, with an exception or without: the object is made lazy
\* whatever the destructor has made of it.
DestructorEnds ==
    /\ calls # <<>> /\ Cur.op = "destroy"
    /\ obj' = [obj EXCEPT ![Cur.o] = MadeLazy(Cur.o, Cur.state, Cur.init)]
    /\ calls' = Below
    /\ UNCHANGED <<inits, done>>
-----------------------------------------------------------------------------
(* Realizing an object without its initializer *)

\* checkAutoRealize: an object all of whose properties are skipped is realized.
Realized(r) ==
    IF r.state \in Kinds /\ r.skipped = Props
    THEN [r EXCEPT !.state = DoneOf(@), !.init = 0]
    ELSE r

\* SkipLazyProperty, which gives p its default, and SetRawValueWithoutLazyInit,
\* which also sets p of an object that is not lazy.
Skip(o, p) ==
    /\ Php /\ obj[o].made
    /\ LET r == [obj[o] EXCEPT !.h = @ \cup {p}]
       IN  obj' = [obj EXCEPT ![o] =
                     IF Lazy(o) THEN Realized([r EXCEPT !.skipped = @ \cup {p}]) ELSE r]
    /\ UNCHANGED <<calls, inits, done>>

\* markLazyObjectAsInitialized
Mark(o) ==
    /\ Php /\ obj[o].made /\ Lazy(o)
    /\ obj' = [obj EXCEPT ![o].state = DoneOf(@), ![o].init = 0, ![o].h = Props]
    /\ UNCHANGED <<calls, inits, done>>
-----------------------------------------------------------------------------
(* Initialization *)

\* Mutant: TriggerLazyInit does not look at LazyState.
TriggersAnything(o) == ~obj[o].initializing

\* Mutant: TriggerLazyInit does not look at LazyInitializing.
TriggersAgain(o) == Lazy(o)

\* TriggerLazyInit and TriggerLazyInitForProp, which knows the skipped ones.
Triggers(o) == Lazy(o) /\ ~obj[o].initializing

\* Mutant: doGhostInit leaves the defaults to the initializer.
BegunBare(r) ==
    IF r.state = "ghost"
    THEN [r EXCEPT !.initializing = TRUE, !.state = "ghostDone"]
    ELSE [r EXCEPT !.initializing = TRUE]

\* doLazyInit: a ghost gets its defaults and its final state before the
\* initializer is called, a proxy stays as it is.
Begun(r) ==
    IF r.state = "ghost"
    THEN [r EXCEPT !.initializing = TRUE, !.state = "ghostDone", !.h = Props]
    ELSE [r EXCEPT !.initializing = TRUE]

Begin(o, C) ==
    /\ obj' = [obj EXCEPT ![o] = Begun(@)]
    /\ calls' = Append(C, [op |-> "init", o |-> o, init |-> obj[o].init,
                           state |-> obj[o].state, h |-> obj[o].h])
    /\ UNCHANGED <<inits, done>>

\* initializeLazyObject, and clone, foreach and the conversions of an object.
Initialize(o) == Php /\ obj[o].made /\ Triggers(o) /\ Begin(o, calls)

\* Mutant: the initializer of a ghost is dropped although it has failed.
PutBackOwed(r, f) ==
    IF f.state = "ghost"
    THEN [r EXCEPT !.initializing = FALSE, !.state = f.state, !.h = f.h, !.init = 0]
    ELSE [r EXCEPT !.initializing = FALSE]

\* Mutant: the table of a ghost is not put back.
PutBackKept(r, f) ==
    IF f.state = "ghost"
    THEN [r EXCEPT !.initializing = FALSE, !.state = f.state]
    ELSE [r EXCEPT !.initializing = FALSE]

\* The initializer fails, or returns what it must not: a ghost is put back, and
\* the error reaches the PHP code that made the access.
PutBack(r, f) ==
    IF f.state = "ghost"
    THEN [r EXCEPT !.initializing = FALSE, !.state = f.state, !.h = f.h]
    ELSE [r EXCEPT !.initializing = FALSE]

InitFails ==
    /\ calls # <<>> /\ Cur.op = "init"
    /\ obj' = [obj EXCEPT ![Cur.o] = PutBack(@, Cur)]
    /\ calls' = LET n == Len(Below)
                IN  IF n > 0 /\ Below[n].op = "access" THEN SubSeq(Below, 1, n - 1)
                                                       ELSE Below
    /\ UNCHANGED <<inits, done>>

GhostReturns ==
    /\ calls # <<>> /\ Cur.op = "init" /\ Cur.state = "ghost"
    /\ obj' = [obj EXCEPT ![Cur.o].initializing = FALSE, ![Cur.o].init = 0]
    /\ calls' = Below
    /\ done' = done \cup {Cur.init}
    /\ UNCHANGED inits

\* doProxyInit takes any object but the proxy and objects that are lazy now.
Returnable(o, r) == obj[r].made /\ r # o /\ ~Lazy(r)

ProxyReturns(r) ==
    /\ calls # <<>> /\ Cur.op = "init" /\ Cur.state = "proxy"
    /\ Returnable(Cur.o, r)
    /\ obj' = [obj EXCEPT ![Cur.o].initializing = FALSE, ![Cur.o].init = 0,
                          ![Cur.o].inst = r, ![Cur.o].state = "proxyDone"]
    /\ calls' = Below
    /\ done' = done \cup {Cur.init}
    /\ UNCHANGED inits
-----------------------------------------------------------------------------
(* Accesses: ObjectGet, HasProp and ObjectSet *)

Touch(o, p, write) ==
    /\ Php /\ obj[o].made
    /\ calls' = Append(calls, [op |-> "access", o |-> o, p |-> p, write |-> write,
                               at |-> "start"])
    /\ UNCHANGED <<obj, inits, done>>

InAccess == calls # <<>> /\ Cur.op = "access"
Resume(o, at) == [calls EXCEPT ![Len(calls)].o = o, ![Len(calls)].at = at]
GoOn(o, at) == calls' = Resume(o, at) /\ UNCHANGED <<obj, inits, done>>

Delegates(o) == obj[o].state = "proxyDone" /\ obj[o].inst # NoObj
Needs == Cur.at = "start" /\ Triggers(Cur.o) /\ Cur.p \notin obj[Cur.o].skipped
Follows ==
    /\ Delegates(Cur.o)
    /\ Cur.at = "start" => Cur.p \notin obj[Cur.o].skipped

\* The access waits for the initializer of the object.
AccessInits == InAccess /\ Needs /\ Begin(Cur.o, Resume(Cur.o, "inited"))

\* It goes on to the instance of a proxy, and ResolveProxy from there for as
\* long as there is an instance.
AccessFollows ==
    /\ InAccess /\ Follows
    /\ GoOn(obj[Cur.o].inst, IF Cur.at = "resolved" THEN "resolved" ELSE "chain")

\* The object that ResolveProxy has found is initialized first if it is lazy.
AccessResolves ==
    /\ InAccess /\ Cur.at = "chain" /\ ~Follows
    /\ \/ Triggers(Cur.o) /\ Begin(Cur.o, Resume(Cur.o, "resolved"))
       \/ ~Triggers(Cur.o) /\ GoOn(Cur.o, "start")

\* The access starts again at the object that ResolveProxy has found then.
AccessRestarts ==
    /\ InAccess /\ Cur.at = "resolved" /\ ~Follows
    /\ GoOn(Cur.o, "start")

\* It ends at the table of an object.
AccessEnds ==
    /\ InAccess /\ Cur.at \in {"start", "inited"} /\ ~Needs /\ ~Follows
    /\ obj' = IF Cur.write THEN [obj EXCEPT ![Cur.o].h = @ \cup {Cur.p}] ELSE obj
    /\ calls' = Below
    /\ UNCHANGED <<inits, done>>

Next ==
    \/ \E o \in Objs :
         \/ NewPlain(o) \/ Mark(o) \/ Initialize(o) \/ ProxyReturns(o)
         \/ \E kind \in Kinds : NewLazy(o, kind) \/ Reset(o, kind)
         \/ \E p \in Props :
              \/ Skip(o, p)
              \/ \E write \in BOOLEAN : Touch(o, p, write)
    \/ DestructorFails \/ DestructorEnds \/ InitFails \/ GhostReturns
    \/ AccessInits \/ AccessFollows \/ AccessResolves \/ AccessRestarts \/ AccessEnds

Spec == Init /\ [][Next]_vars
-----------------------------------------------------------------------------
(* Properties *)

TypeOK ==
    /\ obj \in [Objs -> Object]
    /\ calls \in Seq(Frame)
    /\ inits \in 0 .. MaxInits
    /\ done \subseteq 1 .. MaxInits

\* A lazy object is owed an initializer that has not done its work yet, and no
\* other object is: it is dropped when it succeeds or is not needed any more,
\* and kept when it fails.
InitializerIsOwed ==
    \A o \in Objs :
      /\ Lazy(o) => obj[o].init \in (1 .. inits) \ done
      /\ ~Lazy(o) /\ ~BeingInitialized(o) => obj[o].init = 0

\* No object is initialized again while its initializer runs, however the
\* accesses of the initializer nest (LazyInitializing, and the state that a
\* ghost is given first), and no initializer does its work twice.
OneInitializerAtATime ==
    \A i, j \in 1 .. Len(calls) :
      /\ calls[i].op = "init" /\ calls[j].op = "init" /\ i # j
            => calls[i].o # calls[j].o /\ calls[i].init # calls[j].init
      /\ calls[i].op = "init" => calls[i].init \notin done

\* A ghost that is lazy, also one that is lazy again after its initializer has
\* failed, holds no property but the skipped ones: nothing of what the
\* initializer has written, nor of the object before a reset, is left.
LazyGhostShowsOnlySkipped ==
    \A o \in Objs : obj[o].state = "ghost" => obj[o].h \subseteq obj[o].skipped

\* However a ghost has been realized - by its initializer, by a mark, or because
\* all its properties were skipped one after the other - it has all of them.
RealizedGhostIsComplete ==
    \A o \in Objs : obj[o].state = "ghostDone" => obj[o].h = Props

(* A property that the program is said to have, and has not *)

\* The chain of instances that an access follows comes to an end, as ResolveProxy
\* has it, which returns the innermost real object.
ProxyChainEnds ==
    LET Hop(o) == IF Delegates(o) THEN obj[o].inst ELSE o
        End(o) == LET hops[n \in 0 .. Cardinality(Objs)] ==
                        IF n = 0 THEN o ELSE Hop(hops[n - 1])
                  IN  hops[Cardinality(Objs)]
    IN  \A o \in Objs : ~Delegates(End(o))
=============================================================================
