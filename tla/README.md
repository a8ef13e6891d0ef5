# goro in TLA+

goro is a PHP 8 interpreter in Go: it compiles scripts to a tree of runnables (and, for hot code, to
bytecode), and runs one script per request in one `Global`. This directory holds TLA+ models of the
parts of it whose state is shared, aliased or handed between goroutines, the TLC runs that check
them on small instances, and machine-checked proofs of what matters most about them.

All paths below are relative to `src/`.

## 1. The system

### Components, their state and their hard behaviours

| Component | State | Operations | What is hard | What makes it correct |
|---|---|---|---|---|
| **Arrays** `core/phpv/hashtable.go`, `hashtable-iter.go`, `zarray.go` | doubly linked list of cells, two index maps, `inc`, `incInit`, `count`, `cow`, array pointer | Dup, doCopy, SetInt, SetString, Append, Unset, Shift, Unshift, MergeTable, ResetIntKeys, Clear, iterators | sharing between any number of arrays, iterators on deleted cells, PHP_INT_MAX | an array is an ordered map; no write shows in another array; iterators never deliver an unset element |
| **Array functions** `ext/standard/array.go` | none of their own | array_shift, array_push, array_merge, next, ... | they reach below the array interface and skip `cow` | arguments are unchanged unless taken by reference |
| **foreach** `core/compiler/compile-foreach.go` | an iterator, a separated array | loops by value and by reference | the body changes what is walked | see arrays |
| **Generators** `core/phpobj/generator.go` | `GeneratorState`, one goroutine each, four channels | next, send, throw, current, yield, yield from, force close | hand-over between goroutines, delegation, finally during close, status written by both sides | one goroutine runs; every call returns; the status tells the truth |
| **Fibers** `core/phpobj/fiber.go` | `FiberState`, one goroutine each, two channels | start, resume, throw, suspend | nesting, fibers inside generators and back | as generators |
| **try/finally** `core/compiler/compile-try-catch.go` | the pending error | catch, finally | a finally block that throws, returns or yields | finally runs once; the last error wins |
| **Objects** `core/phpobj/zobject.go`, `core/phpctx/global.go` | reference count, id, free ids, temporaries | IncRef, DecRef, DecRefImplicit, CallDestructors | resurrection, double release of an id | ids of live objects differ; destructors run once |
| **Lazy objects** `core/phpobj/lazy.go`, `ext/reflection/lazy.go` | lazy state, initializer, instance, skipped properties, the saved table of a call | new and reset as ghost or proxy, skip, mark, initialize, property accesses | initializers that fail, call themselves, reset or initialize others; chains of proxies | an initializer runs alone and until it succeeds; a ghost is empty or complete |
| **Output buffers** `core/phpctx/buffer.go`, `ext/standard/ob.go` | stack of buffers, callbacks, flags | write, flush, clean, close | handlers that fail or call buffers, chunks, memory limit, the end of the request | bytes in order, once, lost only on purpose; the stack stays live |
| **Memory limit** `core/phpctx/memory.go` | tracked, peak, limit | Alloc, Free | refused allocations, missing frees | usage is the sum of live allocations |
| **Request life cycle** `core/phpctx/global.go` | shutdown functions, destructors, deadline | RunShutdownFunctions, CallDestructors | code registered while it runs, exceptions at the end | each registered function runs once |
| **include and autoload** `core/phpctx/global-inc.go`, `core/autoload.go` | included files, autoloaders in progress | include_once, autoload | marked before compiled, re-entry | once each |
| **VM** `core/vm` | slot caches, frames | bytecode of hot functions | cached slots against the scope's variable table | same result as the tree |
| **Streams** `core/stream` | read buffer, position, filters | read, seek, filter | filters against position | bytes in order |
| **Sessions** `ext/session` | session data, file | start, write, regenerate | two requests on one session | no lost update |
| **SPL** `ext/spl` | containers, iterators | modification during iteration | stale positions | as arrays |
| Compiler, tokenizer, values, ini, locale, random, printf | none that is shared | conversions and evaluation | size | out of scope: sequential and pure |
| date, reflection, pcre, mbstring, json, gmp, hash, gd, xml, zlib, curl, sockets, mysqli, sqlite3, openssl | wrappers | calls into Go packages | I/O | out of scope |
| `sapi/*`, `tools`, `test` | entry points, code generation, tests | | | out of scope; tests are read as documentation |

### How they interact

Every PHP array value is a `ZArray` over a `ZHashTable`; assignment duplicates it lazily (`Dup`), a
write separates it (`doCopy`). foreach holds iterators into the table. Generator and fiber bodies are
goroutines that share all of the above without locks: what keeps two of them from running at once is
that each waits on a channel for the other. Closing a generator (its destructor, the end of a
foreach) runs PHP code in its goroutine; a generator's goroutine starts from the global context, a
fiber's from the context of its starter. There is no parallelism inside a request, and nothing is
shared between requests but compiled code.

## 2. What is modelled

| Module | Models | State and actions |
|---|---|---|
| `HashTable` | ZHashTable, its iterators, the array functions and the by-reference foreach that drive it | `tab` = the fields of each ZHashTable; `heap` = stores: the cells and index maps that Dup shares; `its` = iterators of loops. One action per operation |
| `OrderedMap` | what PHP promises of arrays: sequences of key and value, one per variable | `map`; abstract specification that `HashTable` implements; instantiated there as `Promise` |
| `ArrayMerge` | `array_merge` with MergeTable and Reset, over `HashTable` | `MergeOne` (one argument), `MergeTwo`; `MergeSafely` is MergeTwo of arrays whose second brings no string key that the first lacks |
| `Generator` | generators with delegation, nesting and force close | `gen` = GeneratorState; `thr` = goroutine: where it is, its stack of Go calls in progress, the pending error |
| `Fiber` | fibers next to generators without delegation | `status`; `thr` = goroutine: where it is and on whose channel |
| `OutputBuffer` | the output buffers of a request, memory_limit and the end of the request, over `RunFile` and `Close` | `buf` = the Buffers ever made; `top` = Global.buf; `out` = Global.out; `calls` = stack of buffer calls in progress; `sink` = what the server interface got |
| `LazyObject` | lazy ghosts and proxies, and the accesses that initialize them | `obj` = ZObjects; `calls` = stack of accesses, initializers and destructors in progress; `done` = history |
| `HashTableProofs`, `HashTableMapProofs`, `ArrayMergeProofs`, `FiberProofs`, `GeneratorProofs`, `LazyObjectProofs`, `OutputBufferProofs` | proofs | |
| `Iteration` | lemmas on induction and on functions defined by recursion, for the proofs | |
| `MCHashTable`, `MCArrayMerge`, `MCGenerator`, `MCOutputBuffer`, `MCLazyObject` | constants and restricted next-state relations for TLC | |

### HashTable

A store is what `Dup` shares: the two index maps and the cells entered in them. Pointers to cells are
slot numbers in a store; `doCopy` keeps the slot numbers, so a list can be compared before and after.
A slot is used once in the life of a store: Go never recycles a cell something points to. `Collected`
is the collector: a store nothing points into becomes empty, and links of deleted cells are dropped
when no cursor rests on a deleted cell. It only removes state no operation can read again.

Each write is `Home(t, s)` (stay, or take a fresh store if `cow`), the change, and `Commit`. The
memory limit may refuse any new cell: `Separate` is the write that got no further than `doCopy`,
`AppendRefused` the append that moved `inc` first. SetInt and SetString are `Overwrite` and `Insert`
over integer and string keys.

Left out: `Empty`, `ForceSetString`, `RecalcNextIntKey`; cells that hold PHP references
(CurrentMakeRef); a foreach by value, which is Dup followed by iteration; sorting.

### Generator

Every Go function of `generator.go` that waits on a channel is an action per step between two waits,
and calls in progress are a stack per goroutine: `next()` of an outer generator is a frame `deleg` with
the frames of the inner call above it. The order inside functions is kept where another goroutine can
come between: `FollowDelegate` sends on delegateDone, `WaitAfterDelegateDone` writes the status
afterwards. PHP code is arbitrary within `Sees` (which generators it holds), `Delegates` (which it may
yield from) and `Fuel` (calls and yields of a body): at each point it may call any method, yield,
catch a pending error, return or throw. Values and keys are left out, no guard reads them. `aborted` is not kept
apart from `genErr`. `generatorYieldFromIterator` and `generatorYieldFromArray` are yields.

### Fiber

The same hand-over with two channels. A generator is a body that its caller resumes, without delegation,
throw or force close, which `Generator` covers. Errors end a body like returns do and are left out.
Constructors, getReturn and the status queries only read.

### OutputBuffer

A handler is PHP code called in the middle of flushData, Clean or CloseWithFlags, so a call of a buffer is
a frame that goes through invokeCallback step by step: `php` (in the handler), `error`, `notice` and
`noticed` (output redirected, see below), `result` (conversion of what the handler returned), `pass`
(writeAll to the parent, which may fill a chunk there and call the parent's handler in turn), and `end`. What
PHP code does in a step is one action per deed, and the frame keeps what the Go code keeps on its stack: the
data already taken out of the buffer, the errors to return, the START bit, savedOut. The operations of a call
that are over in one Go step (taking the data, setting `started`) are in `Opened`; what happens when it returns
(dropping data, ClearCaller, popping the stack even on error) is in `Left` and `Popped`.

*The redirect.* `top` and `out` are two variables because invokeCallback sets Global.out alone: when a
handler has printed something and an ob_* function is the caller (`HandlerReturns`), `out` is the
parent until the report is over (`NoticeEnds`). In between either the engine writes the notice there
(`NoticeWritten`, with the auto flush and the memory charge of the parent) or the user's error handler
runs: it echoes, warns, calls ob_* functions, fails, or leaves the report to the engine
(`ErrorDeclined`). All of this is before the data of the buffer is passed on. The error of the error
handler is returned with the result and not instead of it (`dep`).

*The result.* A result that is an object is converted by its __toString, which runs with `out` back in
place and may print (`AsideEchoes`). A conversion that fails leaves the handler where it is
(`ResultFails`); a handler that fails is disabled (`HandlerFails`).

*Errors that reach the request.* `Raise` is what RunFile and Close do with them: an uncaught exception or an exit
of the script leaves the buffers alone, a fatal error empties them (CleanBuffers). An exception of a handler that Close has
called goes to handleUncaughtException (phase `handling`): the exception handler echoes, calls ob_*
functions, exits or dies, and if there is none the message of the exception is written to Global.out, the
parent buffer (`Uncaught`). Other errors end Close.

Bytes are abstract: byte n is what PHP code has echoed as the n-th thing, -n if an error handler or a
__toString did so in the middle of a flush; what handlers make up and what the engine
prints of notices, warnings and uncaught exceptions is 0; the texts of messages are left out. Bytes on their way are in pieces: the sink,
what each call of a buffer still has to pass on, and the data of the buffers. ScriptBytesInOrder orders the
pieces by their distance from the server interface, what a call passes on before what has come into its
buffer since. It says that nothing that PHP code prints, an error handler in the middle of a flush included, overtakes
a byte of the script that was printed before. A byte that an error handler or a __toString has printed may be
overtaken, because data that was taken out before is still on its way above it, and the notice may overtake:
that is what the redirect is for. What the error handler prints overtakes too, which is more than the comment on the
redirect says ("so the deprecation message bypasses this buffer", `buffer.go:123-124`): with

    set_error_handler(function() { echo "B"; return true; });
    ob_start(function($s) { echo "x"; return $s; }); echo "A"; ob_end_flush();

the code delivers B before A. The model takes these steps, with B as byte -2 and A as byte 1, and ScriptBytesInOrder
allows them: its order is that of the script's bytes against everything, not that of B against older bytes. `MemLimit` is charged by every
buffered byte and never given back, as in the code. Deeds of one piece of PHP code in a call are bounded by
`MaxDeeds`, nesting by `MaxCalls` (4,096 calls in the code).

A clean gives its handler a copy and drops the data only when it returns, so whoever flushes in the middle of it
sends what is to be dropped, and it can pass older bytes that a handler of the parent still has in its
hands. `MayFlushInClean` says whether PHP code does. The run leaves it out because ScriptBytesInOrder is false with it (two
buffers with handlers and a chunk, four bytes and three nested calls show it); no other property and none of
the theorems depends on it.

PHP code that closes or discards buffers in the middle of a call is in the model (`HandlerMay`, `AsideMay`) and not in the runs: the code
checks the top of the stack before the handler runs and assigns it afterwards, so an outer close puts a
closed buffer back, and StackIsLive fails. The same holds of an error handler or a __toString that
calls ob_start, which the model leaves out. Both are listed as hazards.

### LazyObject

An access of a property is a frame that walks as ObjectGet, ObjectSet and HasProp do: at its object
(`start`), after the initializer (`inited`), along the chain of instances (`chain`, one instance
per step, as ResolveProxy does), behind a second initializer (`resolved`). Initializers and the
destructor that a reset calls are frames in which PHP code does anything: new objects, resets, skips,
marks, further accesses. An initializer that fails takes the access that waits for it with it; the
code that made the access may catch the error. A ghost that fails is put back to what the frame
saved (`PutBack`). A destructor may throw (`DestructorFails`), which nobody looks at; `DestructorEnds` makes
the object lazy all the same, whatever the destructor has made of it. In this the code differs from
`test/php-8.5.5/lazy_objects/reset_as_lazy_destructor_exception.phpt:32`, which expects the exception and "Object was
not made lazy": the error is dropped (`_ = obj.CallImplicitDestructor(ctx)`, `ext/reflection/lazy.go:368` and `427`), and the model
follows the code. A factory may return any object that is
neither the proxy itself nor lazy (`Returnable`), an initialized proxy included.

The number of an initializer tells apart the initializers an object has had; `done` collects the ones
that returned with success. Properties have no type. Left out: the compatibility check of classes,
virtual and dynamic properties and magic methods, unset, clone, foreach over a lazy object (its first
step is `Initialize`), the serialize option, classes without properties. An object has one identity: the
wrappers that `ZObject.new` makes for the methods of a parent class copy the lazy state by value, and
what a wrapper made before an initialization sees of it is not modelled (a hazard).

`MayResetOwn` says that scripts reset an object while its initializer runs, which the code lets through
because the state is no longer lazy, against the repository's own
`reset_as_lazy_while_init_exception.phpt:52` ("Can not reset an object while it is being initialized"). The
new initializer is then lost when the old one returns, so the run `lazy` and the proofs assume FALSE.
Chains of proxies need not end, under either value: two proxies can be the instance of each other
(`lazy_cycle`).

## 3. What is checked

| Run | Instance | Shows | Size |
|---|---|---|---|
| `hash_order` | 2 arrays, 2 cells, keys 0..2 and a string, pointer moves left out | TypeOK, SharedStoreIsCow, IndexCoherent, WriteIsolation, ImplementsOrderedMap | 171,747 states |
| `hash_foreach` | 1 array, 3 cells, 1 loop by reference, explicit keys left out | ChainWellFormed, IteratorsStayConnected | 267,993 |
| `merge_lists` | 3 arrays, 3 stores, 2 cells, 2 values, a string key that a second argument has only if the first one has it | IndexCoherent, ArgumentsUntouched, MergesInOrder | 197,208 |
| `generator` | a delegator, a shared and an inline generator, 2 calls per body | TypeOK, SoloRunner, OneCallPerGenerator, StatusIsTrue, DelegationEndsWithInner, ForceClosedNeverYields, CallsReturn | 177,866 |
| `fiber` | 2 fibers, a generator, 3 calls per body | TypeOK, SoloRunner, StatusIsTrue, SendsAreReceived, CallsReturn | 6,102 |
| `output` | 2 buffers, with a handler and a chunk of 2 or plain and not removable; 2 bytes, 3 bytes of memory; handlers that print, warn, flush, call ob_start; error handlers and __toString that echo | TypeOK, StackIsLive, RedirectionIsUndone, StartComesFirst, ScriptBytesInOrder, LostOnlyOnPurpose, CloseTerminates | 1.0 million |
| `lazy` | 3 objects, 2 properties, 2 initializers | TypeOK, InitializerIsOwed, OneInitializerAtATime, LazyGhostShowsOnlySkipped, RealizedGhostIsComplete | 1.1 million |

Five more runs show where the code departs from what its comments or tests say; each checks one
property and TLC's trace is the evidence:

| Run | Property | The program does |
|---|---|---|
| `merge_one` | ArgumentsUntouched | `array_merge($a)` renumbers the integer keys of `$a` itself (`ext/standard/array.go:161`) |
| `next_key` | OnlyGreaterKeysAdvance | a copy forgets `incInit`: a smaller explicit key moves the next free key back (`hashtable.go:86`) |
| `generator_reentry` | NoResumeInsideResume | a delegate's body resumes its delegator while the delegator is being resumed (`generator.go:812`) |
| `fiber_in_generator` | FiberIsFound | a generator driven by a fiber has no current fiber (`generator.go:417`) |
| `lazy_cycle` | ProxyChainEnds | a plain object that is the instance of a proxy is reset as a proxy, whose factory returns the first one: ResolveProxy loops (`lazy.go:363`) |

Three more disagreements of this kind are known from reading and have no run: the string key that
array_merge does not index (`hashtable.go:701`, see ArrayMergeProofs), the dropped exception of the destructor in a
reset, and the reset of an object under initialization (both under LazyObject above).

### Bounds

*Stores and cells.* Sharing hazards need a table that writes and one that watches; any number of
them is covered by the proofs. Two cells tell an order; list surgery needs a first, a middle and a last cell, so `hash_foreach` has three cells
and one array. `MaxStores` bounds stores in use at once: a write that needs a third store
while two are held is not explored in that state, and is explored in the states where one is free.
`MaxSlots` bounds the cells made in one store over its life, until a copy or the collector gives
a new one.

*Keys.* `MaxInt` is PHP_INT_MAX, one above the last slot, so that appends run into it. Overflow of
`k + 1` in the type of Go is thus within reach. One string key shows that integer keys are counted anew
around the strings, which keep their places.

*Bodies.* `Fuel` bounds calls and yields of generator and fiber bodies, not of the script. Two per body let
the shared generator be driven twice, once through its delegator and once directly, and let a finally
block act; the numbered delegations (`epoch`) are bounded by it. The script is unbounded.

*Buffers.* Two buffers are a child and a parent, each of which may have a handler; a chunk of two bytes
is filled by the second byte wherever it comes from; three bytes of memory let both bytes be buffered
once, and one of them twice, before the limit refuses. Two bytes are one that is in a call and one
that is printed meanwhile or behind it. `MaxBytes`
counts what is echoed, made up or reported alike. Two nested calls are a chunk that fills while a handler's result is on
its way, or a handler that flushes. What more of them do, and handlers that clean, is covered by
the proofs, for every property of the run but the order of bytes and the end of Close.

*Lazy objects.* Three objects give a proxy of a proxy of a plain object, or two initializers that touch
each other and a third object; two initializers are what a nested or a repeated initialization
needs. With two properties skipping one is different from skipping all. Nesting is unbounded: it
ends by itself because initializers are finite in number and the script between two accesses starts none.

*Symmetry* is declared for tables and values in runs of safety properties only. All configurations
that bound cells leave deadlock checking on: the script can always act.

### Fairness

`FairSpec` assumes weak fairness of each goroutine's channel steps and of each body's PHP code. The
Go scheduler runs every goroutine that can proceed, and a goroutine that waits at one end of a channel
proceeds once the other end is there and nobody else can take its place. Bodies are assumed finite:
fuel runs out and the body then ends. The script itself is not assumed to do anything, so CallsReturn
speaks only of calls already made. Without finite bodies no call on a generator need return,
in PHP either.

`OutputBuffer` assumes that the engine goes on (Pass, Finish, CloseNext, CloseEnds, NoticeWritten: Go code between two
calls of PHP code), that handlers, error handlers and __toString come to an end, by a return or a failure (weak
fairness: what they do besides is bounded by MaxDeeds), and that the exception handler does. The last is strong fairness because
the exception handler may call buffers, and is not there to end while they are busy. The script may stop
wherever it likes; CloseTerminates speaks of Close only. It has a run of its own because TLC's liveness check needs a
smaller instance.

## 4. What is proved

`HashTableProofs`, for every number of tables, stores, cells, keys and values that satisfies
BoundsAssumption and KeysAssumption:

* `TypeCorrect`: Spec => []TypeOK. Pointers, keys and `inc` stay in range, PHP_INT_MAX included.
* `SharingIsCow`: Spec => []SharedStoreIsCow.
* `Isolation`: Spec => WriteIsolation.

The inductive invariant is TypeOK /\ SharedStoreIsCow. Each write is cut in three: the helpers have
types; `Home` gives a store in which no other live table lives, because a table without `cow` shares
with nobody and a fresh store is nobody's (`HomeIsPrivate`); a `Commit` to such a store keeps the
invariant and leaves every other table what it was (`CommitStep`). `OthersKept(t)`, that only t may
hold something else after the step, is established action by action and gives isolation. The collector
is harmless because it empties only stores that no table owns and clears only dead cells
(`CollectedKeeps`).

The second part of the module, on lists, under the same assumptions:

* `ListsWellFormed`: Spec => []ChainWellFormed.
* `IndexMatchesList`: Spec => []IndexCoherent.
* `CursorsStayConnected`: Spec => []IteratorsStayConnected.

The three properties speak of the walk along a list, and a step that changes a link says nothing about a
walk. The inductive invariant `Connected` speaks of live cells, link by link: neighbours agree about
each other, only the ends have no neighbour (`LinksAgree`); a rank grows along `next`, so that no walk comes
back (`Ranked`); index maps name the live cells (`IndexedOn`), which `count` counts. `WalkIsLive`
shows once and for all that the walk then meets exactly the live cells, by induction over its length and
a count of the cells it has met. For cursors on deleted cells it is enough that no link leads to a cell
that is not allocated (`Closed`) and that deleted cells keep theirs: `SettledLive` shows that Valid
comes to a live cell or to the end. Each operation has a lemma of its own that gives the new rank: the
old one for an unlinked cell, one more than all others for a new last cell, all others moved up
for a new first one (`InFront`). `RunningOnLive` says that loops run over tables that exist.

`HashTableMapProofs`, under the same assumptions:

* `ArraysKeepOrder`: Spec => ImplementsOrderedMap.

An array stands for the sequence of keys and values that a walk along its list meets (`Contents`), and
OrderedMap says what each operation may make of such sequences. The invariant is that of the list proofs,
`Inv /\ Connected`. A list is first turned into a function q from 1..n to its cells, each linked to
the next one, which exists (`ListExists`), is unique (`SameList`) and gives the elements of the walk (`ElementsAre`). Each
piece of a write then has a lemma that gives the new function from the old one: a cell behind the last
(`AppendList`), in front of the first (`PushList`), taken out (`UnlinkList`), a value replaced
(`OverwriteList`), integer keys counted again (`RenumberList`); a copy leaves it as it is (`PrivateList`). On
the side of OrderedMap, `AppendIs`, `PrependIs` and `WithoutIs` say the same of sequences. A commit changes
what its own array holds to what the new list holds (`CommitContents`), and nothing that another array
holds (`KeptHolds`); `ChangeStep` makes of both a step of OrderedMap. There is one lemma per operation, and steps
that only move pointers, loops or the collector are stutters.

`ArrayMergeProofs`, under the same assumptions, for `SafeMergeSpec`: all operations of `HashTable`, and array_merge of two
arrays of which the second brings no string key that the first does not have (`NoNewStrings`). Without that
condition IndexCoherent is false: for a string key that is not there yet MergeTable counts and links the cell and does
not enter it in the index (`hashtable.go:694-703`), so the merged array lists the key, and lookup does not find it:

* `MergedIsCoherent`: SafeMergeSpec => []IndexCoherent.
* `ArgumentsKept`: 1 \notin Arities => (SafeMergeSpec => ArgumentsUntouched). With one argument the property is false
  (`merge_one`).
* `ListsMergeInOrder`: SafeMergeSpec => MergesInOrder.

MergeTable is a loop over the list of its argument inside one step. `MergeTurns` makes of the recursion in its
definition a sequence of turns, one for each cell of that list. What holds between two turns (`Merging`) is less than
`Connected`: the links are right and string keys are indexed, but an integer key need not be, because the loop
appends under nextInt without a look at the index: after PHP_INT_MAX has been used, nextInt is a key that is there,
or wraps around to one, and two elements then have the same key. The last step, Reset, counts the integer
keys again, and the result satisfies `Connected` (`ResetTable`, `MergeSafelyStep`); the invariant is again
`Inv /\ Connected`. For the order, `Spelled` says of each turn that the values met so far stand in the
list one behind the other; `ResetSpelled` adds the keys. The arguments keep what they hold because the
Dup has been separated before the first turn (`MergeTwoUntouched`).

`Iteration` holds what these proofs need of induction. The library's induction theorems take a predicate
as parameter, which the provers cannot instantiate; here a set takes its place (`NatSetInduction`), and
functions defined by recursion on a number come with their defining equation.

`FiberProofs`, for every number of fibers and generators and any fuel:

* `MutualExclusion`: Spec => []SoloRunner.
* `NoStrandedSend`: Spec => []SendsAreReceived.
* `StatusIsReliable`: Spec => []StatusIsTrue.
* `FiberTypeOK`: Spec => []TypeOK.

None of these is inductive alone. A resume finds its fiber parked because the status is true
(StatusIsTrue); the status stays true because nobody else can resume the fiber in between
(SoloRunner); a body that suspends finds its caller because exactly one goroutine is engaged with it
(SendsAreReceived). What is missing is `CalledIsAway`: a body that a goroutine waits for has been
started and is neither parked nor gone. The conjunction of all five is `Inv`, with one lemma per action.

`GeneratorProofs`, for any number of generators and any program (`Sees`, `Delegates` and `Fuel` are
arbitrary: bodies may hold, drive, close and delegate to each other in circles, which the run
`generator_reentry` shows to break another property):

* `GeneratorTypeOK`: Spec => []TypeOK.
* `OneRunsPHP`: Spec => []SoloRunner.

SoloRunner alone says nothing of a step that hands control over. The invariant says who may move
(`Moving`): a goroutine that runs PHP code or Go code above a wait, one that sends on yieldCh, one that has
left its result on doneCh, one that finds a message on its delegateDone; and that at most one goroutine
moves (`OneMoves`). It needs two facts about the buffered channels (`GenFits`): what is on doneCh is from
a body that has ended, and the delegateDone of a delegation is empty until its body waits for it, as are
those of delegations not yet made. The stack of calls comes in only by its top, by the numbers of the
delegations its frames are about, and by where calls are allowed (`ThreadFits`). Steps that leave
all channels alone follow from `MildStep`, those with a sender and a receiver from `Step`, the two sends on
delegateDone from `SignalStep`. `FuelAssumption` says that the largest fuel exists, which
holds for every finite set of generators; TLC evaluates it.

The second part of the module, on calls, for any number of generators and any program in which no generator that delegates can be
reached from its own body (`NoReentry`, the hypothesis of each theorem):

* `OneCallAtATime`: Spec => []OneCallPerGenerator.
* `StatusHolds`: Spec => []StatusIsTrue.
* `InnerEndsFirst`: Spec => []DelegationEndsWithInner.
* `ClosingIsFinal`: Spec => []ForceClosedNeverYields.

The hypothesis is needed: a generator that delegates is Suspended while the call that drives its
delegate is in progress, and stays so after the end of the delegation until the caller, back from
generatorWaitAfterDelegateDone, writes the status. A body that holds its delegator can call it in that window
(`generator_reentry`). `NoReentry` asks for a rank of generators that falls with every delegation,
does not grow from a body to the generators it holds, and falls to those of them that delegate; the
run's program has one. Bodies may share generators, hold each other when they do not delegate, and drive
a shared delegate directly while another one delegates to it.

The invariant `Orderly` has four parts. The stack of a goroutine holds only calls its body can reach, each directly
above the call that made it (`StacksFit`). The goroutines that run, wait for a body or have a
signal on its way form a chain in which each waits for the next one, along which the rank does not grow
(`InChain`): so a body at the end of the chain cannot reach a generator that one before it waits
for. Each call in progress knows status and goroutine of its generator, step by step, no generator has two of
them, and one that has none is at rest (`HoldsFit`). A delegate has been started, and has ended
when its delegation ends with a value (`DelegatesFit`).

`LazyObjectProofs`, for any sets of objects and properties and any number of initializers, for scripts
that do not reset an object whose initializer is running
(`MayResetOwn = FALSE`, the hypothesis of each theorem):

* `LazyTypeOK`: Spec => []TypeOK.
* `InitializersAreOwed`: Spec => []InitializerIsOwed.
* `InitializersRunAlone`: Spec => []OneInitializerAtATime.
* `LazyGhostsShowOnlySkipped`: Spec => []LazyGhostShowsOnlySkipped.
* `RealizedGhostsAreComplete`: Spec => []RealizedGhostIsComplete.

The invariant relates objects and the stack of calls. Of the numbers of initializers it says that each
is in one place only, an object, the call of an initializer or a destructor that will hand it over
(`NumbersAreUnique`). Of objects, that `initializing` is set only while such a call is on the stack and
that an object that is not lazy keeps an initializer only then (`ObjectsAreSound`). Of calls, what an
initializer knows of its object, which is why it can be put back (`InitCall`), that no two of them are of
one object, no destructor runs above the initializer of its object, and an access below an initializer
waits for the same object (`CallsAreSound`). Steps fall in three kinds, each with a lemma of
its own: steps that change one object (`ObjectStep`), that begin a call (`BeginInv`, `DestroyInv`,
`TouchInv`) and that end one (`PopStep`).

`OutputBufferProofs`, for any number of buffers and bytes, any chunk sizes, capabilities and memory_limit,
and any nesting of calls, for PHP code that does not close or discard buffers in the middle of a call (`HandlersDoNotClose`, the
hypothesis of each theorem, because the code does not keep the stack of buffers otherwise), whether it flushes in the middle
of a clean or not:

* `OutputTypeOK`: Spec => []TypeOK. What is tracked never passes memory_limit.
* `BuffersAreStacked`: Spec => []StackIsLive.
* `OutputIsRestored`: Spec => []RedirectionIsUndone.
* `StartIsGivenFirst`: Spec => []StartComesFirst.
* `NothingElseIsLost`: Spec => LostOnlyOnPurpose.

The invariant `Inv` adds to TypeOK and StackIsLive: a buffer that has a handler has called it exactly if it is `started`, and
every buffer is above its parent (`BuffersFit`). A call that closes its buffer is the outermost one, and
its buffer the innermost (`CallFits`): this is what makes the assignment of the parent to Global.buf at
the end of the call right, and what a handler that closes buffers would break. A buffer has a caller only while a
call of an ob_* function waits for it (`CallersFit`). Redirections nest: `Where(C, n)` is where the
first n calls of the stack C let the output go, the parent of the innermost buffer as soon as one of them redirects it; `out` is what
all calls make of it, and each call that redirects has saved what the calls before it made of it
(`RedirectFits`). Every redirecting call is one of the innermost buffer, because an auto flush has no caller of
its own and may know one only while an ob_* function waits further out. So what is put back is right whatever
order the calls fail in. All steps but two
leave w and shut of the buffers alone (`Alike`, `KeepStep`); ObStart pushes a buffer (`ObStartStep`) and the
return of a close pops one (`FinishClosingStep`). Writes are in one lemma (`PutFacts`), errors that
reach RunFile and Close in another (`RaiseFacts`).

For `NothingElseIsLost` a byte is followed through each step (`NextKeeps`): it stays in some piece (`On`) unless the request
dies or the innermost call may drop it (`Accounted`). This needs `Sound`: calls are of open buffers, a call that returns has nothing left, a clean passes nothing on, and
the buffer of a call that closes it holds nothing that the script has printed since.

Only model-checked, and why:

* CallsReturn, in both modules, and CloseTerminates: liveness under fairness is beyond the prover.
* ScriptBytesInOrder: its run covers two buffers and calls nested twice.
* That no hypothesis above is empty is shown by the runs: the programs of `generator`, `output` and `lazy`
  satisfy NoReentry, HandlersDoNotClose, and MayResetOwn = FALSE; `merge_lists` takes steps of
  MergeSafely with Arities = {2}.

## 5. Plan

What the project leaves open, in the order of its value:

1. `ObjectLifecycle`: reference counts, LIFO free ids, temporaries, destructors with resurrection,
   shutdown functions. Properties: no two live objects with one id, a destructor runs once, what is
   registered runs. Proof: uniqueness of ids.
2. `Coroutine`: the abstract hand-over (one runner, a stack of callers), implemented by `Fiber` and by
   `Generator`; then both in one module, with delegation cycles and suspends inside generators, and the
   end of the script with suspended bodies.
3. Cells with PHP references, iterators orphaned by a separation inside a loop, sorting.
4. `TryFinally`, `IncludeOnce` and autoload, `SlotCache` of the VM, streams with filters, sessions,
   SPL containers under iteration.

### Not modelled

The larger part of the 168,000 lines is not state that interacts: the compiler evaluates a tree of
some two hundred construct types recursively; the extensions for date, reflection, pcre, mbstring, json,
gd, xml, curl, databases and sockets convert values and call Go packages; values, tokenizer, ini files and
printf are sequential functions. Modelling them line by line would repeat the code. The parts
that do keep interacting state and are not modelled yet are the ones of the plan above; PROJECT.json
says for each component what is left out.

## 6. Running it

    tlc -config MCHashTableOrder.cfg MCHashTable
    tlapm HashTableProofs.tla        # and HashTableMapProofs, ArrayMergeProofs, FiberProofs,
                                     # GeneratorProofs, LazyObjectProofs, OutputBufferProofs, Iteration

`PROJECT.json` lists every run with its module, configuration and properties, the lines of the source
each definition models, the mutants that show each property can fail, the findings and the
hazards, those without a property yet included.
