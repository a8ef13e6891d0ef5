------------------------------ MODULE HashTable ------------------------------
(***************************************************************************)
(* The ordered hash table behind every PHP array of goro, ZHashTable       *)
(* (core/phpv/hashtable.go, hashtable-iter.go), with the ZArray operations *)
(* and array functions that drive it.                                      *)
(*                                                                         *)
(* A ZHashTable is a record of pointers.  Tables made by Dup share their   *)
(* list cells and their index maps and carry the flag cow; the first write *)
(* to either one copies the cells and the maps (doCopy).  A "store" here   *)
(* is what Dup shares: one pair of index maps with the cells made for it.  *)
(* A pointer to a cell is a slot number inside a store, 0 for nil; a copy  *)
(* keeps the slot numbers of the cells it copies.  A slot is used once in  *)
(* the life of a store, so a stale pointer never meets a recycled cell     *)
(* (the Go collector gives the same guarantee).                            *)
(*                                                                         *)
(*   Tables     ZHashTable objects a program holds at once                 *)
(*   Iters      iterators of by-reference foreach loops                    *)
(*   MaxStores  bound on stores in use at once                             *)
(*   MaxSlots   bound on the cells made in one store                       *)
(*   MinInt, MaxInt  ZInt; PHP_INT_MAX is MaxInt                           *)
(*   StrKeys    string keys                                                *)
(*   Vals       values that are not PHP references                         *)
(*   None       no value, no table                                         *)
(***************************************************************************)
EXTENDS Integers, FiniteSets

CONSTANTS Tables, Iters, MaxStores, MaxSlots, MinInt, MaxInt, StrKeys, Vals, None

(* Renumbering needs every position of a list to be an integer key.        *)
ASSUME BoundsAssumption ==
    /\ MaxStores \in Nat \ {0}
    /\ MaxSlots \in Nat \ {0}
    /\ MinInt \in Int /\ MaxInt \in Int
    /\ MinInt <= 0 /\ MaxSlots <= MaxInt

(* A key is an integer or a string, never both.                            *)
ASSUME KeysAssumption == StrKeys \cap (MinInt..MaxInt) = {} /\ None \notin Tables \cup Vals

VARIABLES tab,    \* table |-> the fields of its ZHashTable
          heap,   \* store |-> its cells and its index maps
          its     \* iterator |-> table and cursor of a foreach by reference

vars == <<tab, heap, its>>

Stores  == 1..MaxStores
Slots   == 1..MaxSlots
Links   == 0..MaxSlots
IntKeys == MinInt..MaxInt
Keys    == IntKeys \cup StrKeys

(* A cell: hashTableVal.  "free" cells are not allocated, "dead" ones have *)
(* deleted = true.                                                         *)
Cell == [prev : Links, next : Links, k : Keys, v : Vals \cup {None},
         st : {"free", "live", "dead"}]
FreeCell == [prev |-> 0, next |-> 0, k |-> 0, v |-> None, st |-> "free"]

Store == [cells : [Slots -> Cell], idx : [Keys -> Links]]
EmptyStore == [cells |-> [n \in Slots |-> FreeCell], idx |-> [k \in Keys |-> 0]]

(* A cursor of an iterator: a cell of some store, or past the end.         *)
PastEnd == [s |-> 0, n |-> 0]
Cursor == {PastEnd} \cup [s : Stores, n : Slots]
At(s, n) == IF n = 0 THEN PastEnd ELSE [s |-> s, n |-> n]

Table == [live : BOOLEAN, store : 0..MaxStores, first : Links, last : Links,
          inc : IntKeys, incInit : BOOLEAN, count : Int, cow : BOOLEAN, main : Cursor]
NoTable == [live |-> FALSE, store |-> 0, first |-> 0, last |-> 0, inc |-> 0,
            incInit |-> FALSE, count |-> 0, cow |-> FALSE, main |-> PastEnd]
NewTable(s) == [NoTable EXCEPT !.live = TRUE, !.store = s]

(* The iterator of a foreach by reference, and the place of one not running. *)
Iter == [t : Tables, cur : Cursor]
NoIter == [t |-> None, cur |-> PastEnd]

TypeOK ==
    /\ tab \in [Tables -> Table]
    /\ heap \in [Stores -> Store]
    /\ its \in [Iters -> Iter \cup {NoIter}]
    /\ \A t \in Tables : tab[t].live => tab[t].store \in Stores

-----------------------------------------------------------------------------
(* Walking the list of a store.                                            *)

(* The cells met from n along the next pointers, n first, 0 from the end.  *)
Walk(h, n) ==
    LET W[i \in 0..MaxSlots] ==
          IF i = 0 THEN n
          ELSE LET m == W[i - 1] IN IF m = 0 THEN 0 ELSE h.cells[m].next
    IN  W

Chain(h, first) ==
    LET W == Walk(h, first) IN {n \in Slots : \E i \in 0..MaxSlots : W[i] = n}

(* The cells of the list before cell n that hold an integer key: as many   *)
(* as the key ResetIntKeys, Shift and Unshift give to n.                   *)
IntsBefore(h, first, n) ==
    LET W == Walk(h, first)
    IN  {m \in Slots : /\ h.cells[m].k \in IntKeys
                       /\ \E i, j \in 0..MaxSlots : i < j /\ W[i] = m /\ W[j] = n}

(* Valid() moves a cursor over deleted cells: the cell it rests on.        *)
SettledLink(h, n) ==
    LET W == Walk(h, n)
        dead(i) == W[i] # 0 /\ h.cells[W[i]].st = "dead"
        first == {m \in Slots : \E i \in 0..MaxSlots : /\ W[i] = m /\ ~ dead(i)
                                                       /\ \A j \in 0..(i - 1) : dead(j)}
    IN  IF first = {} THEN 0 ELSE CHOOSE m \in first : TRUE

Settled(hp, c) == IF c.n = 0 THEN PastEnd ELSE At(c.s, SettledLink(hp[c.s], c.n))

-----------------------------------------------------------------------------
(* Copy on write.                                                          *)

FreeStore(s) == /\ \A t \in Tables : tab[t].store # s /\ tab[t].main.s # s
                /\ \A i \in Iters : its[i].cur.s # s
NewStore(s) == FreeStore(s) /\ \A q \in Stores : FreeStore(q) => s <= q

(* The cells of h's list with fresh index maps.  The list holds no deleted *)
(* cell (ChainWellFormed), so the test that skips one has no effect.       *)
Copy(h, first) ==
    LET C == Chain(h, first)
        at(k) == {n \in C : h.cells[n].k = k}
    IN  [cells |-> [n \in Slots |-> IF n \in C THEN h.cells[n] ELSE FreeCell],
         idx   |-> [k \in Keys |-> IF at(k) = {} THEN 0 ELSE CHOOSE n \in at(k) : TRUE]]

(* What doCopy does to the fields of the table: the main iterator follows  *)
(* to the copy of its cell if that cell is in the list.                    *)
CopiedTable(t, s) ==
    LET r == tab[t]
        h == heap[r.store]
    IN  [r EXCEPT !.store = s, !.cow = FALSE,
                  !.main = IF @.s = r.store /\ @.n \in Chain(h, r.first)
                           THEN At(s, @.n) ELSE @]

(* Mutant of Home: a write does not look at cow.                           *)
HomeUnseparated(t, s) == s = tab[t].store

(* Every write begins with "if z.cow { z.doCopy() }": the store s that t   *)
(* then writes to, its content and the fields of t.                        *)
Home(t, s) == IF tab[t].cow THEN NewStore(s) ELSE s = tab[t].store

Private(t, s) == IF tab[t].cow THEN CopiedTable(t, s) ELSE tab[t]
PrivateStore(t) == IF tab[t].cow THEN Copy(heap[tab[t].store], tab[t].first)
                   ELSE heap[tab[t].store]

(* The Go collector: a store that nothing points into is gone, and so are  *)
(* the links of deleted cells when no cursor rests on a deleted cell.      *)
Cursors == {tab'[t].main : t \in Tables} \cup {its'[i].cur : i \in Iters}
Swept(h) == [h EXCEPT !.cells = [n \in Slots |->
                IF @[n].st = "dead" THEN [FreeCell EXCEPT !.st = "dead"] ELSE @[n]]]
Collected(hp) ==
    [s \in Stores |->
       LET resting == {c.n : c \in {d \in Cursors : d.s = s}}
       IN  IF resting = {} /\ \A t \in Tables : tab'[t].store # s THEN EmptyStore
           ELSE IF \E n \in resting : hp[s].cells[n].st = "dead" THEN hp[s]
           ELSE Swept(hp[s])]

(* The end of a write: the fields of t and the content of its store.       *)
Commit(t, s, r, h) == /\ tab' = [tab EXCEPT ![t] = r]
                      /\ heap' = Collected([heap EXCEPT ![s] = h])

-----------------------------------------------------------------------------
(* The pieces writes are made of.                                          *)

FreshSlot(h, n) == /\ h.cells[n].st = "free"
                   /\ \A m \in Slots : h.cells[m].st = "free" => n <= m

(* A new last cell, indexed under k.  An iterator that has run off the end *)
(* is moved to it.                                                         *)
AppendCell(h, last, n, k, v) ==
    [cells |-> [m \in Slots |->
                  CASE m = n -> [prev |-> last, next |-> 0, k |-> k, v |-> v, st |-> "live"]
                    [] m = last /\ m # n -> [h.cells[m] EXCEPT !.next = n]
                    [] OTHER -> h.cells[m]],
     idx   |-> [h.idx EXCEPT ![k] = n]]

Appended(r, s, n) ==
    [r EXCEPT !.count = @ + 1,
              !.first = IF r.last = 0 THEN n ELSE @,
              !.last  = n,
              !.main  = IF r.last = 0 \/ @ = PastEnd THEN At(s, n) ELSE @]

(* Mutant of Advanced: no guard at PHP_INT_MAX.                            *)
AdvancedPastMax(r, k) ==
    IF k \in IntKeys /\ (~ r.incInit \/ k >= r.inc)
    THEN [r EXCEPT !.incInit = TRUE, !.inc = k + 1] ELSE r

(* The next free integer key after an explicit key k (SetInt).             *)
Advanced(r, k) ==
    IF k \in IntKeys /\ (~ r.incInit \/ k >= r.inc)
    THEN [r EXCEPT !.incInit = TRUE, !.inc = IF k < MaxInt THEN k + 1 ELSE k]
    ELSE r

(* Mutants of UnlinkCell: the next cell keeps its prev pointer; the cell   *)
(* is not marked deleted; its key stays in the index map.                  *)
UnlinkCellOneWay(h, n) ==
    [cells |-> [m \in Slots |->
                  CASE m = n -> [h.cells[m] EXCEPT !.st = "dead", !.k = 0, !.v = None]
                    [] m = h.cells[n].prev /\ m # n -> [h.cells[m] EXCEPT !.next = h.cells[n].next]
                    [] OTHER -> h.cells[m]],
     idx   |-> [h.idx EXCEPT ![h.cells[n].k] = 0]]

UnlinkCellUnmarked(h, n) ==
    LET p == h.cells[n].prev
        q == h.cells[n].next
    IN  [cells |-> [m \in Slots |->
                      CASE m = p /\ m # n -> [h.cells[m] EXCEPT !.next = q]
                        [] m = q /\ m # n /\ m # p -> [h.cells[m] EXCEPT !.prev = p]
                        [] OTHER -> h.cells[m]],
         idx   |-> [h.idx EXCEPT ![h.cells[n].k] = 0]]

UnlinkCellIndexed(h, n) ==
    LET p == h.cells[n].prev
        q == h.cells[n].next
    IN  [h EXCEPT !.cells = [m \in Slots |->
            CASE m = n -> [h.cells[m] EXCEPT !.st = "dead", !.k = 0, !.v = None]
              [] m = p /\ m # n -> [h.cells[m] EXCEPT !.next = q]
              [] m = q /\ m # n /\ m # p -> [h.cells[m] EXCEPT !.prev = p]
              [] OTHER -> h.cells[m]]]

(* Cell n deleted, unlinked and out of its index map.                      *)
UnlinkCell(h, n) ==
    LET p == h.cells[n].prev
        q == h.cells[n].next
    IN  [cells |-> [m \in Slots |->
                      CASE m = n -> [h.cells[m] EXCEPT !.st = "dead", !.k = 0, !.v = None]
                        [] m = p /\ m # n -> [h.cells[m] EXCEPT !.next = q]
                        [] m = q /\ m # n /\ m # p -> [h.cells[m] EXCEPT !.prev = p]
                        [] OTHER -> h.cells[m]],
         idx   |-> [h.idx EXCEPT ![h.cells[n].k] = 0]]

Unlinked(r, h, n) ==
    [r EXCEPT !.count = @ - 1,
              !.first = IF @ = n THEN h.cells[n].next ELSE @,
              !.last  = IF @ = n THEN h.cells[n].prev ELSE @]

(* Integer keys renumbered from 0 along the list, their index map rebuilt. *)
IntCells(h, first) == {n \in Chain(h, first) : h.cells[n].k \in IntKeys}
NewKey(h, first, n) == Cardinality(IntsBefore(h, first, n))

(* Mutant of Renumber: the cells keep their keys.                          *)
RenumberIndexOnly(h, first) ==
    [h EXCEPT !.idx = [k \in Keys |->
       LET at == {n \in IntCells(h, first) : NewKey(h, first, n) = k}
       IN  IF k \notin IntKeys THEN h.idx[k]
           ELSE IF at = {} THEN 0 ELSE CHOOSE n \in at : TRUE]]

Renumber(h, first) ==
    LET I == IntCells(h, first)
        at(k) == {n \in I : NewKey(h, first, n) = k}
    IN  [cells |-> [n \in Slots |-> IF n \in I
                                    THEN [h.cells[n] EXCEPT !.k = NewKey(h, first, n)]
                                    ELSE h.cells[n]],
         idx   |-> [k \in Keys |->
                      IF k \notin IntKeys THEN h.idx[k]
                      ELSE IF at(k) = {} THEN 0 ELSE CHOOSE n \in at(k) : TRUE]]

Renumbered(r, h) == [r EXCEPT !.inc = Cardinality(IntCells(h, r.first))]

-----------------------------------------------------------------------------
(* Life of a table.                                                        *)

(* NewHashTable: the map literal, or array(), of a program.                *)
New(t) ==
    /\ ~ tab[t].live
    /\ UNCHANGED its
    /\ \E s \in Stores : NewStore(s) /\ Commit(t, s, NewTable(s), EmptyStore)

(* Mutant of Dup: the source is not marked cow.                            *)
DupCopyMarked(t, u) ==
    /\ tab[t].live /\ ~ tab[u].live
    /\ tab' = [tab EXCEPT ![u] = [tab[t] EXCEPT !.cow = TRUE, !.incInit = FALSE]]
    /\ UNCHANGED <<heap, its>>

(* Dup: u shares the store of t, both are marked cow.  incInit is not      *)
(* among the fields Dup copies.                                            *)
Dup(t, u) ==
    /\ tab[t].live /\ ~ tab[u].live
    /\ tab' = [tab EXCEPT ![t].cow = TRUE,
                          ![u] = [tab[t] EXCEPT !.cow = TRUE, !.incInit = FALSE]]
    /\ UNCHANGED <<heap, its>>

(* DeepCopy: u gets cells and maps of its own, t is not marked.            *)
DeepCopy(t, u) ==
    /\ tab[t].live /\ ~ tab[u].live
    /\ UNCHANGED its
    /\ \E s \in Stores :
         /\ NewStore(s)
         /\ Commit(u, s, [tab[t] EXCEPT !.store = s, !.cow = FALSE, !.incInit = FALSE,
                                        !.main = At(s, tab[t].first)],
                   Copy(heap[tab[t].store], tab[t].first))

(* The last variable holding the table goes away.                          *)
Drop(t) ==
    /\ tab[t].live
    /\ \A i \in Iters : its[i].t # t
    /\ tab' = [tab EXCEPT ![t] = NoTable]
    /\ UNCHANGED its
    /\ heap' = Collected(heap)

-----------------------------------------------------------------------------
(* Writes.  MemAlloc, the memory limit of the request, may refuse a cell   *)
(* at any time: what else counts against the limit is not in this module.  *)

(* SetInt and SetString with a key that is there: the value is replaced.   *)
Overwrite(t, k, v) ==
    /\ tab[t].live
    /\ UNCHANGED its
    /\ \E s \in Stores :
         /\ Home(t, s)
         /\ LET h == PrivateStore(t)
            IN  /\ h.idx[k] # 0
                /\ Commit(t, s, Private(t, s), [h EXCEPT !.cells[h.idx[k]].v = v])

(* SetInt and SetString with a new key.                                    *)
Insert(t, k, v) ==
    /\ tab[t].live
    /\ UNCHANGED its
    /\ \E s \in Stores, n \in Slots :
         /\ Home(t, s)
         /\ LET h == PrivateStore(t)
                r == Private(t, s)
            IN  /\ h.idx[k] = 0
                /\ FreshSlot(h, n)
                /\ Commit(t, s, Advanced(Appended(r, s, n), k), AppendCell(h, r.last, n, k, v))

(* SetInt, SetString, Append and UnsetInt, UnsetString that leave the      *)
(* content alone (memory limit hit, no such key), and SeparateCow: the     *)
(* table has been separated nevertheless.                                  *)
Separate(t) ==
    /\ tab[t].live
    /\ UNCHANGED its
    /\ \E s \in Stores : Home(t, s) /\ Commit(t, s, Private(t, s), PrivateStore(t))

(* Append: the next free key, searched upwards from inc, stopping at       *)
(* PHP_INT_MAX.                                                            *)
FreeKeys(r, h) == {k \in r.inc..MaxInt : h.idx[k] = 0}
NextKey(r, h) ==
    LET least == {k \in FreeKeys(r, h) : \A j \in FreeKeys(r, h) : k <= j}
    IN  IF least = {} THEN MaxInt ELSE CHOOSE k \in least : TRUE

Append(t, v) ==
    /\ tab[t].live
    /\ UNCHANGED its
    /\ \E s \in Stores, n \in Slots :
         /\ Home(t, s)
         /\ LET h == PrivateStore(t)
                r == Private(t, s)
                k == NextKey(r, h)
            IN  /\ FreeKeys(r, h) # {}
                /\ FreshSlot(h, n)
                /\ Commit(t, s, [Appended(r, s, n) EXCEPT
                                   !.inc = IF k < MaxInt THEN k + 1 ELSE k],
                          AppendCell(h, r.last, n, k, v))

(* Append refused: no key left (ErrNextElementOccupied) or no memory.  The *)
(* search has moved inc.                                                   *)
AppendRefused(t) ==
    /\ tab[t].live
    /\ UNCHANGED its
    /\ \E s \in Stores :
         /\ Home(t, s)
         /\ LET h == PrivateStore(t)
                r == Private(t, s)
            IN  Commit(t, s, [r EXCEPT !.inc = NextKey(r, h)], h)

(* UnsetInt and UnsetString with a key that is there.                      *)
Unset(t, k) ==
    /\ tab[t].live
    /\ UNCHANGED its
    /\ \E s \in Stores :
         /\ Home(t, s)
         /\ LET h == PrivateStore(t)
            IN  /\ h.idx[k] # 0
                /\ Commit(t, s, Unlinked(Private(t, s), h, h.idx[k]), UnlinkCell(h, h.idx[k]))

(* Clear: the indexed cells are marked deleted.                            *)
Clear(t) ==
    /\ tab[t].live
    /\ UNCHANGED its
    /\ \E s \in Stores :
         /\ Home(t, s)
         /\ LET h == PrivateStore(t)
                indexed == {h.idx[k] : k \in Keys}
            IN  Commit(t, s,
                  [Private(t, s) EXCEPT !.count = 0, !.inc = 0, !.incInit = FALSE,
                                        !.first = 0, !.last = 0, !.main = PastEnd],
                  [cells |-> [n \in Slots |-> IF n \notin indexed THEN h.cells[n]
                                     ELSE [h.cells[n] EXCEPT !.st = "dead", !.k = 0, !.v = None]],
                   idx   |-> [k \in Keys |-> 0]])

(* array_shift: Shift, then the main iterator is reset.                    *)
ArrayShift(t) ==
    /\ tab[t].live /\ tab[t].count # 0
    /\ UNCHANGED its
    /\ \E s \in Stores :
         /\ Home(t, s)
         /\ LET h0 == PrivateStore(t)
                r0 == Private(t, s)
                h1 == UnlinkCell(h0, r0.first)
                r1 == Unlinked(r0, h0, r0.first)
            IN  /\ r0.first # 0
                /\ Commit(t, s, [Renumbered(r1, h1) EXCEPT !.main = At(s, r1.first)],
                          Renumber(h1, r1.first))

(* array_unshift of one value: the new cell goes in front with a           *)
(* placeholder key; the main iterator stays where it is.                   *)
ArrayUnshift(t, v) ==
    /\ tab[t].live
    /\ UNCHANGED its
    /\ \E s \in Stores, n \in Slots :
         /\ Home(t, s)
         /\ LET h0 == PrivateStore(t)
                r0 == Private(t, s)
                h1 == [h0 EXCEPT !.cells = [m \in Slots |->
                        CASE m = n -> [prev |-> 0, next |-> r0.first, k |-> 0, v |-> v,
                                       st |-> "live"]
                          [] m = r0.first /\ m # n -> [h0.cells[m] EXCEPT !.prev = n]
                          [] OTHER -> h0.cells[m]]]
                r1 == [r0 EXCEPT !.count = @ + 1, !.first = n,
                                 !.last = IF r0.first = 0 THEN n ELSE @]
            IN  /\ FreshSlot(h0, n)
                /\ Commit(t, s, Renumbered(r1, h1), Renumber(h1, n))

(* array_pop: the last key met by an iteration is unset; inc steps back if *)
(* the key was the one before it; the main iterator is reset.              *)
Succ(k) == IF k = MaxInt THEN MinInt ELSE k + 1
SteppedBack(r, k) == IF k \in IntKeys /\ Succ(k) = r.inc THEN [r EXCEPT !.inc = k] ELSE r

ArrayPop(t) ==
    /\ tab[t].live /\ tab[t].count # 0
    /\ UNCHANGED its
    /\ \E s \in Stores, n \in Slots :
         /\ Home(t, s)
         /\ LET h == PrivateStore(t)
                r == Private(t, s)
                u == Unlinked(r, h, n)
            IN  /\ \E z \in Chain(h, r.first) :
                     h.cells[z].next = 0 /\ n = h.idx[h.cells[z].k]
                /\ Commit(t, s, [SteppedBack(u, h.cells[n].k) EXCEPT !.main = At(s, u.first)],
                          UnlinkCell(h, n))

-----------------------------------------------------------------------------
(* Iterators.  Current, Key and Valid settle the cursor they read.         *)

NextCursor(c) ==
    IF c = PastEnd THEN PastEnd
    ELSE LET cell == heap[c.s].cells[c.n]
         IN  IF cell.st = "dead" THEN Settled(heap, c)
             ELSE Settled(heap, At(c.s, cell.next))

(* Prev walks back over deleted cells; from past the end it goes to the    *)
(* last cell.                                                              *)
BackOver(h, n) ==
    LET W[i \in 0..MaxSlots] ==
          IF i = 0 THEN n
          ELSE LET m == W[i - 1]
               IN  IF m # 0 /\ h.cells[m].st = "dead" THEN h.cells[m].prev ELSE m
    IN  IF W[MaxSlots] \in Slots THEN W[MaxSlots] ELSE 0

PrevCursor(t) ==
    LET c == tab[t].main
    IN  IF c = PastEnd THEN At(tab[t].store, BackOver(heap[tab[t].store], tab[t].last))
        ELSE LET b == BackOver(heap[c.s], c.n)
             IN  IF b = 0 THEN PastEnd
                 ELSE At(c.s, BackOver(heap[c.s], heap[c.s].cells[b].prev))

(* next(), prev(), reset() and end() on the table of a variable, and the   *)
(* pointer an assignment from it resets when it is past the end.           *)
MoveMain(t, c) == /\ tab[t].live
                  /\ tab' = [tab EXCEPT ![t].main = c]
                  /\ UNCHANGED its
                  /\ heap' = Collected(heap)

MainNext(t)  == MoveMain(t, NextCursor(tab[t].main))
MainPrev(t)  == MoveMain(t, PrevCursor(t))
MainReset(t) == tab[t].count # 0 /\ MoveMain(t, At(tab[t].store, tab[t].first))
MainEnd(t)   == tab[t].count # 0 /\ MoveMain(t, At(tab[t].store, tab[t].last))
ResetIfEnd(t) ==
    MoveMain(t, LET c == Settled(heap, tab[t].main)
                IN  IF c = PastEnd THEN At(tab[t].store, tab[t].first) ELSE c)

(* foreach ($t as &$v): the variable gets a separate copy of its table,    *)
(* made through Dup, and the loop an iterator over that copy.              *)
ForeachStart(t, i) ==
    /\ tab[t].live /\ its[i] = NoIter
    /\ \E s \in Stores :
         /\ NewStore(s)
         /\ its' = [its EXCEPT ![i] = [t |-> t, cur |-> At(s, tab[t].first)]]
         /\ Commit(t, s, [CopiedTable(t, s) EXCEPT !.incInit = FALSE],
                   Copy(heap[tab[t].store], tab[t].first))

(* Valid and Next of one turn of the loop; Valid alone may end it.         *)
ForeachNext(i) ==
    /\ its[i] # NoIter
    /\ its' = [its EXCEPT ![i].cur = NextCursor(@)]
    /\ UNCHANGED tab
    /\ heap' = Collected(heap)

ForeachEnd(i) ==
    /\ its[i] # NoIter
    /\ its' = [its EXCEPT ![i] = NoIter]
    /\ UNCHANGED tab
    /\ heap' = Collected(heap)

-----------------------------------------------------------------------------
Init == /\ tab = [t \in Tables |-> NoTable]
        /\ heap = [s \in Stores |-> EmptyStore]
        /\ its = [i \in Iters |-> NoIter]

(* The steps that write the content of table t.                            *)
Write(t) ==
    \/ Separate(t) \/ AppendRefused(t) \/ Clear(t) \/ ArrayShift(t) \/ ArrayPop(t)
    \/ \E k \in Keys : Unset(t, k)
    \/ \E k \in Keys, v \in Vals : Overwrite(t, k, v) \/ Insert(t, k, v)
    \/ \E v \in Vals : Append(t, v) \/ ArrayUnshift(t, v)

Move(t) == MainNext(t) \/ MainPrev(t) \/ MainReset(t) \/ MainEnd(t) \/ ResetIfEnd(t)

Next ==
    \/ \E t \in Tables : New(t) \/ Drop(t) \/ Write(t) \/ Move(t)
    \/ \E t, u \in Tables : Dup(t, u) \/ DeepCopy(t, u)
    \/ \E t \in Tables, i \in Iters : ForeachStart(t, i)
    \/ \E i \in Iters : ForeachNext(i) \/ ForeachEnd(i)

Spec == Init /\ [][Next]_vars

-----------------------------------------------------------------------------
(* The list of every table can be walked both ways and holds no deleted    *)
(* cell: each unlink of SetX, UnsetX, Shift and doCopy leaves first, last, *)
(* next and prev in agreement.                                             *)
ChainWellFormed ==
    \A t \in Tables : tab[t].live =>
      LET r == tab[t]
          h == heap[r.store]
          C == Chain(h, r.first)
      IN  /\ r.first = 0 <=> r.last = 0
          /\ r.first # 0 => h.cells[r.first].prev = 0
          /\ r.last # 0 => r.last \in C /\ h.cells[r.last].next = 0
          /\ \A n \in C : /\ h.cells[n].st = "live"
                          /\ h.cells[n].next # 0 => h.cells[h.cells[n].next].prev = n

(* The index maps of every table and its list name the same elements, once *)
(* each, and count is their number: lookup, iteration and count() agree.   *)
IndexCoherent ==
    \A t \in Tables : tab[t].live =>
      LET h == heap[tab[t].store]
          C == Chain(h, tab[t].first)
      IN  /\ \A n \in C : h.idx[h.cells[n].k] = n
          /\ \A k \in Keys : h.idx[k] # 0 => h.idx[k] \in C /\ h.cells[h.idx[k]].k = k
          /\ tab[t].count = Cardinality(C)

(* Two tables with the same index maps and cells are both flagged cow, so  *)
(* neither writes before it has copied (Dup, doCopy).                      *)
SharedStoreIsCow ==
    \A t, u \in Tables :
      t # u /\ tab[t].live /\ tab[u].live /\ tab[t].store = tab[u].store
        => tab[t].cow /\ tab[u].cow

(* What a program can read from table t: its undeleted cells and its index.*)
LiveCells(h) == {<<n, h.cells[n]>> : n \in {m \in Slots : h.cells[m].st = "live"}}
View(t) == <<tab[t].first, tab[t].last, tab[t].count, tab[t].inc,
             heap[tab[t].store].idx, LiveCells(heap[tab[t].store])>>

(* "setting z.cow prevents *all* writes on this array" (Dup): whatever the  *)
(* tables share, no step changes what two of them hold.                    *)
WriteIsolation ==
    [][\A t, u \in Tables :
         t # u /\ tab[t].live /\ tab[u].live /\ tab'[t].live /\ tab'[u].live
           => View(t)' = View(t) \/ View(u)' = View(u)]_vars

(* An iterator inside the store of its table, even on a deleted cell,      *)
(* settles on an element of the list or past the end: Valid never delivers *)
(* an element that has been unset.                                         *)
InStep(t, c) ==
    c.s = tab[t].store => Settled(heap, c) = PastEnd
                          \/ Settled(heap, c).n \in Chain(heap[c.s], tab[t].first)

IteratorsStayConnected ==
    /\ \A t \in Tables : tab[t].live => InStep(t, tab[t].main)
    /\ \A i \in Iters : its[i] # NoIter => InStep(its[i].t, its[i].cur)

(* The elements of a table in list order.                                  *)
Elements(h, first) ==
    LET W == Walk(h, first)
    IN  [i \in {j \in 1..MaxSlots : W[j - 1] # 0} |->
           [k |-> h.cells[W[i - 1]].k, v |-> h.cells[W[i - 1]].v]]

Contents(t) ==
    IF tab[t].live THEN [live |-> TRUE, elems |-> Elements(heap[tab[t].store], tab[t].first)]
    ELSE [live |-> FALSE, elems |-> <<>>]

(* HashTable implements OrderedMap: copy on write, unlinking, renumbering  *)
(* and the search for a free key are invisible in what each array holds.   *)
Promise == INSTANCE OrderedMap WITH map <- [t \in Tables |-> Contents(t)]
ImplementsOrderedMap == Promise!Spec
=============================================================================
